----------------------------- MODULE Endurance -----------------------------
(***************************************************************************)
(* Runner<H, Endurance>::run_with: random ops until a deadline, an op      *)
(* budget or a stop signal, blocks advanced between ops, infrastructure    *)
(* failures tolerated up to a streak, and a final invariant sweep.         *)
(*                                                                         *)
(* Three actors interleave: the run loop, the wall clock (Expire) and the  *)
(* CLI's ctrl-c task, which sets the shared stop flag (Signal).  log is a  *)
(* history variable that only the properties read.                         *)
(***************************************************************************)
EXTENDS Harness

CONSTANTS
    Start,          \* the worlds a run may start from
    Configs,        \* EnduranceConfig with the mix: [mix, every, advance,
                    \*   maxOps, maxInfra, stoppable]; maxOps = Unbounded is None
    Unbounded,
    StepBound,      \* model bound on the ops of a run
    Advance(_)      \* what Harness::advance may do: [ok, world]

VARIABLES
    config,
    stop,           \* the AtomicBool the ctrl-c task sets
    expired,        \* Instant::now() >= deadline
    remaining,      \* what OpSource may still draw
    world, op, steps, history, coverage, pc, report,
    streak,         \* infra_streak
    log

vars == <<config, stop, expired, remaining, world, op, steps, history, coverage,
          pc, report, streak, log>>

Config ==
    [mix : Mix, every : Nat, advance : BOOLEAN, maxOps : Nat \cup {Unbounded},
     maxInfra : Nat, stoppable : BOOLEAN]

Init ==
    /\ config \in Configs
    /\ stop = FALSE /\ expired = FALSE
    /\ remaining = IF config.maxOps = Unbounded THEN StepBound ELSE config.maxOps
    /\ world \in Start
    /\ op = NoOp /\ steps = 0 /\ history = <<>> /\ coverage = SeedCoverage
    /\ pc = "resolve" /\ report = NoFailure
    /\ streak = 0
    /\ log = <<>>

Fail(o, kind) ==
    /\ report' = FailReport(steps, o, history, kind)
    /\ pc' = "done"

ResolveMix ==
    /\ pc = "resolve"
    /\ IF StaticallyEmpty(config.mix)
         THEN Fail(NoOp, Infra("mix"))
         ELSE pc' = "top" /\ UNCHANGED report
    /\ UNCHANGED <<config, stop, expired, remaining, world, op, steps, history,
                   coverage, streak, log>>
-----------------------------------------------------------------------------
(* The environment. *)
Signal ==
    /\ config.stoppable /\ ~stop /\ pc # "done"
    /\ stop' = TRUE
    /\ UNCHANGED <<config, expired, remaining, world, op, steps, history,
                   coverage, pc, report, streak, log>>

Expire ==
    /\ ~expired /\ pc # "done"
    /\ expired' = TRUE
    /\ UNCHANGED <<config, stop, remaining, world, op, steps, history, coverage,
                   pc, report, streak, log>>
-----------------------------------------------------------------------------
(* Seeded defect: the flag is not consulted. *)
EndingByDeadline == expired

Ending == stop \/ expired

(* The top of the loop: the flag, then the deadline, then the op budget. *)
Break ==
    /\ pc = "top"
    /\ Ending \/ (remaining = 0 /\ config.maxOps # Unbounded)
    /\ pc' = "final"
    /\ UNCHANGED <<config, stop, expired, remaining, world, op, steps, history,
                   coverage, report, streak, log>>

(* Seeded defect: the flag is read only after the draw. *)
DrawUnstopped ==
    /\ pc = "top" /\ ~expired /\ remaining > 0
    /\ \E k \in Drawable(config.mix, world) : \E o \in Generate(world, k) :
         op' = o /\ history' = Append(history, o)
    /\ remaining' = remaining - 1
    /\ steps' = steps + 1
    /\ pc' = "apply"
    /\ UNCHANGED <<config, stop, expired, world, coverage, report, streak, log>>

(* OpSource::Generated, with the op budget. *)
Draw ==
    /\ pc = "top" /\ ~Ending /\ remaining > 0
    /\ \E k \in Drawable(config.mix, world) : \E o \in Generate(world, k) :
         op' = o /\ history' = Append(history, o)
    /\ remaining' = remaining - 1
    /\ steps' = steps + 1
    /\ pc' = "apply"
    /\ UNCHANGED <<config, stop, expired, world, coverage, report, streak, log>>

Starve ==
    /\ pc = "top" /\ ~Ending /\ remaining > 0
    /\ Drawable(config.mix, world) = {}
    /\ Fail(LastOp(history), Infra("draw"))
    /\ UNCHANGED <<config, stop, expired, remaining, world, op, steps, history,
                   coverage, streak, log>>

Tolerates == streak < config.maxInfra

(* step: apply_op.  A tolerated infra failure skips the sweep but keeps the *)
(* pacing; any other error ends the run without the final sweep.            *)
ApplyOp ==
    /\ pc = "apply"
    /\ \E r \in Apply(world, op) :
         /\ world' = r.world
         /\ log' = Append(log, [answer |-> r.answer[1], after |-> r.world])
         /\ \/ /\ r.answer[1] \in Verdicts
               /\ IF Due(config.every, steps)
                    THEN pc' = "sweep" /\ UNCHANGED streak
                    ELSE pc' = "advance" /\ streak' = 0
               /\ UNCHANGED report
            \/ /\ r.answer[1] = "infra" /\ Tolerates
               /\ streak' = streak + 1
               /\ pc' = "advance"
               /\ UNCHANGED report
            \/ /\ r.answer[1] = "infra" /\ ~Tolerates
               /\ Fail(op, Infra("apply"))
               /\ UNCHANGED streak
            \/ /\ r.answer[1] = "bug"
               /\ Fail(op, Bug(r.answer[2]))
               /\ UNCHANGED streak
    /\ UNCHANGED <<config, stop, expired, remaining, op, steps, history, coverage>>

(* step: sweep. *)
Sweep ==
    /\ pc = "sweep"
    /\ coverage' = SweepCoverage(coverage, world)
    /\ IF Clean(world)
         THEN pc' = "advance" /\ streak' = 0 /\ UNCHANGED report
         ELSE Fail(op, SweepFailure(world)) /\ UNCHANGED streak
    /\ UNCHANGED <<config, stop, expired, remaining, world, op, steps, history, log>>

(* Block progression, then the inter-op sleep.  An advance error ends the   *)
(* run whatever the streak.                                                 *)
AdvanceBlocks ==
    /\ pc = "advance"
    /\ IF config.advance
         THEN \E r \in Advance(world) :
                /\ world' = r.world
                /\ \/ r.ok /\ pc' = "top" /\ UNCHANGED report
                   \/ ~r.ok /\ Fail(LastOp(history), Infra("advance"))
         ELSE pc' = "top" /\ UNCHANGED <<world, report>>
    /\ UNCHANGED <<config, stop, expired, remaining, op, steps, history, coverage,
                   streak, log>>

(* Seeded defect: an interrupted run passes without its final sweep. *)
FinalSweepUnlessStopped ==
    /\ pc = "final"
    /\ coverage' = SweepCoverage(coverage, world)
    /\ IF Clean(world) \/ stop
         THEN report' = PassReport(steps) /\ pc' = "done"
         ELSE Fail(LastOp(history), SweepFailure(world))
    /\ UNCHANGED <<config, stop, expired, remaining, world, op, steps, history,
                   streak, log>>

(* What the loop broke out for: a last sweep, whatever the cadence. *)
FinalSweep ==
    /\ pc = "final"
    /\ coverage' = SweepCoverage(coverage, world)
    /\ IF Clean(world)
         THEN report' = PassReport(steps) /\ pc' = "done"
         ELSE Fail(LastOp(history), SweepFailure(world))
    /\ UNCHANGED <<config, stop, expired, remaining, world, op, steps, history,
                   streak, log>>

Done == pc = "done" /\ UNCHANGED vars

Loop == ResolveMix \/ Break \/ Draw \/ Starve \/ ApplyOp \/ Sweep \/ AdvanceBlocks \/ FinalSweep

Next == Loop \/ Signal \/ Expire \/ Done

-----------------------------------------------------------------------------
Passed == pc = "done" /\ report.passed
Failed == pc = "done" /\ ~report.passed

(* Whatever ended the loop (deadline, budget or signal) and however rarely  *)
(* invariants were checked on the way, a run passes only in a world in      *)
(* which every invariant holds or is skipped.                               *)
PassIsSweptClean ==
    Passed => /\ Clean(world)
              /\ stop \/ expired \/ steps = config.maxOps

(* The answers since the last op that got a verdict. *)
Trailing == {i \in 1 .. Len(log) : \A j \in i .. Len(log) : log[j].answer = "infra"}

(* A run survives as many infra failures in a row as configured and not one *)
(* more, and it gives up on an apply error only when the streak is spent.   *)
ToleranceIsExact ==
    /\ Cardinality(Trailing) <= config.maxInfra + 1
    /\ Cardinality(Trailing) = config.maxInfra + 1 <=> Failed /\ report.kind = Infra("apply")

(* No mid-run check is lost except to an infra failure: the loop goes on    *)
(* past a due step that got a verdict only if its sweep came out clean.     *)
DueStepsWereClean ==
    \A i \in 1 .. Len(log) :
      /\ Due(config.every, i) /\ log[i].answer \in Verdicts
      /\ i < Len(log) \/ pc \in {"advance", "top", "final"} \/ Passed
      => Clean(log[i].after)

(* The op in flight when the flag is set is neither interrupted nor         *)
(* forgotten: whatever was begun has been applied when the loop is left.    *)
NothingIsSevered ==
    pc \in {"final", "done"} => Len(log) = steps /\ Len(history) = steps
=============================================================================
