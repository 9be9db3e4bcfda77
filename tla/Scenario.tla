----------------------------- MODULE Scenario -----------------------------
(***************************************************************************)
(* Runner<H, Scenario>::run_steps: an ordered list of concrete ops, each   *)
(* with the verdict it expects and whether the invariants are swept after  *)
(* it.  run_case and run_scenario are the lists that expect "any" verdict, *)
(* sweep every step and run with every = 1.                                *)
(*                                                                         *)
(* log is a history variable that only the properties read.                *)
(***************************************************************************)
EXTENDS Harness

CONSTANTS
    Start,      \* the worlds a run may start from
    Scripts     \* the scenarios: [steps, every]

VARIABLES script, world, count, history, coverage, pc, report, log

vars == <<script, world, count, history, coverage, pc, report, log>>

ScenarioStep ==
    [op : Operation, expect : {"accepted", "rejected", "any"}, check : BOOLEAN]

(* The FailureKind::Bug a mismatch raises; the step its message names is    *)
(* the one the report gives.                                                *)
Mismatch == [kind |-> "Bug", name |-> "mismatch"]

Init ==
    /\ script \in Scripts
    /\ world \in Start
    /\ count = 0 /\ history = <<>> /\ coverage = SeedCoverage
    /\ pc = "next" /\ report = NoFailure
    /\ log = <<>>

Step == script.steps[count]

Fail(kind) ==
    /\ report' = FailReport(count, Step.op, history, kind)
    /\ pc' = "done"

Begin ==
    /\ pc = "next" /\ count < Len(script.steps)
    /\ count' = count + 1
    /\ history' = Append(history, script.steps[count + 1].op)
    /\ pc' = "apply"
    /\ UNCHANGED <<script, world, coverage, report, log>>

Finish ==
    /\ pc = "next" /\ count = Len(script.steps)
    /\ report' = PassReport(count)
    /\ pc' = "done"
    /\ UNCHANGED <<script, world, count, history, coverage, log>>

(* Seeded defect: an expected rejection is not checked. *)
MeetsLoosely(expect, verdict) == expect = "accepted" => verdict = "accepted"

Meets(expect, verdict) == expect \in {"any", verdict}

Sweeps == Step.check /\ Due(script.every, count)

(* apply_op, then the verdict against the expectation, then the sweep if    *)
(* both the step and the cadence ask for it.                                *)
ApplyOp ==
    /\ pc = "apply"
    /\ \E r \in Apply(world, Step.op) :
         /\ world' = r.world
         /\ log' = Append(log, [answer |-> r.answer[1], after |-> r.world])
         /\ \/ /\ r.answer[1] \in Verdicts /\ Meets(Step.expect, r.answer[1])
               /\ pc' = IF Sweeps THEN "sweep" ELSE "next"
               /\ UNCHANGED report
            \/ /\ r.answer[1] \in Verdicts /\ ~Meets(Step.expect, r.answer[1])
               /\ Fail(Mismatch)
            \/ r.answer[1] = "bug" /\ Fail(Bug(r.answer[2]))
            \/ r.answer[1] = "infra" /\ Fail(Infra("apply"))
    /\ UNCHANGED <<script, count, history, coverage>>

Sweep ==
    /\ pc = "sweep"
    /\ coverage' = SweepCoverage(coverage, world)
    /\ IF Clean(world)
         THEN pc' = "next" /\ UNCHANGED report
         ELSE Fail(SweepFailure(world))
    /\ UNCHANGED <<script, world, count, history, log>>

Done == pc = "done" /\ UNCHANGED vars

Next == Begin \/ Finish \/ ApplyOp \/ Sweep \/ Done

-----------------------------------------------------------------------------
Passed == pc = "done" /\ report.passed
Failed == pc = "done" /\ ~report.passed

Expected(i) ==
    /\ log[i].answer \in Verdicts
    /\ script.steps[i].expect \in {"any", log[i].answer}

Asked(i) == script.steps[i].check /\ Due(script.every, i)

(* A scenario passes only if every listed op was applied, every verdict was *)
(* the expected one and every sweep that was asked for came out clean.      *)
PassMeetsEveryExpectation ==
    Passed =>
      /\ Len(log) = Len(script.steps)
      /\ \A i \in 1 .. Len(log) :
           /\ Expected(i)
           /\ Asked(i) => Clean(log[i].after)

(* It fails at the first step that broke something, and a wrong verdict     *)
(* outranks a violation it left behind.                                     *)
FailureIsTheFirstBroken ==
    Failed =>
      LET n == report.steps
      IN  /\ Len(log) = n /\ report.history = history
          /\ \A i \in 1 .. (n - 1) : Expected(i) /\ (Asked(i) => Clean(log[i].after))
          /\ report.kind.kind = "Invariant" <=>
               Expected(n) /\ Asked(n) /\ ~Clean(log[n].after)
          /\ report.kind = Mismatch <=>
               log[n].answer \in Verdicts /\ ~Expected(n)
=============================================================================
