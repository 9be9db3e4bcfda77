------------------------------ MODULE FixedRun ------------------------------
(***************************************************************************)
(* run_fixed as a function: what drive() reports for a fixed list of ops   *)
(* over a backend that answers deterministically, which is what replays    *)
(* and shrink candidates rely on.                                          *)
(***************************************************************************)
EXTENDS Harness

(* A world and op that apply answers in one way only. *)
Deterministic == \A w \in World, o \in Operation : \E r \in Apply(w, o) : Apply(w, o) = {r}

Answered(w, o) == CHOOSE r \in Apply(w, o) : TRUE

(* Seeded defect: the cadence is not consulted. *)
StepFailureAlwaysSwept(r, due) ==
    CASE r.answer[1] = "bug" -> Bug(r.answer[2])
      [] r.answer[1] = "infra" -> Infra("apply")
      [] r.answer[1] \in Verdicts -> SweepFailure(r.world)

(* step: apply_op, then the sweep if it is due. *)
StepFailure(r, due) ==
    CASE r.answer[1] = "bug" -> Bug(r.answer[2])
      [] r.answer[1] = "infra" -> Infra("apply")
      [] r.answer[1] \in Verdicts -> IF due THEN SweepFailure(r.world) ELSE NoFailure

(* drive over OpSource::Fixed: the first failure ends it. *)
Step(run, o, every) ==
    LET r == Answered(run.world, o)
    IN  IF run.kind # NoFailure THEN run
        ELSE [steps |-> run.steps + 1, world |-> r.world,
              kind |-> StepFailure(r, Due(every, run.steps + 1))]

(* The last value of run is bound before it is stepped (TLC would evaluate  *)
(* it again at each of its uses).                                           *)
RunFixed(ops, every, w0) ==
    LET run[n \in 0 .. Len(ops)] ==
          IF n = 0 THEN [steps |-> 0, world |-> w0, kind |-> NoFailure]
          ELSE CHOOSE next \in {Step(last, ops[n], every) : last \in {run[n - 1]}} : TRUE
    IN  run[Len(ops)]
=============================================================================
