------------------------------- MODULE Profiles -------------------------------
(***************************************************************************)
(* What a driver is handed for a profile: the keys of its table, under the *)
(* options of the invocation and over the defaults of the schema           *)
(* (harness-config schema.rs, harness-cli resolve.rs and the four arms of  *)
(* run_profile).  And the other way a mode is given its arguments: the     *)
(* runner attributes of crates/harness-macros.                             *)
(***************************************************************************)
EXTENDS Registry

CONSTANT Lasting    \* EFFECTIVELY_UNBOUNDED_DURATION

Zero == [form |-> "text", reads |-> TRUE, length |-> 0]
Heartbeat == [Zero EXCEPT !.length = 60]

(* resolve_profile: cadence, whether a failure is shrunk, and its budget.   *)
ResolvedProfile(t, opts) ==
    [every |-> First(<<opts.every, Get(t, "check_every"), 1>>),
     shrink |-> ~opts.noShrink /\ First(<<Get(t, "shrink"), t.mode \in {"fuzz", "invariant"}>>),
     limit |-> First(<<Get(t, "shrink_limit"), 256>>)]

(* Fuzz and invariant. *)
SequenceArgs(h, t, opts) ==
    [mix |-> KindSelection(h, t), ops |-> First(<<opts.ops, Get(t, "ops")>>)]

(* EnduranceConfig.  Jitter counts only where blocks advance.               *)
EnduranceArgs(h, t, opts) ==
    [mix |-> KindSelection(h, t),
     ops |-> First(<<opts.ops, Get(t, "max_ops")>>),
     duration |-> First(<<opts.duration, Get(t, "duration"), Lasting>>),
     delays |-> <<First(<<Get(t, "base_delay"), Zero>>), First(<<Get(t, "max_delay"), Zero>>)>>,
     advance |-> IF "advance_blocks" \in DOMAIN t
                   THEN <<t.advance_blocks, First(<<Get(t, "block_jitter"), 0>>)>> ELSE None,
     maxInfra |-> First(<<Get(t, "max_consecutive_infra"), 0>>),
     heartbeat |-> First(<<Get(t, "heartbeat"), Heartbeat>>)]

(* A step with what it leaves out. *)
ScenarioStep(step) ==
    [op |-> DecodeOp(OpValue(step)),
     expect |-> First(<<Get(step, "expect"), "accepted">>),
     delay |-> First(<<Get(step, "delay"), Zero>>),
     check |-> First(<<Get(step, "check"), TRUE>>)]

ScenarioArgs(t) == [steps |-> [i \in DOMAIN t.steps |-> ScenarioStep(t.steps[i])]]

DriverArgs(h, t, opts) ==
    CASE t.mode \in {"fuzz", "invariant"} -> SequenceArgs(h, t, opts)
      [] t.mode = "endurance" -> EnduranceArgs(h, t, opts)
      [] t.mode = "scenario" -> ScenarioArgs(t)
-----------------------------------------------------------------------------
(* The runner attributes (runner_macros.rs): #[fuzz_runner],                *)
(* #[invariant_runner] and #[endurance_runner] over an async fn with one    *)
(* #[runner] argument, which gets a seeded shell.  An attribute has its     *)
(* mode, its seed (negative for a random one), its cases, and of its fn     *)
(* whether it is async and how many arguments are marked.                   *)

FansOut(a) == a.mode = "fuzz"

(* expand, where it makes no compile error. *)
AttributeExpands(a) ==
    /\ a.async /\ a.marked = 1
    /\ IF FansOut(a) THEN a.cases \notin {None, 0} ELSE a.cases = None

(* The tests: one per case, or the one. *)
AttributeTests(a) == IF FansOut(a) THEN 0 .. (a.cases - 1) ELSE {0}

(* SeedSpec. *)
AttributeSeeds(a, random) == IF a.seed < 0 THEN random ELSE {a.seed}

(* sub_seed: case 0 has the base seed itself, and the others one each.      *)
SubSeed(seed, case) == seed + 10 * case
=============================================================================
