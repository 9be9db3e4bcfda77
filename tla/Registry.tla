------------------------------ MODULE Registry ------------------------------
(***************************************************************************)
(* The registry of harness-cli: the harnesses a binary offers by name, the *)
(* offline checks `validate` makes of a profile against one, and the same  *)
(* profile read again by the closure that runs it.                         *)
(***************************************************************************)
EXTENDS Chains

CONSTANT Registered     \* the entries by name

(* register_inner and the four ways to it: an entry may export its world,   *)
(* patch it, both or neither.                                               *)
Entry(ops, export, patch) == [ops |-> ops, persistent |-> export, patchable |-> patch]

Register(ops) == Entry(ops, FALSE, FALSE)
RegisterPersistent(ops) == Entry(ops, TRUE, FALSE)
RegisterWithPatch(ops) == Entry(ops, FALSE, TRUE)
RegisterPersistentWithPatch(ops) == Entry(ops, TRUE, TRUE)

ASSUME RegistryAssumption ==
    \A h \in DOMAIN Registered :
      /\ WellFormed(Registered[h].ops)
      /\ Registered[h] \in {Register(Registered[h].ops), RegisterPersistent(Registered[h].ops),
                            RegisterWithPatch(Registered[h].ops),
                            RegisterPersistentWithPatch(Registered[h].ops)}

(* The serialized op of a step. *)
OpValue(step) == IF step.key = NoData THEN [step EXCEPT !.value = Spelled(@)] ELSE step

(* parse_kind_selection: where it goes through, and the mix it makes, in    *)
(* the order of the names.                                                  *)
KindsParse(h, t) ==
    (IF "weights" \in DOMAIN t THEN DOMAIN t.weights
     ELSE IF "kinds" \in DOMAIN t THEN ToSet(t.kinds) ELSE {}) \subseteq Names(h.ops)

KindSelection(h, t) ==
    IF "weights" \in DOMAIN t
      THEN LET keys == SelectSeq(KindsOf(h.ops), LAMBDA k : k \in DOMAIN t.weights)
           IN  [shape |-> "Weighted", list |-> [i \in DOMAIN keys |-> <<keys[i], t.weights[keys[i]]>>]]
    ELSE IF "kinds" \in DOMAIN t THEN [shape |-> "Restricted", list |-> t.kinds]
    ELSE [shape |-> "Harness", list |-> <<>>]

StepsDecode(h, t) == \A i \in DOMAIN t.steps : Decodable(h.ops, OpValue(t.steps[i]))

ValidateProfile(h, t) == IF t.mode = "scenario" THEN StepsDecode(h, t) ELSE KindsParse(h, t)

(* Seeded defect: left to the run. *)
ValidateExportWorldNever(h, t) == TRUE

ValidateExportWorld(h, t) == t.mode = "scenario" /\ "export_world" \in DOMAIN t => h.persistent

Validates(h, t) == ValidateProfile(h, t) /\ ValidateExportWorld(h, t)

(* What run_profile refuses before it sets anything up, with cases as the   *)
(* flags leave them and params where the phase has some.  The steps of a    *)
(* scenario are only decoded after.                                         *)
Admits(h, t, cases, params) ==
    CASE t.mode = "fuzz" -> cases # 0 /\ KindsParse(h, t) /\ (params => cases = 1)
      [] t.mode \in {"invariant", "endurance"} -> KindsParse(h, t)
      [] t.mode = "scenario" -> "export_world" \in DOMAIN t => h.persistent

(* apply_phase_patch, where it refuses: with the setup done.                *)
Patches(h, params) == params => h.patchable
=============================================================================
