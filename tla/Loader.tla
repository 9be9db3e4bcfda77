------------------------------- MODULE Loader -------------------------------
(***************************************************************************)
(* The loader of crates/harness-config: what its stages refuse and what    *)
(* they make of a document.  Each stage has a predicate that says whether  *)
(* it goes through and an operator for the document it leaves; ConfigRun   *)
(* takes them one after the other.  crates/config plugs its hooks in       *)
(* through ConfigExt; the rules on chains are in Chains.                   *)
(***************************************************************************)
EXTENDS Document, Suites

Modes == {"fuzz", "invariant", "endurance", "scenario"}

(* COMMON_KEYS and mode_specific_keys, the allowlist of the merge. *)
CommonKeys ==
    {"mode", "seed", "check_every", "stats", "artifacts_dir", "json_report", "env",
     "shrink", "shrink_limit"}

(* Seeded defect: the two draw keys are taken for common ones of every mode. *)
ModeSpecificKeysWithMix(mode) ==
    CASE mode = "fuzz" -> {"cases", "ops", "kinds", "weights"}
      [] mode = "invariant" -> {"ops", "kinds", "weights"}
      [] mode = "endurance" ->
           {"duration", "max_ops", "base_delay", "max_delay", "advance_blocks", "block_jitter",
            "max_consecutive_infra", "heartbeat", "kinds", "weights"}
      [] mode = "scenario" -> {"steps", "export_world", "kinds", "weights"}

ModeSpecificKeys(mode) ==
    CASE mode = "fuzz" -> {"cases", "ops", "kinds", "weights"}
      [] mode = "invariant" -> {"ops", "kinds", "weights"}
      [] mode = "endurance" ->
           {"duration", "max_ops", "base_delay", "max_delay", "advance_blocks", "block_jitter",
            "max_consecutive_infra", "heartbeat", "kinds", "weights"}
      [] mode = "scenario" -> {"steps", "export_world"}

KeyAppliesToMode(key, mode) ==
    key \in CommonKeys \/ mode \notin Modes \/ key \in ModeSpecificKeys(mode)

(* The serde side of the same table: the fields of the four wire structs    *)
(* (deny_unknown_fields) and those without a default.                       *)
CommonWire ==
    {"seed", "check_every", "stats", "artifacts_dir", "json_report", "env", "shrink",
     "shrink_limit"}

FuzzWire == CommonWire \cup {"cases", "ops", "kinds", "weights"}
InvariantWire == CommonWire \cup {"ops", "kinds", "weights"}
EnduranceWire ==
    CommonWire \cup {"duration", "max_ops", "base_delay", "max_delay", "advance_blocks",
                     "block_jitter", "max_consecutive_infra", "heartbeat", "kinds", "weights"}
ScenarioWire == CommonWire \cup {"steps", "export_world"}

Wire(mode) ==
    CASE mode = "fuzz" -> FuzzWire
      [] mode = "invariant" -> InvariantWire
      [] mode = "endurance" -> EnduranceWire
      [] mode = "scenario" -> ScenarioWire

Required(mode) ==
    CASE mode = "fuzz" -> {"cases", "ops"}
      [] mode = "invariant" -> {"ops"}
      [] mode = "endurance" -> {}
      [] mode = "scenario" -> {"steps"}
-----------------------------------------------------------------------------
(* merge *)
Shallow(base, over) ==
    [key \in DOMAIN base \cup DOMAIN over |-> IF key \in DOMAIN over THEN over[key] ELSE base[key]]

(* Seeded defect: a colliding entry is always replaced whole. *)
MergeEnvEntryWhole(key, slot, incoming) == incoming

(* crates/config's merge_env_entry: targets label by label, the rest whole. *)
MergeEnvEntry(key, slot, incoming) ==
    IF key = "targets" THEN Shallow(slot, incoming) ELSE incoming

MergeEnvTables(top, over) ==
    [key \in DOMAIN top \cup DOMAIN over |->
       IF key \notin DOMAIN over THEN top[key]
       ELSE IF key \notin DOMAIN top THEN over[key]
       ELSE MergeEnvEntry(key, top[key], over[key])]

Empty == [key \in {} |-> None]

(* The defaulted keys the profile's mode has no use for: stripped again,    *)
(* each with a warning.                                                     *)
Stripped(defaults, t) ==
    LET mode == Get(Shallow(defaults, t), "mode")
    IN  {key \in DOMAIN defaults \ DOMAIN t :
           mode # None /\ ~KeyAppliesToMode(key, mode)}

(* A profile table with [defaults] merged under it. *)
Defaulted(defaults, t) ==
    LET all == Shallow(defaults, t)
    IN  [key \in DOMAIN all \ Stripped(defaults, t) |-> all[key]]

(* ... and with its effective env.  An empty one is left out. *)
MergedProfile(defaults, env, t) ==
    LET d == Defaulted(defaults, t)
        effective == IF "env" \in DOMAIN d THEN MergeEnvTables(env, d.env) ELSE env
    IN  [key \in (DOMAIN d \ {"env"}) \cup (IF DOMAIN effective = {} THEN {} ELSE {"env"}) |->
           IF key = "env" THEN effective ELSE d[key]]

Mergeable(doc) ==
    /\ doc.defaults # NotATable /\ doc.env # NotATable
    /\ \A p \in DOMAIN doc.profile :
         /\ doc.profile[p] # NotATable
         /\ Get(Defaulted(doc.defaults, doc.profile[p]), "env") # NotATable

Merged(doc) ==
    [doc EXCEPT
       !.defaults = Empty,
       !.profile = [p \in DOMAIN doc.profile |->
                      MergedProfile(doc.defaults, doc.env, doc.profile[p])]]

Warnings(doc) ==
    UNION {{<<p, key>> : key \in Stripped(doc.defaults, doc.profile[p])} : p \in DOMAIN doc.profile}
-----------------------------------------------------------------------------
(* build_run_config and from_mode_table: [harness] is required, what is     *)
(* left at the top belongs to the extension, and each profile goes to the   *)
(* struct of its mode.                                                      *)
UnknownFields(t) == (DOMAIN t \ {"mode"}) \ Wire(t.mode)

(* A duration is a text that humantime reads; an integer is not one.        *)
DurationReads(d) == d.form = "text" /\ d.reads

DurationsRead(t) ==
    \A key \in {"duration", "base_delay", "max_delay", "heartbeat"} \cap DOMAIN t : DurationReads(t[key])

(* ScenarioStepRaw. *)
Expectations == {"accepted", "rejected", "any"}

StepsRead(t) ==
    "steps" \in DOMAIN t =>
      \A i \in DOMAIN t.steps :
        /\ DOMAIN t.steps[i] \subseteq {"key", "value", "expect", "delay", "check"}
        /\ "expect" \in DOMAIN t.steps[i] => t.steps[i].expect \in Expectations
        /\ "delay" \in DOMAIN t.steps[i] => DurationReads(t.steps[i].delay)

Deserializable(doc) ==
    /\ doc.harness # None /\ ~doc.unknown
    /\ \A p \in DOMAIN doc.profile :
         LET t == doc.profile[p]
         IN  /\ Get(t, "mode") \in Modes
             /\ UnknownFields(t) = {}
             /\ Required(t.mode) \subseteq DOMAIN t
             /\ DurationsRead(t) /\ StepsRead(t)

(* is_single_setup; a profile that does not exist is reported elsewhere. *)
SingleSetupIn(doc, p) ==
    p \in DOMAIN doc.profile => (doc.profile[p].mode = "fuzz" => doc.profile[p].cases = 1)

(* normalize_suite_phases and validate_suites. *)
SuitesValid(doc) ==
    \A s \in DOMAIN doc.suite :
      LET phases == Normalized(doc.suite[s]).phases
      IN  /\ doc.suite[s].profiles = <<>> \/ doc.suite[s].phases = <<>>
          /\ ValidPhases(phases, {p \in DOMAIN doc.profile : SingleSetupIn(doc, p)})
          /\ \A k \in DOMAIN phases : phases[k].profile \in DOMAIN doc.profile

NormalizedSuites(doc) ==
    [doc EXCEPT !.suite = [s \in DOMAIN doc.suite |-> Normalized(doc.suite[s])]]

(* validate_profile_mode_specific *)
ProfileValid(t) ==
    /\ t.mode = "fuzz" => t.cases # 0
    /\ t.mode \in {"fuzz", "invariant"} => t.ops # 0
    /\ t.mode = "endurance" => {"duration", "max_ops"} \cap DOMAIN t # {}
    /\ t.mode = "scenario" => t.steps # <<>>
    /\ t.mode # "scenario" => ~({"kinds", "weights"} \subseteq DOMAIN t)

ProfilesValid(doc) == \A p \in DOMAIN doc.profile : ProfileValid(doc.profile[p])
=============================================================================
