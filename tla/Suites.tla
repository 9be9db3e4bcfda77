------------------------------- MODULE Suites -------------------------------
(***************************************************************************)
(* The suites of a config file and the rules the loader holds them to      *)
(* (harness-config schema.rs and validate.rs).                             *)
(***************************************************************************)
EXTENDS Integers, Sequences, FiniteSets, SequencesExt

Phases(profiles) ==
    [profile : profiles, needs : Seq(profiles), world : {"fresh", "inherit"}, params : BOOLEAN]

FreshPhase(p) == [profile |-> p, needs |-> <<>>, world |-> "fresh", params |-> FALSE]

(* validate_suite_phase_structure, single being the profiles that run one setup. *)
ValidPhases(s, single) ==
    /\ \A j, k \in DOMAIN s : s[j].profile = s[k].profile => j = k
    /\ \A k \in DOMAIN s : \A n \in ToSet(s[k].needs) :
         \E j \in 1 .. (k - 1) : s[j].profile = n
    /\ \A k \in DOMAIN s : s[k].world = "inherit" =>
         /\ Len(s[k].needs) = 1
         /\ {s[k].profile, s[k].needs[1]} \subseteq single
         /\ \A j \in DOMAIN s :
              s[j].world = "inherit" /\ s[j].needs = s[k].needs => j = k

(* normalize_suite_phases, first pass: the legacy list becomes phases. *)
Normalized(suite) ==
    IF suite.profiles = <<>> THEN suite
    ELSE [suite EXCEPT !.profiles = <<>>,
            !.phases = [i \in DOMAIN suite.profiles |-> FreshPhase(suite.profiles[i])]]
=============================================================================
