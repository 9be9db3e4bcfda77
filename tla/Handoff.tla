------------------------------ MODULE Handoff ------------------------------
(***************************************************************************)
(* What a pipeline suite promises (WorldSource and SuitePhase in           *)
(* crates/harness-config/src/schema.rs): a phase runs only once every      *)
(* phase it needs has passed, and an inheriting phase starts from the      *)
(* world its one donor finished with.  The last holds of the code only     *)
(* where no other donor or heir comes between the two (see Contended).     *)
(*                                                                         *)
(* A world is told by the phases that drove it, oldest first: a fresh one  *)
(* is <<>>, and a phase that passes leaves its own name at the end.        *)
(***************************************************************************)
EXTENDS Integers, Sequences, SequencesExt

CONSTANTS
    Profile,        \* the profile names
    NoWorld         \* no world

VARIABLES
    suite,          \* the phases, [profile, needs, world, params]; never changes
    outcome,        \* how the phase of each profile ended, "none" before it has
    origin          \* the world the phase of each profile started from

vars == <<suite, outcome, origin>>

Settles(i, o) ==
    /\ outcome[suite[i].profile] = "none"
    /\ outcome' = [outcome EXCEPT ![suite[i].profile] = o]

Met(i) == \A n \in ToSet(suite[i].needs) : outcome[n] = "passed"

Inherited(i) ==
    LET donor == suite[i].needs[1] IN Append(origin[donor], donor)

Inherits(i) == suite[i].world = "inherit"

IsDonor(i) ==
    \E j \in DOMAIN suite : Inherits(j) /\ suite[j].needs[1] = suite[i].profile

(* Between the donor and the heir i another phase is inherited from, or     *)
(* inherits: it may leave its own world in the one slot, or take what is    *)
(* there.                                                                   *)
Contended(i) ==
    \E d, j \in 1 .. (i - 1) :
      /\ suite[d].profile = suite[i].needs[1]
      /\ d < j /\ (Inherits(j) \/ IsDonor(j))

Left == {Append(origin[p], p) : p \in {q \in Profile : origin[q] # NoWorld}}

(* The worlds phase i may start from. *)
StartWorlds(i) ==
    IF ~Inherits(i) THEN {<<>>} ELSE IF Contended(i) THEN Left ELSE {Inherited(i)}

Init ==
    /\ outcome = [p \in Profile |-> "none"]
    /\ origin = [p \in Profile |-> NoWorld]

Skip(i) == ~Met(i) /\ Settles(i, "skipped") /\ UNCHANGED origin

(* A phase may fail before it has a world of its own. *)
Refuse(i) ==
    /\ Met(i) /\ origin[suite[i].profile] = NoWorld
    /\ Settles(i, "failed")
    /\ UNCHANGED origin

Start(i) ==
    /\ Met(i) /\ origin[suite[i].profile] = NoWorld
    /\ outcome[suite[i].profile] = "none"
    /\ \E w \in StartWorlds(i) : origin' = [origin EXCEPT ![suite[i].profile] = w]
    /\ UNCHANGED outcome

Finish(i, o) ==
    /\ origin[suite[i].profile] # NoWorld
    /\ Settles(i, o)
    /\ UNCHANGED origin

Next ==
    /\ UNCHANGED suite
    /\ \E i \in DOMAIN suite :
         \/ Skip(i) \/ Refuse(i) \/ Start(i)
         \/ \E o \in {"passed", "failed"} : Finish(i, o)

Spec == Init /\ [][Next]_vars
=============================================================================
