------------------------------ MODULE Harness ------------------------------
(***************************************************************************)
(* The runner's view of a test subject: the Harness trait, the op-kind     *)
(* mix, the invariant sweep with its coverage tallies, and the failure     *)
(* kinds and reports every driver of crates/harness/src/runner.rs shares.  *)
(*                                                                         *)
(* The pair (Ctx, World) the drivers thread by &mut is one member of       *)
(* World.  The trait's methods are constant operators, so the modules that *)
(* extend this one speak about every harness a developer may write:        *)
(*                                                                         *)
(*   Kinds          op_kinds(), in the order the registry lists them       *)
(*   Weight(w, k)   the dynamic weight of kind k                           *)
(*   Generate(w, k) the ops generate_op may build for kind k               *)
(*   Apply(w, o)    what apply may answer, with the world it leaves        *)
(*   Check(w, n)    the outcome of checking invariant n                    *)
(***************************************************************************)
EXTENDS Integers, Sequences, FiniteSets

CONSTANTS
    Operation,      \* the operations
    OpKind,         \* their kinds
    InvName,        \* the names invariants are tallied under
    BugDetail,      \* the detail strings of HarnessError::Bug
    World,          \* the states of (Ctx, World)
    Kinds,
    Invariants,     \* invariants(), a sequence of names
    Weight(_, _),
    Generate(_, _),
    Apply(_, _),
    Check(_, _),
    MaxU32,         \* u32::MAX, scaled down
    NoOp,           \* the None of Option<Operation>
    NoFailure       \* the None of Option<Failure>

(* FailureKind.  "Infra" carries a message in the code; only where it comes *)
(* from matters here.  same_failure never looks at it.                      *)
FailureKind ==
    [kind : {"Bug"}, name : BugDetail]
      \cup [kind : {"Invariant"}, name : InvName]
      \cup [kind : {"Infra"}, name : {"mix", "draw", "apply", "advance"}]

Bug(detail) == [kind |-> "Bug", name |-> detail]
Infra(from) == [kind |-> "Infra", name |-> from]
Broken(inv) == [kind |-> "Invariant", name |-> inv]

(* The four ways apply answers: Ok(Accepted), Ok(Rejected), Err(Infra) and  *)
(* Err(Bug(detail)).                                                        *)
Answer == {"accepted", "rejected", "infra"} \X {NoOp} \cup {"bug"} \X BugDetail
Verdicts == {"accepted", "rejected"}
CheckOutcome == {"held", "skipped", "violated"}

ASSUME HarnessAssumption ==
    /\ Kinds \in Seq(OpKind)
    /\ Invariants \in Seq(InvName)
    /\ MaxU32 \in Nat \ {0}
    /\ NoOp \notin Operation
    /\ NoFailure \notin FailureKind
    /\ \A w \in World, k \in OpKind :
         /\ Weight(w, k) \in 0 .. MaxU32
         /\ Generate(w, k) \subseteq Operation /\ Generate(w, k) # {}
    /\ \A w \in World, o \in Operation :
         /\ Apply(w, o) \subseteq [answer : Answer, world : World]
         /\ Apply(w, o) # {}
    /\ \A w \in World, n \in InvName : Check(w, n) \in CheckOutcome
-----------------------------------------------------------------------------
(* same_failure: bugs by detail, invariants by name, any two infra failures *)
(* alike.                                                                   *)
SameFailure(a, b) ==
    a.kind = b.kind /\ (a.kind = "Infra" \/ a.name = b.name)

(* A mix after resolve_mix: the candidate kinds with their static weights.  *)
(* Harness and Restricted give every kind the static weight 1; Weighted is  *)
(* taken verbatim.                                                          *)
Candidates(mix) ==
    CASE mix.shape = "Harness"    -> [i \in DOMAIN Kinds |-> <<Kinds[i], 1>>]
      [] mix.shape = "Restricted" -> [i \in DOMAIN mix.list |-> <<mix.list[i], 1>>]
      [] mix.shape = "Weighted"   -> mix.list

Mix ==
    [shape : {"Harness"}, list : {<<>>}]
      \cup [shape : {"Restricted"}, list : Seq(OpKind)]
      \cup [shape : {"Weighted"}, list : Seq(OpKind \X (0 .. MaxU32))]

(* A mix no kind can ever be drawn from: resolve_mix's Err. *)
StaticallyEmpty(mix) ==
    \A i \in DOMAIN Candidates(mix) : Candidates(mix)[i][2] = 0

(* Seeded defect: the product wraps. *)
WrappingMul(a, b) == (a * b) % (MaxU32 + 1)

SaturatingMul(a, b) == IF a * b > MaxU32 THEN MaxU32 ELSE a * b

(* The kinds rng.weighted may pick in w: those of a non-zero effective      *)
(* weight.  Which of them is the seed's business.                           *)
Drawable(mix, w) ==
    {Candidates(mix)[i][1] : i \in {j \in DOMAIN Candidates(mix) :
        SaturatingMul(Candidates(mix)[j][2], Weight(w, Candidates(mix)[j][1])) # 0}}
-----------------------------------------------------------------------------
(* sweep: the invariants are checked in order up to the first violation.    *)
Violated(w) == {i \in DOMAIN Invariants : Check(w, Invariants[i]) = "violated"}

Clean(w) == Violated(w) = {}

Checked(w) ==
    {i \in DOMAIN Invariants : \A j \in 1 .. (i - 1) : Check(w, Invariants[j]) # "violated"}

SweepFailure(w) ==
    IF Clean(w) THEN NoFailure
    ELSE Broken(Invariants[CHOOSE i \in Violated(w) : i \in Checked(w)])

Coverage == [InvName -> [CheckOutcome -> Nat]]

SeedCoverage == [n \in InvName |-> [c \in CheckOutcome |-> 0]]

SweepCoverage(cov, w) ==
    [n \in InvName |-> [c \in CheckOutcome |->
        cov[n][c] + Cardinality({i \in Checked(w) : Invariants[i] = n /\ Check(w, n) = c})]]

(* check_every > 0 && steps.is_multiple_of(check_every) *)
Due(every, steps) == every > 0 /\ steps % every = 0
-----------------------------------------------------------------------------
(* ReportBuilder's two exits.  step is both RunReport::steps and            *)
(* Failure::step.                                                           *)
Report ==
    [passed : {TRUE}, steps : Nat, op : {NoOp}, history : {<<>>}, kind : {NoFailure}]
      \cup [passed : {FALSE}, steps : Nat, op : Operation \cup {NoOp},
            history : Seq(Operation), kind : FailureKind]

PassReport(steps) ==
    [passed |-> TRUE, steps |-> steps, op |-> NoOp,
     history |-> <<>>, kind |-> NoFailure]

FailReport(steps, op, history, kind) ==
    [passed |-> FALSE, steps |-> steps, op |-> op,
     history |-> history, kind |-> kind]

LastOp(history) == IF history = <<>> THEN NoOp ELSE history[Len(history)]
=============================================================================
