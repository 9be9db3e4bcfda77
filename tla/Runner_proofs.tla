---------------------------- MODULE Runner_proofs ----------------------------
(***************************************************************************)
(* Runner, for every harness: any operations, kinds, weights, invariants   *)
(* and backend, and any plans, configurations and scripts.                 *)
(***************************************************************************)
EXTENDS Runner, SequenceTheorems, FiniteSetTheorems, NaturalsInduction, TLAPS

Answers == {"accepted", "rejected", "infra", "bug"}

Failures == [mode : {"sequence", "endurance", "fixed"}, every : Nat, report : Report]

Searches ==
    [history : Seq(Operation), kind : FailureKind, every : Nat, world : World, limit : Nat]

Texts == [steps : Seq(Script!ScenarioStep), every : Nat]

(* A scenario alone knows a failure of its own. *)
Mismatches ==
    [passed : {FALSE}, steps : Nat, op : Operation, history : Seq(Operation),
     kind : {Script!Mismatch}]

(* What every driver keeps.                                                 *)
SharedOK ==
    /\ mode \in {"sequence", "endurance", "scenario", "shrink"}
    /\ start \in World /\ world \in World
    /\ failed \in Failures \cup {NoFailure}
    /\ op \in Operation \cup {NoOp}
    /\ steps \in Nat /\ history \in Seq(Operation)
    /\ coverage \in Coverage
    /\ report \in Report \cup {NoFailure} \cup (IF mode = "scenario" THEN Mismatches ELSE {})
    /\ stop \in BOOLEAN /\ expired \in BOOLEAN /\ streak \in Nat
    /\ current \in Seq(Operation)
    /\ {budget, size, at, replays} \subseteq Nat
    /\ mode # "shrink" /\ pc = "done" =>
         report \in Report \cup (IF mode = "scenario" THEN Mismatches ELSE {})

(* What each keeps of its own.                                              *)
SequenceOK ==
    mode = "sequence" =>
      /\ plan \in Sequence!Plan
      /\ source \in [remaining : Nat, rest : Seq(Operation)]
      /\ pc \in {"resolve", "next", "apply", "sweep", "done"}
      /\ log \in Seq([before : World, answer : Answers, after : World])
      /\ pc = "apply" => op \in Operation

EnduranceOK ==
    mode = "endurance" =>
      /\ plan \in Loop!Config
      /\ source \in Nat
      /\ pc \in {"resolve", "top", "apply", "sweep", "advance", "final", "done"}
      /\ log \in Seq([answer : Answers, after : World])
      /\ pc = "apply" => op \in Operation

ScenarioOK ==
    mode = "scenario" =>
      /\ plan \in Texts
      /\ pc \in {"next", "apply", "sweep", "done"}
      /\ log \in Seq([answer : Answers, after : World])
      /\ pc \in {"apply", "sweep"} => steps \in 1 .. Len(plan.steps)

SearchOK ==
    mode = "shrink" =>
      /\ plan \in Searches
      /\ pc \in {"reference", "chunk", "window", "single", "done"}

TypeOK == SharedOK /\ SequenceOK /\ EnduranceOK /\ ScenarioOK /\ SearchOK

(* An op in flight is begun and not yet applied; any other has its entry.   *)
OneInFlight ==
    mode # "shrink" =>
      /\ Len(history) = steps
      /\ Len(log) = IF pc = "apply" THEN steps - 1 ELSE steps
      /\ mode # "scenario" /\ pc \in {"apply", "sweep"} => op = history[steps]
      /\ pc = "sweep" => steps > 0 /\ log[steps].after = world /\ log[steps].answer \in Verdicts
      /\ pc = "done" => report.steps = steps /\ (~report.passed => report.history = history)
      /\ pc = "resolve" => steps = 0
-----------------------------------------------------------------------------
(* Scenario: every step behind was expected and came out clean.             *)
ScriptInv ==
    mode = "scenario" =>
      /\ steps <= Len(plan.steps)
      /\ \A i \in 1 .. Len(log) :
           i < steps \/ pc = "next" \/ (pc = "done" /\ report.passed) =>
             Script!Expected(i) /\ (Script!Asked(i) => Script!Clean(log[i].after))
      /\ pc = "sweep" => Script!Expected(steps) /\ Script!Asked(steps)
      /\ Script!PassMeetsEveryExpectation /\ Script!FailureIsTheFirstBroken
-----------------------------------------------------------------------------
(* Endurance: what is left of the op budget, and why the loop is left.      *)
BudgetInv ==
    mode = "endurance" =>
      /\ plan.maxOps # Unbounded => source + steps = plan.maxOps
      /\ pc = "final" => stop \/ expired \/ steps = plan.maxOps
      /\ Loop!PassIsSweptClean

(* The due steps behind were clean; one is behind once its sweep is.        *)
CleanInv ==
    mode = "endurance" =>
      /\ pc = "sweep" => Loop!Due(plan.every, steps)
      /\ \A i \in 1 .. Len(log) :
           Loop!Due(plan.every, i) /\ log[i].answer \in Loop!Verdicts =>
             \/ Loop!Clean(log[i].after)
             \/ i = Len(log) /\ (pc = "sweep" \/ (pc = "done" /\ ~report.passed))

(* The last n answers are infra failures, and the one before is not.        *)
Streak(n) == n <= Len(log) /\ Loop!Trailing = (Len(log) - n + 1) .. Len(log)

(* The streak counts the trailing infra failures, but that it is reset only *)
(* after the sweep.                                                         *)
StreakInv ==
    mode = "endurance" =>
      \E n \in 0 .. plan.maxInfra + 1 :
        /\ Streak(n)
        /\ pc # "done" => n <= plan.maxInfra /\ streak <= plan.maxInfra
        /\ pc \notin {"sweep", "done"} => n = streak
        /\ pc = "sweep" => n = 0
        /\ n = plan.maxInfra + 1 <=> Loop!Failed /\ report.kind = Infra("apply")
-----------------------------------------------------------------------------
(* A sequence: the steps behind that were due were clean, and got verdicts. *)
SweptInv ==
    mode = "sequence" =>
      /\ pc = "sweep" => Sequence!Due(plan.every, steps)
      /\ pc # "done" => \A i \in 1 .. Len(log) : log[i].answer \in Verdicts
      /\ Sequence!NothingStepsOverAViolation
      /\ Sequence!FailureIsTheFirstFault
      /\ Sequence!CoverageCountsTheSweeps
      /\ Sequence!Failed /\ report.kind = Infra("mix") => steps = 0

(* Every op, the one in flight too, was drawn by the weights of the world   *)
(* it met.                                                                  *)
HasWeight(mix, w, j) == Candidates(mix)[j][2] # 0 /\ Weight(w, Candidates(mix)[j][1]) # 0

Drawn(mix, w, o) ==
    \E j \in DOMAIN Candidates(mix) :
      HasWeight(mix, w, j) /\ o \in Generate(w, Candidates(mix)[j][1])

DrawInv ==
    mode = "sequence" =>
      /\ Sequence!DrawsFollowTheWeights
      /\ pc = "apply" /\ ~plan.fixed => Drawn(plan.mix, world, op)
-----------------------------------------------------------------------------
(* The search: nothing is in hand but what fails like the reference.        *)
SearchInv ==
    /\ mode # "shrink" => refKind = NoFailure /\ replays = 0
    /\ mode = "shrink" =>
         /\ pc = "reference" => current = plan.history /\ refKind = NoFailure
         /\ pc \notin {"reference", "done"} => refKind # NoFailure
         /\ replays + budget = plan.limit + (IF pc = "reference" THEN 0 ELSE 1)
         /\ Search!AlwaysReproduces /\ Search!BudgetBoundsReplays
-----------------------------------------------------------------------------
(* The drivers' words are the harness's.                                    *)
LEMMA SameWords ==
    /\ \A w : Sequence!Checked(w) = Checked(w) /\ Loop!Checked(w) = Checked(w)
                /\ Script!Checked(w) = Checked(w)
    /\ \A w : /\ (Sequence!Clean(w) <=> Clean(w)) /\ (Loop!Clean(w) <=> Clean(w))
              /\ (Script!Clean(w) <=> Clean(w))
    /\ \A w : Sequence!SweepFailure(w) = SweepFailure(w) /\ Loop!SweepFailure(w) = SweepFailure(w)
                /\ Script!SweepFailure(w) = SweepFailure(w)
    /\ \A S : Sequence!Cardinality(S) = Cardinality(S) /\ Loop!Cardinality(S) = Cardinality(S)
    /\ \A c, w : Sequence!SweepCoverage(c, w) = SweepCoverage(c, w)
                /\ Loop!SweepCoverage(c, w) = SweepCoverage(c, w)
                /\ Script!SweepCoverage(c, w) = SweepCoverage(c, w)
  <1>1. \A w : /\ Sequence!Violated(w) = Violated(w) /\ Loop!Violated(w) = Violated(w)
               /\ Script!Violated(w) = Violated(w)
    BY DEF Sequence!Violated, Loop!Violated, Script!Violated, Violated
  <1>2. \A w : Sequence!Checked(w) = Checked(w) /\ Loop!Checked(w) = Checked(w)
                 /\ Script!Checked(w) = Checked(w)
    BY DEF Sequence!Checked, Loop!Checked, Script!Checked, Checked
  <1>3. \A w : /\ (Sequence!Clean(w) <=> Clean(w)) /\ (Loop!Clean(w) <=> Clean(w))
               /\ (Script!Clean(w) <=> Clean(w))
    BY <1>1 DEF Sequence!Clean, Loop!Clean, Script!Clean, Clean
  <1>4. \A w : Sequence!SweepFailure(w) = SweepFailure(w) /\ Loop!SweepFailure(w) = SweepFailure(w)
                 /\ Script!SweepFailure(w) = SweepFailure(w)
    BY <1>1, <1>2, <1>3
    DEF Sequence!SweepFailure, Loop!SweepFailure, Script!SweepFailure, SweepFailure,
        Sequence!Broken, Loop!Broken, Script!Broken, Broken
  <1>5. \A c, w : Sequence!SweepCoverage(c, w) = SweepCoverage(c, w)
                 /\ Loop!SweepCoverage(c, w) = SweepCoverage(c, w)
                 /\ Script!SweepCoverage(c, w) = SweepCoverage(c, w)
    BY DEF Sequence!SweepCoverage, Loop!SweepCoverage, Script!SweepCoverage, SweepCoverage,
           Sequence!CheckOutcome, Loop!CheckOutcome, Script!CheckOutcome, CheckOutcome,
           Sequence!Checked, Loop!Checked, Script!Checked, Checked,
           Sequence!Cardinality, Loop!Cardinality, Script!Cardinality, Cardinality
  <1>6. \A S : Sequence!Cardinality(S) = Cardinality(S) /\ Loop!Cardinality(S) = Cardinality(S)
    BY DEF Sequence!Cardinality, Loop!Cardinality, Cardinality
  <1>7. QED
    BY <1>2, <1>3, <1>4, <1>5, <1>6

(* sweep: it names an invariant that is violated, the first.                *)
LEMMA FirstViolation ==
    ASSUME NEW w
    PROVE  /\ Checked(w) \subseteq DOMAIN Invariants
           /\ Clean(w) => Checked(w) = DOMAIN Invariants /\ SweepFailure(w) = NoFailure
           /\ ~Clean(w) => SweepFailure(w) \in [kind : {"Invariant"}, name : InvName]
  <1>1. Invariants \in Seq(InvName) /\ DOMAIN Invariants = 1 .. Len(Invariants) /\ Len(Invariants) \in Nat
    BY HarnessAssumption
  <1>2. Checked(w) \subseteq DOMAIN Invariants
    BY DEF Checked
  <1>3. ASSUME Clean(w) PROVE Checked(w) = DOMAIN Invariants
    BY <1>1, <1>3 DEF Checked, Clean, Violated
  <1>4. ASSUME ~Clean(w) PROVE SweepFailure(w) \in [kind : {"Invariant"}, name : InvName]
    <2> DEFINE R == OpToRel(<, Nat)
    <2>1. Violated(w) \subseteq Nat /\ Violated(w) # {}
      BY <1>1, <1>4 DEF Violated, Clean
    <2>2. PICK i \in Violated(w) : \A j \in Violated(w) : ~ (<<j, i>> \in R)
      BY <2>1, NatLessThanWellFounded, WFMin
    <2>3. \A j \in Violated(w) : ~ (j < i)
      BY <2>1, <2>2 DEF OpToRel
    <2>4. i \in Checked(w)
      BY <1>1, <2>3 DEF Violated, Checked
    <2>5. \E k \in Violated(w) : k \in Checked(w)
      BY <2>4
    <2>6. (CHOOSE k \in Violated(w) : k \in Checked(w)) \in DOMAIN Invariants
      BY <2>5 DEF Violated
    <2>7. QED
      BY <1>1, <1>4, <2>6 DEF SweepFailure, Broken
  <1>5. QED
    BY <1>2, <1>3, <1>4 DEF SweepFailure

(* A sweep adds numbers to the coverage.                                    *)
LEMMA SweepsCount ==
    ASSUME NEW c \in Coverage, NEW w
    PROVE  SweepCoverage(c, w) \in Coverage
  <1>1. IsFiniteSet(Checked(w))
    <2>1. Checked(w) \subseteq 1 .. Len(Invariants) /\ Len(Invariants) \in Nat
      BY HarnessAssumption DEF Checked
    <2>2. IsFiniteSet(1 .. Len(Invariants))
      BY <2>1, FS_Interval
    <2>3. QED
      BY <2>1, <2>2, FS_Subset
  <1>2. ASSUME NEW n, NEW o
        PROVE  Cardinality({i \in Checked(w) : Invariants[i] = n /\ Check(w, n) = o}) \in Nat
    <2>1. {i \in Checked(w) : Invariants[i] = n /\ Check(w, n) = o} \in SUBSET Checked(w)
      OBVIOUS
    <2>2. IsFiniteSet({i \in Checked(w) : Invariants[i] = n /\ Check(w, n) = o})
      BY <1>1, <2>1, FS_Subset
    <2>3. QED
      BY <2>2, FS_CardinalityType
  <1> DEFINE more(n, o) == Cardinality({i \in Checked(w) : Invariants[i] = n /\ Check(w, n) = o})
  <1>3. \A n, o : more(n, o) \in Nat
    BY <1>2
  <1>4. SweepCoverage(c, w) = [n \in InvName |-> [o \in CheckOutcome |-> c[n][o] + more(n, o)]]
    BY DEF SweepCoverage
  <1> HIDE DEF more
  <1>5. \A n \in InvName : [o \in CheckOutcome |-> c[n][o] + more(n, o)] \in [CheckOutcome -> Nat]
    BY <1>3 DEF Coverage
  <1>6. QED
    BY <1>4, <1>5 DEF Coverage

(* apply answers in one of four ways, a bug with its detail.                *)
LEMMA AnswerOK ==
    ASSUME NEW w \in World, NEW o \in Operation, NEW r \in Apply(w, o)
    PROVE  /\ r.world \in World /\ r.answer[1] \in Answers
           /\ r.answer[1] = "bug" => r.answer[2] \in BugDetail
  <1>1. r \in [answer : Answer, world : World]
    BY HarnessAssumption
  <1>2. QED
    BY <1>1 DEF Answer, Answers

(* resolve_mix and OpSource: a kind is drawn if and only if it is a         *)
(* candidate with both its weights non-zero; the product never hides one.   *)
LEMMA DrawnByWeight ==
    ASSUME NEW mix \in Mix, NEW w \in World
    PROVE  /\ \A j \in DOMAIN Candidates(mix) :
                /\ Candidates(mix)[j][1] \in OpKind
                /\ Candidates(mix)[j][1] \in Drawable(mix, w) \/ Candidates(mix)[j][2] = 0
                     \/ Weight(w, Candidates(mix)[j][1]) = 0
           /\ \A k \in Drawable(mix, w) :
                /\ k \in OpKind
                /\ \E j \in DOMAIN Candidates(mix) :
                     k = Candidates(mix)[j][1] /\ Candidates(mix)[j][2] # 0 /\ Weight(w, k) # 0
  <1> DEFINE cs == Candidates(mix)
  <1>1. \A j \in DOMAIN cs : cs[j][1] \in OpKind /\ cs[j][2] \in Nat
    <2>1. CASE mix.shape = "Harness"
      <3>1. cs = [i \in DOMAIN Kinds |-> <<Kinds[i], 1>>]
        BY <2>1 DEF Candidates
      <3>2. \A i \in DOMAIN Kinds : Kinds[i] \in OpKind
        BY HarnessAssumption
      <3>3. QED
        BY <3>1, <3>2
    <2>2. CASE mix.shape = "Restricted"
      <3>1. cs = [i \in DOMAIN mix.list |-> <<mix.list[i], 1>>]
        BY <2>2 DEF Candidates
      <3>2. mix.list \in Seq(OpKind)
        BY <2>2 DEF Mix
      <3>3. QED
        BY <3>1, <3>2
    <2>3. CASE mix.shape = "Weighted"
      <3>1. cs = mix.list
        BY <2>3 DEF Candidates
      <3>2. mix.list \in Seq(OpKind \X (0 .. MaxU32)) /\ MaxU32 \in Nat
        BY <2>3, HarnessAssumption DEF Mix
      <3>3. \A j \in DOMAIN cs : cs[j] \in OpKind \X (0 .. MaxU32)
        BY <3>1, <3>2
      <3>4. QED
        BY <3>2, <3>3
    <2>4. QED
      BY <2>1, <2>2, <2>3 DEF Mix
  <1>2. \A k \in OpKind : Weight(w, k) \in Nat
    BY HarnessAssumption
  <1>3. MaxU32 \in Nat /\ MaxU32 # 0
    BY HarnessAssumption
  <1>4. \A a, b \in Nat : SaturatingMul(a, b) # 0 <=> a # 0 /\ b # 0
    <2>1. ASSUME NEW a \in Nat, NEW b \in Nat
          PROVE  a * b # 0 <=> a # 0 /\ b # 0
      <3>1. CASE a = 0 \/ b = 0
        BY <3>1
      <3>2. CASE a >= 1 /\ b >= 1
        <4>1. a * b >= 1 * b
          BY <3>2
        <4>2. QED
          BY <3>2, <4>1
      <3>3. QED
        BY <3>1, <3>2
    <2>2. QED
      BY <1>3, <2>1 DEF SaturatingMul
  <1>5. Drawable(mix, w) =
          {cs[i][1] : i \in {j \in DOMAIN cs : SaturatingMul(cs[j][2], Weight(w, cs[j][1])) # 0}}
    BY DEF Drawable
  <1> HIDE DEF cs
  <1>6. \A j \in DOMAIN cs :
          SaturatingMul(cs[j][2], Weight(w, cs[j][1])) # 0
            <=> cs[j][2] # 0 /\ Weight(w, cs[j][1]) # 0
    BY <1>1, <1>2, <1>4
  <1>7. /\ \A j \in DOMAIN cs :
             cs[j][1] \in OpKind
               /\ (cs[j][1] \in Drawable(mix, w) \/ cs[j][2] = 0 \/ Weight(w, cs[j][1]) = 0)
        /\ \A k \in Drawable(mix, w) :
             k \in OpKind
               /\ \E j \in DOMAIN cs : k = cs[j][1] /\ cs[j][2] # 0 /\ Weight(w, k) # 0
    BY <1>1, <1>5, <1>6
  <1>8. QED
    BY <1>7 DEF cs

(* The same for the words of the drivers.                                   *)
LEMMA SameDraws ==
    /\ Sequence!Mix = Mix /\ Loop!Mix = Mix
    /\ \A m : Sequence!Candidates(m) = Candidates(m) /\ Loop!Candidates(m) = Candidates(m)
    /\ \A m, w : Sequence!Drawable(m, w) = Drawable(m, w) /\ Loop!Drawable(m, w) = Drawable(m, w)
  <1>1. \A m : Sequence!Candidates(m) = Candidates(m) /\ Loop!Candidates(m) = Candidates(m)
    BY DEF Sequence!Candidates, Loop!Candidates, Candidates
  <1>2. Sequence!Mix = Mix /\ Loop!Mix = Mix
    BY DEF Sequence!Mix, Loop!Mix, Mix
  <1>3. \A a, b : Sequence!SaturatingMul(a, b) = SaturatingMul(a, b)
                    /\ Loop!SaturatingMul(a, b) = SaturatingMul(a, b)
    BY DEF Sequence!SaturatingMul, Loop!SaturatingMul, SaturatingMul
  <1>4. \A m, w : Sequence!Drawable(m, w) = Drawable(m, w) /\ Loop!Drawable(m, w) = Drawable(m, w)
    BY <1>1, <1>3 DEF Sequence!Drawable, Loop!Drawable, Drawable
  <1>5. QED
    BY <1>1, <1>2, <1>4

(* Failing at a step reports it; a verdict's failures are the harness's.    *)
LEMMA ReportOK ==
    /\ \A s \in Nat, o \in Operation \cup {NoOp}, h \in Seq(Operation), k \in FailureKind :
         /\ FailReport(s, o, h, k) \in Report
         /\ Sequence!FailReport(s, o, h, k) = FailReport(s, o, h, k)
         /\ Loop!FailReport(s, o, h, k) = FailReport(s, o, h, k)
         /\ Script!FailReport(s, o, h, k) = FailReport(s, o, h, k)
    /\ \A s \in Nat :
         /\ PassReport(s) \in Report
         /\ Sequence!PassReport(s) = PassReport(s)
         /\ Loop!PassReport(s) = PassReport(s)
         /\ Script!PassReport(s) = PassReport(s)
    /\ \A d \in BugDetail : /\ Sequence!Bug(d) \in FailureKind /\ Sequence!Bug(d).kind = "Bug"
                            /\ Loop!Bug(d) \in FailureKind /\ Loop!Bug(d).kind = "Bug"
                            /\ Script!Bug(d) \in FailureKind /\ Script!Bug(d).kind = "Bug"
                            /\ Script!Bug(d) # Script!Mismatch
    /\ \A f \in {"mix", "draw", "apply", "advance"} :
         /\ Infra(f) \in FailureKind /\ Infra(f).kind = "Infra" /\ Infra(f).name = f
         /\ Sequence!Infra(f) = Infra(f) /\ Loop!Infra(f) = Infra(f) /\ Script!Infra(f) = Infra(f)
  <1>1. \A s \in Nat, o \in Operation \cup {NoOp}, h \in Seq(Operation), k \in FailureKind :
         /\ FailReport(s, o, h, k) \in Report
         /\ Sequence!FailReport(s, o, h, k) = FailReport(s, o, h, k)
         /\ Loop!FailReport(s, o, h, k) = FailReport(s, o, h, k)
         /\ Script!FailReport(s, o, h, k) = FailReport(s, o, h, k)
    BY DEF FailReport, Report, Sequence!FailReport, Loop!FailReport, Script!FailReport
  <1>2. \A s \in Nat :
         /\ PassReport(s) \in Report
         /\ Sequence!PassReport(s) = PassReport(s)
         /\ Loop!PassReport(s) = PassReport(s)
         /\ Script!PassReport(s) = PassReport(s)
    BY DEF PassReport, Report, Sequence!PassReport, Loop!PassReport, Script!PassReport
  <1>3. \A d \in BugDetail : /\ Sequence!Bug(d) \in FailureKind /\ Sequence!Bug(d).kind = "Bug"
                             /\ Loop!Bug(d) \in FailureKind /\ Loop!Bug(d).kind = "Bug"
                             /\ Script!Bug(d) \in FailureKind /\ Script!Bug(d).kind = "Bug"
                             /\ Script!Bug(d) # Script!Mismatch
    BY RunnerAssumption DEF FailureKind, Sequence!Bug, Loop!Bug, Script!Bug, Script!Mismatch
  <1>4. \A f \in {"mix", "draw", "apply", "advance"} :
         /\ Infra(f) \in FailureKind /\ Infra(f).kind = "Infra" /\ Infra(f).name = f
         /\ Sequence!Infra(f) = Infra(f) /\ Loop!Infra(f) = Infra(f) /\ Script!Infra(f) = Infra(f)
    BY DEF FailureKind, Infra, Sequence!Infra, Loop!Infra, Script!Infra
  <1>5. QED
    BY <1>1, <1>2, <1>3, <1>4

(* The op a failure names.                                                  *)
LEMMA LastOpOK ==
    ASSUME NEW h \in Seq(Operation)
    PROVE  /\ Sequence!LastOp(h) \in Operation \cup {NoOp}
           /\ Loop!LastOp(h) \in Operation \cup {NoOp}
  BY DEF Sequence!LastOp, Loop!LastOp
-----------------------------------------------------------------------------
(* The steps of a sequence keep the types.                                  *)
LEMMA DriveTypes ==
    ASSUME TypeOK, Drive
    PROVE  TypeOK'
  <1>1. mode = "sequence" /\ mode' = "sequence" /\ Sequence!Next
        /\ UNCHANGED <<start, failed, stop, expired, streak>>
        /\ UNCHANGED <<refKind, current, budget, size, at, replays>>
    BY DEF Drive, loop, search
  <1>2. SharedOK /\ plan \in Sequence!Plan
        /\ source \in [remaining : Nat, rest : Seq(Operation)]
        /\ log \in Seq([before : World, answer : Answers, after : World])
        /\ (pc = "apply" => op \in Operation)
    BY <1>1 DEF TypeOK, SequenceOK
  <1>3. steps \in Nat /\ history \in Seq(Operation) /\ world \in World
        /\ coverage \in Coverage /\ op \in Operation \cup {NoOp}
        /\ report \in Report \cup {NoFailure}
    BY <1>1, <1>2 DEF SharedOK
  <1>4. plan.mix \in Mix /\ plan.list \in Seq(Operation) /\ plan.every \in Nat
        /\ plan.fixed \in BOOLEAN /\ plan.ops \in Nat
    BY <1>2, SameDraws DEF Sequence!Plan
  <1>5. SUFFICES /\ plan' = plan
                 /\ source' \in [remaining : Nat, rest : Seq(Operation)]
                 /\ pc' \in {"resolve", "next", "apply", "sweep", "done"}
                 /\ log' \in Seq([before : World, answer : Answers, after : World])
                 /\ world' \in World /\ op' \in Operation \cup {NoOp}
                 /\ steps' \in Nat /\ history' \in Seq(Operation)
                 /\ coverage' \in Coverage /\ report' \in Report \cup {NoFailure}
                 /\ pc' = "done" => report' \in Report
                 /\ pc' = "apply" => op' \in Operation
    BY <1>1, <1>2 DEF TypeOK, SharedOK, SequenceOK, EnduranceOK, ScenarioOK, SearchOK
  <1>6. ASSUME NEW s \in Nat, NEW o \in Operation \cup {NoOp}, NEW k \in FailureKind,
               report' = Sequence!FailReport(s, o, history, k)
        PROVE  report' \in Report
    BY <1>3, <1>6, ReportOK
  <1>7. CASE Sequence!ResolveMix
    <2>1. Infra("mix") \in FailureKind /\ Sequence!Infra("mix") = Infra("mix")
      BY ReportOK
    <2>2. QED
      BY <1>2, <1>3, <1>6, <1>7, <2>1 DEF Sequence!ResolveMix, Sequence!Fail
  <1>8. CASE Sequence!Draw
    <2>1. PICK k \in Sequence!Drawable(plan.mix, world) :
            \E o \in Generate(world, k) : Sequence!Begin(o)
      BY <1>8 DEF Sequence!Draw
    <2>2. PICK o \in Generate(world, k) : Sequence!Begin(o)
      BY <2>1
    <2>3. k \in OpKind
      BY <1>3, <1>4, <2>1, SameDraws, DrawnByWeight
    <2>4. o \in Operation
      BY <1>3, <2>2, <2>3, HarnessAssumption
    <2>5. source' \in [remaining : Nat, rest : Seq(Operation)]
      BY <1>2, <1>8 DEF Sequence!Draw
    <2>6. op' = o /\ history' = Append(history, o) /\ steps' = steps + 1 /\ pc' = "apply"
      BY <2>2 DEF Sequence!Begin
    <2>7. QED
      BY <1>2, <1>3, <1>8, <2>4, <2>5, <2>6 DEF Sequence!Draw
  <1>9. CASE Sequence!Starve
    <2>1. Infra("draw") \in FailureKind /\ Sequence!Infra("draw") = Infra("draw")
      BY ReportOK
    <2>2. QED
      BY <1>2, <1>3, <1>6, <1>9, <2>1, LastOpOK DEF Sequence!Starve, Sequence!Fail
  <1>10. CASE Sequence!TakeFixed
    <2>1. Head(source.rest) \in Operation /\ Tail(source.rest) \in Seq(Operation)
      BY <1>2, <1>10 DEF Sequence!TakeFixed
    <2>2. source' \in [remaining : Nat, rest : Seq(Operation)]
      BY <1>2, <1>10, <2>1 DEF Sequence!TakeFixed
    <2>3. op' = Head(source.rest) /\ history' = Append(history, Head(source.rest))
            /\ steps' = steps + 1 /\ pc' = "apply"
      BY <1>10 DEF Sequence!TakeFixed, Sequence!Begin
    <2>4. QED
      BY <1>2, <1>3, <1>10, <2>1, <2>2, <2>3 DEF Sequence!TakeFixed
  <1>11. CASE Sequence!Finish
    <2>1. PassReport(steps) \in Report /\ Sequence!PassReport(steps) = PassReport(steps)
      BY <1>3, ReportOK
    <2>2. QED
      BY <1>2, <1>3, <1>11, <2>1 DEF Sequence!Finish, Sequence!Pass
  <1>12. CASE Sequence!ApplyOp
    <2>1. PICK r \in Apply(world, op) :
            /\ world' = r.world
            /\ log' = Append(log, [before |-> world, answer |-> r.answer[1], after |-> r.world])
            /\ \/ /\ r.answer[1] \in Sequence!Verdicts
                  /\ pc' = IF Sequence!Due(plan.every, steps) THEN "sweep" ELSE "next"
                  /\ UNCHANGED report
               \/ r.answer[1] = "bug" /\ Sequence!Fail(op, Sequence!Bug(r.answer[2]))
               \/ r.answer[1] = "infra" /\ Sequence!Fail(op, Sequence!Infra("apply"))
      BY <1>12 DEF Sequence!ApplyOp
    <2>2. op \in Operation
      BY <1>2, <1>12 DEF Sequence!ApplyOp
    <2>3. r.world \in World /\ r.answer[1] \in Answers /\ (r.answer[1] = "bug" => r.answer[2] \in BugDetail)
      BY <1>3, <2>1, <2>2, AnswerOK
    <2>4. [before |-> world, answer |-> r.answer[1], after |-> r.world]
             \in [before : World, answer : Answers, after : World]
      BY <1>3, <2>3
    <2>5. log' \in Seq([before : World, answer : Answers, after : World])
      BY <1>2, <2>1, <2>4
    <2>6. r.answer[1] = "bug" => Sequence!Bug(r.answer[2]) \in FailureKind
      BY <2>3, ReportOK
    <2>7. Sequence!Infra("apply") \in FailureKind
      BY ReportOK
    <2>8. \/ pc' \in {"next", "sweep"} /\ report' = report
          \/ pc' = "done" /\ report' \in Report
      <3>1. CASE r.answer[1] = "bug" /\ Sequence!Fail(op, Sequence!Bug(r.answer[2]))
        <4>1. report' \in Report
          BY <1>3, <1>6, <2>6, <3>1 DEF Sequence!Fail
        <4>2. QED
          BY <3>1, <4>1 DEF Sequence!Fail
      <3>2. CASE Sequence!Fail(op, Sequence!Infra("apply"))
        <4>1. report' \in Report
          BY <1>3, <1>6, <2>7, <3>2 DEF Sequence!Fail
        <4>2. QED
          BY <3>2, <4>1 DEF Sequence!Fail
      <3>3. CASE pc' = (IF Sequence!Due(plan.every, steps) THEN "sweep" ELSE "next")
                 /\ UNCHANGED report
        BY <3>3
      <3>4. QED
        BY <2>1, <3>1, <3>2, <3>3
    <2>9. QED
      BY <1>2, <1>3, <1>12, <2>1, <2>3, <2>5, <2>8 DEF Sequence!ApplyOp
  <1>13. CASE Sequence!Sweep
    <2>1. coverage' \in Coverage
      BY <1>3, <1>13, SameWords, SweepsCount DEF Sequence!Sweep
    <2>2. ~Sequence!Clean(world) => Sequence!SweepFailure(world) \in FailureKind
      BY SameWords, FirstViolation DEF FailureKind
    <2>3. ASSUME ~Sequence!Clean(world), Sequence!Fail(op, Sequence!SweepFailure(world))
          PROVE  report' \in Report
      BY <1>3, <1>6, <2>2, <2>3 DEF Sequence!Fail
    <2>4. \/ pc' = "next" /\ report' = report
          \/ pc' = "done" /\ report' \in Report
      <3>1. CASE Sequence!Clean(world)
        BY <1>13, <3>1 DEF Sequence!Sweep
      <3>2. CASE ~Sequence!Clean(world)
        <4>1. Sequence!Fail(op, Sequence!SweepFailure(world))
          BY <1>13, <3>2 DEF Sequence!Sweep
        <4>2. QED
          BY <2>3, <3>2, <4>1 DEF Sequence!Fail
      <3>3. QED
        BY <3>1, <3>2
    <2>5. QED
      BY <1>2, <1>3, <1>13, <2>1, <2>4 DEF Sequence!Sweep
  <1>14. CASE Sequence!Done
    <2>1. pc' = "done" /\ report \in Report
      BY <1>1, <1>2, <1>14 DEF Sequence!Done, Sequence!vars, SharedOK
    <2>2. QED
      BY <1>2, <1>3, <1>14, <2>1 DEF Sequence!Done, Sequence!vars
  <1>15. QED
    BY <1>1, <1>7, <1>8, <1>9, <1>10, <1>11, <1>12, <1>13, <1>14 DEF Sequence!Next

(* The steps of an endurance run keep the types.                            *)
LEMMA EndureTypes ==
    ASSUME TypeOK, Endure
    PROVE  TypeOK'
  <1>1. mode = "endurance" /\ mode' = "endurance" /\ Loop!Next
        /\ UNCHANGED <<start, failed>>
        /\ UNCHANGED <<refKind, current, budget, size, at, replays>>
    BY DEF Endure, search
  <1>2. SharedOK /\ plan \in Loop!Config /\ source \in Nat
        /\ log \in Seq([answer : Answers, after : World])
        /\ (pc = "apply" => op \in Operation)
        /\ pc \in {"resolve", "top", "apply", "sweep", "advance", "final", "done"}
    BY <1>1 DEF TypeOK, EnduranceOK
  <1>3. steps \in Nat /\ history \in Seq(Operation) /\ world \in World
        /\ coverage \in Coverage /\ op \in Operation \cup {NoOp}
        /\ report \in Report \cup {NoFailure}
        /\ stop \in BOOLEAN /\ expired \in BOOLEAN /\ streak \in Nat
        /\ (pc = "done" => report \in Report)
    BY <1>1, <1>2 DEF SharedOK
  <1>4. plan.mix \in Mix /\ plan.every \in Nat /\ plan.maxInfra \in Nat
    BY <1>2, SameDraws DEF Loop!Config
  <1>5. SUFFICES /\ plan' = plan /\ source' \in Nat
                 /\ pc' \in {"resolve", "top", "apply", "sweep", "advance", "final", "done"}
                 /\ log' \in Seq([answer : Answers, after : World])
                 /\ world' \in World /\ op' \in Operation \cup {NoOp}
                 /\ steps' \in Nat /\ history' \in Seq(Operation)
                 /\ coverage' \in Coverage /\ report' \in Report \cup {NoFailure}
                 /\ pc' = "done" => report' \in Report
                 /\ pc' = "apply" => op' \in Operation
                 /\ stop' \in BOOLEAN /\ expired' \in BOOLEAN /\ streak' \in Nat
    BY <1>1, <1>2 DEF TypeOK, SharedOK, SequenceOK, EnduranceOK, ScenarioOK, SearchOK
  <1>6. ASSUME NEW o \in Operation \cup {NoOp}, NEW k \in FailureKind, Loop!Fail(o, k)
        PROVE  pc' = "done" /\ report' \in Report
    BY <1>3, <1>6, ReportOK DEF Loop!Fail
  <1>7. CASE Loop!ResolveMix
    <2>1. \/ pc' = "top" /\ report' = report
          \/ pc' = "done" /\ report' \in Report
      <3>1. CASE Loop!Fail(NoOp, Loop!Infra("mix"))
        BY <1>6, <3>1, ReportOK
      <3>2. QED
        BY <1>7, <3>1 DEF Loop!ResolveMix
    <2>2. QED
      BY <1>2, <1>3, <1>7, <2>1 DEF Loop!ResolveMix
  <1>8. CASE Loop!Draw
    <2>1. PICK k \in Loop!Drawable(plan.mix, world) :
            \E o \in Generate(world, k) : op' = o /\ history' = Append(history, o)
      BY <1>8 DEF Loop!Draw
    <2>2. PICK o \in Generate(world, k) : op' = o /\ history' = Append(history, o)
      BY <2>1
    <2>3. k \in OpKind
      BY <1>3, <1>4, <2>1, SameDraws, DrawnByWeight
    <2>4. o \in Operation
      BY <1>3, <2>2, <2>3, HarnessAssumption
    <2>5. source' \in Nat /\ steps' \in Nat /\ pc' = "apply"
      BY <1>2, <1>3, <1>8 DEF Loop!Draw
    <2>6. QED
      BY <1>2, <1>3, <1>8, <2>2, <2>4, <2>5 DEF Loop!Draw
  <1>9. CASE Loop!Starve
    <2>1. pc' = "done" /\ report' \in Report
      BY <1>3, <1>6, <1>9, ReportOK, LastOpOK DEF Loop!Starve
    <2>2. QED
      BY <1>2, <1>3, <1>9, <2>1 DEF Loop!Starve
  <1>10. CASE Loop!Break
    BY <1>2, <1>3, <1>10 DEF Loop!Break
  <1>11. CASE Loop!FinalSweep
    <2>1. coverage' \in Coverage
      BY <1>3, <1>11, SameWords, SweepsCount DEF Loop!FinalSweep
    <2>2. pc' = "done" /\ report' \in Report
      <3>1. CASE Loop!Clean(world)
        BY <1>3, <1>11, <3>1, ReportOK DEF Loop!FinalSweep
      <3>2. CASE ~Loop!Clean(world)
        <4>1. Loop!SweepFailure(world) \in FailureKind
          BY <3>2, SameWords, FirstViolation DEF FailureKind
        <4>2. Loop!Fail(Loop!LastOp(history), Loop!SweepFailure(world))
          BY <1>11, <3>2 DEF Loop!FinalSweep
        <4>3. QED
          BY <1>3, <1>6, <4>1, <4>2, LastOpOK
      <3>3. QED
        BY <3>1, <3>2
    <2>3. QED
      BY <1>2, <1>3, <1>11, <2>1, <2>2 DEF Loop!FinalSweep
  <1>12. CASE Loop!ApplyOp
    <2>1. PICK r \in Apply(world, op) :
            /\ world' = r.world
            /\ log' = Append(log, [answer |-> r.answer[1], after |-> r.world])
            /\ \/ /\ r.answer[1] \in Loop!Verdicts
                  /\ IF Loop!Due(plan.every, steps)
                       THEN pc' = "sweep" /\ UNCHANGED streak
                       ELSE pc' = "advance" /\ streak' = 0
                  /\ UNCHANGED report
               \/ /\ r.answer[1] = "infra" /\ Loop!Tolerates
                  /\ streak' = streak + 1
                  /\ pc' = "advance"
                  /\ UNCHANGED report
               \/ /\ r.answer[1] = "infra" /\ ~Loop!Tolerates
                  /\ Loop!Fail(op, Loop!Infra("apply"))
                  /\ UNCHANGED streak
               \/ /\ r.answer[1] = "bug"
                  /\ Loop!Fail(op, Loop!Bug(r.answer[2]))
                  /\ UNCHANGED streak
      BY <1>12 DEF Loop!ApplyOp
    <2>2. op \in Operation
      BY <1>2, <1>12 DEF Loop!ApplyOp
    <2>3. r.world \in World /\ r.answer[1] \in Answers /\ (r.answer[1] = "bug" => r.answer[2] \in BugDetail)
      BY <1>3, <2>1, <2>2, AnswerOK
    <2>4. [answer |-> r.answer[1], after |-> r.world] \in [answer : Answers, after : World]
      BY <2>3
    <2>5. log' \in Seq([answer : Answers, after : World])
      BY <1>2, <2>1, <2>4
    <2>6. r.answer[1] = "bug" => Loop!Bug(r.answer[2]) \in FailureKind
      BY <2>3, ReportOK
    <2>7. Loop!Infra("apply") \in FailureKind
      BY ReportOK
    <2>8. streak' \in Nat
      BY <1>3, <2>1
    <2>9. \/ pc' \in {"sweep", "advance"} /\ report' = report
          \/ pc' = "done" /\ report' \in Report
      <3>1. CASE r.answer[1] = "bug" /\ Loop!Fail(op, Loop!Bug(r.answer[2]))
        BY <1>6, <2>2, <2>6, <3>1
      <3>2. CASE Loop!Fail(op, Loop!Infra("apply"))
        BY <1>6, <2>2, <2>7, <3>2
      <3>3. QED
        BY <2>1, <3>1, <3>2
    <2>10. QED
      BY <1>2, <1>3, <1>12, <2>1, <2>3, <2>5, <2>8, <2>9 DEF Loop!ApplyOp
  <1>13. CASE Loop!Sweep
    <2>1. coverage' \in Coverage
      BY <1>3, <1>13, SameWords, SweepsCount DEF Loop!Sweep
    <2>2. /\ streak' \in Nat
          /\ \/ pc' = "advance" /\ report' = report
             \/ pc' = "done" /\ report' \in Report
      <3>1. CASE Loop!Clean(world)
        BY <1>13, <3>1 DEF Loop!Sweep
      <3>2. CASE ~Loop!Clean(world)
        <4>1. Loop!SweepFailure(world) \in FailureKind
          BY <3>2, SameWords, FirstViolation DEF FailureKind
        <4>2. Loop!Fail(op, Loop!SweepFailure(world)) /\ streak' = streak
          BY <1>13, <3>2 DEF Loop!Sweep
        <4>3. QED
          BY <1>3, <1>6, <4>1, <4>2
      <3>3. QED
        BY <3>1, <3>2
    <2>3. QED
      BY <1>2, <1>3, <1>13, <2>1, <2>2 DEF Loop!Sweep
  <1>14. CASE Loop!AdvanceBlocks
    <2>1. /\ world' \in World
          /\ \/ pc' = "top" /\ report' = report
             \/ pc' = "done" /\ report' \in Report
      <3>1. CASE plan.advance
        <4>1. PICK r \in Advance(world) :
                /\ world' = r.world
                /\ \/ r.ok /\ pc' = "top" /\ UNCHANGED report
                   \/ ~r.ok /\ Loop!Fail(Loop!LastOp(history), Loop!Infra("advance"))
          BY <1>14, <3>1 DEF Loop!AdvanceBlocks
        <4>2. world' \in World
          BY <1>3, <4>1, RunnerAssumption
        <4>3. CASE Loop!Fail(Loop!LastOp(history), Loop!Infra("advance"))
          BY <1>3, <1>6, <4>2, <4>3, ReportOK, LastOpOK
        <4>4. QED
          BY <4>1, <4>2, <4>3
      <3>2. CASE ~plan.advance
        BY <1>3, <1>14, <3>2 DEF Loop!AdvanceBlocks
      <3>3. QED
        BY <3>1, <3>2
    <2>2. QED
      BY <1>2, <1>3, <1>14, <2>1 DEF Loop!AdvanceBlocks
  <1>15. CASE Loop!Signal
    BY <1>2, <1>3, <1>15 DEF Loop!Signal
  <1>16. CASE Loop!Expire
    BY <1>2, <1>3, <1>16 DEF Loop!Expire
  <1>17. CASE Loop!Done
    BY <1>2, <1>3, <1>17 DEF Loop!Done, Loop!vars
  <1>18. QED
    BY <1>1, <1>7, <1>8, <1>9, <1>10, <1>11, <1>12, <1>13, <1>14, <1>15, <1>16, <1>17
    DEF Loop!Next, Loop!Loop

(* The steps of a scenario keep the types.                                  *)
LEMMA FollowTypes ==
    ASSUME TypeOK, Follow
    PROVE  TypeOK'
  <1>1. mode = "scenario" /\ mode' = "scenario" /\ Script!Next
        /\ UNCHANGED <<start, failed, source, op, stop, expired, streak>>
        /\ UNCHANGED <<refKind, current, budget, size, at, replays>>
    BY DEF Follow, loop, search
  <1>2. SharedOK /\ plan \in Texts
        /\ log \in Seq([answer : Answers, after : World])
        /\ pc \in {"next", "apply", "sweep", "done"}
        /\ (pc \in {"apply", "sweep"} => steps \in 1 .. Len(plan.steps))
    BY <1>1 DEF TypeOK, ScenarioOK
  <1>3. steps \in Nat /\ history \in Seq(Operation) /\ world \in World
        /\ coverage \in Coverage
        /\ report \in Report \cup {NoFailure} \cup Mismatches
        /\ (pc = "done" => report \in Report \cup Mismatches)
    BY <1>1, <1>2 DEF SharedOK
  <1>4. plan.steps \in Seq(Script!ScenarioStep) /\ Len(plan.steps) \in Nat
    BY <1>2 DEF Texts
  <1>5. SUFFICES /\ plan' = plan
                 /\ pc' \in {"next", "apply", "sweep", "done"}
                 /\ log' \in Seq([answer : Answers, after : World])
                 /\ pc' \in {"apply", "sweep"} => steps' \in 1 .. Len(plan.steps)
                 /\ world' \in World
                 /\ steps' \in Nat /\ history' \in Seq(Operation)
                 /\ coverage' \in Coverage
                 /\ report' \in Report \cup {NoFailure} \cup Mismatches
                 /\ pc' = "done" => report' \in Report \cup Mismatches
    BY <1>1, <1>2 DEF TypeOK, SharedOK, SequenceOK, EnduranceOK, ScenarioOK, SearchOK
  <1> DEFINE lines == plan.steps
  <1>6. \A i \in 1 .. Len(lines) : lines[i] \in Script!ScenarioStep
    <2> HIDE DEF lines
    <2>1. lines \in Seq(Script!ScenarioStep)
      BY <1>4 DEF lines
    <2>2. QED
      BY <2>1
  <1>7. \A i \in 1 .. Len(plan.steps) : plan.steps[i].op \in Operation
    BY <1>6 DEF Script!ScenarioStep
  <1>8. pc \in {"apply", "sweep"} => Script!Step.op \in Operation
    BY <1>2, <1>7 DEF Script!Step
  <1>9. ASSUME pc \in {"apply", "sweep"}, NEW k \in FailureKind \cup {Script!Mismatch}, Script!Fail(k)
        PROVE  pc' = "done" /\ report' \in Report \cup Mismatches
    <2>1. pc' = "done" /\ report' = [passed |-> FALSE, steps |-> steps, op |-> Script!Step.op,
                                     history |-> history, kind |-> k]
      BY <1>9 DEF Script!Fail, Script!FailReport
    <2>2. QED
      BY <1>3, <1>8, <1>9, <2>1 DEF Report, Mismatches
  <1>10. CASE Script!Begin
    <2>1. steps + 1 \in 1 .. Len(plan.steps)
      BY <1>3, <1>4, <1>10 DEF Script!Begin
    <2>2. plan.steps[steps + 1].op \in Operation
      BY <1>7, <2>1
    <2>3. QED
      BY <1>2, <1>3, <1>10, <2>1, <2>2 DEF Script!Begin
  <1>11. CASE Script!Finish
    <2>1. report' \in Report
      BY <1>3, <1>11, ReportOK DEF Script!Finish
    <2>2. QED
      BY <1>2, <1>3, <1>11, <2>1 DEF Script!Finish
  <1>12. CASE Script!ApplyOp
    <2>1. PICK r \in Apply(world, Script!Step.op) :
            /\ world' = r.world
            /\ log' = Append(log, [answer |-> r.answer[1], after |-> r.world])
            /\ \/ /\ r.answer[1] \in Script!Verdicts
                  /\ pc' = IF Script!Sweeps THEN "sweep" ELSE "next"
                  /\ UNCHANGED report
               \/ Script!Fail(Script!Mismatch)
               \/ r.answer[1] = "bug" /\ Script!Fail(Script!Bug(r.answer[2]))
               \/ Script!Fail(Script!Infra("apply"))
      BY <1>12 DEF Script!ApplyOp
    <2>2. pc = "apply" /\ Script!Step.op \in Operation
      BY <1>8, <1>12 DEF Script!ApplyOp
    <2>3. r.world \in World /\ r.answer[1] \in Answers /\ (r.answer[1] = "bug" => r.answer[2] \in BugDetail)
      BY <1>3, <2>1, <2>2, AnswerOK
    <2>4. [answer |-> r.answer[1], after |-> r.world] \in [answer : Answers, after : World]
      BY <2>3
    <2>5. log' \in Seq([answer : Answers, after : World])
      BY <1>2, <2>1, <2>4
    <2>6. r.answer[1] = "bug" => Script!Bug(r.answer[2]) \in FailureKind
      BY <2>3, ReportOK
    <2>7. Script!Infra("apply") \in FailureKind
      BY ReportOK
    <2>8. \/ pc' \in {"sweep", "next"} /\ report' = report
          \/ pc' = "done" /\ report' \in Report \cup Mismatches
      <3>1. CASE r.answer[1] = "bug" /\ Script!Fail(Script!Bug(r.answer[2]))
        BY <1>9, <2>2, <2>6, <3>1
      <3>2. CASE Script!Fail(Script!Infra("apply"))
        BY <1>9, <2>2, <2>7, <3>2
      <3>3. CASE Script!Fail(Script!Mismatch)
        BY <1>9, <2>2, <3>3
      <3>4. QED
        BY <2>1, <3>1, <3>2, <3>3
    <2>9. QED
      BY <1>2, <1>3, <1>12, <2>1, <2>3, <2>5, <2>8 DEF Script!ApplyOp
  <1>13. CASE Script!Sweep
    <2>1. coverage' \in Coverage
      BY <1>3, <1>13, SameWords, SweepsCount DEF Script!Sweep
    <2>2. \/ pc' = "next" /\ report' = report
          \/ pc' = "done" /\ report' \in Report \cup Mismatches
      <3>1. CASE Script!Clean(world)
        BY <1>13, <3>1 DEF Script!Sweep
      <3>2. CASE ~Script!Clean(world)
        <4>1. Script!SweepFailure(world) \in FailureKind
          BY <3>2, SameWords, FirstViolation DEF FailureKind
        <4>2. pc = "sweep" /\ Script!Fail(Script!SweepFailure(world))
          BY <1>13, <3>2 DEF Script!Sweep
        <4>3. QED
          BY <1>9, <4>1, <4>2
      <3>3. QED
        BY <3>1, <3>2
    <2>3. QED
      BY <1>2, <1>3, <1>13, <2>1, <2>2 DEF Script!Sweep
  <1>14. CASE Script!Done
    BY <1>2, <1>3, <1>14 DEF Script!Done, Script!vars
  <1>15. QED
    BY <1>1, <1>10, <1>11, <1>12, <1>13, <1>14 DEF Script!Next

(* The steps of a search keep the types.                                    *)
LEMMA ShrinkTypes ==
    ASSUME TypeOK, Shrink
    PROVE  TypeOK'
  <1>1. mode = "shrink" /\ mode' = "shrink" /\ Search!Next
        /\ UNCHANGED <<start, failed, source, world, op, steps, history, coverage, report, log>>
        /\ UNCHANGED <<stop, expired, streak>>
    BY DEF Shrink, driven, loop
  <1>2. SharedOK /\ plan \in Searches /\ pc \in {"reference", "chunk", "window", "single", "done"}
    BY <1>1 DEF TypeOK, SearchOK
  <1>3. current \in Seq(Operation) /\ Len(current) \in Nat
        /\ budget \in Nat /\ size \in Nat /\ at \in Nat /\ replays \in Nat
    BY <1>2 DEF SharedOK
  <1>4. SUFFICES /\ plan' = plan /\ pc' \in {"reference", "chunk", "window", "single", "done"}
                 /\ current' \in Seq(Operation)
                 /\ budget' \in Nat /\ size' \in Nat /\ at' \in Nat /\ replays' \in Nat
    BY <1>1, <1>2 DEF TypeOK, SharedOK, SequenceOK, EnduranceOK, ScenarioOK, SearchOK
  <1>5. \A from, to \in Nat : from <= Len(current) => Search!Without(from, to) \in Seq(Operation)
    <2>1. ASSUME NEW from \in Nat, NEW to \in Nat, from <= Len(current)
          PROVE  Search!Without(from, to) \in Seq(Operation)
      <3>1. SubSeq(current, 1, from) \in Seq(Operation)
        BY <1>3, <2>1, SubSeqProperties
      <3>2. SubSeq(current, to + 1, Len(current)) \in Seq(Operation)
        BY <1>3, SubSeqProperties
      <3>3. QED
        BY <3>1, <3>2, ConcatProperties DEF Search!Without
    <2>2. QED
      BY <2>1
  <1>6. ASSUME NEW c \in Seq(Operation), NEW stride \in Nat, Search!Try(c, stride)
        PROVE  /\ current' \in Seq(Operation) /\ pc' \in {pc, "done"}
               /\ budget' \in Nat /\ at' \in Nat /\ replays' \in Nat
    <2>1. CASE budget = 0
      BY <1>3, <1>6, <2>1 DEF Search!Try
    <2>2. CASE budget # 0
      BY <1>3, <1>6, <2>2 DEF Search!Try
    <2>3. QED
      BY <2>1, <2>2
  <1>7. CASE Search!Reference
    <2>1. size' \in Nat /\ pc' \in {"done", "chunk"}
      BY <1>3, <1>7 DEF Search!Reference
    <2>2. replays' \in Nat
      BY <1>3, <1>7 DEF Search!Reference
    <2>3. QED
      BY <1>2, <1>3, <1>7, <2>1, <2>2 DEF Search!Reference
  <1>8. CASE Search!NextSize
    BY <1>2, <1>3, <1>8 DEF Search!NextSize
  <1>9. CASE Search!Window
    <2> DEFINE end == IF at + size > Len(current) THEN Len(current) ELSE at + size
    <2>1. pc = "window" /\ at < Len(current) /\ plan' = plan /\ size' = size
          /\ (IF Search!Without(at, end) = <<>>
                THEN at' = at + size /\ UNCHANGED <<current, budget, pc, replays>>
                ELSE Search!Try(Search!Without(at, end), size))
      BY <1>9 DEF Search!Window
    <2>2. end \in Nat
      BY <1>3
    <2>3. at \in Nat /\ at <= Len(current)
      BY <1>3, <2>1
    <2>4. Search!Without(at, end) \in Seq(Operation)
      <3> HIDE DEF end
      <3>1. QED
        BY <1>5, <2>2, <2>3
    <2> HIDE DEF end
    <2>5. CASE Search!Without(at, end) = <<>>
      BY <1>2, <1>3, <2>1, <2>5
    <2>6. CASE Search!Without(at, end) # <<>>
      BY <1>2, <1>3, <1>6, <2>1, <2>4, <2>6
    <2>7. QED
      BY <2>5, <2>6
  <1>10. CASE Search!Halve
    <2>1. size \div 2 \in Nat
      BY <1>3
    <2>2. QED
      BY <1>2, <1>3, <1>10, <2>1 DEF Search!Halve
  <1>11. CASE Search!Single
    <2>1. CASE at < Len(current) /\ Len(current) > 1
      <3>1. Search!Try(Search!Without(at, at + 1), 1) /\ plan' = plan /\ size' = size
        BY <1>11, <2>1 DEF Search!Single
      <3>2. Search!Without(at, at + 1) \in Seq(Operation)
        BY <1>3, <1>5, <2>1
      <3>3. QED
        BY <1>2, <1>3, <1>6, <3>1, <3>2
    <2>2. CASE ~(at < Len(current) /\ Len(current) > 1)
      BY <1>2, <1>3, <1>11, <2>2 DEF Search!Single
    <2>3. QED
      BY <2>1, <2>2
  <1>12. CASE Search!Done
    BY <1>2, <1>3, <1>12 DEF Search!Done, Search!vars
  <1>13. QED
    BY <1>1, <1>7, <1>8, <1>9, <1>10, <1>11, <1>12 DEF Search!Next

(* What a driver starts with.                                               *)
LEMMA Fresh ==
    /\ SeedCoverage \in Coverage
    /\ Sequence!SeedCoverage = SeedCoverage /\ Loop!SeedCoverage = SeedCoverage
    /\ Script!SeedCoverage = SeedCoverage
    /\ \A n \in InvName, o \in CheckOutcome : SeedCoverage[n][o] = 0
  <1>1. SeedCoverage \in Coverage
    <2>1. [c \in CheckOutcome |-> 0] \in [CheckOutcome -> Nat]
      OBVIOUS
    <2>2. QED
      BY <2>1 DEF SeedCoverage, Coverage
  <1>2. Sequence!SeedCoverage = SeedCoverage /\ Loop!SeedCoverage = SeedCoverage
          /\ Script!SeedCoverage = SeedCoverage
    BY DEF SeedCoverage, Sequence!SeedCoverage, Loop!SeedCoverage, Script!SeedCoverage,
           CheckOutcome, Sequence!CheckOutcome, Loop!CheckOutcome, Script!CheckOutcome
  <1>3. \A n \in InvName, o \in CheckOutcome : SeedCoverage[n][o] = 0
    BY DEF SeedCoverage
  <1>4. QED
    BY <1>1, <1>2, <1>3

(* The types of the start.                                                  *)
LEMMA InitTypes ==
    ASSUME Init
    PROVE  TypeOK
  <1>1. /\ refKind = NoFailure /\ current = <<>>
        /\ budget = 0 /\ size = 0 /\ at = 0 /\ replays = 0
        /\ start = world /\ failed = NoFailure
    BY DEF Init
  <1>2. <<>> \in Seq(Operation)
    OBVIOUS
  <1>3. CASE mode = "sequence" /\ Sequence!Init /\ NoLoop
    <2>1. plan \in Sequence!Plan /\ world \in World
      BY <1>3, RunnerAssumption DEF Sequence!Init
    <2>2. plan.ops \in Nat /\ plan.list \in Seq(Operation)
      BY <2>1 DEF Sequence!Plan
    <2>3. source \in [remaining : Nat, rest : Seq(Operation)]
      BY <1>3, <2>2 DEF Sequence!Init
    <2>4. coverage \in Coverage
      BY <1>3, Fresh DEF Sequence!Init
    <2>5. pc \in {"resolve", "next"}
      BY <1>3 DEF Sequence!Init
    <2>6. op = NoOp /\ steps = 0 /\ history = <<>> /\ report = NoFailure /\ log = <<>>
          /\ stop = FALSE /\ expired = FALSE /\ streak = 0
      BY <1>3 DEF Sequence!Init, NoLoop
    <2>7. log \in Seq([before : World, answer : Answers, after : World])
      BY <2>6
    <2>8. history \in Seq(Operation) /\ current \in Seq(Operation)
      BY <1>1, <1>2, <2>6
    <2>9. pc # "done" /\ failed = NoFailure /\ start = world
           /\ {budget, size, at, replays} \subseteq Nat
      BY <1>1, <2>5
    <2>10. SharedOK
      BY <1>3, <2>1, <2>4, <2>6, <2>8, <2>9 DEF SharedOK
    <2>11. QED
      BY <1>3, <2>1, <2>3, <2>5, <2>7, <2>10
      DEF TypeOK, SequenceOK, EnduranceOK, ScenarioOK, SearchOK
  <1>4. CASE mode = "endurance" /\ Loop!Init
    <2>1. plan \in Loop!Config /\ world \in World
      BY <1>4, RunnerAssumption DEF Loop!Init
    <2>2. plan.maxOps \in Nat \cup {Unbounded}
      BY <2>1 DEF Loop!Config
    <2>3. source \in Nat
      BY <1>4, <2>2, RunnerAssumption DEF Loop!Init
    <2>4. coverage \in Coverage
      BY <1>4, Fresh DEF Loop!Init
    <2>5. pc = "resolve"
      BY <1>4 DEF Loop!Init
    <2>6. op = NoOp /\ steps = 0 /\ history = <<>> /\ report = NoFailure /\ log = <<>>
          /\ stop = FALSE /\ expired = FALSE /\ streak = 0
      BY <1>4 DEF Loop!Init
    <2>7. log \in Seq([answer : Answers, after : World])
      BY <2>6
    <2>8. history \in Seq(Operation) /\ current \in Seq(Operation)
      BY <1>1, <1>2, <2>6
    <2>9. pc # "done" /\ failed = NoFailure /\ start = world
           /\ {budget, size, at, replays} \subseteq Nat
      BY <1>1, <2>5
    <2>10. SharedOK
      BY <1>4, <2>1, <2>4, <2>6, <2>8, <2>9 DEF SharedOK
    <2>11. QED
      BY <1>4, <2>1, <2>3, <2>5, <2>7, <2>10
      DEF TypeOK, SequenceOK, EnduranceOK, ScenarioOK, SearchOK
  <1>5. CASE mode = "scenario" /\ Script!Init /\ NoLoop /\ source = 0 /\ op = NoOp
    <2>1. plan \in Texts /\ world \in World
      BY <1>5, RunnerAssumption DEF Script!Init, Texts
    <2>2. coverage \in Coverage
      BY <1>5, Fresh DEF Script!Init
    <2>3. pc = "next"
      BY <1>5 DEF Script!Init
    <2>4. op = NoOp /\ steps = 0 /\ history = <<>> /\ report = NoFailure /\ log = <<>>
          /\ stop = FALSE /\ expired = FALSE /\ streak = 0
      BY <1>5 DEF Script!Init, NoLoop
    <2>5. log \in Seq([answer : Answers, after : World])
      BY <2>4
    <2>6. history \in Seq(Operation) /\ current \in Seq(Operation)
      BY <1>1, <1>2, <2>4
    <2>7. pc # "done" /\ failed = NoFailure /\ start = world
           /\ {budget, size, at, replays} \subseteq Nat
      BY <1>1, <2>3
    <2>8. SharedOK
      BY <1>5, <2>1, <2>2, <2>4, <2>6, <2>7 DEF SharedOK
    <2>9. QED
      BY <1>5, <2>1, <2>3, <2>5, <2>8
      DEF TypeOK, SequenceOK, EnduranceOK, ScenarioOK, SearchOK
  <1>6. QED
    BY <1>3, <1>4, <1>5 DEF Init

(* What a run that failed leaves.                                           *)
LEMMA FailedRun ==
    ASSUME TypeOK, Failing, mode \in {"sequence", "endurance"}
    PROVE  /\ report \in Report /\ report.kind \in FailureKind
           /\ report.history \in Seq(Operation) /\ plan.every \in Nat
  <1>1. report \in Report
    BY DEF Failing, TypeOK, SharedOK
  <1>2. report.kind \in FailureKind /\ report.history \in Seq(Operation)
    BY <1>1 DEF Failing, Report
  <1>3. CASE mode = "sequence"
    BY <1>1, <1>2, <1>3 DEF TypeOK, SequenceOK, Sequence!Plan
  <1>4. CASE mode = "endurance"
    BY <1>1, <1>2, <1>4 DEF TypeOK, EnduranceOK, Loop!Config
  <1>5. QED
    BY <1>3, <1>4

(* The artifact has a step for each op, a check with it.                    *)
LEMMA StepsWritten ==
    ASSUME NEW ops \in Seq(Operation)
    PROVE  ArtifactSteps(ops) \in Seq(Script!ScenarioStep)
  <1> DEFINE line(i) == [op |-> ops[i], expect |-> "accepted", check |-> TRUE]
  <1>1. \A i \in 1 .. Len(ops) : line(i) \in Script!ScenarioStep
    BY DEF Script!ScenarioStep
  <1>2. ArtifactSteps(ops) = [i \in 1 .. Len(ops) |-> line(i)] /\ Len(ops) \in Nat
    BY DEF ArtifactSteps
  <1> HIDE DEF line
  <1>3. QED
    BY <1>1, <1>2

(* Handing a run over keeps the types: to the search, from it, and to the   *)
(* scenario of the artifact.                                                *)
LEMMA HandoverTypes ==
    ASSUME TypeOK, Minimize \/ ShrinkFixed \/ Redrive \/ ReplayArtifact
    PROVE  TypeOK'
  <1>1. SharedOK
    BY DEF TypeOK
  <1>2. ASSUME Failing, mode \in {"sequence", "endurance"},
               NEW as \in {"sequence", "endurance", "fixed"}, BeginSearch(as)
        PROVE  TypeOK'
    <2>1. report \in Report /\ report.kind \in FailureKind
          /\ report.history \in Seq(Operation) /\ plan.every \in Nat
      BY <1>2, FailedRun
    <2>2. failed' \in Failures
      BY <1>2, <2>1 DEF BeginSearch, Failures
    <2>3. PICK l \in Limits :
            /\ plan' = [history |-> report.history, kind |-> report.kind, every |-> plan.every,
                        world |-> start, limit |-> l]
            /\ budget' = l
      BY <1>2 DEF BeginSearch
    <2>4. start \in World /\ l \in Nat
      BY <1>1, RunnerAssumption DEF SharedOK
    <2>5. plan' \in Searches /\ budget' \in Nat
      BY <2>1, <2>3, <2>4 DEF Searches
    <2>6. mode' = "shrink" /\ pc' = "reference" /\ current' = report.history
          /\ UNCHANGED <<start, source, world, op, steps, history, coverage, report, log>>
          /\ UNCHANGED <<stop, expired, streak, refKind, size, at, replays>>
      BY <1>2 DEF BeginSearch, driven, loop
    <2>7. SharedOK'
      BY <1>1, <2>1, <2>2, <2>5, <2>6 DEF SharedOK
    <2>8. QED
      BY <2>5, <2>6, <2>7 DEF TypeOK, SequenceOK, EnduranceOK, ScenarioOK, SearchOK
  <1>3. CASE Minimize
    BY <1>2, <1>3 DEF Minimize, Generative
  <1>4. CASE ShrinkFixed
    BY <1>2, <1>4 DEF ShrinkFixed
  <1>5. ASSUME Setup, mode' \in {"sequence", "scenario"}, pc' = "next",
               failed' \in Failures \cup {NoFailure},
               stop' \in BOOLEAN, expired' \in BOOLEAN, streak' \in Nat
        PROVE  /\ SharedOK' /\ log' = <<>>
    BY <1>1, <1>5, Fresh DEF Setup, SharedOK
  <1>6. CASE Redrive
    <2>1. mode = "shrink" /\ mode' = "sequence" /\ pc' = "next" /\ Setup
          /\ failed' = failed /\ stop' = stop /\ expired' = expired /\ streak' = streak
      BY <1>6 DEF Redrive, loop
    <2>2. SharedOK' /\ log' = <<>>
      BY <1>1, <1>5, <2>1 DEF SharedOK
    <2>3. current \in Seq(Operation) /\ plan.every \in Nat
      BY <1>1, <2>1 DEF SharedOK, TypeOK, SearchOK, Searches
    <2>4. [shape |-> "Harness", list |-> <<>>] \in Mix
      BY DEF Mix
    <2>5. plan' = [fixed |-> TRUE, mix |-> [shape |-> "Harness", list |-> <<>>], ops |-> 0,
                   list |-> current, every |-> plan.every]
          /\ source' = [remaining |-> 0, rest |-> current]
      BY <1>6 DEF Redrive
    <2>6. plan' \in Sequence!Plan
      BY <2>3, <2>4, <2>5, SameDraws DEF Sequence!Plan
    <2>7. source' \in [remaining : Nat, rest : Seq(Operation)]
      BY <2>3, <2>5
    <2>8. log' \in Seq([before : World, answer : Answers, after : World])
      BY <2>2
    <2>9. QED
      BY <2>1, <2>2, <2>6, <2>7, <2>8
      DEF TypeOK, SequenceOK, EnduranceOK, ScenarioOK, SearchOK
  <1>7. CASE ReplayArtifact
    <2>1. /\ mode' = "scenario" /\ pc' = "next" /\ Setup
          /\ stop' = FALSE /\ expired' = FALSE /\ streak' = 0
      BY <1>7 DEF ReplayArtifact
    <2>2. mode \in {"sequence", "endurance", "shrink"}
      BY <1>7 DEF ReplayArtifact, Generative
    <2>3. CASE mode = "shrink"
      <3>1. failed' = failed
        BY <1>7, <2>3 DEF ReplayArtifact
      <3>2. plan'.steps = ArtifactSteps(current) /\ plan' = [steps |-> ArtifactSteps(current), every |-> 1]
        BY <1>7, <2>3 DEF ReplayArtifact
      <3>3. current \in Seq(Operation)
        BY <1>1 DEF SharedOK
      <3>4. ArtifactSteps(current) \in Seq(Script!ScenarioStep)
        BY <3>3, StepsWritten
      <3>5. plan' \in Texts
        BY <3>2, <3>4 DEF Texts
      <3>6. SharedOK' /\ log' = <<>>
        BY <1>1, <1>5, <2>1, <3>1 DEF SharedOK
      <3>7. log' \in Seq([answer : Answers, after : World])
        BY <3>6
      <3>8. QED
        BY <2>1, <3>5, <3>6, <3>7 DEF TypeOK, SequenceOK, EnduranceOK, ScenarioOK, SearchOK
    <2>4. CASE mode # "shrink"
      <3>1. Failing
        BY <1>7 DEF ReplayArtifact
      <3>2. report \in Report /\ report.history \in Seq(Operation) /\ plan.every \in Nat
        BY <2>2, <2>4, <3>1, FailedRun
      <3>3. failed' \in Failures
        BY <1>7, <2>2, <2>4, <3>2 DEF ReplayArtifact, Failures
      <3>4. plan' = [steps |-> ArtifactSteps(report.history), every |-> 1]
        BY <1>7, <2>4 DEF ReplayArtifact
      <3>5. ArtifactSteps(report.history) \in Seq(Script!ScenarioStep)
        BY <3>2, StepsWritten
      <3>6. plan' \in Texts
        BY <3>4, <3>5 DEF Texts
      <3>7. SharedOK' /\ log' = <<>>
        BY <1>5, <2>1, <3>3
      <3>8. log' \in Seq([answer : Answers, after : World])
        BY <3>7
      <3>9. QED
        BY <2>1, <3>6, <3>7, <3>8 DEF TypeOK, SequenceOK, EnduranceOK, ScenarioOK, SearchOK
    <2>5. QED
      BY <2>3, <2>4
  <1>8. QED
    BY <1>3, <1>4, <1>6, <1>7

(* Every step keeps the types.                                              *)
LEMMA TypeInvariant ==
    ASSUME TypeOK, [Next]_vars
    PROVE  TypeOK'
  <1>1. CASE UNCHANGED vars
    <2>1. UNCHANGED <<mode, start, failed, plan, pc>>
          /\ UNCHANGED <<source, world, op, steps, history, coverage, report, log>>
          /\ UNCHANGED <<stop, expired, streak, refKind, current, budget, size, at, replays>>
      BY <1>1 DEF vars, driven, loop, search
    <2>2. SharedOK'
      BY <2>1 DEF TypeOK, SharedOK
    <2>3. SequenceOK' /\ EnduranceOK'
      BY <2>1 DEF TypeOK, SequenceOK, EnduranceOK
    <2>4. ScenarioOK' /\ SearchOK'
      BY <2>1 DEF TypeOK, ScenarioOK, SearchOK
    <2>5. QED
      BY <2>2, <2>3, <2>4 DEF TypeOK
  <1>2. QED
    BY <1>1, DriveTypes, EndureTypes, FollowTypes, ShrinkTypes, HandoverTypes DEF Next
-----------------------------------------------------------------------------
(* A failing report that is made in this step.                              *)
FailsWith(k) ==
    /\ pc' = "done"
    /\ report'.passed = FALSE /\ report'.steps = steps /\ report'.history = history
    /\ report'.kind = k

PassesNow ==
    pc' = "done" /\ report'.passed = TRUE /\ report'.steps = steps /\ report'.kind = NoFailure

(* How each driver reports.                                                 *)
LEMMA Reports ==
    /\ \A o, k : /\ (Sequence!Fail(o, k) => FailsWith(k)) /\ (Loop!Fail(o, k) => FailsWith(k))
    /\ \A k : Script!Fail(k) => FailsWith(k)
    /\ Sequence!Pass => PassesNow
    /\ Loop!PassReport(steps).passed = TRUE /\ Loop!PassReport(steps).steps = steps
    /\ Loop!PassReport(steps).kind = NoFailure
    /\ Script!PassReport(steps).passed = TRUE /\ Script!PassReport(steps).steps = steps
    /\ Script!PassReport(steps).kind = NoFailure
  <1>1. \A o, k : Sequence!Fail(o, k) => FailsWith(k)
    BY DEF Sequence!Fail, Sequence!FailReport, FailsWith
  <1>2. \A o, k : Loop!Fail(o, k) => FailsWith(k)
    BY DEF Loop!Fail, Loop!FailReport, FailsWith
  <1>3. \A k : Script!Fail(k) => FailsWith(k)
    BY DEF Script!Fail, Script!FailReport, FailsWith
  <1>4. Sequence!Pass => PassesNow
    BY DEF Sequence!Pass, Sequence!PassReport, PassesNow
  <1>5. QED
    BY <1>1, <1>2, <1>3, <1>4 DEF Loop!PassReport, Script!PassReport

(* When a sweep is due, and what a verdict is, in every driver.             *)
LEMMA SameTests ==
    /\ \A e, s : /\ (Sequence!Due(e, s) <=> Due(e, s)) /\ (Loop!Due(e, s) <=> Due(e, s))
                 /\ (Script!Due(e, s) <=> Due(e, s))
    /\ Sequence!Verdicts = Verdicts /\ Loop!Verdicts = Verdicts /\ Script!Verdicts = Verdicts
    /\ Verdicts = {"accepted", "rejected"}
  BY DEF Sequence!Due, Loop!Due, Script!Due, Due,
         Sequence!Verdicts, Loop!Verdicts, Script!Verdicts, Verdicts

(* apply_op in a sequence: one entry, and a verdict or the end.             *)
LEMMA SequenceApplies ==
    ASSUME TypeOK, mode = "sequence", Sequence!ApplyOp
    PROVE  \E a \in Answers :
             /\ log' = Append(log, [before |-> world, answer |-> a, after |-> world'])
             /\ \/ /\ a \in Verdicts /\ report' = report
                   /\ pc' = IF Due(plan.every, steps) THEN "sweep" ELSE "next"
                \/ a = "bug" /\ report'.kind.kind = "Bug" /\ FailsWith(report'.kind)
                \/ a = "infra" /\ FailsWith(Infra("apply"))
  <1>1. PICK r \in Apply(world, op) :
          /\ world' = r.world
          /\ log' = Append(log, [before |-> world, answer |-> r.answer[1], after |-> r.world])
          /\ \/ /\ r.answer[1] \in Sequence!Verdicts
                /\ pc' = IF Sequence!Due(plan.every, steps) THEN "sweep" ELSE "next"
                /\ UNCHANGED report
             \/ r.answer[1] = "bug" /\ Sequence!Fail(op, Sequence!Bug(r.answer[2]))
             \/ r.answer[1] = "infra" /\ Sequence!Fail(op, Sequence!Infra("apply"))
    BY DEF Sequence!ApplyOp
  <1>2. world \in World /\ op \in Operation
    BY DEF TypeOK, SharedOK, SequenceOK, Sequence!ApplyOp
  <1>3. r.answer[1] \in Answers /\ (r.answer[1] = "bug" => r.answer[2] \in BugDetail)
    BY <1>1, <1>2, AnswerOK
  <1>4. CASE r.answer[1] \in Sequence!Verdicts /\ UNCHANGED report
             /\ pc' = IF Sequence!Due(plan.every, steps) THEN "sweep" ELSE "next"
    BY <1>1, <1>3, <1>4, SameTests
  <1>5. CASE r.answer[1] = "bug" /\ Sequence!Fail(op, Sequence!Bug(r.answer[2]))
    <2>1. FailsWith(Sequence!Bug(r.answer[2])) /\ Sequence!Bug(r.answer[2]).kind = "Bug"
      BY <1>3, <1>5, Reports, ReportOK
    <2>2. report'.kind = Sequence!Bug(r.answer[2])
      BY <2>1 DEF FailsWith
    <2>3. QED
      BY <1>1, <1>3, <1>5, <2>1, <2>2
  <1>6. CASE r.answer[1] = "infra" /\ Sequence!Fail(op, Sequence!Infra("apply"))
    BY <1>1, <1>3, <1>6, Reports, ReportOK
  <1>7. QED
    BY <1>1, <1>4, <1>5, <1>6

(* The same in an endurance run, which tolerates some infra failures.       *)
LEMMA LoopApplies ==
    ASSUME TypeOK, mode = "endurance", Loop!ApplyOp
    PROVE  \E a \in Answers :
             /\ log' = Append(log, [answer |-> a, after |-> world'])
             /\ \/ /\ a \in Verdicts /\ report' = report
                   /\ Due(plan.every, steps) /\ pc' = "sweep" /\ streak' = streak
                \/ /\ a \in Verdicts /\ report' = report
                   /\ ~Due(plan.every, steps) /\ pc' = "advance" /\ streak' = 0
                \/ /\ a = "infra" /\ streak < plan.maxInfra
                   /\ streak' = streak + 1 /\ pc' = "advance" /\ report' = report
                \/ /\ a = "infra" /\ ~(streak < plan.maxInfra)
                   /\ FailsWith(Infra("apply")) /\ streak' = streak
                \/ /\ a = "bug" /\ report'.kind.kind = "Bug" /\ FailsWith(report'.kind)
                   /\ streak' = streak
  <1>1. PICK r \in Apply(world, op) :
          /\ world' = r.world
          /\ log' = Append(log, [answer |-> r.answer[1], after |-> r.world])
          /\ \/ /\ r.answer[1] \in Loop!Verdicts
                /\ IF Loop!Due(plan.every, steps)
                     THEN pc' = "sweep" /\ UNCHANGED streak
                     ELSE pc' = "advance" /\ streak' = 0
                /\ UNCHANGED report
             \/ /\ r.answer[1] = "infra" /\ streak < plan.maxInfra
                /\ streak' = streak + 1
                /\ pc' = "advance"
                /\ UNCHANGED report
             \/ /\ r.answer[1] = "infra" /\ ~(streak < plan.maxInfra)
                /\ Loop!Fail(op, Loop!Infra("apply"))
                /\ UNCHANGED streak
             \/ /\ r.answer[1] = "bug"
                /\ Loop!Fail(op, Loop!Bug(r.answer[2]))
                /\ UNCHANGED streak
    BY DEF Loop!ApplyOp, Loop!Tolerates
  <1>2. world \in World /\ op \in Operation
    BY DEF TypeOK, SharedOK, EnduranceOK, Loop!ApplyOp
  <1>3. r.answer[1] \in Answers /\ (r.answer[1] = "bug" => r.answer[2] \in BugDetail)
    BY <1>1, <1>2, AnswerOK
  <1>4. CASE /\ r.answer[1] \in Loop!Verdicts /\ UNCHANGED report
             /\ IF Loop!Due(plan.every, steps)
                  THEN pc' = "sweep" /\ UNCHANGED streak
                  ELSE pc' = "advance" /\ streak' = 0
    BY <1>1, <1>3, <1>4, SameTests
  <1>5. CASE r.answer[1] = "bug" /\ Loop!Fail(op, Loop!Bug(r.answer[2])) /\ UNCHANGED streak
    <2>1. FailsWith(Loop!Bug(r.answer[2])) /\ Loop!Bug(r.answer[2]).kind = "Bug"
      BY <1>3, <1>5, Reports, ReportOK
    <2>2. report'.kind = Loop!Bug(r.answer[2])
      BY <2>1 DEF FailsWith
    <2>3. QED
      BY <1>1, <1>3, <1>5, <2>1, <2>2
  <1>6. CASE /\ r.answer[1] = "infra" /\ ~(streak < plan.maxInfra)
             /\ Loop!Fail(op, Loop!Infra("apply")) /\ UNCHANGED streak
    BY <1>1, <1>3, <1>6, Reports, ReportOK
  <1>7. CASE /\ r.answer[1] = "infra" /\ streak < plan.maxInfra
             /\ streak' = streak + 1 /\ pc' = "advance" /\ UNCHANGED report
    BY <1>1, <1>3, <1>7
  <1>8. QED
    BY <1>1, <1>4, <1>5, <1>6, <1>7

(* The same in a scenario, where a verdict has to be the expected one.      *)
LEMMA ScriptApplies ==
    ASSUME TypeOK, mode = "scenario", Script!ApplyOp
    PROVE  \E a \in Answers :
             /\ log' = Append(log, [answer |-> a, after |-> world'])
             /\ \/ /\ a \in Verdicts /\ plan.steps[steps].expect \in {"any", a}
                   /\ report' = report
                   /\ pc' = IF Script!Asked(steps) THEN "sweep" ELSE "next"
                \/ /\ a \in Verdicts /\ plan.steps[steps].expect \notin {"any", a}
                   /\ FailsWith(Script!Mismatch)
                \/ /\ a = "bug" /\ report'.kind.kind = "Bug" /\ report'.kind # Script!Mismatch
                   /\ FailsWith(report'.kind)
                \/ a = "infra" /\ FailsWith(Infra("apply"))
  <1>1. PICK r \in Apply(world, Script!Step.op) :
          /\ world' = r.world
          /\ log' = Append(log, [answer |-> r.answer[1], after |-> r.world])
          /\ \/ /\ r.answer[1] \in Script!Verdicts
                /\ plan.steps[steps].expect \in {"any", r.answer[1]}
                /\ pc' = IF Script!Asked(steps) THEN "sweep" ELSE "next"
                /\ UNCHANGED report
             \/ /\ r.answer[1] \in Script!Verdicts
                /\ plan.steps[steps].expect \notin {"any", r.answer[1]}
                /\ Script!Fail(Script!Mismatch)
             \/ r.answer[1] = "bug" /\ Script!Fail(Script!Bug(r.answer[2]))
             \/ r.answer[1] = "infra" /\ Script!Fail(Script!Infra("apply"))
    BY DEF Script!ApplyOp, Script!Meets, Script!Step, Script!Sweeps, Script!Asked
  <1>2. world \in World /\ steps \in 1 .. Len(plan.steps) /\ plan \in Texts
    BY DEF TypeOK, SharedOK, ScenarioOK, Script!ApplyOp
  <1>3. plan.steps \in Seq(Script!ScenarioStep)
    BY <1>2 DEF Texts
  <1>4. plan.steps[steps] \in Script!ScenarioStep
    <2> DEFINE lines == plan.steps
    <2> HIDE DEF lines
    <2>1. lines \in Seq(Script!ScenarioStep) /\ steps \in 1 .. Len(lines)
      BY <1>2, <1>3 DEF lines
    <2>2. lines[steps] \in Script!ScenarioStep
      BY <2>1
    <2>3. QED
      BY <2>2 DEF lines
  <1>5. Script!Step.op \in Operation
    BY <1>4 DEF Script!Step, Script!ScenarioStep
  <1>6. r.answer[1] \in Answers /\ (r.answer[1] = "bug" => r.answer[2] \in BugDetail)
    BY <1>1, <1>2, <1>5, AnswerOK
  <1>7. CASE r.answer[1] = "bug" /\ Script!Fail(Script!Bug(r.answer[2]))
    <2>1. FailsWith(Script!Bug(r.answer[2])) /\ Script!Bug(r.answer[2]).kind = "Bug"
          /\ Script!Bug(r.answer[2]) # Script!Mismatch
      BY <1>6, <1>7, Reports, ReportOK
    <2>2. report'.kind = Script!Bug(r.answer[2])
      BY <2>1 DEF FailsWith
    <2>3. QED
      BY <1>1, <1>6, <1>7, <2>1, <2>2
  <1>8. CASE r.answer[1] = "infra" /\ Script!Fail(Script!Infra("apply"))
    BY <1>1, <1>6, <1>8, Reports, ReportOK
  <1>9. CASE /\ r.answer[1] \in Script!Verdicts
             /\ plan.steps[steps].expect \notin {"any", r.answer[1]}
             /\ Script!Fail(Script!Mismatch)
    BY <1>1, <1>6, <1>9, Reports, SameTests
  <1>10. CASE /\ r.answer[1] \in Script!Verdicts
              /\ plan.steps[steps].expect \in {"any", r.answer[1]}
              /\ pc' = IF Script!Asked(steps) THEN "sweep" ELSE "next"
              /\ UNCHANGED report
    BY <1>1, <1>6, <1>10, SameTests
  <1>11. QED
    BY <1>1, <1>7, <1>8, <1>9, <1>10
-----------------------------------------------------------------------------
(* Every step keeps history, log and report in step with the position.      *)
LEMMA FlightInvariant ==
    ASSUME TypeOK, OneInFlight, [Next]_vars
    PROVE  OneInFlight'
  <1>1. TypeOK'
    BY TypeInvariant
  <1>2. SharedOK /\ steps \in Nat /\ history \in Seq(Operation)
        /\ Len(history) \in Nat
    BY DEF TypeOK, SharedOK
  <1> DEFINE Entry == IF mode = "sequence" THEN [before : World, answer : Answers, after : World]
                      ELSE [answer : Answers, after : World]
  <1>3. mode \in {"sequence", "endurance", "scenario"} => log \in Seq(Entry) /\ Len(log) \in Nat
    BY DEF TypeOK, SequenceOK, EnduranceOK, ScenarioOK
  <1> HIDE DEF Entry
  <1>4. mode # "shrink" =>
          /\ Len(history) = steps
          /\ Len(log) = IF pc = "apply" THEN steps - 1 ELSE steps
          /\ mode # "scenario" /\ pc \in {"apply", "sweep"} => op = history[steps]
          /\ pc = "sweep" => steps > 0 /\ log[steps].after = world /\ log[steps].answer \in Verdicts
          /\ pc = "done" => report.steps = steps /\ (~report.passed => report.history = history)
          /\ pc = "resolve" => steps = 0
    BY DEF OneInFlight
  <1>5. CASE UNCHANGED vars
    <2>1. UNCHANGED <<mode, pc, steps, history, log, op, report, world>>
      BY <1>5 DEF vars, driven
    <2>2. QED
      BY <2>1 DEF OneInFlight
  (* An op is begun. *)
  <1>6. ASSUME mode # "shrink", mode' = mode, pc \in {"next", "top"}, pc' = "apply",
               NEW o \in Operation, history' = Append(history, o), steps' = steps + 1,
               mode # "scenario" => op' = o, log' = log
        PROVE  OneInFlight'
    <2>1. Len(history') = steps' /\ history'[steps'] = o
      BY <1>2, <1>4, <1>6
    <2>2. Len(log') = steps' - 1
      BY <1>2, <1>3, <1>4, <1>6
    <2>3. QED
      BY <1>6, <2>1, <2>2 DEF OneInFlight
  (* It is applied. *)
  <1>7. ASSUME mode # "shrink", mode' = mode, pc = "apply", NEW a, NEW e,
               log' = Append(log, e), e \in Entry, e.answer = a, e.after = world',
               UNCHANGED <<history, steps, op>>,
               \/ pc' \in {"sweep", "next", "advance"} /\ (pc' = "sweep" => a \in Verdicts)
               \/ \E k : FailsWith(k)
        PROVE  OneInFlight'
    <2>1. Len(log') = steps' /\ steps' > 0 /\ log'[steps'] = e
      <3>1. mode \in {"sequence", "endurance", "scenario"}
        BY <1>2, <1>7 DEF SharedOK
      <3>2. log \in Seq(Entry) /\ Len(log) = steps - 1 /\ Len(log) \in Nat
        BY <1>3, <1>4, <1>7, <3>1
      <3>3. QED
        BY <1>2, <1>7, <3>2
    <2>2. pc' # "apply" /\ pc' # "resolve" /\ Len(history') = steps'
      BY <1>4, <1>7 DEF FailsWith
    <2>3. op' = op /\ history' = history /\ steps' = steps
      BY <1>7
    <2>4. mode # "scenario" => op = history[steps]
      BY <1>4, <1>7
    <2>5. pc' = "done" => report'.steps = steps' /\ report'.history = history'
      BY <1>7, <2>3 DEF FailsWith
    <2>6. pc' = "sweep" => log'[steps'].after = world' /\ log'[steps'].answer \in Verdicts
      BY <1>7, <2>1 DEF FailsWith
    <2>7. QED
      BY <1>7, <2>1, <2>2, <2>3, <2>4, <2>5, <2>6 DEF OneInFlight
  (* Nothing is begun or applied. *)
  <1>8. ASSUME mode # "shrink", mode' = mode, pc # "apply", pc' \notin {"apply", "sweep", "resolve"},
               UNCHANGED <<history, steps, log>>,
               pc' = "done" => PassesNow \/ (\E k : FailsWith(k)) \/ (pc = "done" /\ report' = report)
        PROVE  OneInFlight'
    <2>1. Len(history') = steps' /\ Len(log') = steps'
      BY <1>4, <1>8
    <2>2. pc' = "done" => report'.steps = steps' /\ (~report'.passed => report'.history = history')
      BY <1>4, <1>8 DEF PassesNow, FailsWith
    <2>3. QED
      BY <1>8, <2>1, <2>2 DEF OneInFlight
  <1>9. CASE Drive
    <2>1. mode = "sequence" /\ mode' = mode /\ Sequence!Next
      BY <1>9 DEF Drive
    <2>2. CASE Sequence!ResolveMix
      <3>1. pc = "resolve" /\ UNCHANGED <<history, steps, log>>
            /\ (pc' = "next" \/ \E k : FailsWith(k))
        BY <2>2, Reports DEF Sequence!ResolveMix
      <3>2. QED
        BY <1>8, <2>1, <3>1 DEF FailsWith
    <2>3. CASE Sequence!Draw
      <3>1. PICK k \in Sequence!Drawable(plan.mix, world) :
              \E o \in Generate(world, k) : Sequence!Begin(o)
        BY <2>3 DEF Sequence!Draw
      <3>2. PICK o \in Generate(world, k) : Sequence!Begin(o)
        BY <3>1
      <3>3. pc = "next" /\ pc' = "apply" /\ op' = o /\ history' = Append(history, o)
            /\ steps' = steps + 1 /\ log' = log
        BY <2>3, <3>2 DEF Sequence!Draw, Sequence!Begin
      <3>4. o \in Operation
        BY <1>1, <2>1, <3>3 DEF TypeOK, SequenceOK
      <3>5. QED
        BY <1>6, <2>1, <3>3, <3>4
    <2>4. CASE Sequence!TakeFixed
      <3>3. pc = "next" /\ pc' = "apply" /\ op' = Head(source.rest)
            /\ history' = Append(history, Head(source.rest))
            /\ steps' = steps + 1 /\ log' = log
        BY <2>4 DEF Sequence!TakeFixed, Sequence!Begin
      <3>4. Head(source.rest) \in Operation
        BY <1>1, <2>1, <3>3 DEF TypeOK, SequenceOK
      <3>5. QED
        BY <1>6, <2>1, <3>3, <3>4
    <2>5. CASE Sequence!Starve
      <3>1. pc = "next" /\ UNCHANGED <<history, steps, log>>
            /\ FailsWith(Sequence!Infra("draw"))
        BY <2>5, Reports DEF Sequence!Starve
      <3>2. QED
        BY <1>8, <2>1, <3>1 DEF FailsWith
    <2>6. CASE Sequence!Finish
      <3>1. pc = "next" /\ UNCHANGED <<history, steps, log>> /\ PassesNow
        BY <2>6, Reports DEF Sequence!Finish
      <3>2. QED
        BY <1>8, <2>1, <3>1 DEF PassesNow
    <2>7. CASE Sequence!ApplyOp
      <3>1. PICK a \in Answers :
              /\ log' = Append(log, [before |-> world, answer |-> a, after |-> world'])
              /\ \/ /\ a \in Verdicts /\ report' = report
                    /\ pc' = IF Due(plan.every, steps) THEN "sweep" ELSE "next"
                 \/ \E k : FailsWith(k)
        BY <2>1, <2>7, SequenceApplies
      <3>2. pc = "apply" /\ UNCHANGED <<history, steps, op>>
        BY <2>7 DEF Sequence!ApplyOp
      <3> DEFINE e == [before |-> world, answer |-> a, after |-> world']
      <3>3. e \in Entry /\ e.answer = a /\ e.after = world'
        BY <1>1, <1>2, <2>1 DEF Entry, TypeOK, SharedOK
      <3>4. log' = Append(log, e)
        BY <3>1
      <3> HIDE DEF e
      <3>5. \/ pc' \in {"sweep", "next", "advance"} /\ (pc' = "sweep" => a \in Verdicts)
            \/ \E k : FailsWith(k)
        BY <3>1
      <3>6. QED
        BY <1>7, <2>1, <3>2, <3>3, <3>4, <3>5
    <2>8. CASE Sequence!Sweep
      <3>1. pc = "sweep" /\ UNCHANGED <<history, steps, log>>
            /\ (pc' = "next" \/ FailsWith(Sequence!SweepFailure(world)))
        BY <2>8, Reports DEF Sequence!Sweep
      <3>2. QED
        BY <1>8, <2>1, <3>1 DEF FailsWith
    <2>9. CASE Sequence!Done
      <3>1. pc = "done" /\ UNCHANGED <<history, steps, log, pc, report>>
        BY <2>9 DEF Sequence!Done, Sequence!vars
      <3>2. QED
        BY <1>8, <2>1, <3>1
    <2>10. QED
      BY <2>1, <2>2, <2>3, <2>4, <2>5, <2>6, <2>7, <2>8, <2>9 DEF Sequence!Next
  <1>10. CASE Endure
    <2>1. mode = "endurance" /\ mode' = mode /\ Loop!Next
      BY <1>10 DEF Endure
    <2>2. CASE Loop!ResolveMix
      <3>1. pc = "resolve" /\ UNCHANGED <<history, steps, log>>
            /\ (pc' = "top" \/ \E k : FailsWith(k))
        BY <2>2, Reports DEF Loop!ResolveMix
      <3>2. QED
        BY <1>8, <2>1, <3>1 DEF FailsWith
    <2>3. CASE Loop!Draw
      <3>1. pc = "top" /\ pc' = "apply" /\ steps' = steps + 1 /\ log' = log
            /\ \E o : op' = o /\ history' = Append(history, o)
        BY <2>3 DEF Loop!Draw
      <3>2. op' \in Operation
        BY <1>1, <2>1, <3>1 DEF TypeOK, EnduranceOK
      <3>3. history' = Append(history, op')
        BY <3>1
      <3>4. QED
        BY <1>6, <2>1, <3>1, <3>2, <3>3
    <2>4. CASE Loop!Starve
      <3>1. pc = "top" /\ UNCHANGED <<history, steps, log>> /\ \E k : FailsWith(k)
        BY <2>4, Reports DEF Loop!Starve
      <3>2. QED
        BY <1>8, <2>1, <3>1 DEF FailsWith
    <2>5. CASE Loop!Break
      <3>1. pc = "top" /\ pc' = "final" /\ UNCHANGED <<history, steps, log>>
        BY <2>5 DEF Loop!Break
      <3>2. QED
        BY <1>8, <2>1, <3>1
    <2>6. CASE Loop!FinalSweep
      <3>1. pc = "final" /\ UNCHANGED <<history, steps, log>> /\ pc' = "done"
            /\ (PassesNow \/ \E k : FailsWith(k))
        <4>1. CASE Loop!Clean(world)
          BY <2>6, <4>1, Reports DEF Loop!FinalSweep, PassesNow
        <4>2. CASE ~Loop!Clean(world)
          <5>1. FailsWith(Loop!SweepFailure(world))
            BY <2>6, <4>2, Reports DEF Loop!FinalSweep
          <5>2. QED
            BY <2>6, <5>1 DEF Loop!FinalSweep, FailsWith
        <4>3. QED
          BY <4>1, <4>2
      <3>2. QED
        BY <1>8, <2>1, <3>1
    <2>7. CASE Loop!ApplyOp
      <3>1. PICK a \in Answers :
              /\ log' = Append(log, [answer |-> a, after |-> world'])
              /\ \/ a \in Verdicts /\ pc' \in {"sweep", "advance"}
                 \/ pc' = "advance"
                 \/ \E k : FailsWith(k)
        BY <2>1, <2>7, LoopApplies
      <3>2. pc = "apply" /\ UNCHANGED <<history, steps, op>>
        BY <2>7 DEF Loop!ApplyOp
      <3> DEFINE e == [answer |-> a, after |-> world']
      <3>3. e \in Entry /\ e.answer = a /\ e.after = world'
        BY <1>1, <1>2, <2>1 DEF Entry, TypeOK, SharedOK
      <3>4. log' = Append(log, e)
        BY <3>1
      <3> HIDE DEF e
      <3>5. \/ pc' \in {"sweep", "next", "advance"} /\ (pc' = "sweep" => a \in Verdicts)
            \/ \E k : FailsWith(k)
        BY <3>1
      <3>6. QED
        BY <1>7, <2>1, <3>2, <3>3, <3>4, <3>5
    <2>8. CASE Loop!Sweep
      <3>1. pc = "sweep" /\ UNCHANGED <<history, steps, log>>
            /\ (pc' = "advance" \/ FailsWith(Loop!SweepFailure(world)))
        BY <2>8, Reports DEF Loop!Sweep
      <3>2. QED
        BY <1>8, <2>1, <3>1 DEF FailsWith
    <2>9. CASE Loop!AdvanceBlocks
      <3>1. pc = "advance" /\ UNCHANGED <<history, steps, log>>
            /\ (pc' = "top" \/ \E k : FailsWith(k))
        BY <2>9, Reports DEF Loop!AdvanceBlocks
      <3>2. QED
        BY <1>8, <2>1, <3>1 DEF FailsWith
    <2>10. CASE Loop!Done
      <3>1. pc = "done" /\ UNCHANGED <<history, steps, log, pc, report>>
        BY <2>10 DEF Loop!Done, Loop!vars
      <3>2. QED
        BY <1>8, <2>1, <3>1
    <2>11. CASE Loop!Signal \/ Loop!Expire
      <3>1. UNCHANGED <<mode, pc, steps, history, log, op, report, world>>
        BY <2>1, <2>11 DEF Loop!Signal, Loop!Expire
      <3>2. QED
        BY <3>1 DEF OneInFlight
    <2>12. QED
      BY <2>1, <2>2, <2>3, <2>4, <2>5, <2>6, <2>7, <2>8, <2>9, <2>10, <2>11
      DEF Loop!Next, Loop!Loop
  <1>11. CASE Follow
    <2>1. mode = "scenario" /\ mode' = mode /\ Script!Next /\ op' = op
      BY <1>11 DEF Follow
    <2>2. CASE Script!Begin
      <3>1. pc = "next" /\ pc' = "apply" /\ steps' = steps + 1 /\ log' = log
            /\ history' = Append(history, plan.steps[steps + 1].op)
        BY <2>2 DEF Script!Begin
      <3>2. plan.steps[steps + 1].op \in Operation
        <4> DEFINE lines == plan.steps
        <4>1. steps + 1 \in 1 .. Len(lines) /\ lines \in Seq(Script!ScenarioStep)
          BY <1>2, <2>1, <2>2 DEF Script!Begin, TypeOK, ScenarioOK, Texts
        <4> HIDE DEF lines
        <4>2. lines[steps + 1] \in Script!ScenarioStep
          BY <4>1
        <4>3. QED
          BY <4>2 DEF lines, Script!ScenarioStep
      <3>3. QED
        BY <1>6, <2>1, <3>1, <3>2
    <2>3. CASE Script!Finish
      <3>1. pc = "next" /\ UNCHANGED <<history, steps, log>> /\ PassesNow
        BY <2>3, Reports DEF Script!Finish, PassesNow
      <3>2. QED
        BY <1>8, <2>1, <3>1 DEF PassesNow
    <2>4. CASE Script!ApplyOp
      <3>1. PICK a \in Answers :
              /\ log' = Append(log, [answer |-> a, after |-> world'])
              /\ \/ a \in Verdicts /\ pc' \in {"sweep", "next"}
                 \/ \E k : FailsWith(k)
        BY <2>1, <2>4, ScriptApplies
      <3>2. pc = "apply" /\ UNCHANGED <<history, steps, op>>
        BY <2>1, <2>4 DEF Script!ApplyOp
      <3> DEFINE e == [answer |-> a, after |-> world']
      <3>3. e \in Entry /\ e.answer = a /\ e.after = world'
        BY <1>1, <1>2, <2>1 DEF Entry, TypeOK, SharedOK
      <3>4. log' = Append(log, e)
        BY <3>1
      <3> HIDE DEF e
      <3>5. \/ pc' \in {"sweep", "next", "advance"} /\ (pc' = "sweep" => a \in Verdicts)
            \/ \E k : FailsWith(k)
        BY <3>1
      <3>6. QED
        BY <1>7, <2>1, <3>2, <3>3, <3>4, <3>5
    <2>5. CASE Script!Sweep
      <3>1. pc = "sweep" /\ UNCHANGED <<history, steps, log>>
            /\ (pc' = "next" \/ FailsWith(Script!SweepFailure(world)))
        BY <2>5, Reports DEF Script!Sweep
      <3>2. QED
        BY <1>8, <2>1, <3>1 DEF FailsWith
    <2>6. CASE Script!Done
      <3>1. pc = "done" /\ UNCHANGED <<history, steps, log, pc, report>>
        BY <2>6 DEF Script!Done, Script!vars
      <3>2. QED
        BY <1>8, <2>1, <3>1
    <2>7. QED
      BY <2>1, <2>2, <2>3, <2>4, <2>5, <2>6 DEF Script!Next
  <1>12. CASE Shrink \/ Minimize \/ ShrinkFixed
    <2>1. mode' = "shrink"
      BY <1>12 DEF Shrink, Minimize, ShrinkFixed, BeginSearch
    <2>2. QED
      BY <2>1 DEF OneInFlight
  <1>13. CASE Redrive \/ ReplayArtifact
    <2>1. steps' = 0 /\ history' = <<>> /\ log' = <<>> /\ pc' = "next"
      BY <1>13 DEF Redrive, ReplayArtifact, Setup
    <2>2. QED
      BY <2>1 DEF OneInFlight
  <1>14. QED
    BY <1>5, <1>9, <1>10, <1>11, <1>12, <1>13 DEF Next
-----------------------------------------------------------------------------
(* Every step of a scenario keeps what is behind it expected and clean.     *)
LEMMA ScriptInvariant ==
    ASSUME TypeOK, OneInFlight, ScriptInv, [Next]_vars
    PROVE  ScriptInv'
  <1> DEFINE Good(i) == Script!Expected(i) /\ (Script!Asked(i) => Script!Clean(log[i].after))
  <1>1. SUFFICES ASSUME mode' = "scenario" PROVE ScriptInv'
    BY DEF ScriptInv
  <1>2. CASE UNCHANGED vars
    <2>1. UNCHANGED <<mode, plan, pc, steps, history, log, report, world>>
      BY <1>2 DEF vars, driven
    <2>2. QED
      BY <2>1 DEF ScriptInv, Script!Expected, Script!Asked, Script!Clean, Script!Violated,
        Script!PassMeetsEveryExpectation, Script!Passed, Script!FailureIsTheFirstBroken, Script!Failed
  <1>3. CASE ReplayArtifact
    <2>1. steps' = 0 /\ history' = <<>> /\ log' = <<>> /\ pc' = "next" /\ Len(plan'.steps) \in Nat
      <3>1. TypeOK'
        BY TypeInvariant
      <3>2. QED
        BY <1>1, <1>3, <3>1 DEF ReplayArtifact, Setup, TypeOK, ScenarioOK, Texts
    <2>2. QED
      BY <2>1 DEF ScriptInv, Script!PassMeetsEveryExpectation, Script!Passed,
        Script!FailureIsTheFirstBroken, Script!Failed
  <1>4. CASE Follow
    <2>1. mode = "scenario" /\ Script!Next
      BY <1>4 DEF Follow
    <2>2. /\ steps \in Nat /\ log \in Seq([answer : Answers, after : World]) /\ Len(log) \in Nat
          /\ Len(plan.steps) \in Nat /\ world \in World
      BY <2>1 DEF TypeOK, SharedOK, ScenarioOK, Texts
    <2>3. /\ Len(log) = IF pc = "apply" THEN steps - 1 ELSE steps
          /\ pc = "sweep" => steps > 0 /\ log[steps].after = world /\ log[steps].answer \in Verdicts
      BY <2>1 DEF OneInFlight
    <2>4. /\ steps <= Len(plan.steps)
          /\ \A i \in 1 .. Len(log) :
               i < steps \/ pc = "next" \/ (pc = "done" /\ report.passed) => Good(i)
          /\ pc = "sweep" => Script!Expected(steps) /\ Script!Asked(steps)
          /\ Script!PassMeetsEveryExpectation /\ Script!FailureIsTheFirstBroken
      BY <2>1 DEF ScriptInv
    (* What is behind stays as it is. *)
    <2>5. ASSUME plan' = plan, NEW i \in 1 .. Len(log), log'[i] = log[i]
          PROVE  /\ Script!Expected(i)' <=> Script!Expected(i)
                 /\ Script!Asked(i)' <=> Script!Asked(i)
                 /\ Script!Clean(log[i].after)' <=> Script!Clean(log[i].after)
                 /\ Good(i)' <=> Good(i)
      <3>1. Script!Expected(i)' <=> Script!Expected(i)
        BY <2>5 DEF Script!Expected
      <3>2. Script!Asked(i)' <=> Script!Asked(i)
        BY <2>5 DEF Script!Asked
      <3>3. Script!Clean(log[i].after)' <=> Script!Clean(log[i].after)
        BY <2>5 DEF Script!Clean, Script!Violated
      <3>4. QED
        BY <3>1, <3>2, <3>3
    <2>6. CASE Script!Begin
      <3>1. pc = "next" /\ pc' = "apply" /\ steps' = steps + 1 /\ log' = log /\ plan' = plan
            /\ steps < Len(plan.steps)
        BY <2>6 DEF Script!Begin
      <3>2. \A i \in 1 .. Len(log) : Good(i)'
        BY <2>4, <2>5, <3>1
      <3>3. QED
        BY <2>2, <3>1, <3>2
        DEF ScriptInv, Script!PassMeetsEveryExpectation, Script!Passed,
            Script!FailureIsTheFirstBroken, Script!Failed
    <2>7. CASE Script!Finish
      <3>1. pc = "next" /\ pc' = "done" /\ steps' = steps /\ log' = log /\ plan' = plan
            /\ steps = Len(plan.steps) /\ report'.passed = TRUE
        BY <2>7, Reports DEF Script!Finish
      <3>2. \A i \in 1 .. Len(log) : Good(i)'
        BY <2>4, <2>5, <3>1
      <3>3. QED
        BY <2>2, <2>3, <3>1, <3>2
        DEF ScriptInv, Script!PassMeetsEveryExpectation, Script!Passed,
            Script!FailureIsTheFirstBroken, Script!Failed
    <2>8. ASSUME steps' = steps, plan' = plan, history' = history, pc \in {"apply", "sweep"},
                 Len(log') = steps, \A i \in 1 .. (steps - 1) : Good(i)',
                 NEW k, FailsWith(k),
                 k.kind = "Invariant" <=>
                   Script!Expected(steps)' /\ Script!Asked(steps)' /\ ~Script!Clean(log'[steps].after),
                 k = Script!Mismatch <=> log'[steps].answer \in Verdicts /\ ~Script!Expected(steps)'
          PROVE  ScriptInv'
      <3>1. pc' = "done" /\ report'.passed = FALSE /\ report'.steps = steps
            /\ report'.history = history /\ report'.kind = k
        BY <2>8 DEF FailsWith
      <3>2. Script!FailureIsTheFirstBroken'
        <4>1. \A i \in 1 .. (steps - 1) :
                Script!Expected(i)' /\ (Script!Asked(i)' => Script!Clean(log'[i].after))
          BY <2>8 DEF Script!Clean, Script!Violated
        <4>2. (report'.kind.kind = "Invariant") <=>
                (Script!Expected(steps)' /\ Script!Asked(steps)' /\ ~Script!Clean(log'[steps].after))
          BY <2>8, <3>1
        <4>3. report'.kind = Script!Mismatch
                <=> (log'[steps].answer \in Script!Verdicts /\ ~Script!Expected(steps)')
          BY <2>8, <3>1, SameTests
        <4>4. QED
          BY <2>8, <3>1, <4>1, <4>2, <4>3
          DEF Script!FailureIsTheFirstBroken, Script!Expected, Script!Asked, Script!Clean,
              Script!Violated, Script!Verdicts, Script!Mismatch
      <3>3. Script!PassMeetsEveryExpectation'
        BY <3>1 DEF Script!PassMeetsEveryExpectation, Script!Passed
      <3>4. steps' <= Len(plan'.steps)
        BY <2>4, <2>8
      <3>5. \A i \in 1 .. Len(log') : i < steps' => Good(i)'
        BY <2>2, <2>8
      <3>6. QED
        BY <3>1, <3>2, <3>3, <3>4, <3>5 DEF ScriptInv
    <2>9. CASE Script!ApplyOp
      <3>1. PICK a \in Answers :
              /\ log' = Append(log, [answer |-> a, after |-> world'])
              /\ \/ /\ a \in Verdicts /\ plan.steps[steps].expect \in {"any", a}
                    /\ report' = report
                    /\ pc' = IF Script!Asked(steps) THEN "sweep" ELSE "next"
                 \/ /\ a \in Verdicts /\ plan.steps[steps].expect \notin {"any", a}
                    /\ FailsWith(Script!Mismatch)
                 \/ /\ a = "bug" /\ report'.kind.kind = "Bug" /\ report'.kind # Script!Mismatch
                    /\ FailsWith(report'.kind)
                 \/ a = "infra" /\ FailsWith(Infra("apply"))
        BY <2>1, <2>9, ScriptApplies
      <3>2. pc = "apply" /\ steps' = steps /\ plan' = plan /\ history' = history
        BY <2>9 DEF Script!ApplyOp
      <3>3. [answer |-> a, after |-> world'] \in [answer : Answers, after : World]
        <4>1. TypeOK'
          BY TypeInvariant
        <4>2. QED
          BY <4>1 DEF TypeOK, SharedOK
      <3>4. /\ Len(log') = steps /\ log'[steps] = [answer |-> a, after |-> world']
            /\ \A i \in 1 .. Len(log) : log'[i] = log[i]
            /\ Len(log) = steps - 1
        BY <2>2, <2>3, <3>1, <3>2, <3>3
      <3>5. \A i \in 1 .. (steps - 1) : Good(i)'
        <4>1. ASSUME NEW i \in 1 .. (steps - 1) PROVE Good(i)'
          <5>1. i \in 1 .. Len(log) /\ i < steps /\ log'[i] = log[i]
            BY <2>2, <3>4
          <5>2. Good(i)
            BY <2>4, <5>1
          <5>3. QED
            BY <2>5, <3>2, <5>1, <5>2
        <4>2. QED
          BY <4>1
      <3>6. Script!Expected(steps)' <=> a \in Verdicts /\ plan.steps[steps].expect \in {"any", a}
        BY <3>2, <3>4, SameTests DEF Script!Expected
      <3>7. CASE /\ a \in Verdicts /\ plan.steps[steps].expect \in {"any", a}
                 /\ pc' = IF Script!Asked(steps) THEN "sweep" ELSE "next"
        <4>1. Script!Expected(steps)' /\ (Script!Asked(steps)' <=> Script!Asked(steps))
          BY <3>2, <3>6, <3>7 DEF Script!Asked
        <4>2. pc' = "next" => Good(steps)'
          BY <3>7, <4>1
        <4>3. \A i \in 1 .. Len(log') : (i < steps' \/ pc' = "next") => Good(i)'
          BY <2>2, <3>2, <3>4, <3>5, <4>2
        <4>4. pc' = "sweep" => Script!Asked(steps)'
          BY <3>7, <4>1
        <4>5. pc' \in {"sweep", "next"}
          BY <3>7
        <4>6. (pc = "sweep" => Script!Expected(steps) /\ Script!Asked(steps))'
          BY <4>1, <4>4
        <4>7. steps' <= Len(plan'.steps)
          BY <2>4, <3>2
        <4>8. Script!PassMeetsEveryExpectation' /\ Script!FailureIsTheFirstBroken'
          BY <4>5 DEF Script!PassMeetsEveryExpectation, Script!Passed,
                      Script!FailureIsTheFirstBroken, Script!Failed
        <4>9. QED
          BY <4>3, <4>5, <4>6, <4>7, <4>8 DEF ScriptInv
      <3>8. CASE a \in Verdicts /\ plan.steps[steps].expect \notin {"any", a} /\ FailsWith(Script!Mismatch)
        <4>1. Script!Mismatch.kind # "Invariant"
          BY DEF Script!Mismatch
        <4>2. QED
          BY <2>8, <3>2, <3>4, <3>5, <3>6, <3>8, <4>1
      <3>9. CASE /\ a = "bug" /\ report'.kind.kind = "Bug" /\ report'.kind # Script!Mismatch
                 /\ FailsWith(report'.kind)
        <4>1. a \notin Verdicts
          BY <3>9, SameTests
        <4>2. QED
          BY <2>8, <3>2, <3>4, <3>5, <3>6, <3>9, <4>1
      <3>10. CASE a = "infra" /\ FailsWith(Infra("apply"))
        <4>1. a \notin Verdicts /\ Infra("apply").kind # "Invariant" /\ Infra("apply") # Script!Mismatch
          BY <3>10, SameTests DEF Infra, Script!Mismatch
        <4>2. QED
          BY <2>8, <3>2, <3>4, <3>5, <3>6, <3>10, <4>1
      <3>11. QED
        BY <3>1, <3>7, <3>8, <3>9, <3>10
    <2>10. CASE Script!Sweep
      <3>1. pc = "sweep" /\ steps' = steps /\ plan' = plan /\ history' = history
            /\ log' = log /\ world' = world
        BY <2>10 DEF Script!Sweep
      <3>2. Script!Expected(steps) /\ Script!Asked(steps) /\ log[steps].after = world
            /\ Len(log) = steps /\ steps > 0 /\ log[steps].answer \in Verdicts
        BY <2>3, <2>4, <3>1
      <3>3. \A i \in 1 .. (steps - 1) : Good(i)'
        <4>1. ASSUME NEW i \in 1 .. (steps - 1) PROVE Good(i)'
          <5>1. i \in 1 .. Len(log) /\ i < steps /\ log'[i] = log[i]
            BY <2>2, <3>1, <3>2
          <5>2. Good(i)
            BY <2>4, <5>1
          <5>3. QED
            BY <2>5, <3>1, <5>1, <5>2
        <4>2. QED
          BY <4>1
      <3>4. Script!Expected(steps)' /\ Script!Asked(steps)'
            /\ (Script!Clean(log[steps].after)' <=> Script!Clean(world))
        <4>1. steps \in 1 .. Len(log) /\ log'[steps] = log[steps]
          BY <2>2, <3>1, <3>2
        <4>2. Script!Clean(log[steps].after) <=> Script!Clean(world)
          BY <3>2
        <4>3. QED
          BY <2>5, <3>1, <3>2, <4>1, <4>2
      <3>5. CASE Script!Clean(world)
        <4>1. pc' = "next"
          BY <2>10, <3>5 DEF Script!Sweep
        <4>2. Good(steps)'
          BY <3>4, <3>5
        <4>3. \A i \in 1 .. Len(log') : Good(i)'
          BY <2>2, <3>1, <3>2, <3>3, <4>2
        <4>4. steps' <= Len(plan'.steps)
          BY <2>4, <3>1
        <4>5. Script!PassMeetsEveryExpectation' /\ Script!FailureIsTheFirstBroken'
          BY <4>1 DEF Script!PassMeetsEveryExpectation, Script!Passed,
                      Script!FailureIsTheFirstBroken, Script!Failed
        <4>6. QED
          BY <4>1, <4>3, <4>4, <4>5 DEF ScriptInv
      <3>6. CASE ~Script!Clean(world)
        <4>1. FailsWith(Script!SweepFailure(world))
          BY <2>10, <3>6, Reports DEF Script!Sweep
        <4>2. Script!SweepFailure(world).kind = "Invariant"
          BY <3>6, SameWords, FirstViolation
        <4>3. Script!SweepFailure(world) # Script!Mismatch
          BY <4>2 DEF Script!Mismatch
        <4>4. ~Script!Clean(log'[steps].after)
          BY <3>1, <3>2, <3>6
        <4>5. QED
          BY <2>8, <3>1, <3>2, <3>3, <3>4, <4>1, <4>2, <4>3, <4>4
      <3>7. QED
        BY <3>5, <3>6
    <2>11. CASE Script!Done
      <3>1. UNCHANGED <<mode, plan, pc, steps, history, log, report, world>>
        BY <1>1, <2>1, <2>11 DEF Script!Done, Script!vars
      <3>2. QED
        BY <3>1 DEF ScriptInv, Script!Expected, Script!Asked, Script!Clean, Script!Violated,
          Script!PassMeetsEveryExpectation, Script!Passed, Script!FailureIsTheFirstBroken, Script!Failed
    <2>12. QED
      BY <2>1, <2>6, <2>7, <2>9, <2>10, <2>11 DEF Script!Next
  <1>5. mode' = "scenario" => Follow \/ ReplayArtifact \/ UNCHANGED vars
    BY DEF Next, Drive, Endure, Shrink, Minimize, ShrinkFixed, BeginSearch, Redrive
  <1>6. QED
    BY <1>1, <1>2, <1>3, <1>4, <1>5
-----------------------------------------------------------------------------
(* An infra failure lengthens the row by one, anything else ends it.        *)
LEMMA RowOfFailures ==
    ASSUME log \in Seq([answer : Answers, after : World]),
           NEW e \in [answer : Answers, after : World], log' = Append(log, e),
           NEW n \in Nat, Streak(n)
    PROVE  /\ e.answer = "infra" => Streak(n + 1)'
           /\ e.answer # "infra" => Streak(0)'
  <1> DEFINE len == Len(log)
  <1>1. len \in Nat /\ Len(log') = len + 1 /\ log'[len + 1] = e
        /\ \A j \in 1 .. len : log'[j] = log[j]
    OBVIOUS
  <1>2. Loop!Trailing = (len - n + 1) .. len /\ n <= len
    BY DEF Streak
  <1>3. Loop!Trailing = {i \in 1 .. len : \A j \in i .. len : log[j].answer = "infra"}
    BY DEF Loop!Trailing
  <1>4. Loop!Trailing' = {i \in 1 .. (len + 1) : \A j \in i .. (len + 1) : log'[j].answer = "infra"}
    BY <1>1 DEF Loop!Trailing
  <1>5. ASSUME e.answer = "infra" PROVE Streak(n + 1)'
    <2>1. ASSUME NEW i \in 1 .. (len + 1)
          PROVE  i \in Loop!Trailing' <=> i = len + 1 \/ i \in Loop!Trailing
      <3>1. CASE i = len + 1
        <4>1. \A j \in i .. (len + 1) : j = len + 1
          BY <1>1, <3>1
        <4>2. QED
          BY <1>1, <1>4, <1>5, <3>1, <4>1
      <3>2. CASE i \in 1 .. len
        <4>1. \A j \in i .. (len + 1) : j = len + 1 \/ j \in i .. len
          <5>1. len \in Nat /\ i \in Nat
            BY <1>1, <3>2
          <5> HIDE DEF len
          <5>2. QED
            BY <5>1
        <4>2. \A j \in i .. len : j \in i .. (len + 1) /\ log'[j] = log[j]
          BY <1>1, <3>2
        <4>3. i # len + 1
          BY <1>1, <3>2
        <4>4. QED
          BY <1>1, <1>3, <1>4, <1>5, <3>2, <4>1, <4>2, <4>3
      <3>3. QED
        BY <1>1, <3>1, <3>2
    <2>2. Loop!Trailing' = ((len + 1) - (n + 1) + 1) .. (len + 1)
      <3>1. Loop!Trailing' \subseteq 1 .. (len + 1)
        BY <1>4
      <3>2. \A i \in 1 .. (len + 1) : i \in Loop!Trailing' <=> i \in ((len + 1) - (n + 1) + 1) .. (len + 1)
        BY <1>1, <1>2, <2>1
      <3>3. ((len + 1) - (n + 1) + 1) .. (len + 1) \subseteq 1 .. (len + 1)
        BY <1>1, <1>2
      <3>4. QED
        BY <3>1, <3>2, <3>3
    <2>3. QED
      BY <1>1, <1>2, <2>2 DEF Streak
  <1>6. ASSUME e.answer # "infra" PROVE Streak(0)'
    <2>1. ASSUME NEW i \in 1 .. (len + 1) PROVE i \notin Loop!Trailing'
      <3>1. len + 1 \in i .. (len + 1)
        BY <1>1
      <3>2. QED
        BY <1>1, <1>4, <1>6, <3>1
    <2>2. Loop!Trailing' = {}
      BY <1>4, <2>1
    <2>3. ((len + 1) - 0 + 1) .. (len + 1) = {}
      BY <1>1
    <2>4. QED
      BY <1>1, <2>2, <2>3 DEF Streak
  <1>7. QED
    BY <1>5, <1>6

(* Every step of an endurance run keeps its budget, what was clean, and the *)
(* streak.                                                                  *)
LEMMA EnduranceInvariant ==
    ASSUME TypeOK, OneInFlight, BudgetInv, CleanInv, StreakInv, [Next]_vars
    PROVE  BudgetInv' /\ CleanInv' /\ StreakInv'
  <1>1. CASE mode' # "endurance"
    BY <1>1 DEF BudgetInv, CleanInv, StreakInv
  <1>2. CASE mode' = "endurance"
    <2>1. Endure \/ UNCHANGED vars
      BY <1>2 DEF Next, Drive, Follow, Shrink, Minimize, ShrinkFixed, BeginSearch, Redrive, ReplayArtifact
    <2>2. mode = "endurance" /\ (Loop!Next \/ UNCHANGED vars)
      BY <1>2, <2>1 DEF Endure, vars
    <2>3. /\ steps \in Nat /\ source \in Nat /\ streak \in Nat /\ plan.maxInfra \in Nat
          /\ log \in Seq([answer : Answers, after : World]) /\ Len(log) \in Nat
          /\ world \in World
      BY <2>2 DEF TypeOK, SharedOK, EnduranceOK, Loop!Config
    <2>4. /\ Len(log) = IF pc = "apply" THEN steps - 1 ELSE steps
          /\ pc = "sweep" => steps > 0 /\ log[steps].after = world /\ log[steps].answer \in Verdicts
      BY <2>2 DEF OneInFlight
    <2>5. /\ plan.maxOps # Unbounded => source + steps = plan.maxOps
          /\ pc = "final" => stop \/ expired \/ steps = plan.maxOps
      BY <2>2 DEF BudgetInv
    <2>6. /\ pc = "sweep" => Due(plan.every, steps)
          /\ \A i \in 1 .. Len(log) :
               Due(plan.every, i) /\ log[i].answer \in Verdicts =>
                 \/ Loop!Clean(log[i].after)
                 \/ i = Len(log) /\ (pc = "sweep" \/ (pc = "done" /\ ~report.passed))
      BY <2>2, SameTests DEF CleanInv
    <2>7. PICK n \in 0 .. (plan.maxInfra + 1) :
            /\ Streak(n)
            /\ pc # "done" => n <= plan.maxInfra /\ streak <= plan.maxInfra
            /\ pc \notin {"sweep", "done"} => n = streak
            /\ pc = "sweep" => n = 0
            /\ n = plan.maxInfra + 1 <=> Loop!Failed /\ report.kind = Infra("apply")
      BY <2>2, ReportOK DEF StreakInv
    <2>8. TypeOK'
      BY TypeInvariant
    (* What leaves the log alone. *)
    <2>9. ASSUME plan' = plan, log' = log, pc \notin {"sweep", "done"}, pc' # "sweep"
          PROVE  CleanInv'
      <3>1. \A i \in 1 .. Len(log) :
              Due(plan.every, i) /\ log[i].answer \in Verdicts => Loop!Clean(log[i].after)
        BY <2>6, <2>9
      <3>2. \A i \in 1 .. Len(log') :
              Loop!Due(plan'.every, i) /\ log'[i].answer \in Verdicts => Loop!Clean(log'[i].after)
        BY <2>9, <3>1, SameTests
      <3>3. QED
        BY <2>9, <3>2, SameTests
        DEF CleanInv, Loop!Due, Loop!Verdicts, Loop!Clean, Loop!Violated
    <2>10. ASSUME plan' = plan, log' = log, streak' = streak, pc \notin {"sweep", "done"}, pc' # "sweep",
                  pc' = "done" => PassesNow \/ \E k : FailsWith(k) /\ k # Infra("apply")
           PROVE  StreakInv'
      <3>1. Streak(n)'
        BY <2>7, <2>10 DEF Streak, Loop!Trailing
      <3>2. n = streak /\ n <= plan.maxInfra /\ n # plan.maxInfra + 1
        BY <2>3, <2>7, <2>10
      <3>3. ~(Loop!Failed' /\ report'.kind = Infra("apply"))
        BY <2>10 DEF Loop!Failed, PassesNow, FailsWith
      <3>4. \E m \in 0 .. (plan'.maxInfra + 1) :
              /\ Streak(m)'
              /\ pc' # "done" => m <= plan'.maxInfra /\ streak' <= plan'.maxInfra
              /\ pc' \notin {"sweep", "done"} => m = streak'
              /\ pc' = "sweep" => m = 0
              /\ m = plan'.maxInfra + 1 <=> Loop!Failed' /\ report'.kind = Infra("apply")
        BY <2>7, <2>10, <3>1, <3>2, <3>3
      <3>5. QED
        BY <3>4, ReportOK DEF StreakInv, Loop!Infra
    <2>11. ASSUME plan' = plan, source' = source, steps' = steps, pc' # "done", pc' # "final"
           PROVE  BudgetInv'
      BY <2>5, <2>11 DEF BudgetInv, Loop!PassIsSweptClean, Loop!Passed
    <2>12. ASSUME plan' = plan, source' = source, steps' = steps, NEW k, FailsWith(k)
           PROVE  BudgetInv'
      <3>1. pc' = "done" /\ report'.passed = FALSE
        BY <2>12 DEF FailsWith
      <3>2. QED
        BY <2>5, <2>12, <3>1 DEF BudgetInv, Loop!PassIsSweptClean, Loop!Passed
    (* Nothing happens, or only the flag is set or the deadline passed. *)
    <2>13. CASE UNCHANGED vars \/ Loop!Done \/ Loop!Signal \/ Loop!Expire
      <3>1. /\ UNCHANGED <<plan, source, world, steps, log, pc, report, streak>>
            /\ (stop => stop') /\ (expired => expired')
        BY <2>13 DEF vars, driven, loop, Loop!Done, Loop!vars, Loop!Signal, Loop!Expire
      <3>2. BudgetInv'
        BY <2>2, <3>1
        DEF BudgetInv, Loop!PassIsSweptClean, Loop!Passed, Loop!Clean, Loop!Violated
      <3>3. CleanInv'
        BY <2>2, <3>1 DEF CleanInv, Loop!Due, Loop!Verdicts, Loop!Clean, Loop!Violated
      <3>4. StreakInv'
        BY <2>2, <3>1 DEF StreakInv, Streak, Loop!Trailing, Loop!Failed, Loop!Infra
      <3>5. QED
        BY <3>2, <3>3, <3>4
    <2>14. CASE Loop!ResolveMix
      <3>1. plan' = plan /\ source' = source /\ steps' = steps /\ log' = log /\ streak' = streak
            /\ pc = "resolve"
        BY <2>14 DEF Loop!ResolveMix
      <3>2. pc' = "top" \/ FailsWith(Infra("mix"))
        BY <2>14, Reports, ReportOK DEF Loop!ResolveMix
      <3>3. Infra("mix") # Infra("apply")
        BY DEF Infra
      <3>4. CASE pc' = "top"
        BY <2>9, <2>10, <2>11, <3>1, <3>4
      <3>5. CASE FailsWith(Infra("mix"))
        <4>1. pc' = "done"
          BY <3>5 DEF FailsWith
        <4>2. QED
          BY <2>9, <2>10, <2>12, <3>1, <3>3, <3>5, <4>1
      <3>6. QED
        BY <3>2, <3>4, <3>5
    <2>15. CASE Loop!Break
      <3>1. plan' = plan /\ source' = source /\ steps' = steps /\ log' = log /\ streak' = streak
            /\ pc = "top" /\ pc' = "final" /\ stop' = stop /\ expired' = expired
            /\ (stop \/ expired \/ (source = 0 /\ plan.maxOps # Unbounded))
        BY <2>15 DEF Loop!Break, Loop!Ending
      <3>2. stop \/ expired \/ steps = plan.maxOps
        BY <2>3, <2>5, <3>1
      <3>3. BudgetInv'
        BY <2>5, <3>1, <3>2 DEF BudgetInv, Loop!PassIsSweptClean, Loop!Passed
      <3>4. QED
        BY <2>9, <2>10, <3>1, <3>3
    <2>16. CASE Loop!Draw
      <3>1. plan' = plan /\ source' = source - 1 /\ steps' = steps + 1 /\ log' = log
            /\ streak' = streak /\ pc = "top" /\ pc' = "apply"
        BY <2>16 DEF Loop!Draw
      <3>2. plan.maxOps # Unbounded => source' + steps' = plan.maxOps
        BY <2>3, <2>5, <3>1
      <3>3. BudgetInv'
        BY <3>1, <3>2 DEF BudgetInv, Loop!PassIsSweptClean, Loop!Passed
      <3>4. QED
        BY <2>9, <2>10, <3>1, <3>3
    <2>17. CASE Loop!Starve
      <3>1. plan' = plan /\ source' = source /\ steps' = steps /\ log' = log /\ streak' = streak
            /\ pc = "top" /\ FailsWith(Infra("draw"))
        BY <2>17, Reports, ReportOK DEF Loop!Starve
      <3>2. Infra("draw") # Infra("apply") /\ pc' = "done"
        BY <3>1 DEF Infra, FailsWith
      <3>3. QED
        BY <2>9, <2>10, <2>12, <3>1, <3>2
    <2>18. CASE Loop!AdvanceBlocks
      <3>1. plan' = plan /\ source' = source /\ steps' = steps /\ log' = log /\ streak' = streak
            /\ pc = "advance"
        BY <2>18 DEF Loop!AdvanceBlocks
      <3>2. pc' = "top" \/ FailsWith(Infra("advance"))
        BY <2>18, Reports, ReportOK DEF Loop!AdvanceBlocks
      <3>3. Infra("advance") # Infra("apply")
        BY DEF Infra
      <3>4. CASE pc' = "top"
        BY <2>9, <2>10, <2>11, <3>1, <3>4
      <3>5. CASE FailsWith(Infra("advance"))
        <4>1. pc' = "done"
          BY <3>5 DEF FailsWith
        <4>2. QED
          BY <2>9, <2>10, <2>12, <3>1, <3>3, <3>5, <4>1
      <3>6. QED
        BY <3>2, <3>4, <3>5
    <2>19. CASE Loop!FinalSweep
      <3>1. plan' = plan /\ source' = source /\ steps' = steps /\ log' = log /\ streak' = streak
            /\ pc = "final" /\ stop' = stop /\ expired' = expired /\ world' = world /\ pc' = "done"
        BY <2>19 DEF Loop!FinalSweep, Loop!Fail
      <3>2. CASE Loop!Clean(world)
        <4>1. PassesNow
          BY <2>19, <3>1, <3>2, Reports DEF Loop!FinalSweep, PassesNow
        <4>2. BudgetInv'
          BY <2>5, <3>1, <3>2
          DEF BudgetInv, Loop!PassIsSweptClean, Loop!Passed, Loop!Clean, Loop!Violated
        <4>3. QED
          BY <2>9, <2>10, <3>1, <4>1, <4>2
      <3>3. CASE ~Loop!Clean(world)
        <4>1. FailsWith(Loop!SweepFailure(world))
          BY <2>19, <3>3, Reports DEF Loop!FinalSweep
        <4>2. Loop!SweepFailure(world).kind = "Invariant"
          BY <3>3, SameWords, FirstViolation
        <4>3. Loop!SweepFailure(world) # Infra("apply")
          BY <4>2 DEF Infra
        <4>4. QED
          BY <2>9, <2>10, <2>12, <3>1, <4>1, <4>3
      <3>4. QED
        BY <3>2, <3>3
    <2>20. CASE Loop!Sweep
      <3>1. plan' = plan /\ source' = source /\ steps' = steps /\ log' = log /\ pc = "sweep"
            /\ world' = world
        BY <2>20 DEF Loop!Sweep
      <3>2. n = 0 /\ Streak(0) /\ Len(log) = steps /\ log[steps].after = world
        BY <2>4, <2>7, <3>1
      <3>3. Streak(0)'
        BY <3>1, <3>2 DEF Streak, Loop!Trailing
      <3>4. \A i \in 1 .. Len(log) : i = Len(log) \/ (Due(plan.every, i) /\ log[i].answer \in Verdicts =>
               Loop!Clean(log[i].after))
        BY <2>6, <3>1
      <3>5. CASE Loop!Clean(world)
        <4>1. pc' = "advance" /\ streak' = 0
          BY <2>20, <3>5 DEF Loop!Sweep
        <4>2. BudgetInv'
          BY <2>11, <3>1, <4>1
        <4>3. \A i \in 1 .. Len(log') :
                Loop!Due(plan'.every, i) /\ log'[i].answer \in Verdicts => Loop!Clean(log'[i].after)
          BY <3>1, <3>2, <3>4, <3>5, SameTests
        <4>4. CleanInv'
          BY <4>1, <4>3, SameTests DEF CleanInv, Loop!Due, Loop!Verdicts, Loop!Clean, Loop!Violated
        <4>5. plan'.maxInfra \in Nat /\ ~Loop!Failed'
          BY <2>3, <3>1, <4>1 DEF Loop!Failed
        <4>6. StreakInv'
          BY <3>3, <4>1, <4>5 DEF StreakInv
        <4>7. QED
          BY <4>2, <4>4, <4>6
      <3>6. CASE ~Loop!Clean(world)
        <4>1. FailsWith(Loop!SweepFailure(world)) /\ streak' = streak
          BY <2>20, <3>6, Reports DEF Loop!Sweep
        <4>2. Loop!SweepFailure(world).kind = "Invariant"
          BY <3>6, SameWords, FirstViolation
        <4>3. pc' = "done" /\ report'.passed = FALSE /\ report'.kind # Infra("apply")
          BY <4>1, <4>2 DEF FailsWith, Infra
        <4>4. BudgetInv'
          BY <2>12, <3>1, <4>1
        <4>5. \A i \in 1 .. Len(log') :
                Loop!Due(plan'.every, i) /\ log'[i].answer \in Verdicts =>
                  Loop!Clean(log'[i].after) \/ i = Len(log')
          BY <3>1, <3>4, SameTests
        <4>6. CleanInv'
          BY <4>3, <4>5, SameTests DEF CleanInv, Loop!Due, Loop!Verdicts, Loop!Clean, Loop!Violated
        <4>7. plan'.maxInfra \in Nat /\ report'.kind # Loop!Infra("apply")
          BY <2>3, <3>1, <4>3, ReportOK
        <4>8. StreakInv'
          BY <3>3, <4>3, <4>7 DEF StreakInv, Loop!Infra
        <4>9. QED
          BY <4>4, <4>6, <4>8
      <3>7. QED
        BY <3>5, <3>6
    <2>21. CASE Loop!ApplyOp
      <3>1. plan' = plan /\ source' = source /\ steps' = steps /\ pc = "apply"
        BY <2>21 DEF Loop!ApplyOp
      <3>2. PICK a \in Answers :
              /\ log' = Append(log, [answer |-> a, after |-> world'])
              /\ \/ /\ a \in Verdicts /\ report' = report
                    /\ Due(plan.every, steps) /\ pc' = "sweep" /\ streak' = streak
                 \/ /\ a \in Verdicts /\ report' = report
                    /\ ~Due(plan.every, steps) /\ pc' = "advance" /\ streak' = 0
                 \/ /\ a = "infra" /\ streak < plan.maxInfra
                    /\ streak' = streak + 1 /\ pc' = "advance" /\ report' = report
                 \/ /\ a = "infra" /\ ~(streak < plan.maxInfra)
                    /\ FailsWith(Infra("apply")) /\ streak' = streak
                 \/ /\ a = "bug" /\ report'.kind.kind = "Bug" /\ FailsWith(report'.kind)
                    /\ streak' = streak
        BY <2>2, <2>21, LoopApplies
      <3> DEFINE e == [answer |-> a, after |-> world']
      <3>3. e \in [answer : Answers, after : World] /\ e.answer = a /\ log' = Append(log, e)
        BY <2>8, <3>2 DEF TypeOK, SharedOK
      <3> HIDE DEF e
      <3>4. Len(log') = steps /\ Len(log) = steps - 1 /\ log'[steps] = e
            /\ \A i \in 1 .. (steps - 1) : i \in 1 .. Len(log) /\ log'[i] = log[i]
        BY <2>3, <2>4, <3>1, <3>3
      <3>5. n = streak /\ n \in Nat /\ n <= plan.maxInfra /\ Streak(n)
        BY <2>3, <2>7, <3>1
      <3>6. (a = "infra" => Streak(n + 1)') /\ (a # "infra" => Streak(0)')
        BY <2>3, <3>3, <3>5, RowOfFailures
      <3>7. BudgetInv'
        <4>1. pc' \in {"sweep", "advance"} \/ \E k : FailsWith(k)
          BY <3>2
        <4>2. QED
          BY <2>11, <2>12, <3>1, <4>1
      <3>8. CleanInv'
        <4>1. \A i \in 1 .. (steps - 1) :
                Loop!Due(plan'.every, i) /\ log'[i].answer \in Verdicts => Loop!Clean(log'[i].after)
          BY <2>6, <3>1, <3>4, SameTests
        <4>2. Due(plan.every, steps) /\ a \in Verdicts => pc' = "sweep"
          BY <3>2, SameTests
        <4>3. \A i \in 1 .. Len(log') : i = Len(log') \/ i \in 1 .. (steps - 1)
          BY <2>3, <3>4
        <4>4. \A i \in 1 .. Len(log') :
                Loop!Due(plan'.every, i) /\ log'[i].answer \in Verdicts =>
                  Loop!Clean(log'[i].after) \/ (i = Len(log') /\ pc' = "sweep")
          BY <3>1, <3>3, <3>4, <4>1, <4>2, <4>3, SameTests
        <4>5. pc' = "sweep" => Loop!Due(plan'.every, steps')
          BY <3>1, <3>2, SameTests DEF FailsWith
        <4>6. QED
          BY <4>4, <4>5, SameTests DEF CleanInv, Loop!Due, Loop!Verdicts, Loop!Clean, Loop!Violated
      <3>9. StreakInv'
        <4> DEFINE m == IF a = "infra" THEN n + 1 ELSE 0
        <4>1. Streak(m)' /\ m \in 0 .. (plan'.maxInfra + 1)
          BY <2>3, <3>1, <3>5, <3>6
        <4>2. pc' # "done" => m <= plan'.maxInfra /\ streak' <= plan'.maxInfra
          BY <2>3, <3>1, <3>2, <3>5, SameTests DEF FailsWith
        <4>3. pc' \notin {"sweep", "done"} => m = streak'
          BY <2>3, <3>1, <3>2, <3>5, SameTests DEF FailsWith
        <4>4. pc' = "sweep" => m = 0
          BY <3>2, SameTests DEF FailsWith
        <4>5. m = plan'.maxInfra + 1 <=> Loop!Failed' /\ report'.kind = Infra("apply")
          <5>1. CASE a = "infra" /\ ~(streak < plan.maxInfra) /\ FailsWith(Infra("apply"))
            <6>1. m = plan'.maxInfra + 1
              BY <2>3, <3>1, <3>5, <5>1
            <6>2. Loop!Failed' /\ report'.kind = Infra("apply")
              BY <5>1 DEF Loop!Failed, FailsWith
            <6>3. QED
              BY <6>1, <6>2
          <5>2. CASE a = "bug" /\ report'.kind.kind = "Bug"
            <6>1. m # plan'.maxInfra + 1
              BY <2>3, <3>1, <5>2
            <6>2. report'.kind # Infra("apply")
              BY <5>2 DEF Infra
            <6>3. QED
              BY <6>1, <6>2
          <5>3. CASE a = "infra" /\ streak < plan.maxInfra /\ pc' = "advance"
            <6>1. m # plan'.maxInfra + 1 /\ ~Loop!Failed'
              BY <2>3, <3>1, <3>5, <5>3 DEF Loop!Failed
            <6>2. QED
              BY <6>1
          <5>4. CASE a \in Verdicts /\ pc' \in {"sweep", "advance"}
            <6>1. m # plan'.maxInfra + 1 /\ ~Loop!Failed'
              BY <2>3, <3>1, <5>4, SameTests DEF Loop!Failed
            <6>2. QED
              BY <6>1
          <5>5. QED
            BY <3>2, <5>1, <5>2, <5>3, <5>4
        <4> HIDE DEF m
        <4>6. QED
          BY <4>1, <4>2, <4>3, <4>4, <4>5, ReportOK DEF StreakInv, Loop!Infra
      <3>10. QED
        BY <3>7, <3>8, <3>9
    <2>22. QED
      BY <2>2, <2>13, <2>14, <2>15, <2>16, <2>17, <2>18, <2>19, <2>20, <2>21 DEF Loop!Next, Loop!Loop
  <1>3. QED
    BY <1>1, <1>2
-----------------------------------------------------------------------------
(* The outcomes tallied for one invariant.                                  *)
Tally(cov, n) == cov[n]["held"] + cov[n]["skipped"] + cov[n]["violated"]

(* A sweep adds one to the tallies of the invariants it checked, if each    *)
(* has a name of its own, and leaves the others alone.                      *)
LEMMA SweepTallies ==
    ASSUME \A i, j \in DOMAIN Invariants : Invariants[i] = Invariants[j] => i = j,
           NEW c \in Coverage, NEW w \in World, NEW i \in DOMAIN Invariants
    PROVE  /\ Tally(c, Invariants[i]) \in Nat
           /\ Tally(SweepCoverage(c, w), Invariants[i]) =
                Tally(c, Invariants[i]) + IF i \in Checked(w) THEN 1 ELSE 0
  <1> DEFINE n == Invariants[i]
             these(o) == {k \in Checked(w) : Invariants[k] = n /\ Check(w, n) = o}
  <1>1. n \in InvName
    BY HarnessAssumption
  <1>2. Check(w, n) \in {"held", "skipped", "violated"}
    BY <1>1, HarnessAssumption DEF CheckOutcome
  <1>3. Checked(w) \subseteq DOMAIN Invariants
    BY FirstViolation
  <1>4. \A o : these(o) = IF i \in Checked(w) /\ Check(w, n) = o THEN {i} ELSE {}
    BY <1>3
  <1>5. \A o : Cardinality(these(o)) = IF i \in Checked(w) /\ Check(w, n) = o THEN 1 ELSE 0
    <2> HIDE DEF these, n
    <2>1. ASSUME NEW o
          PROVE  Cardinality(these(o)) = IF i \in Checked(w) /\ Check(w, n) = o THEN 1 ELSE 0
      <3>1. CASE i \in Checked(w) /\ Check(w, n) = o
        BY <1>4, <3>1, FS_Singleton
      <3>2. CASE ~(i \in Checked(w) /\ Check(w, n) = o)
        BY <1>4, <3>2, FS_EmptySet
      <3>3. QED
        BY <3>1, <3>2
    <2>2. QED
      BY <2>1
  <1>6. \A o \in CheckOutcome : c[n][o] \in Nat
    BY <1>1 DEF Coverage
  <1>7. \A o \in CheckOutcome :
          SweepCoverage(c, w)[n][o] = c[n][o] + Cardinality(these(o))
    BY <1>1 DEF SweepCoverage
  <1> HIDE DEF these
  <1>8. {"held", "skipped", "violated"} = CheckOutcome
    BY DEF CheckOutcome
  <1> DEFINE h == c[n]["held"]
             s == c[n]["skipped"]
             v == c[n]["violated"]
  <1>9. h \in Nat /\ s \in Nat /\ v \in Nat
    BY <1>6, <1>8
  <1>10. /\ SweepCoverage(c, w)[n]["held"] =
              h + IF i \in Checked(w) /\ Check(w, n) = "held" THEN 1 ELSE 0
         /\ SweepCoverage(c, w)[n]["skipped"] =
              s + IF i \in Checked(w) /\ Check(w, n) = "skipped" THEN 1 ELSE 0
         /\ SweepCoverage(c, w)[n]["violated"] =
              v + IF i \in Checked(w) /\ Check(w, n) = "violated" THEN 1 ELSE 0
    BY <1>5, <1>7, <1>8
  <1>11. Tally(c, n) = h + s + v
    BY DEF Tally
  <1>12. Tally(SweepCoverage(c, w), n) =
           SweepCoverage(c, w)[n]["held"] + SweepCoverage(c, w)[n]["skipped"]
             + SweepCoverage(c, w)[n]["violated"]
    BY DEF Tally
  <1> HIDE DEF n, h, s, v
  <1>13. Tally(SweepCoverage(c, w), n) = Tally(c, n) + IF i \in Checked(w) THEN 1 ELSE 0
    <2>1. CASE i \notin Checked(w)
      BY <1>9, <1>10, <1>11, <1>12, <2>1
    <2>2. CASE i \in Checked(w) /\ Check(w, n) = "held"
      BY <1>9, <1>10, <1>11, <1>12, <2>2
    <2>3. CASE i \in Checked(w) /\ Check(w, n) = "skipped"
      BY <1>9, <1>10, <1>11, <1>12, <2>3
    <2>4. CASE i \in Checked(w) /\ Check(w, n) = "violated"
      BY <1>9, <1>10, <1>11, <1>12, <2>4
    <2>5. QED
      BY <1>2, <2>1, <2>2, <2>3, <2>4
  <1>14. QED
    BY <1>9, <1>11, <1>13 DEF n

(* Of the first n steps those a sweep is due after.                         *)
Behind(n) == {i \in 1 .. n : Due(plan.every, i)}

(* They grow by the step that is due.                                       *)
LEMMA BehindCounts ==
    ASSUME NEW n \in Nat
    PROVE  /\ IsFiniteSet(Behind(n)) /\ Cardinality(Behind(n)) \in Nat
           /\ ~Due(plan.every, n + 1) => Behind(n + 1) = Behind(n)
           /\ Due(plan.every, n + 1) =>
                /\ Behind(n + 1) = Behind(n) \cup {n + 1}
                /\ Cardinality(Behind(n + 1)) = Cardinality(Behind(n)) + 1
  <1>1. IsFiniteSet(1 .. n)
    BY FS_Interval
  <1>2. IsFiniteSet(Behind(n))
    BY <1>1, FS_Subset DEF Behind
  <1>3. Cardinality(Behind(n)) \in Nat
    BY <1>2, FS_CardinalityType
  <1>4. 1 .. (n + 1) = (1 .. n) \cup {n + 1} /\ n + 1 \notin 1 .. n
    OBVIOUS
  <1>5. ~Due(plan.every, n + 1) => Behind(n + 1) = Behind(n)
    BY <1>4 DEF Behind
  <1>6. Due(plan.every, n + 1) =>
          Behind(n + 1) = Behind(n) \cup {n + 1} /\ n + 1 \notin Behind(n)
    BY <1>4 DEF Behind
  <1>7. QED
    BY <1>2, <1>3, <1>5, <1>6, FS_AddElement

(* Every step of a sequence keeps what is swept clean and counted.          *)
LEMMA SequenceInvariant ==
    ASSUME TypeOK, OneInFlight, SweptInv, [Next]_vars
    PROVE  SweptInv'
  <1> DEFINE Own == \A i, j \in DOMAIN Invariants : Invariants[i] = Invariants[j] => i = j
             Extra(i) == IF Sequence!Failed /\ report.kind.kind = "Invariant" /\ i \in Checked(world)
                           THEN 1 ELSE 0
             Counted == Own => \A i \in DOMAIN Invariants :
                          Tally(coverage, Invariants[i]) = Cardinality(Sequence!Swept) + Extra(i)
             Reached(n) == \/ n < Len(log) \/ pc \in {"next", "apply"} \/ Sequence!Passed
                           \/ Sequence!Failed /\ report.kind = Infra("draw")
  <1>1. SUFFICES ASSUME mode' = "sequence" PROVE SweptInv'
    BY DEF SweptInv
  <1>2. TypeOK' /\ OneInFlight'
    BY TypeInvariant, FlightInvariant
  <1>3. Sequence!CoverageCountsTheSweeps <=> Counted
    BY SameWords DEF Sequence!CoverageCountsTheSweeps, Sequence!Total, Tally
  <1>4. Sequence!CoverageCountsTheSweeps' <=> Counted'
    BY SameWords DEF Sequence!CoverageCountsTheSweeps, Sequence!Total, Tally
  <1>5. Sequence!Swept = {i \in 1 .. Len(log) : Due(plan.every, i) /\ Reached(i)}
    BY SameTests, ReportOK DEF Sequence!Swept
  <1>6. Sequence!Swept' = {i \in 1 .. Len(log') : Due(plan'.every, i) /\ Reached(i)'}
    BY SameTests, ReportOK DEF Sequence!Swept
  <1>7. /\ Len(log') \in Nat /\ steps' \in Nat /\ plan'.every \in Nat
        /\ log' \in Seq([before : World, answer : Answers, after : World])
        /\ world' \in World /\ coverage' \in Coverage
    BY <1>1, <1>2 DEF TypeOK, SharedOK, SequenceOK, Sequence!Plan
  <1>8. CASE Redrive
    <2>1. steps' = 0 /\ log' = <<>> /\ pc' = "next" /\ coverage' = SeedCoverage
      BY <1>8 DEF Redrive, Setup
    <2>2. Sequence!Swept' = {}
      BY <1>6, <2>1
    <2>3. ~Sequence!Failed'
      BY <2>1 DEF Sequence!Failed
    <2>4. \A i \in DOMAIN Invariants : Tally(coverage', Invariants[i]) = 0
      <3>1. \A i \in DOMAIN Invariants : Invariants[i] \in InvName
        BY HarnessAssumption
      <3>2. QED
        BY <2>1, <3>1, Fresh DEF Tally, CheckOutcome
    <2>5. Counted'
      BY <2>2, <2>3, <2>4, FS_EmptySet
    <2>6. QED
      BY <1>4, <2>1, <2>2, <2>3, <2>5
      DEF SweptInv, Sequence!NothingStepsOverAViolation, Sequence!FailureIsTheFirstFault
  <1>9. CASE UNCHANGED vars \/ (Drive /\ Sequence!Done)
    <2>1. UNCHANGED <<mode, plan, pc, steps, world, history, coverage, log, report>>
      BY <1>9 DEF vars, driven, Drive, Sequence!Done, Sequence!vars
    <2>2. SweptInv
      OBVIOUS
    <2>3. Counted' <=> Counted
      BY <2>1 DEF Sequence!Swept, Sequence!Passed, Sequence!Failed, Tally
    <2>4. (Sequence!CoverageCountsTheSweeps <=> Sequence!CoverageCountsTheSweeps')
          /\ Sequence!Swept' = Sequence!Swept
      BY <1>3, <1>4, <2>1, <2>3 DEF Sequence!Swept, Sequence!Passed, Sequence!Failed
    <2>5. Sequence!NothingStepsOverAViolation' <=> Sequence!NothingStepsOverAViolation
      BY <2>1, <2>4 DEF Sequence!NothingStepsOverAViolation, Sequence!Clean, Sequence!Violated
    <2>6. Sequence!FailureIsTheFirstFault' <=> Sequence!FailureIsTheFirstFault
      BY <2>1 DEF Sequence!FailureIsTheFirstFault, Sequence!Failed
    <2>7. QED
      BY <1>1, <2>1, <2>2, <2>4, <2>5, <2>6 DEF SweptInv, Sequence!Failed
  <1>10. CASE Drive /\ ~Sequence!Done
    <2>1. mode = "sequence" /\ Sequence!Next
      BY <1>10 DEF Drive
    <2>2. /\ Len(log) \in Nat /\ steps \in Nat /\ world \in World /\ coverage \in Coverage
          /\ log \in Seq([before : World, answer : Answers, after : World])
      BY <2>1 DEF TypeOK, SharedOK, SequenceOK
    <2>3. /\ Len(log) = IF pc = "apply" THEN steps - 1 ELSE steps
          /\ pc = "sweep" => steps > 0 /\ log[steps].after = world /\ log[steps].answer \in Verdicts
          /\ pc = "resolve" => steps = 0
      BY <2>1 DEF OneInFlight
    <2>4. /\ pc = "sweep" => Due(plan.every, steps)
          /\ pc # "done" => \A i \in 1 .. Len(log) : log[i].answer \in Verdicts
          /\ \A i \in Sequence!Swept : Clean(log[i].after)
          /\ Counted
      BY <1>3, <2>1, SameTests, SameWords DEF SweptInv, Sequence!NothingStepsOverAViolation
    <2>5. pc # "done"
      BY <2>1, <1>10
      DEF Sequence!Next, Sequence!ResolveMix, Sequence!Draw, Sequence!TakeFixed, Sequence!Starve,
          Sequence!Finish, Sequence!ApplyOp, Sequence!Sweep
    <2>6. plan' = plan
      BY <2>1, <1>10
      DEF Sequence!Next, Sequence!ResolveMix, Sequence!Draw, Sequence!TakeFixed, Sequence!Starve,
          Sequence!Finish, Sequence!ApplyOp, Sequence!Sweep
    <2>7. pc # "done" => ~Sequence!Failed /\ ~Sequence!Passed
      BY DEF Sequence!Failed, Sequence!Passed
    (* Nothing is swept. *)
    <2>8. ASSUME coverage' = coverage, Sequence!Swept' = Sequence!Swept,
                 \A i \in 1 .. Len(log) : log'[i] = log[i],
                 Sequence!Failed' => report'.kind.kind # "Invariant"
          PROVE  Sequence!NothingStepsOverAViolation' /\ Sequence!CoverageCountsTheSweeps'
      <3>1. \A i \in Sequence!Swept' : i \in 1 .. Len(log) /\ Clean(log'[i].after)
        BY <1>5, <2>4, <2>8
      <3>2. Sequence!NothingStepsOverAViolation'
        BY <3>1, SameWords DEF Sequence!NothingStepsOverAViolation
      <3>3. Counted'
        <4>1. ASSUME Own, NEW i \in DOMAIN Invariants
              PROVE  Tally(coverage', Invariants[i]) = Cardinality(Sequence!Swept') + Extra(i)'
          <5>1. Extra(i) = 0 /\ Extra(i)' = 0
            BY <2>5, <2>7, <2>8
          <5>2. Tally(coverage, Invariants[i]) = Cardinality(Sequence!Swept) + Extra(i)
            BY <2>4, <4>1
          <5> HIDE DEF Extra
          <5>3. QED
            BY <2>8, <5>1, <5>2
        <4>2. QED
          BY <4>1
      <3>4. QED
        BY <1>4, <3>2, <3>3
    (* Nothing is applied either. *)
    <2>9. ASSUME log' = log, coverage' = coverage, steps' = steps \/ pc' # "done",
                 \/ pc = "next" /\ pc' = "apply"
                 \/ pc = "next" /\ FailsWith(Infra("draw"))
                 \/ pc = "next" /\ PassesNow
                 \/ pc = "resolve" /\ (pc' = "next" \/ FailsWith(Infra("mix")))
          PROVE  SweptInv'
      <3>1. Infra("draw").kind = "Infra" /\ Infra("mix").kind = "Infra"
            /\ Infra("draw") # Infra("apply") /\ Infra("mix") # Infra("apply")
            /\ Infra("mix") # Infra("draw")
        BY DEF Infra
      <3>2. Sequence!Swept' = Sequence!Swept
        <4>1. CASE pc = "next"
          <5>1. \A i : Reached(i) /\ Reached(i)'
            BY <2>9, <4>1 DEF Sequence!Failed, Sequence!Passed, FailsWith, PassesNow
          <5> HIDE DEF Reached
          <5>2. QED
            BY <1>5, <1>6, <2>6, <2>9, <5>1
        <4>2. CASE pc = "resolve"
          BY <1>5, <1>6, <2>2, <2>3, <2>9, <4>2
        <4>3. QED
          BY <2>9, <4>1, <4>2
      <3>3. Sequence!Failed' => report'.kind \in {Infra("draw"), Infra("mix")}
        BY <2>9 DEF Sequence!Failed, FailsWith, PassesNow
      <3>4. Sequence!NothingStepsOverAViolation' /\ Sequence!CoverageCountsTheSweeps'
        BY <2>8, <2>9, <3>1, <3>2, <3>3
      <3>5. \A i \in 1 .. Len(log') : log'[i].answer \in Verdicts
        BY <2>4, <2>5, <2>9
      <3>6. Sequence!FailureIsTheFirstFault'
        <4>1. \A i \in 1 .. (Len(log') - 1) : log'[i].answer \in Sequence!Verdicts
          BY <1>7, <3>5, SameTests
        <4>2. Sequence!Failed' => report'.kind.kind = "Infra" /\ report'.kind # Sequence!Infra("apply")
          BY <3>1, <3>3, ReportOK
        <4>3. QED
          BY <4>1, <4>2 DEF Sequence!FailureIsTheFirstFault, Sequence!Verdicts, Sequence!Infra
      <3>7. Sequence!Failed' /\ report'.kind = Infra("mix") => steps' = 0
        <4>1. pc = "next" => ~(Sequence!Failed' /\ report'.kind = Infra("mix"))
          BY <2>9, <3>1 DEF Sequence!Failed, FailsWith, PassesNow
        <4>2. pc = "resolve" => steps = 0
          BY <2>3
        <4>3. pc = "resolve" /\ pc' = "done" => steps' = steps
          BY <2>9
        <4>4. QED
          BY <2>9, <4>1, <4>2, <4>3 DEF Sequence!Failed
      <3>8. pc' # "sweep"
        BY <2>9 DEF FailsWith, PassesNow
      <3>9. QED
        BY <3>4, <3>5, <3>6, <3>7, <3>8, ReportOK, SameTests
        DEF SweptInv, Sequence!Verdicts, Sequence!Infra
    <2>10. CASE Sequence!ResolveMix
      <3>1. log' = log /\ coverage' = coverage /\ steps' = steps /\ pc = "resolve"
            /\ (pc' = "next" \/ FailsWith(Infra("mix")))
        BY <2>10, Reports, ReportOK DEF Sequence!ResolveMix
      <3>2. QED
        BY <2>9, <3>1
    <2>11. CASE Sequence!Draw \/ Sequence!TakeFixed
      <3>1. log' = log /\ coverage' = coverage /\ pc = "next" /\ pc' = "apply"
        BY <2>11 DEF Sequence!Draw, Sequence!TakeFixed, Sequence!Begin
      <3>2. QED
        BY <2>9, <3>1
    <2>12. CASE Sequence!Starve
      <3>1. log' = log /\ coverage' = coverage /\ steps' = steps /\ pc = "next"
            /\ FailsWith(Infra("draw"))
        BY <2>12, Reports, ReportOK DEF Sequence!Starve
      <3>2. QED
        BY <2>9, <3>1
    <2>13. CASE Sequence!Finish
      <3>1. log' = log /\ coverage' = coverage /\ steps' = steps /\ pc = "next" /\ PassesNow
        BY <2>13, Reports DEF Sequence!Finish
      <3>2. QED
        BY <2>9, <3>1
    <2>14. CASE Sequence!ApplyOp
      <3>1. PICK a \in Answers :
              /\ log' = Append(log, [before |-> world, answer |-> a, after |-> world'])
              /\ \/ /\ a \in Verdicts /\ report' = report
                    /\ pc' = IF Due(plan.every, steps) THEN "sweep" ELSE "next"
                 \/ a = "bug" /\ report'.kind.kind = "Bug" /\ FailsWith(report'.kind)
                 \/ a = "infra" /\ FailsWith(Infra("apply"))
        BY <2>1, <2>14, SequenceApplies
      <3>2. pc = "apply" /\ steps' = steps /\ coverage' = coverage
        BY <2>14 DEF Sequence!ApplyOp
      <3> DEFINE e == [before |-> world, answer |-> a, after |-> world']
      <3>3. e \in [before : World, answer : Answers, after : World] /\ e.answer = a
            /\ log' = Append(log, e)
        BY <1>7, <2>2, <3>1
      <3> HIDE DEF e
      <3>4. Len(log') = steps /\ Len(log) = steps - 1 /\ log'[steps] = e
            /\ (\A i \in 1 .. Len(log) : log'[i] = log[i])
            /\ 1 .. Len(log') = (1 .. Len(log)) \cup {steps} /\ steps \notin 1 .. Len(log)
        BY <2>2, <2>3, <3>2, <3>3
      <3>5. \A i \in 1 .. Len(log) : Reached(i) /\ Reached(i)'
        BY <2>2, <3>2, <3>4
      <3>6. ~(Due(plan.every, steps) /\ Reached(steps)')
        <4>1. Infra("apply") # Infra("draw")
          BY DEF Infra
        <4>2. CASE FailsWith(report'.kind) /\ report'.kind # Infra("draw")
          <5>1. pc' = "done" /\ ~report'.passed
            BY <4>2 DEF FailsWith
          <5>2. QED
            BY <2>2, <3>2, <3>4, <4>2, <5>1 DEF Sequence!Passed
        <4>3. CASE pc' = IF Due(plan.every, steps) THEN "sweep" ELSE "next"
          <5>1. Due(plan.every, steps) => pc' = "sweep"
            BY <4>3
          <5>2. QED
            BY <2>2, <3>2, <3>4, <5>1 DEF Sequence!Passed, Sequence!Failed
        <4>4. a = "bug" /\ report'.kind.kind = "Bug" => report'.kind # Infra("draw")
          BY DEF Infra
        <4>5. FailsWith(Infra("apply")) => FailsWith(report'.kind) /\ report'.kind = Infra("apply")
          BY DEF FailsWith
        <4>6. QED
          BY <3>1, <4>1, <4>2, <4>3, <4>4, <4>5
      <3>7. Sequence!Swept' = Sequence!Swept
        <4>1. \A i \in 1 .. Len(log) : Reached(i) /\ Reached(i)'
          BY <3>5
        <4>2. ~(Due(plan'.every, steps) /\ Reached(steps)')
          BY <2>6, <3>6
        <4>3. ASSUME NEW i \in Sequence!Swept' PROVE i \in 1 .. Len(log) /\ Due(plan.every, i)
          <5>1. i \in 1 .. Len(log') /\ Due(plan.every, i) /\ Reached(i)'
            BY <1>6, <2>6, <4>3
          <5>2. i # steps
            BY <2>6, <3>2, <4>2, <5>1
          <5>3. QED
            BY <3>4, <5>1, <5>2
        <4>4. Sequence!Swept' \subseteq Sequence!Swept
          BY <1>5, <4>1, <4>3
        <4>5. Sequence!Swept \subseteq Sequence!Swept'
          BY <1>5, <1>6, <2>6, <3>4, <4>1
        <4>6. QED
          BY <4>4, <4>5
      <3>8. Sequence!Failed' =>
              \/ report'.kind.kind = "Bug" /\ a = "bug"
              \/ report'.kind = Infra("apply") /\ a = "infra"
        BY <3>1 DEF Sequence!Failed, FailsWith
      <3>9. Infra("apply").kind = "Infra" /\ Infra("apply") # Infra("mix")
        BY DEF Infra
      <3>10. Sequence!NothingStepsOverAViolation' /\ Sequence!CoverageCountsTheSweeps'
        BY <2>8, <3>2, <3>4, <3>7, <3>8, <3>9
      <3>11. \A i \in 1 .. (Len(log') - 1) : log'[i].answer \in Verdicts
        BY <2>2, <2>4, <3>2, <3>4
      <3>12. pc' # "done" => a \in Verdicts
        BY <3>1 DEF FailsWith
      <3>13. pc' # "done" => \A i \in 1 .. Len(log') : log'[i].answer \in Verdicts
        BY <2>4, <3>2, <3>3, <3>4, <3>12
      <3>14. pc' = "sweep" => Due(plan'.every, steps')
        BY <2>6, <3>1, <3>2 DEF FailsWith
      <3>15. Sequence!FailureIsTheFirstFault'
        <4>1. Sequence!Failed' => report'.steps = steps
          <5>1. Sequence!Failed' => FailsWith(report'.kind)
            BY <3>1 DEF Sequence!Failed, FailsWith
          <5>2. QED
            BY <5>1 DEF FailsWith
        <4>2. log'[steps].answer = a
          BY <3>3, <3>4
        <4>3. Sequence!Infra("apply") = Infra("apply")
          BY ReportOK
        <4>4. Sequence!Failed' =>
                /\ report'.kind.kind = "Bug" => log'[report'.steps].answer = "bug"
                /\ report'.kind = Sequence!Infra("apply") => log'[report'.steps].answer = "infra"
                /\ report'.kind.kind # "Invariant"
          BY <3>8, <3>9, <4>1, <4>2, <4>3
        <4>5. QED
          BY <3>11, <4>4, SameTests
          DEF Sequence!FailureIsTheFirstFault, Sequence!Verdicts, Sequence!Infra
      <3>16. ~(Sequence!Failed' /\ report'.kind = Infra("mix"))
        BY <3>8, <3>9 DEF Infra
      <3>17. QED
        BY <3>10, <3>13, <3>14, <3>15, <3>16, ReportOK, SameTests
        DEF SweptInv, Sequence!Verdicts, Sequence!Infra, Sequence!Due
    <2>15. CASE Sequence!Sweep
      <3>1. pc = "sweep" /\ log' = log /\ steps' = steps /\ world' = world
            /\ coverage' = SweepCoverage(coverage, world)
        BY <2>15, SameWords DEF Sequence!Sweep
      <3>2. Len(log) = steps /\ steps > 0 /\ log[steps].after = world
            /\ log[steps].answer \in Verdicts /\ Due(plan.every, steps)
        BY <2>3, <2>4, <3>1
      <3>3. Sequence!Swept = Behind(steps - 1)
        <4>1. \A i \in 1 .. Len(log) : Reached(i) <=> i \in 1 .. (steps - 1)
          BY <2>2, <2>5, <2>7, <3>1, <3>2
        <4> HIDE DEF Reached
        <4>2. QED
          BY <1>5, <2>2, <3>2, <4>1 DEF Behind
      <3>4. /\ Behind(steps) = Behind(steps - 1) \cup {steps}
            /\ Cardinality(Behind(steps)) = Cardinality(Behind(steps - 1)) + 1
            /\ Cardinality(Behind(steps - 1)) \in Nat
        <4>1. steps - 1 \in Nat /\ (steps - 1) + 1 = steps
          BY <2>2, <3>2
        <4>2. QED
          BY <3>2, <4>1, BehindCounts
      <3>5. \A i \in 1 .. Len(log') : log'[i].answer \in Verdicts
        BY <2>4, <3>1
      <3>6. Own => \A i \in DOMAIN Invariants :
              Tally(coverage', Invariants[i]) =
                Cardinality(Behind(steps - 1)) + IF i \in Checked(world) THEN 1 ELSE 0
        <4>1. ASSUME Own, NEW i \in DOMAIN Invariants
              PROVE  Tally(coverage', Invariants[i]) =
                       Cardinality(Behind(steps - 1)) + IF i \in Checked(world) THEN 1 ELSE 0
          <5>1. Tally(coverage, Invariants[i]) = Cardinality(Sequence!Swept) + 0
            BY <2>4, <2>5, <2>7, <4>1
          <5>2. Tally(coverage', Invariants[i]) =
                  Tally(coverage, Invariants[i]) + IF i \in Checked(world) THEN 1 ELSE 0
            BY <2>2, <3>1, <4>1, SweepTallies
          <5>3. QED
            BY <3>3, <3>4, <5>1, <5>2
        <4>2. QED
          BY <4>1
      <3>7. CASE Clean(world)
        <4>1. pc' = "next"
          BY <2>15, <3>7, SameWords DEF Sequence!Sweep
        <4>2. Sequence!Swept' = Behind(steps)
          BY <1>6, <2>6, <3>1, <3>2, <4>1 DEF Behind
        <4>3. ~Sequence!Failed'
          BY <4>1 DEF Sequence!Failed
        <4>4. Checked(world) = DOMAIN Invariants
          BY <3>7, FirstViolation
        <4>5. Counted'
          BY <3>4, <3>6, <4>2, <4>3, <4>4
        <4>6. \A i \in Sequence!Swept' : Clean(log'[i].after)
          BY <2>4, <3>1, <3>2, <3>3, <3>4, <3>7, <4>2
        <4>7. Sequence!NothingStepsOverAViolation'
          BY <4>6, SameWords DEF Sequence!NothingStepsOverAViolation
        <4>8. QED
          BY <1>4, <3>5, <4>1, <4>3, <4>5, <4>7, SameTests
          DEF SweptInv, Sequence!FailureIsTheFirstFault, Sequence!Verdicts
      <3>8. CASE ~Clean(world)
        <4>1. FailsWith(SweepFailure(world))
          BY <2>15, <3>8, SameWords, Reports DEF Sequence!Sweep
        <4>2. pc' = "done" /\ report'.passed = FALSE /\ report'.steps = steps
              /\ report'.kind = SweepFailure(world)
          BY <4>1 DEF FailsWith
        <4>3. SweepFailure(world).kind = "Invariant"
          BY <3>8, FirstViolation
        <4>4. Sequence!Failed' /\ ~Sequence!Passed' /\ report'.kind.kind = "Invariant"
          BY <4>2, <4>3 DEF Sequence!Failed, Sequence!Passed
        <4>5. \A f : report'.kind # Infra(f)
          BY <4>2, <4>3 DEF Infra
        <4>6. Sequence!Swept' = Behind(steps - 1)
          <5>1. \A i \in 1 .. Len(log') : Reached(i)' <=> i \in 1 .. (steps - 1)
            BY <2>2, <3>1, <3>2, <4>2, <4>4, <4>5
          <5> HIDE DEF Reached
          <5>2. QED
            BY <1>6, <2>2, <2>6, <3>1, <3>2, <5>1 DEF Behind
        <4>7. Counted'
          BY <3>1, <3>6, <4>4, <4>6
        <4>8. \A i \in Sequence!Swept' : Clean(log'[i].after)
          BY <2>4, <3>1, <3>3, <4>6
        <4>9. Sequence!NothingStepsOverAViolation'
          BY <4>8, SameWords DEF Sequence!NothingStepsOverAViolation
        <4>10. Sequence!FailureIsTheFirstFault'
          <5>1. \A i \in 1 .. (Len(log') - 1) : log'[i].answer \in Verdicts
            BY <1>7, <3>5
          <5>2. report'.kind.kind # "Bug" /\ report'.kind # Sequence!Infra("apply")
            BY <4>4, <4>5, ReportOK
          <5>3. Sequence!Due(plan'.every, report'.steps) /\ log'[report'.steps].answer \in Sequence!Verdicts
                /\ report'.kind = Sequence!SweepFailure(log'[report'.steps].after)
            BY <2>6, <3>1, <3>2, <4>2, SameTests, SameWords
          <5>4. QED
            BY <5>1, <5>2, <5>3, SameTests
            DEF Sequence!FailureIsTheFirstFault, Sequence!Verdicts, Sequence!Infra,
                Sequence!Due, Sequence!SweepFailure
        <4>11. report'.kind # Sequence!Infra("mix")
          BY <4>5, ReportOK
        <4>12. Sequence!CoverageCountsTheSweeps'
          BY <1>4, <4>7
        <4>13. pc' # "sweep" /\ pc' = "done"
          BY <4>2
        <4>14. report'.kind # Infra("mix")
          BY <4>5
        <4> HIDE DEF Counted
        <4>15. QED
          BY <4>9, <4>10, <4>12, <4>13, <4>14, ReportOK DEF SweptInv, Sequence!Infra
      <3>9. QED
        BY <3>7, <3>8
    <2>16. QED
      BY <1>10, <2>1, <2>10, <2>11, <2>12, <2>13, <2>14, <2>15 DEF Sequence!Next
  <1>11. Drive \/ Redrive \/ UNCHANGED vars
    BY <1>1 DEF Next, Endure, Follow, Shrink, Minimize, ShrinkFixed, BeginSearch, ReplayArtifact
  <1>12. QED
    BY <1>8, <1>9, <1>10, <1>11
-----------------------------------------------------------------------------
(* Every step of a sequence draws by the weights of the world it is in.     *)
LEMMA DrawInvariant ==
    ASSUME TypeOK, OneInFlight, DrawInv, [Next]_vars
    PROVE  DrawInv'
  <1> DEFINE Drew == ~plan.fixed =>
               \A i \in 1 .. Len(log) : Drawn(plan.mix, log[i].before, history[i])
             Starved == Sequence!Failed /\ report.kind = Infra("draw") =>
               \A j \in DOMAIN Candidates(plan.mix) : ~HasWeight(plan.mix, world, j)
  <1>1. SUFFICES ASSUME mode' = "sequence" PROVE DrawInv'
    BY DEF DrawInv
  <1>2. TypeOK'
    BY TypeInvariant
  <1>3. \A w, j : Sequence!Weighs(w, j) <=> HasWeight(plan.mix, w, j)
    BY SameDraws DEF Sequence!Weighs, HasWeight
  <1>5. Sequence!DrawsFollowTheWeights <=> Drew /\ Starved
    BY <1>3, SameDraws, ReportOK DEF Sequence!DrawsFollowTheWeights, Drawn
  <1>6. Sequence!DrawsFollowTheWeights' <=> Drew' /\ Starved'
    BY SameDraws, ReportOK DEF Sequence!DrawsFollowTheWeights, Sequence!Weighs, HasWeight, Drawn
  <1>7. CASE Redrive
    <2>1. plan'.fixed = TRUE /\ pc' = "next"
      BY <1>7 DEF Redrive
    <2>2. Drew' /\ Starved'
      BY <2>1 DEF Sequence!Failed
    <2>3. QED
      BY <1>6, <2>1, <2>2 DEF DrawInv
  <1>8. CASE UNCHANGED vars \/ (Drive /\ Sequence!Done)
    <2>1. UNCHANGED <<mode, plan, pc, op, world, history, log, report>>
      BY <1>8 DEF vars, driven, Drive, Sequence!Done, Sequence!vars
    <2>2. mode = "sequence" /\ Drew /\ Starved
            /\ (pc = "apply" /\ ~plan.fixed => Drawn(plan.mix, world, op))
      BY <1>1, <1>5, <2>1 DEF DrawInv
    <2>3. Drew' /\ Starved'
      BY <2>1, <2>2 DEF Sequence!Failed
    <2>4. QED
      BY <1>6, <2>1, <2>2, <2>3 DEF DrawInv
  <1>9. CASE Drive /\ ~Sequence!Done
    <2>1. mode = "sequence" /\ Sequence!Next
      BY <1>9 DEF Drive
    <2>2. /\ Len(log) \in Nat /\ steps \in Nat /\ world \in World /\ plan.mix \in Mix
          /\ Len(history) \in Nat /\ history \in Seq(Operation)
          /\ log \in Seq([before : World, answer : Answers, after : World])
      BY <2>1, SameDraws DEF TypeOK, SharedOK, SequenceOK, Sequence!Plan
    <2>3. /\ Len(log) = IF pc = "apply" THEN steps - 1 ELSE steps
          /\ Len(history) = steps
          /\ pc = "apply" => op = history[steps]
      BY <2>1 DEF OneInFlight
    <2>4. Drew /\ (pc = "apply" /\ ~plan.fixed => Drawn(plan.mix, world, op))
      BY <1>5, <2>1 DEF DrawInv
    <2>5. CASE Sequence!Draw
      <3>1. PICK k \in Sequence!Drawable(plan.mix, world) :
              \E o \in Generate(world, k) : Sequence!Begin(o)
        BY <2>5 DEF Sequence!Draw
      <3>2. PICK o \in Generate(world, k) : Sequence!Begin(o)
        BY <3>1
      <3>3. k \in OpKind /\ \E j \in DOMAIN Candidates(plan.mix) :
              k = Candidates(plan.mix)[j][1] /\ Candidates(plan.mix)[j][2] # 0 /\ Weight(world, k) # 0
        BY <2>2, <3>1, SameDraws, DrawnByWeight
      <3>4. Drawn(plan.mix, world, o)
        BY <3>2, <3>3 DEF Drawn, HasWeight
      <3>5. pc = "next" /\ pc' = "apply" /\ op' = o /\ history' = Append(history, o)
            /\ plan' = plan /\ world' = world /\ log' = log
        BY <2>5, <3>2 DEF Sequence!Draw, Sequence!Begin
      <3>6. o \in Operation
        BY <2>2, <3>2, <3>3, HarnessAssumption
      <3>7. \A i \in 1 .. Len(log) : history'[i] = history[i]
        BY <2>2, <2>3, <3>5, <3>6
      <3>8. Drew' /\ Starved'
        BY <2>4, <3>5, <3>7 DEF Sequence!Failed
      <3>9. QED
        BY <1>6, <3>4, <3>5, <3>8 DEF DrawInv
    <2>6. CASE Sequence!TakeFixed
      <3>1. plan.fixed /\ plan' = plan /\ pc' = "apply"
        BY <2>6 DEF Sequence!TakeFixed, Sequence!Begin
      <3>2. Drew' /\ Starved'
        BY <3>1 DEF Sequence!Failed
      <3>3. QED
        BY <1>6, <3>1, <3>2 DEF DrawInv
    <2>7. CASE Sequence!Starve
      <3>1. plan' = plan /\ log' = log /\ history' = history /\ world' = world
            /\ Sequence!Drawable(plan.mix, world) = {} /\ FailsWith(Sequence!Infra("draw"))
        BY <2>7, Reports DEF Sequence!Starve
      <3>2. \A j \in DOMAIN Candidates(plan.mix) : ~HasWeight(plan.mix, world, j)
        BY <2>2, <3>1, SameDraws, DrawnByWeight DEF HasWeight
      <3>3. Drew' /\ Starved' /\ pc' = "done"
        BY <2>4, <3>1, <3>2 DEF FailsWith
      <3>4. QED
        BY <1>6, <3>3 DEF DrawInv
    <2>8. CASE Sequence!ApplyOp
      <3>1. PICK a \in Answers :
              /\ log' = Append(log, [before |-> world, answer |-> a, after |-> world'])
              /\ \/ /\ a \in Verdicts /\ report' = report
                    /\ pc' = IF Due(plan.every, steps) THEN "sweep" ELSE "next"
                 \/ a = "bug" /\ report'.kind.kind = "Bug" /\ FailsWith(report'.kind)
                 \/ a = "infra" /\ FailsWith(Infra("apply"))
        BY <2>1, <2>8, SequenceApplies
      <3>2. pc = "apply" /\ plan' = plan /\ history' = history /\ op' = op
        BY <2>8 DEF Sequence!ApplyOp
      <3> DEFINE e == [before |-> world, answer |-> a, after |-> world']
      <3>3. e \in [before : World, answer : Answers, after : World] /\ e.before = world
            /\ log' = Append(log, e)
        BY <1>2, <2>2, <3>1 DEF TypeOK, SharedOK
      <3> HIDE DEF e
      <3>4. Len(log') = steps /\ log'[steps] = e 
            /\ \A i \in 1 .. (steps - 1) : log'[i] = log[i] /\ i \in 1 .. Len(log)
        BY <2>2, <2>3, <3>2, <3>3
      <3>5. Drew'
        <4>1. ASSUME ~plan.fixed, NEW i \in 1 .. steps
              PROVE  Drawn(plan.mix, log'[i].before, history[i])
          <5>1. CASE i = steps
            BY <2>3, <2>4, <3>2, <3>3, <3>4, <4>1, <5>1
          <5>2. CASE i # steps
            BY <2>2, <2>4, <3>4, <4>1, <5>2
          <5>3. QED
            BY <5>1, <5>2
        <4>2. QED
          BY <3>2, <3>4, <4>1
      <3>6. pc' # "apply"
        BY <3>1 DEF FailsWith
      <3>7. Starved'
        <4>1. Infra("apply") # Infra("draw") /\ Infra("draw").kind = "Infra"
          BY DEF Infra
        <4>2. QED
          BY <3>1, <4>1 DEF Sequence!Failed, FailsWith
      <3>8. QED
        BY <1>6, <3>5, <3>6, <3>7 DEF DrawInv
    <2>9. CASE Sequence!ResolveMix \/ Sequence!Finish \/ Sequence!Sweep
      <3>1. plan' = plan /\ log' = log /\ history' = history
        BY <2>9 DEF Sequence!ResolveMix, Sequence!Finish, Sequence!Sweep
      <3>2. \/ pc' = "next" \/ PassesNow \/ FailsWith(Infra("mix"))
            \/ ~Clean(world) /\ FailsWith(SweepFailure(world))
        BY <2>9, Reports, ReportOK, SameWords
        DEF Sequence!ResolveMix, Sequence!Finish, Sequence!Sweep
      <3>3. Infra("mix") # Infra("draw") /\ Infra("draw").kind = "Infra"
        BY DEF Infra
      <3>4. ~Clean(world) => SweepFailure(world).kind = "Invariant"
        BY FirstViolation
      <3>5. pc' # "apply" /\ Starved'
        BY <3>2, <3>3, <3>4 DEF Sequence!Failed, PassesNow, FailsWith
      <3>6. Drew'
        BY <2>4, <3>1
      <3>7. QED
        BY <1>6, <3>5, <3>6 DEF DrawInv
    <2>10. QED
      BY <1>9, <2>1, <2>5, <2>6, <2>7, <2>8, <2>9 DEF Sequence!Next
  <1>10. Drive \/ Redrive \/ UNCHANGED vars
    BY <1>1 DEF Next, Endure, Follow, Shrink, Minimize, ShrinkFixed, BeginSearch, ReplayArtifact
  <1>11. QED
    BY <1>7, <1>8, <1>9, <1>10
-----------------------------------------------------------------------------
(* Every step of a search keeps in hand what fails like the reference, and  *)
(* pays for each replay from the budget.                                    *)
LEMMA SearchInvariant ==
    ASSUME TypeOK, SearchInv, [Next]_vars
    PROVE  SearchInv'
  <1>1. /\ replays \in Nat /\ budget \in Nat /\ current \in Seq(Operation)
        /\ (mode = "shrink" => plan.limit \in Nat)
    BY DEF TypeOK, SharedOK, SearchOK, Searches
  <1>2. /\ mode # "shrink" => refKind = NoFailure /\ replays = 0
        /\ mode = "shrink" =>
             /\ pc = "reference" => current = plan.history /\ refKind = NoFailure
             /\ pc \notin {"reference", "done"} => refKind # NoFailure
             /\ replays + budget = plan.limit + (IF pc = "reference" THEN 0 ELSE 1)
             /\ refKind # NoFailure => SameFailure(Search!Replay(current).kind, refKind)
             /\ pc = "done" /\ refKind = NoFailure => current = plan.history
    BY DEF SearchInv, Search!AlwaysReproduces, Search!BudgetBoundsReplays, Search!SameFailure, SameFailure
  (* What is to be shown of a step of the search. *)
  <1>3. ASSUME mode' = "shrink",
               pc' = "reference" => current' = plan'.history /\ refKind' = NoFailure,
               pc' \notin {"reference", "done"} => refKind' # NoFailure,
               replays' + budget' = plan'.limit + (IF pc' = "reference" THEN 0 ELSE 1),
               refKind' # NoFailure => SameFailure(Search!Replay(current)'.kind, refKind'),
               pc' = "done" /\ refKind' = NoFailure => current' = plan'.history
        PROVE  SearchInv'
    <2>1. replays' \in Nat /\ budget' \in Nat /\ plan'.limit \in Nat
      <3>1. TypeOK'
        BY TypeInvariant
      <3>2. QED
        BY <1>3, <3>1 DEF TypeOK, SharedOK, SearchOK, Searches
    <2>2. replays' <= plan'.limit + 1
      BY <1>3, <2>1
    <2>3. Search!AlwaysReproduces'
      BY <1>3 DEF Search!AlwaysReproduces, Search!SameFailure, SameFailure
    <2>4. Search!BudgetBoundsReplays'
      BY <1>3, <2>2 DEF Search!BudgetBoundsReplays
    <2>5. QED
      BY <1>3, <2>3, <2>4 DEF SearchInv
  <1>4. CASE UNCHANGED vars
    <2>1. UNCHANGED <<mode, plan, pc, refKind, current, budget, replays>>
      BY <1>4 DEF vars, search
    <2>2. SearchInv
      OBVIOUS
    <2>3. QED
      BY <2>1, <2>2 DEF SearchInv, Search!AlwaysReproduces, Search!BudgetBoundsReplays, Search!Replay
  <1>5. CASE Drive \/ Endure \/ Follow
    <2>1. mode # "shrink" /\ mode' # "shrink" /\ refKind' = refKind /\ replays' = replays
      BY <1>5 DEF Drive, Endure, Follow, search
    <2>2. QED
      BY <1>2, <2>1 DEF SearchInv
  <1>6. CASE Redrive \/ ReplayArtifact
    <2>1. mode' # "shrink" /\ refKind' = NoFailure /\ replays' = 0
      BY <1>6 DEF Redrive, ReplayArtifact, Setup
    <2>2. QED
      BY <2>1 DEF SearchInv
  <1>7. CASE Minimize \/ ShrinkFixed
    <2>1. \E as : BeginSearch(as)
      BY <1>7 DEF Minimize, ShrinkFixed
    <2>2. mode # "shrink"
      BY <1>7 DEF Minimize, ShrinkFixed, Generative
    <2>3. mode' = "shrink" /\ pc' = "reference" /\ current' = plan'.history
          /\ refKind' = refKind /\ replays' = replays /\ budget' = plan'.limit
      BY <2>1 DEF BeginSearch
    <2>4. budget' \in Nat
      <3>1. TypeOK'
        BY TypeInvariant
      <3>2. QED
        BY <3>1 DEF TypeOK, SharedOK
    <2>5. QED
      BY <1>2, <1>3, <2>2, <2>3, <2>4
  <1>8. CASE Shrink
    <2>1. mode = "shrink" /\ mode' = "shrink" /\ Search!Next
      BY <1>8 DEF Shrink
    <2>2. CASE Search!Reference
      <3>1. /\ pc = "reference" /\ refKind' = Search!Replay(plan.history).kind
            /\ replays' = replays + 1 /\ current' = current /\ budget' = budget /\ plan' = plan
            /\ (refKind' = NoFailure => pc' = "done") /\ (refKind' # NoFailure => pc' = "chunk")
        BY <2>2 DEF Search!Reference
      <3>2. current = plan.history /\ replays + budget = plan.limit
        BY <1>1, <1>2, <2>1, <3>1
      <3>3. SameFailure(refKind', refKind')
        BY DEF SameFailure
      <3>4. Search!Replay(current)' = Search!Replay(plan.history)
        BY <3>1, <3>2 DEF Search!Replay
      <3>5. replays' + budget' = plan'.limit + 1
        BY <1>1, <2>1, <3>1, <3>2
      <3>6. QED
        BY <1>3, <2>1, <3>1, <3>2, <3>3, <3>4, <3>5
    <2>3. ASSUME pc \notin {"reference", "done"}, pc' # "reference", UNCHANGED <<plan, refKind, current>>,
                 replays' + budget' = replays + budget
          PROVE  SearchInv'
      <3>1. Search!Replay(current)' = Search!Replay(current)
        BY <2>3 DEF Search!Replay
      <3>2. refKind' # NoFailure /\ SameFailure(Search!Replay(current)'.kind, refKind')
        BY <1>2, <2>1, <2>3, <3>1
      <3>3. replays' + budget' = plan'.limit + 1
        BY <1>2, <2>1, <2>3
      <3>4. QED
        BY <1>3, <2>1, <2>3, <3>2, <3>3
    <2>4. ASSUME pc \in {"window", "single"}, UNCHANGED <<plan, refKind>>,
                 NEW c, NEW stride, Search!Try(c, stride)
          PROVE  SearchInv'
      <3>1. CASE budget = 0
        BY <2>3, <2>4, <3>1 DEF Search!Try
      <3>2. CASE budget # 0
        <4>1. pc' = pc /\ budget' = budget - 1 /\ replays' = replays + 1
              /\ current' = IF Search!FailsTheSame(c) THEN c ELSE current
          BY <3>2, <2>4 DEF Search!Try
        <4>2. replays' + budget' = replays + budget
          BY <1>1, <4>1
        <4>3. CASE Search!FailsTheSame(c)
          <5>1. SameFailure(Search!Replay(c).kind, refKind)
            BY <4>3 DEF Search!FailsTheSame, Search!SameFailure, SameFailure
          <5>2. Search!Replay(current)' = Search!Replay(c)
            BY <2>4, <4>1, <4>3 DEF Search!Replay
          <5>3. refKind' # NoFailure /\ replays' + budget' = plan'.limit + 1
            BY <1>2, <2>1, <2>4, <4>2
          <5>4. QED
            BY <1>3, <2>1, <2>4, <4>1, <5>1, <5>2, <5>3
        <4>4. CASE ~Search!FailsTheSame(c)
          BY <2>3, <2>4, <4>1, <4>2, <4>4
        <4>5. QED
          BY <4>3, <4>4
      <3>3. QED
        BY <3>1, <3>2
    <2>5. CASE Search!NextSize \/ Search!Halve
      <3>1. pc \in {"chunk", "window"} /\ pc' \in {"window", "single", "chunk"}
            /\ UNCHANGED <<plan, refKind, current, replays, budget>>
        BY <2>5 DEF Search!NextSize, Search!Halve
      <3>2. QED
        BY <2>3, <3>1
    <2>6. CASE Search!Window
      <3>1. pc = "window" /\ UNCHANGED <<plan, refKind>>
            /\ \/ UNCHANGED <<current, budget, pc, replays>>
               \/ \E c : Search!Try(c, size)
        BY <2>6 DEF Search!Window
      <3>2. CASE UNCHANGED <<current, budget, pc, replays>>
        BY <2>3, <3>1, <3>2
      <3>3. CASE \E c : Search!Try(c, size)
        BY <2>4, <3>1, <3>3
      <3>4. QED
        BY <3>1, <3>2, <3>3
    <2>7. CASE Search!Single
      <3>1. pc = "single" /\ UNCHANGED <<plan, refKind>>
            /\ \/ pc' = "done" /\ UNCHANGED <<current, budget, replays>>
               \/ \E c : Search!Try(c, 1)
        BY <2>7 DEF Search!Single
      <3>2. CASE pc' = "done" /\ UNCHANGED <<current, budget, replays>>
        BY <2>3, <3>1, <3>2
      <3>3. CASE \E c : Search!Try(c, 1)
        BY <2>4, <3>1, <3>3
      <3>4. QED
        BY <3>1, <3>2, <3>3
    <2>8. CASE Search!Done
      <3>1. UNCHANGED <<mode, plan, pc, refKind, current, budget, replays>>
        BY <2>1, <2>8 DEF Search!Done, Search!vars
      <3>2. SearchInv
        OBVIOUS
      <3>3. QED
        BY <3>1, <3>2 DEF SearchInv, Search!AlwaysReproduces, Search!BudgetBoundsReplays, Search!Replay
    <2>9. QED
      BY <2>1, <2>2, <2>5, <2>6, <2>7, <2>8 DEF Search!Next
  <1>9. QED
    BY <1>4, <1>5, <1>6, <1>7, <1>8 DEF Next
-----------------------------------------------------------------------------
RunnerInv ==
    /\ TypeOK /\ OneInFlight
    /\ ScriptInv
    /\ BudgetInv /\ CleanInv /\ StreakInv
    /\ SweptInv /\ DrawInv
    /\ SearchInv

(* A run has nothing behind it when it begins.                              *)
LEMMA InitInv ==
    ASSUME Init
    PROVE  RunnerInv
  <1>1. TypeOK
    BY InitTypes
  <1>2. mode # "shrink" /\ refKind = NoFailure /\ replays = 0
    BY DEF Init
  <1>3. SearchInv
    BY <1>2 DEF SearchInv
  <1>4. steps = 0 /\ history = <<>> /\ log = <<>> /\ pc \in {"next", "resolve"} /\ streak = 0
        /\ (mode \in {"sequence", "endurance"} => coverage = SeedCoverage)
    BY Fresh DEF Init, Sequence!Init, Loop!Init, Script!Init, NoLoop
  <1>5. OneInFlight
    BY <1>4 DEF OneInFlight
  <1>6. ScriptInv
    <2>1. mode = "scenario" => Len(plan.steps) \in Nat
      BY <1>1 DEF TypeOK, ScenarioOK, Texts
    <2>2. QED
      BY <1>4, <2>1 DEF ScriptInv, Script!PassMeetsEveryExpectation, Script!Passed,
        Script!FailureIsTheFirstBroken, Script!Failed
  <1>7. mode = "endurance" => Loop!Init /\ plan \in Loop!Config
    BY <1>1 DEF Init, TypeOK, EnduranceOK
  <1>8. BudgetInv
    <2>1. mode = "endurance" /\ plan.maxOps # Unbounded => source + steps = plan.maxOps
      BY <1>4, <1>7 DEF Loop!Init, Loop!Config
    <2>2. QED
      BY <1>4, <2>1 DEF BudgetInv, Loop!PassIsSweptClean, Loop!Passed
  <1>9. CleanInv
    BY <1>4 DEF CleanInv
  <1>10. StreakInv
    <2>1. mode = "endurance" => plan.maxInfra \in Nat
      BY <1>7 DEF Loop!Config
    <2>2. Streak(0)
      BY <1>4 DEF Streak, Loop!Trailing
    <2>3. ~Loop!Failed
      BY <1>4 DEF Loop!Failed
    <2>4. QED
      BY <1>4, <2>1, <2>2, <2>3 DEF StreakInv
  <1>11. SweptInv
    <2>1. Sequence!Swept = {}
      BY <1>4 DEF Sequence!Swept
    <2>2. ~Sequence!Failed
      BY <1>4 DEF Sequence!Failed
    <2>3. mode = "sequence" => \A i \in DOMAIN Invariants : Sequence!Total(Invariants[i]) = 0
      <3>1. \A i \in DOMAIN Invariants : Invariants[i] \in InvName
        BY HarnessAssumption
      <3>2. QED
        BY <1>4, <3>1, Fresh DEF Sequence!Total, CheckOutcome
    <2>4. mode = "sequence" => Sequence!CoverageCountsTheSweeps
      BY <2>1, <2>2, <2>3, SameWords, FS_EmptySet DEF Sequence!CoverageCountsTheSweeps
    <2>5. QED
      BY <1>4, <2>1, <2>2, <2>4
      DEF SweptInv, Sequence!NothingStepsOverAViolation, Sequence!FailureIsTheFirstFault
  <1>12. DrawInv
    BY <1>4 DEF DrawInv, Sequence!DrawsFollowTheWeights, Sequence!Failed
  <1>13. QED
    BY <1>1, <1>3, <1>5, <1>6, <1>8, <1>9, <1>10, <1>11, <1>12 DEF RunnerInv

(* It holds throughout.                                                     *)
LEMMA InvariantHolds == Spec => []RunnerInv
  <1>1. Init => RunnerInv
    BY InitInv
  <1>2. RunnerInv /\ [Next]_vars => RunnerInv'
    BY TypeInvariant, FlightInvariant, ScriptInvariant, EnduranceInvariant, SequenceInvariant,
       DrawInvariant, SearchInvariant DEF RunnerInv
  <1>3. QED
    BY <1>1, <1>2, PTL DEF Spec
-----------------------------------------------------------------------------
(* A generative run's report is true to it: no violation at the cadence is  *)
(* stepped over, the failure is the first fault, and the coverage counts    *)
(* the sweeps that ran (Drive: step, sweep and ReportBuilder).              *)
THEOREM SequenceIsTrue == Spec => []SequenceReportsTrue
  <1>1. RunnerInv => SequenceReportsTrue
    BY DEF RunnerInv, SweptInv, SequenceReportsTrue
  <1>2. QED
    BY <1>1, InvariantHolds, PTL

(* Only ops of a kind with weight are drawn, and a run starves only where   *)
(* no kind has any (resolve_mix, OpSource::next).                           *)
THEOREM DrawsAreWeighted == Spec => []DrawsFollowTheWeights
  <1>1. RunnerInv => DrawsFollowTheWeights
    BY DEF RunnerInv, DrawInv, DrawsFollowTheWeights
  <1>2. QED
    BY <1>1, InvariantHolds, PTL

(* The report of an endurance run is true to it: passing means swept clean, *)
(* due steps behind were clean, and the tolerance is exact.                 *)
THEOREM EnduranceIsTrue == Spec => []EnduranceReportsTrue
  <1>1. ASSUME RunnerInv, mode = "endurance"
        PROVE  Loop!PassIsSweptClean /\ Loop!DueStepsWereClean /\ Loop!ToleranceIsExact
    <2>1. plan.maxInfra \in Nat /\ Len(log) \in Nat /\ steps \in Nat
      BY <1>1 DEF RunnerInv, TypeOK, SharedOK, EnduranceOK, Loop!Config
    <2>2. Loop!PassIsSweptClean
      BY <1>1 DEF RunnerInv, BudgetInv
    <2>3. Loop!DueStepsWereClean
      <3>1. \A i \in 1 .. Len(log) :
              Loop!Due(plan.every, i) /\ log[i].answer \in Loop!Verdicts =>
                \/ Loop!Clean(log[i].after)
                \/ i = Len(log) /\ (pc = "sweep" \/ (pc = "done" /\ ~report.passed))
        BY <1>1 DEF RunnerInv, CleanInv
      <3>2. QED
        BY <2>1, <3>1 DEF Loop!DueStepsWereClean, Loop!Passed
    <2>4. PICK n \in 0 .. (plan.maxInfra + 1) :
            /\ Streak(n)
            /\ n = plan.maxInfra + 1 <=> Loop!Failed /\ report.kind = Loop!Infra("apply")
      BY <1>1, ReportOK DEF RunnerInv, StreakInv
    <2>5. Loop!Cardinality(Loop!Trailing) = n
      <3>1. n \in Nat /\ n <= Len(log) /\ Loop!Trailing = (Len(log) - n + 1) .. Len(log)
        BY <2>1, <2>4 DEF Streak
      <3>2. Cardinality((Len(log) - n + 1) .. Len(log)) = n
        <4>1. Len(log) - n + 1 \in Int /\ Len(log) \in Int
          BY <2>1, <3>1
        <4>2. Cardinality((Len(log) - n + 1) .. Len(log)) =
                IF Len(log) - n + 1 > Len(log) THEN 0 ELSE Len(log) - (Len(log) - n + 1) + 1
          BY <4>1, FS_Interval
        <4>3. QED
          BY <2>1, <3>1, <4>2
      <3>3. QED
        BY <3>1, <3>2, SameWords
    <2>6. Loop!ToleranceIsExact
      BY <2>1, <2>4, <2>5 DEF Loop!ToleranceIsExact
    <2>7. QED
      BY <2>2, <2>3, <2>6
  <1>2. RunnerInv => EnduranceReportsTrue
    BY <1>1 DEF EnduranceReportsTrue
  <1>3. QED
    BY <1>2, InvariantHolds, PTL

(* Once it is told to stop, an endurance run begins no op and finishes the  *)
(* one in flight (run_with: the flag is read at the top of the loop).       *)
THEOREM CtrlCIsGraceful == Spec => StopIsGraceful
  <1>1. RunnerInv /\ [Next]_vars =>
          [mode = "endurance" /\ stop /\ mode' = mode => history' = history]_vars
    <2>1. SUFFICES ASSUME [Next]_vars, mode = "endurance", stop, mode' = mode
                   PROVE  history' = history
      OBVIOUS
    <2>2. CASE UNCHANGED vars
      BY <2>2 DEF vars, driven
    <2>3. CASE Next
      <3>1. Loop!Next
        BY <2>1, <2>3 DEF Next, Drive, Endure, Follow, Shrink, Minimize, ShrinkFixed, BeginSearch,
          Redrive, ReplayArtifact
      <3>2. ~Loop!Draw
        BY <2>1 DEF Loop!Draw, Loop!Ending
      <3>3. QED
        BY <3>1, <3>2
        DEF Loop!Next, Loop!Loop, Loop!ResolveMix, Loop!Break, Loop!Starve, Loop!ApplyOp, Loop!Sweep,
            Loop!AdvanceBlocks, Loop!FinalSweep, Loop!Signal, Loop!Expire, Loop!Done, Loop!vars
    <2>4. QED
      BY <2>1, <2>2, <2>3
  <1>2. RunnerInv => (mode = "endurance" => Loop!NothingIsSevered)
    BY DEF RunnerInv, OneInFlight, Loop!NothingIsSevered
  <1>3. QED
    BY <1>1, <1>2, InvariantHolds, PTL DEF Spec, StopIsGraceful

(* A scenario passes only as it was written, and fails at the first step    *)
(* that broke something (run_steps).                                        *)
THEOREM ScenariosAreHonoured == Spec => []ScriptsAreHonoured
  <1>1. RunnerInv => ScriptsAreHonoured
    BY DEF RunnerInv, ScriptInv, ScriptsAreHonoured
  <1>2. QED
    BY <1>1, InvariantHolds, PTL
-----------------------------------------------------------------------------
(* What a failure becomes when its history is replayed, searched for a      *)
(* shorter one, driven again and written as an artifact.  The drivers and   *)
(* the searches run the same ops by different means, step by step and by    *)
(* RunFixed; here they are shown to agree.                                  *)

(* What step i of a run met, how it was answered and what it failed with.   *)
Met(i) == IF i = 1 THEN start ELSE log[i - 1].after

Given(i) == Answered(Met(i), history[i])

SweptAfter(i) == IF mode = "scenario" THEN Script!Asked(i) ELSE Due(plan.every, i)

Fault(i) == StepFailure(Given(i), SweptAfter(i))

(* The log is what apply answers to the history, from the start on.         *)
TraceInv ==
    mode \in {"sequence", "scenario"} =>
      /\ world = Met(Len(log) + 1)
      /\ \A i \in 1 .. Len(log) :
           /\ log[i].answer = Given(i).answer[1] /\ log[i].after = Given(i).world
           /\ mode = "sequence" => log[i].before = Met(i)

(* The steps behind had no fault, and a run fails with its last step's.     *)
FaultInv ==
    mode \in {"sequence", "scenario"} =>
      /\ \A i \in 1 .. Len(log) :
           \/ i < Len(log) \/ pc \in {"next", "apply"} \/ (pc = "done" /\ report.passed)
           => Fault(i) = NoFailure
      /\ pc = "sweep" => Fault(Len(log)) = SweepFailure(world)
      /\ pc = "done" /\ ~report.passed =>
           \/ mode = "sequence" /\ report.kind \in {Infra("mix"), Infra("draw")}
           \/ mode = "scenario" /\ report.kind = Script!Mismatch
           \/ steps > 0 /\ Fault(steps) = report.kind

(* The history is a beginning of the list that is driven.                   *)
ListInv ==
    /\ mode = "sequence" /\ plan.fixed =>
         /\ pc # "resolve"
         /\ Len(history) + Len(source.rest) = Len(plan.list)
         /\ \A i \in 1 .. Len(history) : history[i] = plan.list[i]
         /\ \A i \in 1 .. Len(source.rest) : source.rest[i] = plan.list[Len(history) + i]
         /\ pc = "done" /\ report.passed => source.rest = <<>>
         /\ pc = "done" /\ ~report.passed => report.kind \notin {Infra("mix"), Infra("draw")}
    /\ mode = "scenario" => \A i \in 1 .. steps : history[i] = plan.steps[i].op

(* A failure of an op, at a cadence the replay has too.                     *)
Replayable(f) ==
    \/ f.mode = "fixed"
    \/ f.mode = "sequence" /\ f.every = 1 /\ f.report.kind \notin {Infra("mix"), Infra("draw")}

FailsLike(ops, every) ==
    LET kind == RunFixed(ops, every, start).kind
    IN  kind # NoFailure /\ SameFailure(kind, failed.report.kind)

(* What is done about a failure starts from it, and keeps its kind.         *)
FailedInv ==
    /\ failed # NoFailure =>
         /\ ~failed.report.passed /\ failed.report \in Report
         /\ Replayable(failed) =>
              RunFixed(failed.report.history, failed.every, start).kind = failed.report.kind
    /\ mode = "endurance" => failed = NoFailure
    /\ mode = "shrink" =>
         /\ plan.world = start /\ plan.every = failed.every
         /\ plan.history = failed.report.history
         /\ refKind # NoFailure => RunFixed(current, plan.every, start).kind # NoFailure
         /\ failed # NoFailure /\ Replayable(failed) /\ pc # "reference" => refKind = failed.report.kind
    /\ mode = "sequence" /\ failed # NoFailure =>
         /\ plan.fixed /\ failed.mode = "fixed" /\ plan.every = failed.every
         /\ FailsLike(plan.list, plan.every)
    /\ mode = "scenario" /\ failed # NoFailure =>
         /\ failed.mode # "fixed" /\ plan.every = 1
         /\ \A i \in DOMAIN plan.steps :
              plan.steps[i].expect = "accepted" /\ plan.steps[i].check = TRUE
         /\ Replayable(failed) =>
              FailsLike([i \in DOMAIN plan.steps |-> plan.steps[i].op], 1)

(* The search only drops ops, and never the last one.                       *)
OrderInv == mode = "shrink" => Search!KeepsTheOrder

ReplayInv == RunnerInv /\ TraceInv /\ FaultInv /\ ListInv /\ FailedInv /\ OrderInv
-----------------------------------------------------------------------------
(* The instances' words for a run of a fixed list are one.                  *)
LEMMA SameRuns ==
    /\ \A ops, e, w : Sequence!RunFixed(ops, e, w) = RunFixed(ops, e, w)
                        /\ Search!RunFixed(ops, e, w) = RunFixed(ops, e, w)
    /\ \A a, b : (Search!SameFailure(a, b) <=> SameFailure(a, b))
  <1>1. \A ops, e, w : Sequence!RunFixed(ops, e, w) = RunFixed(ops, e, w)
    BY Zenon DEF Sequence!RunFixed, RunFixed, Sequence!Step, Step, Sequence!Answered, Answered,
       Sequence!StepFailure, StepFailure, Sequence!Due, Due, Sequence!SweepFailure, SweepFailure,
       Sequence!Bug, Bug, Sequence!Infra, Infra, Sequence!Verdicts, Verdicts,
       Sequence!Clean, Clean, Sequence!Violated, Violated, Sequence!Checked, Checked, Sequence!Broken, Broken
  <1>2. \A ops, e, w : Search!RunFixed(ops, e, w) = RunFixed(ops, e, w)
    BY Zenon DEF Search!RunFixed, RunFixed, Search!Step, Step, Search!Answered, Answered,
       Search!StepFailure, StepFailure, Search!Due, Due, Search!SweepFailure, SweepFailure,
       Search!Bug, Bug, Search!Infra, Infra, Search!Verdicts, Verdicts,
       Search!Clean, Clean, Search!Violated, Violated, Search!Checked, Checked, Search!Broken, Broken
  <1>3. QED
    BY <1>1, <1>2 DEF Search!SameFailure, SameFailure

(* Induction over the numbers up to a bound, for a set.                     *)
LEMMA UpTo ==
    ASSUME NEW m \in Nat, NEW S, 0 \in S, \A n \in 1 .. m : n - 1 \in S => n \in S
    PROVE  0 .. m \subseteq S
  <1> DEFINE T == {n \in 0 .. m : n \notin S}
             R == OpToRel(<, Nat)
  <1>1. SUFFICES ASSUME T # {} PROVE FALSE
    OBVIOUS
  <1>2. T \subseteq Nat
    OBVIOUS
  <1>3. PICK n \in T : \A k \in T : ~ (<<k, n>> \in R)
    BY <1>1, <1>2, NatLessThanWellFounded, WFMin, Zenon
  <1>4. \A k \in T : ~ (k < n)
    BY <1>2, <1>3 DEF OpToRel
  <1>5. n \in 1 .. m /\ n - 1 \in 0 .. m /\ n - 1 < n
    OBVIOUS
  <1>6. QED
    BY <1>4, <1>5

(* run_fixed, told by the worlds w the ops lead through: the first k ops    *)
(* run, and the last of them fails or is the last there is.                 *)
LEMMA TraceRuns ==
    ASSUME NEW ops, Len(ops) \in Nat, NEW every, NEW k \in 0 .. Len(ops), NEW w,
           \A i \in 1 .. k : w[i] = Answered(w[i - 1], ops[i]).world,
           \A i \in 1 .. (k - 1) :
             StepFailure(Answered(w[i - 1], ops[i]), Due(every, i)) = NoFailure,
           k = Len(ops) \/
             (k > 0 /\ StepFailure(Answered(w[k - 1], ops[k]), Due(every, k)) # NoFailure)
    PROVE  RunFixed(ops, every, w[0]) =
             [steps |-> k, world |-> w[k],
              kind |-> IF k = 0 THEN NoFailure
                       ELSE StepFailure(Answered(w[k - 1], ops[k]), Due(every, k))]
  <1> DEFINE I == 0 .. Len(ops)
             kind(i) == IF i = 0 THEN NoFailure
                        ELSE StepFailure(Answered(w[i - 1], ops[i]), Due(every, i))
             ran(i) == [steps |-> i, world |-> w[i], kind |-> kind(i)]
             next(last, n) == CHOOSE next \in {Step(l, ops[n], every) : l \in {last}} : TRUE
             F(f) == [n \in I |-> IF n = 0 THEN [steps |-> 0, world |-> w[0], kind |-> NoFailure]
                                  ELSE next(f[n - 1], n)]
             g == [n \in I |-> IF n <= k THEN ran(n) ELSE ran(k)]
             run == CHOOSE f : f = F(f)
  <1>1. \A last, n : next(last, n) = Step(last, ops[n], every)
    OBVIOUS
  <1>2. RunFixed(ops, every, w[0]) = run[Len(ops)]
    BY DEF RunFixed
  <1> HIDE DEF next
  <1>3. ASSUME NEW n \in 1 .. k
        PROVE  ran(n) = Step(ran(n - 1), ops[n], every)
    <2>1. kind(n - 1) = NoFailure
      OBVIOUS
    <2>2. w[n] = Answered(w[n - 1], ops[n]).world
      OBVIOUS
    <2>3. n - 1 + 1 = n /\ n # 0
      OBVIOUS
    <2>4. kind(n) = StepFailure(Answered(w[n - 1], ops[n]), Due(every, n))
      BY <2>3
    <2> HIDE DEF kind
    <2>5. QED
      BY <2>1, <2>2, <2>3, <2>4 DEF Step
  <1>4. ASSUME NEW n \in I, n > k
        PROVE  ran(k) = Step(ran(k), ops[n], every)
    <2>1. kind(k) # NoFailure
      BY <1>4
    <2> HIDE DEF kind
    <2>2. QED
      BY <2>1 DEF Step
  <1>5. ran(0) = [steps |-> 0, world |-> w[0], kind |-> NoFailure]
    OBVIOUS
  <1> HIDE DEF ran
  <1>6. g = F(g)
    <2>1. ASSUME NEW n \in I PROVE g[n] = F(g)[n]
      <3>1. CASE n = 0
        BY <3>1, <1>5
      <3>2. CASE n \in 1 .. k
        BY <3>2, <1>1, <1>3
      <3>3. CASE n > k
        BY <3>3, <1>1, <1>4
      <3>4. QED
        BY <3>1, <3>2, <3>3
    <2> DEFINE h == F(g)
    <2>2. h = [n \in I |-> h[n]] /\ g = [n \in I |-> g[n]]
      OBVIOUS
    <2> HIDE DEF h, g
    <2>3. QED
      BY <2>1, <2>2 DEF h
  <1>7. run = F(run)
    <2> HIDE DEF g, F
    <2>1. QED
      BY <1>6
  <1>8. ASSUME NEW f, f = F(f)
        PROVE  /\ f[0] = [steps |-> 0, world |-> w[0], kind |-> NoFailure]
               /\ \A n \in 1 .. Len(ops) : f[n] = next(f[n - 1], n)
    <2>1. \A n \in I : f[n] = F(f)[n]
      BY <1>8
    <2>2. QED
      BY <2>1
  <1> HIDE DEF F, g, run
  <1> DEFINE S == {n \in I : run[n] = g[n]}
  <1>9. 0 \in S
    BY <1>6, <1>7, <1>8
  <1>10. ASSUME NEW n \in 1 .. Len(ops), n - 1 \in S PROVE n \in S
    <2>1. run[n] = next(run[n - 1], n)
      BY <1>7, <1>8
    <2>2. g[n] = next(g[n - 1], n)
      BY <1>6, <1>8
    <2>3. QED
      BY <1>10, <2>1, <2>2
  <1>11. I \subseteq S
    <2> HIDE DEF S
    <2>1. QED
      BY <1>9, <1>10, UpTo
  <1>12. run[Len(ops)] = g[Len(ops)]
    BY <1>11
  <1>13. g[Len(ops)] = ran(k)
    BY DEF g
  <1>14. QED
    BY <1>2, <1>12, <1>13 DEF ran
-----------------------------------------------------------------------------
(* apply answers in one way only.                                           *)
LEMMA OneAnswer ==
    ASSUME NEW w \in World, NEW o \in Operation, NEW r \in Apply(w, o)
    PROVE  r = Answered(w, o)
  <1>1. Deterministic
    BY RunnerAssumption
  <1>2. PICK x \in Apply(w, o) : Apply(w, o) = {x}
    BY <1>1 DEF Deterministic
  <1>3. QED
    BY <1>2 DEF Answered

(* What an answer fails with.                                               *)
LEMMA StepFails ==
    ASSUME NEW r, NEW due \in BOOLEAN
    PROVE  /\ r.answer[1] \in Verdicts =>
                StepFailure(r, due) = IF due THEN SweepFailure(r.world) ELSE NoFailure
           /\ r.answer[1] = "bug" => StepFailure(r, due) = Bug(r.answer[2])
           /\ r.answer[1] = "infra" => StepFailure(r, due) = Infra("apply")
  BY DEF StepFailure, Verdicts

(* What is behind the log's end does not change as it grows.                *)
LEMMA TraceStays ==
    ASSUME mode' = mode, plan' = plan, start' = start, NEW n \in Nat,
           \A i \in 1 .. n : log'[i] = log[i] /\ history'[i] = history[i]
    PROVE  /\ \A i \in 1 .. (n + 1) : Met(i)' = Met(i)
           /\ \A i \in 1 .. n : Given(i)' = Given(i) /\ Fault(i)' = Fault(i)
  <1>1. ASSUME NEW i \in 1 .. (n + 1) PROVE Met(i)' = Met(i)
    BY DEF Met
  <1>2. ASSUME NEW i \in 1 .. n PROVE Given(i)' = Given(i)
    <2>1. Met(i)' = Met(i) /\ history'[i] = history[i]
      BY <1>1
    <2>2. QED
      BY <2>1 DEF Given
  <1>3. ASSUME NEW i \in 1 .. n PROVE SweptAfter(i)' = SweptAfter(i)
    BY DEF SweptAfter, Script!Asked
  <1>4. QED
    BY <1>1, <1>2, <1>3 DEF Fault

(* A list that is driven is taken from the front.                           *)
LEMMA ListInvariant ==
    ASSUME TypeOK, OneInFlight, ListInv, [Next]_vars
    PROVE  ListInv'
  <1>1. /\ steps \in Nat /\ history \in Seq(Operation) /\ Len(history) \in Nat
        /\ (mode # "shrink" => Len(history) = steps)
    BY DEF TypeOK, SharedOK, OneInFlight
  <1>2. mode = "sequence" => source.rest \in Seq(Operation) /\ Len(source.rest) \in Nat
                               /\ plan.list \in Seq(Operation) /\ Len(plan.list) \in Nat
    BY DEF TypeOK, SequenceOK, Sequence!Plan
  <1>3. CASE UNCHANGED vars
    BY <1>3 DEF vars, driven, ListInv
  <1>4. CASE Drive
    <2>1. mode = "sequence" /\ mode' = mode /\ Sequence!Next
      BY <1>4 DEF Drive
    <2>2. SUFFICES ASSUME plan'.fixed PROVE ListInv'
      BY <2>1 DEF ListInv
    <2>3. plan' = plan
      BY <2>1 DEF Sequence!Next, Sequence!ResolveMix, Sequence!Draw, Sequence!Starve, Sequence!TakeFixed,
         Sequence!Finish, Sequence!ApplyOp, Sequence!Sweep, Sequence!Done, Sequence!vars
    <2>4. /\ plan.fixed /\ pc # "resolve"
          /\ Len(history) + Len(source.rest) = Len(plan.list)
          /\ \A i \in 1 .. Len(history) : history[i] = plan.list[i]
          /\ \A i \in 1 .. Len(source.rest) : source.rest[i] = plan.list[Len(history) + i]
      BY <2>1, <2>2, <2>3 DEF ListInv
    <2>5. CASE Sequence!TakeFixed
      <3> DEFINE rest == source.rest
                 list == plan.list
      <3>1. /\ rest # <<>> /\ pc' = "apply"
            /\ history' = Append(history, Head(rest)) /\ source'.rest = Tail(rest)
        <4>1. source' = [source EXCEPT !.rest = Tail(@)] /\ source.rest # <<>>
          BY <2>5 DEF Sequence!TakeFixed
        <4>2. source \in [remaining : Nat, rest : Seq(Operation)]
          BY <2>1 DEF TypeOK, SequenceOK
        <4>3. QED
          BY <2>5, <4>1, <4>2 DEF Sequence!TakeFixed, Sequence!Begin
      <3>2. rest \in Seq(Operation) /\ list \in Seq(Operation)
            /\ Len(history) + Len(rest) = Len(list)
            /\ (\A i \in 1 .. Len(history) : history[i] = list[i])
            /\ \A i \in 1 .. Len(rest) : rest[i] = list[Len(history) + i]
        BY <1>2, <2>1, <2>4
      <3> HIDE DEF rest, list
      <3>3. Len(rest) > 0 /\ Len(Tail(rest)) = Len(rest) - 1 /\ Head(rest) = rest[1]
            /\ \A i \in 1 .. Len(Tail(rest)) : Tail(rest)[i] = rest[i + 1]
        BY <3>1, <3>2
      <3>4. Len(history') = Len(history) + 1
            /\ (\A i \in 1 .. Len(history) : history'[i] = history[i])
            /\ history'[Len(history) + 1] = rest[1]
        <4>1. Head(rest) \in Operation
          BY <3>1, <3>2
        <4>2. QED
          BY <1>1, <3>1, <3>3, <4>1
      <3>5. Len(history') + Len(source'.rest) = Len(list)
        BY <1>1, <3>1, <3>2, <3>3, <3>4
      <3>6. \A i \in 1 .. Len(history') : history'[i] = list[i]
        <4>1. rest[1] = list[Len(history) + 1]
          BY <3>2, <3>3
        <4>2. 1 .. Len(history') = (1 .. Len(history)) \cup {Len(history) + 1}
          BY <1>1, <3>4
        <4>3. QED
          BY <3>2, <3>4, <4>1, <4>2
      <3>7. \A i \in 1 .. Len(source'.rest) : source'.rest[i] = list[Len(history') + i]
        BY <1>1, <3>1, <3>2, <3>3, <3>4
      <3>8. list = plan'.list
        BY <2>3 DEF list
      <3>9. QED
        BY <2>1, <3>1, <3>5, <3>6, <3>7, <3>8 DEF ListInv
    <2>6. ASSUME UNCHANGED <<history, source>>, pc' # "resolve",
                 pc' = "done" => \/ PassesNow /\ source.rest = <<>>
                                 \/ \E k : FailsWith(k) /\ k \notin {Infra("mix"), Infra("draw")}
                                 \/ pc = "done" /\ report' = report
          PROVE  ListInv'
      <3>1. pc' = "done" /\ report'.passed => source'.rest = <<>>
        BY <2>1, <2>2, <2>3, <2>6 DEF ListInv, FailsWith
      <3>2. pc' = "done" /\ ~report'.passed => report'.kind \notin {Infra("mix"), Infra("draw")}
        BY <2>1, <2>2, <2>3, <2>6 DEF ListInv, FailsWith, PassesNow
      <3>3. QED
        BY <2>1, <2>3, <2>4, <2>6, <3>1, <3>2 DEF ListInv
    <2>7. CASE Sequence!Finish
      <3>1. UNCHANGED <<history, source>> /\ PassesNow /\ source.rest = <<>>
        BY <2>4, <2>7, Reports DEF Sequence!Finish, Sequence!Exhausted
      <3>2. QED
        BY <2>6, <3>1 DEF PassesNow
    <2>8. CASE Sequence!ApplyOp
      <3>1. UNCHANGED <<history, source>>
        BY <2>8 DEF Sequence!ApplyOp
      <3>2. \/ pc' \in {"sweep", "next"}
            \/ report'.kind.kind = "Bug" /\ FailsWith(report'.kind)
            \/ FailsWith(Infra("apply"))
        BY <2>1, <2>8, SequenceApplies
      <3>3. Infra("mix").kind = "Infra" /\ Infra("draw").kind = "Infra"
            /\ Infra("apply") \notin {Infra("mix"), Infra("draw")}
        BY DEF Infra
      <3>4. QED
        BY <2>6, <3>1, <3>2, <3>3 DEF FailsWith
    <2>9. CASE Sequence!Sweep
      <3>1. UNCHANGED <<history, source>>
            /\ (pc' = "next" \/ (~Clean(world) /\ FailsWith(SweepFailure(world))))
        BY <2>9, Reports, SameWords DEF Sequence!Sweep
      <3>2. ~Clean(world) => SweepFailure(world).kind = "Invariant"
        BY FirstViolation
      <3>3. Infra("mix").kind = "Infra" /\ Infra("draw").kind = "Infra"
        BY DEF Infra
      <3>4. QED
        BY <2>6, <3>1, <3>2, <3>3 DEF FailsWith
    <2>10. CASE Sequence!Done
      <3>1. pc = "done" /\ UNCHANGED <<history, source, pc, report>>
        BY <2>10 DEF Sequence!Done, Sequence!vars
      <3>2. QED
        BY <2>6, <3>1
    <2>11. QED
      BY <2>1, <2>4, <2>5, <2>7, <2>8, <2>9, <2>10
      DEF Sequence!Next, Sequence!ResolveMix, Sequence!Draw, Sequence!Starve
  <1>5. CASE Follow
    <2>1. mode = "scenario" /\ mode' = mode /\ Script!Next
      BY <1>5 DEF Follow
    <2>2. \A i \in 1 .. steps : history[i] = plan.steps[i].op
      BY <2>1 DEF ListInv
    <2>3. CASE Script!Begin
      <3>1. history' = Append(history, plan.steps[steps + 1].op) /\ steps' = steps + 1
            /\ plan' = plan
        BY <2>3 DEF Script!Begin
      <3>2. plan.steps[steps + 1].op \in Operation
        <4> DEFINE lines == plan.steps
        <4>1. steps + 1 \in 1 .. Len(lines) /\ lines \in Seq(Script!ScenarioStep)
          BY <1>1, <2>1, <2>3 DEF Script!Begin, TypeOK, ScenarioOK, Texts
        <4> HIDE DEF lines
        <4>2. lines[steps + 1] \in Script!ScenarioStep
          BY <4>1
        <4>3. QED
          BY <4>2 DEF lines, Script!ScenarioStep
      <3> DEFINE o == plan.steps[steps + 1].op
      <3>3. o \in Operation /\ history' = Append(history, o)
        BY <3>1, <3>2
      <3> HIDE DEF o
      <3>4. (\A i \in 1 .. steps : history'[i] = history[i]) /\ history'[steps + 1] = o
        BY <1>1, <2>1, <3>3
      <3>5. \A i \in 1 .. (steps + 1) : history'[i] = plan.steps[i].op
        BY <1>1, <2>2, <3>4 DEF o
      <3>6. QED
        BY <2>1, <3>1, <3>5 DEF ListInv
    <2>4. CASE Script!Finish \/ Script!ApplyOp \/ Script!Sweep \/ Script!Done
      <3>1. UNCHANGED <<plan, steps, history>>
        BY <2>4 DEF Script!Finish, Script!ApplyOp, Script!Sweep, Script!Done, Script!vars
      <3>2. QED
        BY <2>1, <2>2, <3>1 DEF ListInv
    <2>5. QED
      BY <2>1, <2>3, <2>4 DEF Script!Next
  <1>6. CASE Endure \/ Shrink \/ Minimize \/ ShrinkFixed
    <2>1. mode' \in {"endurance", "shrink"}
      BY <1>6 DEF Endure, Shrink, Minimize, ShrinkFixed, BeginSearch
    <2>2. QED
      BY <2>1 DEF ListInv
  <1>7. CASE Redrive
    <2>1. /\ mode' = "sequence" /\ pc' = "next" /\ history' = <<>>
          /\ plan'.list = current /\ source'.rest = current
      BY <1>7 DEF Redrive, Setup
    <2>2. Len(current) \in Nat /\ Len(history') = 0
      BY <2>1 DEF TypeOK, SharedOK
    <2>3. \A i \in 1 .. Len(current) : 0 + i = i
      BY <2>2
    <2>4. QED
      BY <2>1, <2>2, <2>3 DEF ListInv
  <1>8. CASE ReplayArtifact
    <2>1. mode' = "scenario" /\ steps' = 0
      BY <1>8 DEF ReplayArtifact, Setup
    <2>2. QED
      BY <2>1 DEF ListInv
  <1>9. QED
    BY <1>3, <1>4, <1>5, <1>6, <1>7, <1>8 DEF Next

(* Every step of a run keeps its log a trace of its history, and fails with *)
(* what its last step failed with.                                          *)
LEMMA RunInvariant ==
    ASSUME TypeOK, OneInFlight, ListInv, TraceInv, FaultInv, [Next]_vars
    PROVE  TraceInv' /\ FaultInv'
  <1> DEFINE Run == mode \in {"sequence", "scenario"}
             Entry == IF mode = "sequence" THEN [before : World, answer : Answers, after : World]
                      ELSE [answer : Answers, after : World]
             Gone == Len(log)
  <1>1. /\ steps \in Nat /\ history \in Seq(Operation) /\ Len(history) \in Nat
        /\ Run => log \in Seq(Entry) /\ Gone \in Nat
    BY DEF TypeOK, SharedOK, SequenceOK, ScenarioOK
  <1> HIDE DEF Entry
  <1>2. Run => /\ Len(history) = steps /\ Gone = IF pc = "apply" THEN steps - 1 ELSE steps
               /\ pc = "sweep" => steps > 0 /\ Gone = steps
               /\ pc = "resolve" => steps = 0
    BY DEF OneInFlight
  <1>3. Run => /\ world = Met(Gone + 1)
               /\ \A i \in 1 .. Gone :
                    /\ log[i].answer = Given(i).answer[1] /\ log[i].after = Given(i).world
                    /\ mode = "sequence" => log[i].before = Met(i)
    BY DEF TraceInv
  <1>4. Run => /\ \A i \in 1 .. Gone :
                    \/ i < Gone \/ pc \in {"next", "apply"} \/ (pc = "done" /\ report.passed)
                    => Fault(i) = NoFailure
               /\ pc = "sweep" => Fault(Gone) = SweepFailure(world)
    BY DEF FaultInv
  (* The log does not grow. *)
  <1>5. ASSUME Run, UNCHANGED <<mode, plan, start, log, world>>,
               \A i \in 1 .. Gone : history'[i] = history[i]
        PROVE  /\ TraceInv'
               /\ Gone' = Gone /\ \A i \in 1 .. Gone : Fault(i)' = Fault(i)
    <2>1. /\ \A i \in 1 .. (Gone + 1) : Met(i)' = Met(i)
          /\ \A i \in 1 .. Gone : Given(i)' = Given(i) /\ Fault(i)' = Fault(i)
      BY <1>1, <1>5, TraceStays
    <2>2. Met(Gone + 1)' = Met(Gone + 1)
      BY <1>1, <1>5, <2>1
    <2>3. QED
      BY <1>1, <1>3, <1>5, <2>1, <2>2 DEF TraceInv
  (* An op is begun. *)
  <1>6. ASSUME Run, UNCHANGED <<mode, plan, start, log, world>>, pc = "next", pc' = "apply",
               NEW o \in Operation, history' = Append(history, o)
        PROVE  TraceInv' /\ FaultInv'
    <2>1. \A i \in 1 .. Gone : history'[i] = history[i]
      BY <1>1, <1>2, <1>6
    <2>2. TraceInv' /\ Gone' = Gone /\ \A i \in 1 .. Gone : Fault(i)' = Fault(i)
      BY <1>5, <1>6, <2>1
    <2>3. QED
      BY <1>1, <1>4, <1>6, <2>2 DEF FaultInv
  (* It is applied. *)
  <1>7. ASSUME Run, UNCHANGED <<mode, plan, start, history, steps>>, pc = "apply",
               NEW r, r = Answered(world, history[steps]),
               NEW e \in Entry, log' = Append(log, e), e.answer = r.answer[1], e.after = r.world,
               mode = "sequence" => e.before = world, world' = r.world,
               \/ /\ r.answer[1] \in Verdicts
                  /\ pc' = IF SweptAfter(steps) THEN "sweep" ELSE "next"
               \/ FailsWith(StepFailure(r, SweptAfter(steps)))
               \/ mode = "scenario" /\ FailsWith(Script!Mismatch)
        PROVE  TraceInv' /\ FaultInv'
    <2>1. /\ steps > 0 /\ Gone = steps - 1 /\ Gone + 1 = steps /\ Gone' = steps
          /\ (\A i \in 1 .. Gone : log'[i] = log[i]) /\ log'[steps] = e
      BY <1>1, <1>2, <1>7
    <2>2. /\ \A i \in 1 .. (Gone + 1) : Met(i)' = Met(i)
          /\ \A i \in 1 .. Gone : Given(i)' = Given(i) /\ Fault(i)' = Fault(i)
      BY <1>1, <1>7, <2>1, TraceStays
    <2>3. Met(steps)' = world
      BY <1>1, <1>3, <1>7, <2>1, <2>2
    <2>4. Given(steps)' = r
      BY <1>7, <2>3 DEF Given
    <2>5. SweptAfter(steps)' = SweptAfter(steps)
      BY <1>7 DEF SweptAfter, Script!Asked
    <2>6. Fault(steps)' = StepFailure(r, SweptAfter(steps))
      BY <2>4, <2>5 DEF Fault
    <2>7. Met(steps + 1)' = world'
      BY <1>1, <1>7, <2>1 DEF Met
    <2>8. TraceInv'
      <3>1. ASSUME NEW i \in 1 .. steps
            PROVE  /\ log'[i].answer = Given(i)'.answer[1] /\ log'[i].after = Given(i)'.world
                   /\ mode = "sequence" => log'[i].before = Met(i)'
        <4>1. CASE i = steps
          BY <1>7, <2>1, <2>3, <2>4, <4>1
        <4>2. CASE i \in 1 .. Gone
          BY <1>1, <1>3, <1>7, <2>1, <2>2, <4>2
        <4>3. QED
          BY <1>1, <2>1, <4>1, <4>2
      <3>2. QED
        BY <1>7, <2>1, <2>7, <3>1 DEF TraceInv
    <2>9. \A i \in 1 .. Gone : Fault(i)' = NoFailure
      BY <1>4, <1>7, <2>2
    <2>10. SweptAfter(steps) \in BOOLEAN
      BY <1>1, <1>7 DEF SweptAfter, Script!Asked, Script!Due, Due
    <2>11. r.answer[1] \in Verdicts =>
             Fault(steps)' = IF SweptAfter(steps) THEN SweepFailure(world') ELSE NoFailure
      BY <1>7, <2>6, <2>10, StepFails
    <2>12. ASSUME NEW i \in 1 .. Gone', \/ i < Gone' \/ pc' \in {"next", "apply"}
                                        \/ (pc' = "done" /\ report'.passed)
           PROVE  Fault(i)' = NoFailure
      <3>1. CASE i \in 1 .. Gone
        BY <2>9, <3>1
      <3>2. CASE i = steps
        BY <1>7, <2>1, <2>11, <2>12, <3>2 DEF FailsWith
      <3>3. QED
        BY <1>1, <2>1, <3>1, <3>2
    <2>13. pc' = "sweep" => Fault(Gone)' = SweepFailure(world)'
      BY <1>7, <2>1, <2>11 DEF FailsWith, SweepFailure, Clean, Violated, Checked, Broken
    <2>14. pc' = "done" /\ ~report'.passed =>
             \/ mode' = "scenario" /\ report'.kind = Script!Mismatch
             \/ steps' > 0 /\ Fault(steps)' = report'.kind
      BY <1>7, <2>1, <2>6 DEF FailsWith
    <2>15. QED
      BY <1>7, <2>8, <2>12, <2>13, <2>14 DEF FaultInv
  (* Nothing is begun or applied. *)
  <1>8. ASSUME Run, UNCHANGED <<mode, plan, start, log, world, history, steps>>, pc # "apply",
               \/ pc \in {"next", "resolve"} /\ pc' = "next"
               \/ pc \in {"next", "resolve"} /\ PassesNow
               \/ /\ pc \in {"next", "resolve"} /\ mode = "sequence"
                  /\ \E k \in {Infra("mix"), Infra("draw")} : FailsWith(k)
               \/ pc = "sweep" /\ Clean(world) /\ pc' = "next"
               \/ pc = "sweep" /\ FailsWith(SweepFailure(world))
               \/ UNCHANGED <<pc, report>>
        PROVE  TraceInv' /\ FaultInv'
    <2>1. TraceInv' /\ Gone' = Gone /\ \A i \in 1 .. Gone : Fault(i)' = Fault(i)
      BY <1>5, <1>8
    <2>2. pc \in {"next", "resolve"} => \A i \in 1 .. Gone : Fault(i) = NoFailure
      BY <1>2, <1>4, <1>8
    <2>3. pc = "sweep" /\ Clean(world) => \A i \in 1 .. Gone : Fault(i) = NoFailure
      <3>1. Clean(world) => SweepFailure(world) = NoFailure
        BY FirstViolation
      <3>2. QED
        BY <1>1, <1>2, <1>4, <1>8, <3>1
    <2>4. ASSUME NEW i \in 1 .. Gone', \/ i < Gone' \/ pc' \in {"next", "apply"}
                                       \/ (pc' = "done" /\ report'.passed)
          PROVE  Fault(i)' = NoFailure
      <3>1. CASE i < Gone'
        BY <1>4, <1>8, <2>1, <2>4, <3>1
      <3>2. CASE ~(i < Gone')
        BY <1>4, <1>8, <2>1, <2>2, <2>3, <2>4, <3>2 DEF FailsWith
      <3>3. QED
        BY <3>1, <3>2
    <2>5. SweepFailure(world)' = SweepFailure(world)
      BY <1>8 DEF SweepFailure, Clean, Violated, Checked, Broken
    <2>6. pc' = "sweep" => Fault(Gone)' = SweepFailure(world)'
      BY <1>1, <1>2, <1>4, <1>8, <2>1, <2>5 DEF FailsWith, PassesNow
    <2>7. pc' = "done" /\ ~report'.passed =>
            \/ mode' = "sequence" /\ report'.kind \in {Infra("mix"), Infra("draw")}
            \/ mode' = "scenario" /\ report'.kind = Script!Mismatch
            \/ steps' > 0 /\ Fault(steps)' = report'.kind
      <3>1. CASE UNCHANGED <<pc, report>>
        <4>1. pc = "done" /\ ~report.passed =>
                \/ mode = "sequence" /\ report.kind \in {Infra("mix"), Infra("draw")}
                \/ mode = "scenario" /\ report.kind = Script!Mismatch
                \/ steps > 0 /\ Fault(steps) = report.kind
          BY <1>8 DEF FaultInv
        <4>2. pc = "done" => Gone = steps
          BY <1>2, <1>8
        <4>3. QED
          BY <1>1, <1>8, <2>1, <3>1, <4>1, <4>2
      <3>2. CASE pc = "sweep" /\ FailsWith(SweepFailure(world))
        BY <1>1, <1>2, <1>4, <1>8, <2>1, <3>2 DEF FailsWith
      <3>3. QED
        BY <1>8, <3>1, <3>2 DEF FailsWith, PassesNow
    <2>8. QED
      BY <1>8, <2>1, <2>4, <2>6, <2>7 DEF FaultInv
  <1>9. CASE UNCHANGED vars
    <2>1. UNCHANGED <<mode, plan, start, log, world, history, steps, pc, report>>
      BY <1>9 DEF vars, driven
    <2>2. CASE Run
      <3>1. TraceInv' /\ Gone' = Gone /\ \A i \in 1 .. Gone : Fault(i)' = Fault(i)
        BY <1>5, <2>1, <2>2
      <3>2. Fault(steps)' = Fault(steps) /\ Fault(Gone)' = Fault(Gone)
        BY <2>1 DEF Fault, Given, Met, SweptAfter, Script!Asked
      <3>3. SweepFailure(world)' = SweepFailure(world)
        BY <2>1 DEF SweepFailure, Clean, Violated, Checked, Broken
      <3>4. QED
        BY <2>1, <2>2, <3>1, <3>2, <3>3 DEF FaultInv
    <2>3. CASE ~Run
      BY <2>1, <2>3 DEF TraceInv, FaultInv
    <2>4. QED
      BY <2>2, <2>3
  <1>10. CASE Drive
    <2>1. mode = "sequence" /\ mode' = mode /\ start' = start /\ Sequence!Next
      BY <1>10 DEF Drive
    <2>2. plan' = plan
      BY <2>1 DEF Sequence!Next, Sequence!ResolveMix, Sequence!Draw, Sequence!Starve, Sequence!TakeFixed,
         Sequence!Finish, Sequence!ApplyOp, Sequence!Sweep, Sequence!Done, Sequence!vars
    <2>3. CASE Sequence!ResolveMix
      <3>1. pc = "resolve" /\ UNCHANGED <<history, steps, log, world>>
            /\ (pc' = "next" \/ FailsWith(Infra("mix")))
        BY <2>3, Reports, ReportOK DEF Sequence!ResolveMix
      <3>2. QED
        BY <1>8, <2>1, <2>2, <3>1
    <2>4. CASE Sequence!Starve
      <3>1. pc = "next" /\ UNCHANGED <<history, steps, log, world>> /\ FailsWith(Infra("draw"))
        BY <2>4, Reports, ReportOK DEF Sequence!Starve
      <3>2. QED
        BY <1>8, <2>1, <2>2, <3>1
    <2>5. CASE Sequence!Finish
      <3>1. pc = "next" /\ UNCHANGED <<history, steps, log, world>> /\ PassesNow
        BY <2>5, Reports DEF Sequence!Finish
      <3>2. QED
        BY <1>8, <2>1, <2>2, <3>1
    <2>6. CASE Sequence!Sweep
      <3>1. pc = "sweep" /\ UNCHANGED <<history, steps, log, world>>
            /\ ((Clean(world) /\ pc' = "next") \/ FailsWith(SweepFailure(world)))
        BY <2>6, Reports, SameWords DEF Sequence!Sweep
      <3>2. QED
        BY <1>8, <2>1, <2>2, <3>1
    <2>7. CASE Sequence!Done
      <3>1. UNCHANGED <<history, steps, log, world, pc, report>> /\ pc # "apply"
        BY <2>7 DEF Sequence!Done, Sequence!vars
      <3>2. QED
        BY <1>8, <2>1, <2>2, <3>1
    <2>8. CASE Sequence!Draw \/ Sequence!TakeFixed
      <3>1. pc = "next" /\ pc' = "apply" /\ UNCHANGED <<log, world>>
            /\ \E o : op' = o /\ history' = Append(history, o)
        BY <2>8 DEF Sequence!Draw, Sequence!TakeFixed, Sequence!Begin
      <3>2. op' \in Operation
        <4>1. TypeOK'
          BY TypeInvariant
        <4>2. QED
          BY <2>1, <3>1, <4>1 DEF TypeOK, SequenceOK
      <3>3. QED
        BY <1>6, <2>1, <2>2, <3>1, <3>2
    <2>9. CASE Sequence!ApplyOp
      <3>1. pc = "apply" /\ UNCHANGED <<history, steps>> /\ world \in World /\ op \in Operation
            /\ op = history[steps]
        BY <2>1, <2>9 DEF Sequence!ApplyOp, TypeOK, SharedOK, SequenceOK, OneInFlight
      <3>2. PICK r \in Apply(world, op) :
              /\ world' = r.world
              /\ log' = Append(log, [before |-> world, answer |-> r.answer[1], after |-> r.world])
              /\ \/ /\ r.answer[1] \in Verdicts
                    /\ pc' = IF Due(plan.every, steps) THEN "sweep" ELSE "next"
                 \/ r.answer[1] = "bug" /\ FailsWith(Sequence!Bug(r.answer[2]))
                 \/ r.answer[1] = "infra" /\ FailsWith(Infra("apply"))
        BY <2>9, Reports, ReportOK, SameTests DEF Sequence!ApplyOp
      <3>3. r = Answered(world, history[steps]) /\ r.world \in World /\ r.answer[1] \in Answers
        BY <3>1, <3>2, OneAnswer, AnswerOK
      <3>4. SweptAfter(steps) = Due(plan.every, steps) /\ SweptAfter(steps) \in BOOLEAN
        BY <2>1 DEF SweptAfter, Due
      <3>5. Sequence!Bug(r.answer[2]) = Bug(r.answer[2])
        BY DEF Sequence!Bug, Bug
      <3>6. \/ /\ r.answer[1] \in Verdicts
               /\ pc' = IF SweptAfter(steps) THEN "sweep" ELSE "next"
            \/ FailsWith(StepFailure(r, SweptAfter(steps)))
        BY <3>2, <3>4, <3>5, StepFails
      <3> DEFINE e == [before |-> world, answer |-> r.answer[1], after |-> r.world]
      <3>7. e \in Entry /\ e.answer = r.answer[1] /\ e.after = r.world /\ e.before = world
        BY <2>1, <3>1, <3>3 DEF Entry
      <3>8. log' = Append(log, e)
        BY <3>2
      <3> HIDE DEF e
      <3>9. QED
        BY <1>7, <2>1, <2>2, <3>1, <3>2, <3>3, <3>6, <3>7, <3>8
    <2>10. QED
      BY <2>1, <2>3, <2>4, <2>5, <2>6, <2>7, <2>8, <2>9 DEF Sequence!Next
  <1>11. CASE Follow
    <2>1. mode = "scenario" /\ mode' = mode /\ start' = start /\ Script!Next
      BY <1>11 DEF Follow
    <2>2. plan' = plan
      BY <2>1 DEF Script!Next, Script!Begin, Script!Finish, Script!ApplyOp, Script!Sweep, Script!Done, Script!vars
    <2>3. CASE Script!Begin
      <3>1. pc = "next" /\ pc' = "apply" /\ UNCHANGED <<log, world>>
            /\ history' = Append(history, plan.steps[steps + 1].op)
        BY <2>3 DEF Script!Begin
      <3>2. plan.steps[steps + 1].op \in Operation
        <4> DEFINE lines == plan.steps
        <4>1. steps + 1 \in 1 .. Len(lines) /\ lines \in Seq(Script!ScenarioStep)
          BY <1>1, <2>1, <2>3 DEF Script!Begin, TypeOK, ScenarioOK, Texts
        <4> HIDE DEF lines
        <4>2. lines[steps + 1] \in Script!ScenarioStep
          BY <4>1
        <4>3. QED
          BY <4>2 DEF lines, Script!ScenarioStep
      <3>3. QED
        BY <1>6, <2>1, <2>2, <3>1, <3>2
    <2>4. CASE Script!Finish
      <3>1. pc = "next" /\ UNCHANGED <<history, steps, log, world>> /\ PassesNow
        BY <2>4, Reports DEF Script!Finish, PassesNow
      <3>2. QED
        BY <1>8, <2>1, <2>2, <3>1
    <2>5. CASE Script!Sweep
      <3>1. pc = "sweep" /\ UNCHANGED <<history, steps, log, world>>
            /\ ((Clean(world) /\ pc' = "next") \/ FailsWith(SweepFailure(world)))
        BY <2>5, Reports, SameWords DEF Script!Sweep
      <3>2. QED
        BY <1>8, <2>1, <2>2, <3>1
    <2>6. CASE Script!Done
      <3>1. UNCHANGED <<history, steps, log, world, pc, report>> /\ pc # "apply"
        BY <2>6 DEF Script!Done, Script!vars
      <3>2. QED
        BY <1>8, <2>1, <2>2, <3>1
    <2>7. CASE Script!ApplyOp
      <3>1. pc = "apply" /\ UNCHANGED <<history, steps>> /\ world \in World /\ steps \in 1 .. Len(plan.steps)
            /\ plan.steps[steps].op = history[steps] /\ history[steps] \in Operation
        <4>1. pc = "apply" /\ UNCHANGED <<history, steps>> /\ world \in World
              /\ steps \in 1 .. Len(plan.steps)
          BY <2>1, <2>7 DEF Script!ApplyOp, TypeOK, SharedOK, ScenarioOK
        <4>2. steps \in 1 .. steps /\ steps \in 1 .. Len(history)
          BY <1>1, <1>2, <2>1, <4>1
        <4>3. QED
          BY <1>1, <2>1, <4>1, <4>2 DEF ListInv
      <3>2. PICK r \in Apply(world, Script!Step.op) :
              /\ world' = r.world
              /\ log' = Append(log, [answer |-> r.answer[1], after |-> r.world])
              /\ \/ /\ r.answer[1] \in Verdicts
                    /\ pc' = IF Script!Asked(steps) THEN "sweep" ELSE "next"
                 \/ FailsWith(Script!Mismatch)
                 \/ r.answer[1] = "bug" /\ FailsWith(Script!Bug(r.answer[2]))
                 \/ r.answer[1] = "infra" /\ FailsWith(Infra("apply"))
        BY <2>7, Reports, ReportOK, SameTests DEF Script!ApplyOp, Script!Sweeps, Script!Asked, Script!Step
      <3>3. Script!Step.op = history[steps]
        BY <3>1 DEF Script!Step
      <3>4. r = Answered(world, history[steps]) /\ r.world \in World /\ r.answer[1] \in Answers
        BY <3>1, <3>2, <3>3, OneAnswer, AnswerOK
      <3>5. SweptAfter(steps) = Script!Asked(steps)
        BY <2>1 DEF SweptAfter
      <3>6. Script!Asked(steps) \in BOOLEAN
        BY DEF Script!Asked
      <3>7. Script!Bug(r.answer[2]) = Bug(r.answer[2])
        BY DEF Script!Bug, Bug
      <3>8. \/ /\ r.answer[1] \in Verdicts
               /\ pc' = IF SweptAfter(steps) THEN "sweep" ELSE "next"
            \/ FailsWith(StepFailure(r, SweptAfter(steps)))
            \/ FailsWith(Script!Mismatch)
        BY <3>2, <3>5, <3>6, <3>7, StepFails
      <3> DEFINE e == [answer |-> r.answer[1], after |-> r.world]
      <3>9. e \in Entry /\ e.answer = r.answer[1] /\ e.after = r.world
        BY <2>1, <3>1, <3>4 DEF Entry
      <3>10. log' = Append(log, e)
        BY <3>2
      <3> HIDE DEF e
      <3>11. QED
        BY <1>7, <2>1, <2>2, <3>1, <3>2, <3>4, <3>8, <3>9, <3>10
    <2>8. QED
      BY <2>1, <2>3, <2>4, <2>5, <2>6, <2>7 DEF Script!Next
  <1>12. CASE Endure \/ Shrink \/ Minimize \/ ShrinkFixed
    <2>1. mode' \in {"endurance", "shrink"}
      BY <1>12 DEF Endure, Shrink, Minimize, ShrinkFixed, BeginSearch
    <2>2. QED
      BY <2>1 DEF TraceInv, FaultInv
  <1>13. CASE Redrive \/ ReplayArtifact
    <2>1. world' = start' /\ log' = <<>> /\ pc' = "next"
      BY <1>13 DEF Redrive, ReplayArtifact, Setup
    <2>2. Len(log') = 0 /\ Met(1)' = start'
      BY <2>1 DEF Met
    <2>3. QED
      BY <2>1, <2>2 DEF TraceInv, FaultInv
  <1>14. QED
    BY <1>9, <1>10, <1>11, <1>12, <1>13 DEF Next
-----------------------------------------------------------------------------
(* The report of a run is what run_fixed makes of the ops it went through.  *)
LEMMA LogIsRun ==
    ASSUME TypeOK, OneInFlight, TraceInv, FaultInv,
           mode \in {"sequence", "scenario"}, pc = "done",
           NEW ops, Len(ops) \in Nat, steps <= Len(ops),
           \A i \in 1 .. steps : ops[i] = history[i],
           NEW every, \A i \in 1 .. steps : SweptAfter(i) = Due(every, i),
           \/ report.passed /\ steps = Len(ops)
           \/ ~report.passed /\ steps > 0 /\ Fault(steps) = report.kind /\ report.kind # NoFailure
    PROVE  RunFixed(ops, every, start) =
             [steps |-> steps, world |-> world,
              kind |-> IF report.passed THEN NoFailure ELSE report.kind]
  <1> DEFINE w == [i \in 0 .. steps |-> Met(i + 1)]
             failure(i) == StepFailure(Answered(w[i - 1], ops[i]), Due(every, i))
  <1>1. steps \in Nat /\ Len(log) = steps
    BY DEF TypeOK, SharedOK, OneInFlight
  <1>2. w[0] = start /\ w[steps] = world
    <2>1. Met(1) = start /\ Met(steps + 1) = world
      BY <1>1 DEF Met, TraceInv
    <2>2. QED
      BY <1>1, <2>1
  <1>3. ASSUME NEW i \in 1 .. steps
        PROVE  w[i - 1] = Met(i) /\ w[i] = Met(i + 1) /\ i - 1 \in Nat
    BY <1>1
  <1> HIDE DEF w
  <1>4. ASSUME NEW i \in 1 .. steps
        PROVE  /\ w[i] = Answered(w[i - 1], ops[i]).world
               /\ failure(i) = Fault(i)
    <2>1. Answered(w[i - 1], ops[i]) = Given(i)
      BY <1>3 DEF Given
    <2>2. w[i] = Given(i).world
      <3>1. Met(i + 1) = log[i].after
        BY <1>1 DEF Met
      <3>2. QED
        BY <1>1, <1>3, <3>1 DEF TraceInv
    <2>3. QED
      BY <2>1, <2>2 DEF Fault
  <1>5. \A i \in 1 .. (steps - 1) : failure(i) = NoFailure
    BY <1>1, <1>4 DEF FaultInv
  <1>6. steps \in 0 .. Len(ops) /\ (steps = Len(ops) \/ (steps > 0 /\ failure(steps) # NoFailure))
    BY <1>1, <1>4
  <1>7. RunFixed(ops, every, w[0]) =
          [steps |-> steps, world |-> w[steps],
           kind |-> IF steps = 0 THEN NoFailure ELSE failure(steps)]
    <2>1. \A i \in 1 .. steps : w[i] = Answered(w[i - 1], ops[i]).world
      BY <1>4
    <2>2. \A i \in 1 .. (steps - 1) :
            StepFailure(Answered(w[i - 1], ops[i]), Due(every, i)) = NoFailure
      BY <1>5
    <2>3. steps = Len(ops) \/
            (steps > 0 /\ StepFailure(Answered(w[steps - 1], ops[steps]), Due(every, steps)) # NoFailure)
      BY <1>6
    <2> HIDE DEF failure
    <2>4. RunFixed(ops, every, w[0]) =
            [steps |-> steps, world |-> w[steps],
             kind |-> IF steps = 0 THEN NoFailure
                      ELSE StepFailure(Answered(w[steps - 1], ops[steps]), Due(every, steps))]
      BY <1>6, <2>1, <2>2, <2>3, TraceRuns
    <2>5. QED
      BY <2>4 DEF failure
  <1>8. steps > 0 => failure(steps) = IF report.passed THEN NoFailure ELSE report.kind
    <2>1. steps > 0 => failure(steps) = Fault(steps)
      BY <1>1, <1>4
    <2>2. steps > 0 /\ report.passed => Fault(steps) = NoFailure
      BY <1>1 DEF FaultInv
    <2>3. QED
      BY <2>1, <2>2
  <1>9. steps = 0 => report.passed
    OBVIOUS
  <1>10. QED
    BY <1>1, <1>2, <1>7, <1>8, <1>9

(* A failure of an op comes again when its history is run again at the same *)
(* cadence.                                                                 *)
LEMMA ReportReplays ==
    ASSUME TypeOK, OneInFlight, TraceInv, FaultInv, mode = "sequence", pc = "done",
           ~report.passed, report.kind \notin {Infra("mix"), Infra("draw")}
    PROVE  /\ RunFixed(report.history, plan.every, start) =
                [steps |-> report.steps, world |-> world, kind |-> report.kind]
           /\ report.kind # NoFailure /\ steps > 0 /\ Fault(steps) = report.kind
  <1>1. /\ steps \in Nat /\ Len(history) = steps /\ report.history = history
        /\ report.steps = steps
    BY DEF TypeOK, SharedOK, OneInFlight
  <1>2. report.kind \in FailureKind
    BY DEF TypeOK, SharedOK, Report
  <1>3. report.kind # NoFailure
    BY <1>2, HarnessAssumption
  <1>4. steps > 0 /\ Fault(steps) = report.kind
    BY DEF FaultInv
  <1>5. \A i \in 1 .. steps : SweptAfter(i) = Due(plan.every, i)
    BY DEF SweptAfter
  <1>6. RunFixed(history, plan.every, start) =
          [steps |-> steps, world |-> world,
           kind |-> IF report.passed THEN NoFailure ELSE report.kind]
    BY <1>1, <1>3, <1>4, <1>5, LogIsRun
  <1>7. QED
    BY <1>1, <1>3, <1>4, <1>6

(* A fixed run reports what run_fixed makes of its list.                    *)
LEMMA FixedIsRun ==
    ASSUME TypeOK, OneInFlight, TraceInv, FaultInv, ListInv,
           mode = "sequence", plan.fixed, pc = "done"
    PROVE  /\ RunFixed(plan.list, plan.every, start) =
                [steps |-> report.steps, world |-> world, kind |-> report.kind]
           /\ report.passed => report.kind = NoFailure
  <1>1. /\ steps \in Nat /\ Len(history) = steps /\ report.steps = steps
        /\ source.rest \in Seq(Operation) /\ Len(source.rest) \in Nat
        /\ plan.list \in Seq(Operation) /\ Len(plan.list) \in Nat
    BY DEF TypeOK, SharedOK, SequenceOK, OneInFlight, Sequence!Plan
  <1>2. /\ steps + Len(source.rest) = Len(plan.list)
        /\ \A i \in 1 .. steps : plan.list[i] = history[i]
        /\ report.passed => source.rest = <<>>
        /\ ~report.passed => report.kind \notin {Infra("mix"), Infra("draw")}
    BY <1>1 DEF ListInv
  <1>3. \A i \in 1 .. steps : SweptAfter(i) = Due(plan.every, i)
    BY DEF SweptAfter
  <1>4. report.passed => report.kind = NoFailure
    BY DEF TypeOK, SharedOK, Report
  <1>5. report.passed => steps = Len(plan.list)
    BY <1>1, <1>2
  <1>6. ~report.passed => steps > 0 /\ Fault(steps) = report.kind /\ report.kind # NoFailure
    BY <1>2, ReportReplays
  <1>7. RunFixed(plan.list, plan.every, start) =
          [steps |-> steps, world |-> world,
           kind |-> IF report.passed THEN NoFailure ELSE report.kind]
    <2>1. steps <= Len(plan.list)
      BY <1>1, <1>2
    <2>2. report.passed \in BOOLEAN
      BY DEF TypeOK, SharedOK, Report
    <2>3. QED
      BY <1>1, <1>2, <1>3, <1>5, <1>6, <2>1, <2>2, LogIsRun
  <1>8. QED
    BY <1>1, <1>4, <1>7

(* The ops from f on, up to t, left out.                                    *)
Without(s, f, t) == SubSeq(s, 1, f) \o SubSeq(s, t + 1, Len(s))

(* What is left is what was before them and what was after them.            *)
LEMMA Dropped ==
    ASSUME NEW s \in Seq(Operation), NEW f \in Nat, NEW t \in Nat, f <= t, t <= Len(s)
    PROVE  /\ Without(s, f, t) \in Seq(Operation) /\ Len(Without(s, f, t)) = Len(s) - (t - f)
           /\ \A i \in 1 .. (Len(s) - (t - f)) :
                Without(s, f, t)[i] = IF i <= f THEN s[i] ELSE s[i + (t - f)]
  <1> DEFINE a == SubSeq(s, 1, f)
             b == SubSeq(s, t + 1, Len(s))
             c == Without(s, f, t)
  <1>1. Len(s) \in Nat
    OBVIOUS
  <1>2. a \in Seq(Operation) /\ Len(a) = f /\ \A i \in 1 .. f : a[i] = s[i]
    BY <1>1
  <1>3. b \in Seq(Operation) /\ Len(b) = Len(s) - t /\ \A i \in 1 .. (Len(s) - t) : b[i] = s[t + i]
    BY <1>1
  <1>4. c = a \o b
    BY DEF Without
  <1> HIDE DEF a, b, c
  <1>5. c \in Seq(Operation) /\ Len(c) = f + (Len(s) - t)
        /\ \A i \in 1 .. (f + (Len(s) - t)) : c[i] = IF i <= f THEN a[i] ELSE b[i - f]
    <2>1. /\ a \o b \in Seq(Operation) /\ Len(a \o b) = Len(a) + Len(b)
          /\ \A i \in 1 .. Len(a) + Len(b) :
               (a \o b)[i] = IF i <= Len(a) THEN a[i] ELSE b[i - Len(a)]
      BY <1>2, <1>3, ConcatProperties
    <2>2. QED
      BY <1>2, <1>3, <1>4, <2>1
  <1>6. Len(s) - (t - f) = f + (Len(s) - t)
    BY <1>1
  <1>7. ASSUME NEW i \in 1 .. (f + (Len(s) - t))
        PROVE  c[i] = IF i <= f THEN s[i] ELSE s[i + (t - f)]
    <2>1. CASE i <= f
      BY <1>1, <1>2, <1>5, <2>1
    <2>2. CASE ~(i <= f)
      <3>1. i - f \in 1 .. (Len(s) - t) /\ t + (i - f) = i + (t - f)
        BY <1>1, <2>2
      <3>2. b[i - f] = s[t + (i - f)] /\ c[i] = b[i - f]
        BY <1>3, <1>5, <2>2, <3>1
      <3>3. QED
        BY <2>2, <3>1, <3>2
    <2>3. QED
      BY <2>1, <2>2
  <1>8. QED
    BY <1>5, <1>6, <1>7 DEF c

(* The ops of c are ops of h in their order.                                *)
Ordered(c, h) ==
    \E from \in [DOMAIN c -> DOMAIN h] :
      /\ \A i, j \in DOMAIN c : i < j => from[i] < from[j]
      /\ \A i \in DOMAIN c : c[i] = h[from[i]]

(* What is kept in order stays in order when ops are dropped.               *)
LEMMA DroppedInOrder ==
    ASSUME NEW s \in Seq(Operation), NEW f \in Nat, NEW t \in Nat, f <= t, t <= Len(s),
           NEW h \in Seq(Operation), Ordered(s, h)
    PROVE  Ordered(Without(s, f, t), h)
  <1> PICK from \in [DOMAIN s -> DOMAIN h] :
         /\ \A i, j \in DOMAIN s : i < j => from[i] < from[j]
         /\ \A i \in DOMAIN s : s[i] = h[from[i]]
    BY DEF Ordered
  <1> DEFINE old(i) == IF i <= f THEN i ELSE i + (t - f)
             c == Without(s, f, t)
             g == [i \in DOMAIN c |-> from[old(i)]]
  <1>1. Len(s) \in Nat /\ DOMAIN s = 1 .. Len(s)
    OBVIOUS
  <1>2. /\ c \in Seq(Operation) /\ Len(c) = Len(s) - (t - f)
        /\ \A i \in 1 .. (Len(s) - (t - f)) : c[i] = IF i <= f THEN s[i] ELSE s[i + (t - f)]
    BY Dropped
  <1> HIDE DEF c
  <1>3. DOMAIN c = 1 .. (Len(s) - (t - f))
    BY <1>2
  <1>4. \A i \in DOMAIN c : old(i) \in DOMAIN s
    BY <1>1, <1>3
  <1>5. \A i \in DOMAIN c : c[i] = s[old(i)]
    BY <1>2, <1>3
  <1>6. \A i, j \in DOMAIN c : i < j => old(i) < old(j)
    BY <1>1, <1>3
  <1> HIDE DEF old
  <1>7. g \in [DOMAIN c -> DOMAIN h]
    BY <1>4
  <1>8. \A i, j \in DOMAIN c : i < j => g[i] < g[j]
    BY <1>4, <1>6
  <1>9. \A i \in DOMAIN c : c[i] = h[g[i]]
    BY <1>4, <1>5
  <1>10. QED
    BY <1>7, <1>8, <1>9 DEF c, Ordered
-----------------------------------------------------------------------------
(* A search finds the failure it starts from, and hands it on.              *)
LEMMA SearchedFailure ==
    ASSUME TypeOK, SearchInv, FailedInv, Shrink
    PROVE  FailedInv'
  <1>1. mode = "shrink" /\ mode' = mode /\ start' = start /\ failed' = failed /\ Search!Next
    BY DEF Shrink
  <1>2. plan' = plan
    BY <1>1 DEF Search!Next, Search!Reference, Search!NextSize, Search!Window, Search!Halve,
       Search!Single, Search!Done, Search!vars
  <1>3. /\ plan.world = start /\ plan.every = failed.every /\ plan.history = failed.report.history
        /\ refKind # NoFailure => RunFixed(current, plan.every, start).kind # NoFailure
        /\ failed # NoFailure /\ Replayable(failed) /\ pc # "reference" => refKind = failed.report.kind
    BY <1>1 DEF FailedInv
  <1>4. failed # NoFailure =>
          /\ ~failed.report.passed /\ failed.report \in Report
          /\ Replayable(failed) =>
               RunFixed(failed.report.history, failed.every, start).kind = failed.report.kind
    BY DEF FailedInv
  <1>5. \A ops : Search!Replay(ops) = RunFixed(ops, plan.every, start)
    BY <1>3, SameRuns DEF Search!Replay
  (* What is to be shown of a step of the search. *)
  <1>6. SUFFICES /\ refKind' # NoFailure => RunFixed(current', plan.every, start).kind # NoFailure
                 /\ failed # NoFailure /\ Replayable(failed) /\ pc' # "reference" =>
                      refKind' = failed.report.kind
    BY <1>1, <1>2, <1>3, <1>4 DEF FailedInv, Replayable
  <1>7. ASSUME UNCHANGED <<refKind, current>>, pc # "reference"
        PROVE  /\ refKind' # NoFailure => RunFixed(current', plan.every, start).kind # NoFailure
               /\ failed # NoFailure /\ Replayable(failed) /\ pc' # "reference" =>
                    refKind' = failed.report.kind
    BY <1>3, <1>7
  <1>8. CASE Search!Reference
    <2>1. refKind' = RunFixed(plan.history, plan.every, start).kind /\ current' = current
          /\ pc = "reference"
      BY <1>5, <1>8 DEF Search!Reference
    <2>2. current = plan.history
      BY <1>1, <2>1 DEF SearchInv
    <2>3. QED
      BY <1>3, <1>4, <2>1, <2>2
  <1>9. ASSUME pc # "reference", UNCHANGED refKind, NEW c, NEW stride, Search!Try(c, stride)
        PROVE  /\ refKind' # NoFailure => RunFixed(current', plan.every, start).kind # NoFailure
               /\ failed # NoFailure /\ Replayable(failed) /\ pc' # "reference" =>
                    refKind' = failed.report.kind
    <2>1. current' = current \/ (current' = c /\ Search!FailsTheSame(c))
      BY <1>9 DEF Search!Try
    <2>2. Search!FailsTheSame(c) => RunFixed(c, plan.every, start).kind # NoFailure
      BY <1>5 DEF Search!FailsTheSame
    <2>3. QED
      BY <1>3, <1>9, <2>1, <2>2
  <1>10. CASE Search!NextSize \/ Search!Halve \/ (Search!Done /\ pc # "reference")
    BY <1>7, <1>10 DEF Search!NextSize, Search!Halve, Search!Done, Search!vars
  <1>11. CASE Search!Window
    <2>1. pc = "window" /\ refKind' = refKind /\ (current' = current \/ \E c : Search!Try(c, size))
      BY <1>11 DEF Search!Window
    <2>2. QED
      BY <1>7, <1>9, <2>1
  <1>12. CASE Search!Single
    <2>1. pc = "single" /\ refKind' = refKind /\ (current' = current \/ \E c : Search!Try(c, 1))
      BY <1>12 DEF Search!Single
    <2>2. QED
      BY <1>7, <1>9, <2>1
  <1>13. Search!Done => pc # "reference"
    BY DEF Search!Done
  <1>14. QED
    BY <1>1, <1>8, <1>10, <1>11, <1>12, <1>13 DEF Search!Next

(* An artifact is read back as the ops it was written from.                 *)
LEMMA OpsOfSteps ==
    ASSUME NEW ops \in Seq(Operation)
    PROVE  /\ [i \in DOMAIN ArtifactSteps(ops) |-> ArtifactSteps(ops)[i].op] = ops
           /\ \A i \in DOMAIN ArtifactSteps(ops) :
                ArtifactSteps(ops)[i].expect = "accepted" /\ ArtifactSteps(ops)[i].check = TRUE
  <1>1. ops = [i \in DOMAIN ops |-> ops[i]]
    OBVIOUS
  <1>2. DOMAIN ArtifactSteps(ops) = DOMAIN ops
        /\ \A i \in DOMAIN ops : ArtifactSteps(ops)[i] = [op |-> ops[i], expect |-> "accepted", check |-> TRUE]
    BY DEF ArtifactSteps
  <1>3. QED
    BY <1>1, <1>2

(* A run hands its failure on as it would be found again.                   *)
LEMMA HandedFailure ==
    ASSUME TypeOK, OneInFlight, TraceInv, FaultInv, ListInv, SearchInv, FailedInv,
           Minimize \/ ShrinkFixed \/ Redrive \/ ReplayArtifact
    PROVE  FailedInv'
  <1> DEFINE Noted(as) == [mode |-> as, every |-> plan.every, report |-> report]
  (* A failed run's failure, as it is noted. *)
  <1>1. ASSUME Failing, mode \in {"sequence", "endurance"}, NEW as, as = mode \/ as = "fixed",
               as = "fixed" => mode = "sequence" /\ plan.fixed
        PROVE  /\ ~report.passed /\ report \in Report /\ report.kind # NoFailure
               /\ Replayable(Noted(as)) =>
                    RunFixed(report.history, plan.every, start).kind = report.kind
    <2>1. ~report.passed /\ report \in Report /\ report.kind # NoFailure /\ pc = "done"
      BY <1>1, FailedRun, HarnessAssumption DEF Failing
    <2>2. Replayable(Noted(as)) => mode = "sequence" /\ report.kind \notin {Infra("mix"), Infra("draw")}
      BY <1>1, <2>1 DEF Replayable, ListInv
    <2>3. Replayable(Noted(as)) => RunFixed(report.history, plan.every, start).kind = report.kind
      <3> HIDE DEF Noted
      <3>1. QED
        BY <2>1, <2>2, ReportReplays
    <2>4. QED
      BY <2>1, <2>3
  <1>2. ASSUME Failing, mode \in {"sequence", "endurance"}, NEW as, as = mode \/ as = "fixed",
               as = "fixed" => mode = "sequence" /\ plan.fixed, BeginSearch(as)
        PROVE  FailedInv'
    <2>1. /\ mode' = "shrink" /\ pc' = "reference" /\ start' = start /\ refKind' = refKind
          /\ failed' = Noted(as)
          /\ plan'.world = start /\ plan'.every = plan.every /\ plan'.history = report.history
      BY <1>2 DEF BeginSearch
    <2>2. refKind = NoFailure
      BY <1>2 DEF SearchInv
    <2>3. Noted(as).every = plan.every /\ Noted(as).report = report
      OBVIOUS
    <2>4. /\ ~report.passed /\ report \in Report
          /\ Replayable(Noted(as)) => RunFixed(report.history, plan.every, start).kind = report.kind
      BY <1>1, <1>2
    <2> HIDE DEF Noted
    <2>5. Replayable(failed)' <=> Replayable(Noted(as))
      BY <2>1 DEF Replayable
    <2>6. QED
      BY <2>1, <2>2, <2>3, <2>4, <2>5 DEF FailedInv
  <1>3. CASE Minimize
    BY <1>2, <1>3 DEF Minimize, Generative
  <1>4. CASE ShrinkFixed
    BY <1>2, <1>4 DEF ShrinkFixed
  (* What the search ends with. *)
  <1>5. ASSUME mode = "shrink", pc = "done", failed # NoFailure, Replayable(failed)
        PROVE  FailsLike(current, failed.every)
    <2>1. /\ plan.world = start /\ plan.every = failed.every
          /\ refKind # NoFailure => RunFixed(current, plan.every, start).kind # NoFailure
          /\ refKind = failed.report.kind
      BY <1>5 DEF FailedInv
    <2>2. failed.report.kind # NoFailure
      <3>1. ~failed.report.passed /\ failed.report \in Report
        BY <1>5 DEF FailedInv
      <3>2. QED
        BY <3>1, HarnessAssumption DEF Report
    <2>3. SameFailure(RunFixed(current, plan.every, start).kind, refKind)
      BY <1>5, <2>1, <2>2, SameRuns DEF SearchInv, Search!AlwaysReproduces, Search!Replay
    <2>4. QED
      BY <2>1, <2>2, <2>3 DEF FailsLike
  <1>6. failed # NoFailure =>
          /\ ~failed.report.passed /\ failed.report \in Report
          /\ Replayable(failed) =>
               RunFixed(failed.report.history, failed.every, start).kind = failed.report.kind
    BY DEF FailedInv
  <1>7. CASE Redrive
    <2>1. /\ mode = "shrink" /\ pc = "done" /\ failed.mode = "fixed"
          /\ mode' = "sequence" /\ start' = start /\ failed' = failed
          /\ plan'.fixed = TRUE /\ plan'.list = current /\ plan'.every = plan.every
      BY <1>7 DEF Redrive, Setup
    <2>2. plan.every = failed.every
      BY <2>1 DEF FailedInv
    <2>3. failed # NoFailure => FailsLike(current, plan.every)
      BY <1>5, <2>1, <2>2 DEF Replayable
    <2>4. failed # NoFailure => FailsLike(plan.list, plan.every)'
      BY <2>1, <2>3 DEF FailsLike
    <2>5. QED
      BY <1>6, <2>1, <2>4 DEF FailedInv, Replayable
  <1>8. CASE ReplayArtifact
    <2> DEFINE ops == IF mode = "shrink" THEN current ELSE report.history
               Ops == [i \in DOMAIN plan.steps |-> plan.steps[i].op]
    <2>1. /\ Failing /\ mode' = "scenario" /\ start' = start
          /\ plan' = [steps |-> ArtifactSteps(ops), every |-> 1]
          /\ mode \in {"sequence", "endurance"} \/ (mode = "shrink" /\ failed.mode # "fixed")
          /\ failed' = IF mode = "shrink" THEN failed ELSE Noted(mode)
      BY <1>8 DEF ReplayArtifact, Setup, Generative
    <2>2. ops \in Seq(Operation)
      BY <2>1, FailedRun DEF TypeOK, SharedOK
    <2> HIDE DEF ops
    <2>3. plan'.steps = ArtifactSteps(ops) /\ plan'.every = 1
      BY <2>1
    <2>4. /\ Ops' = ops
          /\ \A i \in DOMAIN plan'.steps :
               plan'.steps[i].expect = "accepted" /\ plan'.steps[i].check = TRUE
      <3> DEFINE OpsOf(lines) == [i \in DOMAIN lines |-> lines[i].op]
      <3>1. Ops' = OpsOf(plan'.steps)
        OBVIOUS
      <3>2. OpsOf(ArtifactSteps(ops)) = ops
        BY <2>2, OpsOfSteps
      <3>3. \A i \in DOMAIN ArtifactSteps(ops) :
              ArtifactSteps(ops)[i].expect = "accepted" /\ ArtifactSteps(ops)[i].check = TRUE
        BY <2>2, OpsOfSteps
      <3> HIDE DEF OpsOf, Ops
      <3>4. QED
        BY <2>3, <3>1, <3>2, <3>3
    <2>5. CASE mode = "shrink"
      <3>1. failed' = failed /\ failed.mode # "fixed" /\ ops = current /\ pc = "done"
        BY <2>1, <2>5 DEF ops, Failing
      <3>2. failed # NoFailure /\ Replayable(failed) => failed.every = 1
        BY <3>1 DEF Replayable
      <3>3. failed # NoFailure /\ Replayable(failed) => FailsLike(ops, 1)
        BY <1>5, <2>5, <3>1, <3>2
      <3>4. failed # NoFailure /\ Replayable(failed) => FailsLike(Ops, 1)'
        BY <2>1, <2>4, <3>1, <3>3 DEF FailsLike
      <3>5. QED
        BY <1>6, <2>1, <2>3, <2>4, <3>1, <3>4 DEF FailedInv, Replayable
    <2>6. CASE mode # "shrink"
      <3>1. failed' = Noted(mode) /\ ops = report.history /\ mode \in {"sequence", "endurance"}
        BY <2>1, <2>6 DEF ops
      <3>2. /\ ~report.passed /\ report \in Report /\ report.kind # NoFailure
            /\ Replayable(Noted(mode)) =>
                 RunFixed(report.history, plan.every, start).kind = report.kind
        BY <1>1, <2>1, <3>1
      <3>3. Noted(mode).mode = mode /\ Noted(mode).every = plan.every /\ Noted(mode).report = report
        OBVIOUS
      <3> HIDE DEF Noted
      <3>4. Replayable(failed)' => Replayable(Noted(mode)) /\ plan.every = 1
        BY <3>1, <3>3 DEF Replayable
      <3>5. Replayable(failed)' => FailsLike(Ops, 1)'
        <4>1. Replayable(failed)' => RunFixed(ops, 1, start).kind = report.kind
          BY <3>1, <3>2, <3>4
        <4>2. SameFailure(report.kind, report.kind)
          BY DEF SameFailure
        <4>3. QED
          BY <2>1, <2>4, <3>1, <3>2, <3>3, <4>1, <4>2 DEF FailsLike
      <3>6. Replayable(failed)' =>
              RunFixed(failed'.report.history, failed'.every, start').kind = failed'.report.kind
        BY <2>1, <3>1, <3>2, <3>3, <3>4
      <3>7. failed'.mode # "fixed"
        BY <3>1, <3>3
      <3>8. QED
        BY <2>1, <2>3, <2>4, <3>1, <3>2, <3>3, <3>5, <3>6, <3>7 DEF FailedInv
    <2>7. QED
      BY <2>5, <2>6
  <1>9. QED
    BY <1>3, <1>4, <1>7, <1>8

(* Every step keeps what is known of the failure that is looked into.       *)
LEMMA FailedInvariant ==
    ASSUME TypeOK, OneInFlight, TraceInv, FaultInv, ListInv, SearchInv, FailedInv, [Next]_vars
    PROVE  FailedInv'
  <1>1. CASE UNCHANGED vars
    <2>1. UNCHANGED <<mode, start, failed, plan, pc, refKind, current>>
      BY <1>1 DEF vars, search
    <2>2. FailedInv
      OBVIOUS
    <2>3. QED
      BY <2>1, <2>2 DEF FailedInv, Replayable, FailsLike
  <1>2. CASE Drive \/ Follow
    <2>1. mode \in {"sequence", "scenario"} /\ UNCHANGED <<mode, start, failed>>
      BY <1>2 DEF Drive, Follow
    <2>2. plan' = plan
      BY <1>2 DEF Drive, Follow,
         Sequence!Next, Sequence!ResolveMix, Sequence!Draw, Sequence!Starve, Sequence!TakeFixed,
         Sequence!Finish, Sequence!ApplyOp, Sequence!Sweep, Sequence!Done, Sequence!vars,
         Script!Next, Script!Begin, Script!Finish, Script!ApplyOp, Script!Sweep, Script!Done, Script!vars
    <2>3. FailedInv
      OBVIOUS
    <2>4. QED
      BY <2>1, <2>2, <2>3 DEF FailedInv, Replayable, FailsLike
  <1>3. CASE Endure
    <2>1. mode = "endurance" /\ mode' = mode /\ failed' = failed
      BY <1>3 DEF Endure
    <2>2. QED
      BY <2>1 DEF FailedInv
  <1>4. QED
    BY <1>1, <1>2, <1>3, SearchedFailure, HandedFailure DEF Next

(* Every step of a search keeps the order of the ops.                       *)
LEMMA OrderInvariant ==
    ASSUME TypeOK, OrderInv, [Next]_vars
    PROVE  OrderInv'
  <1>1. Search!KeepsTheOrder <=>
          (current = <<>> => plan.history = <<>>) /\ Ordered(current, plan.history)
    BY DEF Search!KeepsTheOrder, Ordered
  <1>2. Search!KeepsTheOrder' <=>
          (current' = <<>> => plan'.history = <<>>) /\ Ordered(current', plan'.history)
    BY DEF Search!KeepsTheOrder, Ordered
  <1>3. ASSUME NEW h \in Seq(Operation) PROVE Ordered(h, h)
    <2> DEFINE g == [i \in DOMAIN h |-> i]
    <2>1. g \in [DOMAIN h -> DOMAIN h] /\ \A i \in DOMAIN h : g[i] = i
      OBVIOUS
    <2> HIDE DEF g
    <2>2. QED
      BY <2>1 DEF Ordered
  <1>4. CASE UNCHANGED vars
    <2>1. mode' = mode /\ current' = current /\ plan' = plan
      BY <1>4 DEF vars, search
    <2>2. QED
      BY <1>1, <1>2, <2>1 DEF OrderInv
  <1>5. CASE Drive \/ Endure \/ Follow \/ Redrive \/ ReplayArtifact
    <2>1. mode' # "shrink"
      BY <1>5 DEF Drive, Endure, Follow, Redrive, ReplayArtifact
    <2>2. QED
      BY <2>1 DEF OrderInv
  <1>6. CASE Minimize \/ ShrinkFixed
    <2>1. current' = report.history /\ plan'.history = report.history
      BY <1>6 DEF Minimize, ShrinkFixed, BeginSearch
    <2>2. report.history \in Seq(Operation)
      BY <1>6, FailedRun DEF Minimize, ShrinkFixed, Generative
    <2>3. QED
      BY <1>2, <1>3, <2>1, <2>2 DEF OrderInv
  <1>7. CASE Shrink
    <2>1. mode = "shrink" /\ Search!Next
      BY <1>7 DEF Shrink
    <2>2. plan' = plan
      BY <2>1 DEF Search!Next, Search!Reference, Search!NextSize, Search!Window, Search!Halve,
         Search!Single, Search!Done, Search!vars
    <2>3. /\ current \in Seq(Operation) /\ Len(current) \in Nat /\ plan.history \in Seq(Operation)
          /\ at \in Nat /\ size \in Nat
      BY <2>1 DEF TypeOK, SharedOK, SearchOK, Searches
    <2>4. (current = <<>> => plan.history = <<>>) /\ Ordered(current, plan.history)
      BY <1>1, <2>1 DEF OrderInv
    <2>5. current' = current => OrderInv'
      BY <1>2, <2>2, <2>4 DEF OrderInv
    <2>6. ASSUME NEW t \in Nat, at <= t, t <= Len(current), Without(current, at, t) # <<>>,
                 current' = Without(current, at, t)
          PROVE  OrderInv'
      <3>1. Ordered(current', plan.history)
        BY <2>3, <2>4, <2>6, DroppedInOrder
      <3>2. QED
        BY <1>2, <2>2, <2>6, <3>1 DEF OrderInv
    <2>7. \A t : Search!Without(at, t) = Without(current, at, t)
      BY DEF Search!Without, Without
    <2>8. \A c, stride : Search!Try(c, stride) => current' \in {current, c}
      BY DEF Search!Try
    <2>9. CASE Search!Reference \/ Search!NextSize \/ Search!Halve \/ Search!Done
      <3>1. current' = current
        BY <2>9 DEF Search!Reference, Search!NextSize, Search!Halve, Search!Done, Search!vars
      <3>2. QED
        BY <2>5, <3>1
    <2>10. CASE Search!Window
      <3> DEFINE end == IF at + size > Len(current) THEN Len(current) ELSE at + size
      <3>1. /\ at < Len(current)
            /\ \/ current' = current
               \/ Search!Without(at, end) # <<>> /\ Search!Try(Search!Without(at, end), size)
        BY <2>10 DEF Search!Window
      <3>2. end \in Nat /\ at <= end /\ end <= Len(current)
        BY <2>3, <3>1
      <3> HIDE DEF end
      <3>3. QED
        BY <2>5, <2>6, <2>7, <2>8, <3>1, <3>2
    <2>11. CASE Search!Single
      <3>1. \/ current' = current
            \/ at < Len(current) /\ Len(current) > 1 /\ Search!Try(Search!Without(at, at + 1), 1)
        BY <2>11 DEF Search!Single
      <3>2. CASE current' = current
        BY <2>5, <3>2
      <3>3. CASE current' # current
        <4>1. at < Len(current) /\ Len(current) > 1 /\ current' = Without(current, at, at + 1)
          BY <2>7, <2>8, <3>1, <3>3
        <4>2. at + 1 \in Nat /\ at <= at + 1 /\ at + 1 <= Len(current)
          BY <2>3, <4>1
        <4>3. Len(Without(current, at, at + 1)) = Len(current) - ((at + 1) - at)
          <5> DEFINE t == at + 1
          <5>1. t \in Nat /\ at <= t /\ t <= Len(current)
            BY <4>2
          <5> HIDE DEF t
          <5>2. Len(Without(current, at, t)) = Len(current) - (t - at)
            BY <2>3, <5>1, Dropped
          <5>3. QED
            BY <5>2 DEF t
        <4>4. Without(current, at, at + 1) # <<>>
          <5>1. Len(<<>>) = 0 /\ Len(current) - ((at + 1) - at) > 0
            BY <2>3, <4>1
          <5>2. QED
            BY <4>3, <5>1
        <4>5. QED
          BY <2>6, <4>1, <4>2, <4>4
      <3>4. QED
        BY <3>2, <3>3
    <2>12. QED
      BY <2>1, <2>9, <2>10, <2>11 DEF Search!Next
  <1>8. QED
    BY <1>4, <1>5, <1>6, <1>7 DEF Next
-----------------------------------------------------------------------------
(* It holds throughout.                                                     *)
LEMMA ReplayHolds == Spec => []ReplayInv
  <1>1. ASSUME Init PROVE ReplayInv
    <2>1. RunnerInv
      BY <1>1, InitInv
    <2>2. /\ mode \in {"sequence", "endurance", "scenario"}
          /\ log = <<>> /\ steps = 0 /\ pc \in {"next", "resolve"}
          /\ world = start /\ failed = NoFailure
      BY <1>1 DEF Init, Sequence!Init, Loop!Init, Script!Init
    <2>3. Len(log) = 0 /\ Met(1) = start
      BY <2>2 DEF Met
    <2>4. TraceInv /\ FaultInv /\ FailedInv /\ OrderInv
      BY <2>2, <2>3 DEF TraceInv, FaultInv, FailedInv, OrderInv
    <2>5. ListInv
      <3>1. mode = "scenario" => \A i \in 1 .. steps : history[i] = plan.steps[i].op
        BY <2>2
      <3>2. ASSUME mode = "sequence", plan.fixed
            PROVE  /\ pc = "next" /\ history = <<>> /\ source.rest = plan.list
                   /\ Len(plan.list) \in Nat
        <4>1. Sequence!Init
          BY <1>1, <3>2 DEF Init
        <4>2. Len(plan.list) \in Nat
          BY <2>1, <3>2 DEF RunnerInv, TypeOK, SequenceOK, Sequence!Plan
        <4>3. QED
          BY <3>2, <4>1, <4>2 DEF Sequence!Init
      <3>3. ASSUME mode = "sequence", plan.fixed
            PROVE  /\ Len(history) = 0
                   /\ \A i \in 1 .. Len(source.rest) : source.rest[i] = plan.list[0 + i]
        BY <3>2, <3>3
      <3>4. QED
        BY <3>1, <3>2, <3>3 DEF ListInv
    <2>6. QED
      BY <2>1, <2>4, <2>5 DEF ReplayInv
  <1>2. RunnerInv /\ RunnerInv' /\ ReplayInv /\ [Next]_vars => ReplayInv'
    BY RunInvariant, ListInvariant, FailedInvariant, OrderInvariant DEF ReplayInv, RunnerInv
  <1>3. QED
    BY <1>1, <1>2, InvariantHolds, PTL DEF Spec, ReplayInv

(* A failure of a generative run that swept after every op is reproduced by *)
(* a replay of the reported history: same kind, same step, same final       *)
(* world; and a fixed run reports what run_fixed makes of its list          *)
(* (Runner::replay, run_fixed).                                             *)
THEOREM ReplaysReproduce == Spec => []ReplayReproduces
  <1>1. ASSUME ReplayInv, mode = "sequence", log # <<>>
        PROVE  log[1].before = start
    <2>1. Len(log) \in Nat /\ Len(log) # 0
      BY <1>1 DEF ReplayInv, RunnerInv, TypeOK, SequenceOK
    <2>2. log[1].before = Met(1)
      BY <1>1, <2>1 DEF ReplayInv, TraceInv
    <2>3. QED
      BY <2>2 DEF Met
  <1>2. ASSUME ReplayInv, mode = "sequence" PROVE Sequence!FixedRunIsRunFixed
    <2>1. SUFFICES ASSUME plan.fixed, pc = "done", log # <<>>
                   PROVE  LET run == Sequence!RunFixed(plan.list, plan.every, log[1].before)
                          IN  report.kind = run.kind /\ report.steps = run.steps /\ world = run.world
      BY DEF Sequence!FixedRunIsRunFixed
    <2>2. Sequence!RunFixed(plan.list, plan.every, log[1].before) = RunFixed(plan.list, plan.every, start)
      BY <1>1, <1>2, <2>1, SameRuns
    <2>3. RunFixed(plan.list, plan.every, start) =
            [steps |-> report.steps, world |-> world, kind |-> report.kind]
      BY <1>2, <2>1, FixedIsRun DEF ReplayInv, RunnerInv
    <2>4. QED
      BY <2>2, <2>3
  <1>3. ASSUME ReplayInv, mode = "sequence" PROVE Sequence!ReplayReproduces
    <2>1. SUFFICES ASSUME pc = "done", ~report.passed, plan.every = 1,
                          report.kind \notin {Infra("mix"), Infra("draw")}
                   PROVE  LET again == Sequence!Replayed(report)
                          IN  again.kind = report.kind /\ again.steps = report.steps /\ again.world = world
      BY ReportOK DEF Sequence!ReplayReproduces, Sequence!Failed
    <2>2. /\ RunFixed(report.history, plan.every, start) =
               [steps |-> report.steps, world |-> world, kind |-> report.kind]
          /\ steps > 0
      BY <1>3, <2>1, ReportReplays DEF ReplayInv, RunnerInv
    <2>3. log # <<>>
      <3>1. Len(log) = steps
        BY <1>3, <2>1 DEF ReplayInv, RunnerInv, OneInFlight
      <3>2. QED
        BY <2>2, <3>1
    <2>4. Sequence!Replayed(report) = RunFixed(report.history, plan.every, start)
      BY <1>1, <1>3, <2>1, <2>3, SameRuns DEF Sequence!Replayed
    <2>5. QED
      BY <2>2, <2>4
  <1>4. ReplayInv => ReplayReproduces
    BY <1>2, <1>3 DEF ReplayReproduces
  <1>5. QED
    BY <1>4, ReplayHolds, PTL

(* Whatever the search has in hand fails like the reference and is made of  *)
(* the original ops in their order, at a bounded cost; and a minimised list *)
(* that is driven again fails as it did (shrink_inner,                      *)
(* run_and_shrink_with).                                                    *)
THEOREM ShrinkingIsFaithful == Spec => []ShrinkingKeepsTheFailure
  <1>1. ReplayInv =>
          (mode = "shrink" =>
             Search!AlwaysReproduces /\ Search!KeepsTheOrder /\ Search!BudgetBoundsReplays)
    BY DEF ReplayInv, RunnerInv, SearchInv, OrderInv
  <1>2. ASSUME ReplayInv, Redriven
        PROVE  /\ ~Returned.passed /\ SameFailure(Returned.kind, failed.report.kind)
               /\ FailsLike(Returned.history, failed.every)
    <2>1. plan.fixed /\ FailsLike(plan.list, plan.every) /\ plan.every = failed.every
      BY <1>2 DEF ReplayInv, FailedInv, Redriven
    <2>2. /\ RunFixed(plan.list, plan.every, start) =
               [steps |-> report.steps, world |-> world, kind |-> report.kind]
          /\ report.passed => report.kind = NoFailure
      BY <1>2, <2>1, FixedIsRun DEF ReplayInv, RunnerInv, Redriven
    <2>3. ~report.passed /\ SameFailure(report.kind, failed.report.kind)
      BY <2>1, <2>2 DEF FailsLike
    <2>4. /\ Returned = [report EXCEPT !.history = plan.list]
          /\ report \in Report
      BY <1>2, <2>3 DEF Returned, Redriven, ReplayInv, RunnerInv, TypeOK, SharedOK
    <2>5. /\ Returned.passed = report.passed /\ Returned.kind = report.kind
          /\ Returned.history = plan.list
      BY <2>4 DEF Report
    <2>6. QED
      BY <2>1, <2>3, <2>5
  <1>3. ReplayInv => ShrinkingKeepsTheFailure
    BY <1>1, <1>2 DEF ShrinkingKeepsTheFailure, FailsLike
  <1>4. QED
    BY <1>3, ReplayHolds, PTL

(* The artifact of a failure of an op, met while sweeping after every op,   *)
(* fails the same way when it is replayed, shrunk or not, unless the replay *)
(* ends at an op that was rejected (artifact.rs: the steps expect           *)
(* "accepted").                                                             *)
THEOREM ArtifactsReplay == Spec => []ArtifactReplays
  <1>1. ASSUME ReplayInv, mode = "scenario", pc = "done", failed # NoFailure,
               failed.mode = "sequence", failed.every = 1,
               failed.report.kind \notin {Infra("mix"), Infra("draw")},
               report.kind # Script!Mismatch
        PROVE  ~report.passed /\ SameFailure(report.kind, failed.report.kind)
    <2> DEFINE ops == [i \in DOMAIN plan.steps |-> plan.steps[i].op]
    <2>1. /\ TypeOK /\ OneInFlight /\ ScriptInv /\ TraceInv /\ FaultInv /\ ListInv /\ FailedInv
      BY <1>1 DEF ReplayInv, RunnerInv
    <2>2. /\ plan.every = 1 /\ FailsLike(ops, 1)
          /\ \A i \in DOMAIN plan.steps : plan.steps[i].check = TRUE
      BY <1>1, <2>1 DEF FailedInv, Replayable
    <2>3. /\ steps \in Nat /\ steps <= Len(plan.steps) /\ Len(plan.steps) \in Nat
          /\ DOMAIN plan.steps = 1 .. Len(plan.steps) /\ Len(log) = steps
      BY <1>1, <2>1 DEF TypeOK, SharedOK, ScenarioOK, Texts, OneInFlight, ScriptInv
    <2>4. Len(ops) = Len(plan.steps) /\ \A i \in 1 .. steps : ops[i] = history[i]
      BY <1>1, <2>1, <2>3 DEF ListInv
    <2> HIDE DEF ops
    <2>5. \A i \in 1 .. steps : SweptAfter(i) = Due(1, i)
      BY <1>1, <2>2, <2>3 DEF SweptAfter, Script!Asked, Script!Due, Due
    <2>6. report.passed => steps = Len(ops)
      BY <1>1, <2>1, <2>3, <2>4 DEF ScriptInv, Script!PassMeetsEveryExpectation, Script!Passed
    <2>7. ~report.passed => steps > 0 /\ Fault(steps) = report.kind
      BY <1>1, <2>1 DEF FaultInv
    <2>8. report \in Report
      BY <1>1, <2>1 DEF TypeOK, SharedOK, Mismatches
    <2>9. report.passed \in BOOLEAN /\ (~report.passed => report.kind # NoFailure)
      BY <2>8, HarnessAssumption DEF Report
    <2>10. RunFixed(ops, 1, start) =
             [steps |-> steps, world |-> world,
              kind |-> IF report.passed THEN NoFailure ELSE report.kind]
      BY <1>1, <2>1, <2>3, <2>4, <2>5, <2>6, <2>7, <2>9, LogIsRun
    <2>11. QED
      BY <2>2, <2>9, <2>10 DEF FailsLike
  <1>2. ReplayInv => ArtifactReplays
    BY <1>1, ReportOK DEF ArtifactReplays
  <1>3. QED
    BY <1>2, ReplayHolds, PTL
=============================================================================
