-------------------------- MODULE Pipeline_proofs --------------------------
(***************************************************************************)
(* Pipeline, for every profile, configuration and invocation the loader    *)
(* and the command line let through.                                       *)
(***************************************************************************)
EXTENDS Pipeline, SequenceTheorems, TLAPS

NameOf(j) == run.phases[j].profile

Donor(k) == run.phases[k].needs[1]

Codes == {0, 1, 2, 3}

Busy == pc \in {"obtain", "start", "driven"}

(* No profile is named twice: so it is in every suite, but not in every     *)
(* list of --profile flags.                                                 *)
Distinct == \A j, k \in DOMAIN run.phases : NameOf(j) = NameOf(k) => j = k

(* Every variable keeps its type, and the phase at hand is one of the run.  *)
TypeOK ==
    /\ run \in Invocations
    /\ i \in 1 .. (Len(run.phases) + 1)
    /\ pc \in {"between", "obtain", "start", "driven", "report", "done", "panicked", "killed"}
    /\ Busy => i <= Len(run.phases)
    /\ outcomes \in [Profile -> {"none", "passed", "failed", "skipped"}]
    /\ code \in Codes /\ found \subseteq Codes
    /\ session \in Seq(Profile) \cup {NoWorld} /\ world \in Seq(Profile) \cup {NoWorld}
    /\ pc \in {"start", "driven"} => world # NoWorld
    /\ case \in Nat
    /\ verdict \in {"none", "passed", "bug", "invariant", "infra"}
    /\ pc = "driven" => verdict # "none"
    /\ stop \in BOOLEAN
    /\ origin \in [Profile -> Seq(Profile) \cup {NoWorld}]

(* The code folds what was found, in any order. *)
CodeIsTheWorst ==
    /\ (code = 3) <=> (3 \in found)
    /\ (code = 1) <=> (1 \in found /\ 3 \notin found)
    /\ (code = 2) <=> (2 \in found /\ found \cap {1, 3} = {})

(* The phases behind have an outcome, a good one while the code is 0; those *)
(* ahead have none but what an earlier phase of their profile left.         *)
OutcomesFollow ==
    /\ \A j \in DOMAIN run.phases : j < i =>
         outcomes[NameOf(j)] # "none" /\ (code = 0 => outcomes[NameOf(j)] = "passed")
    /\ \A j \in DOMAIN run.phases : j >= i =>
         \/ outcomes[NameOf(j)] = "none"
         \/ \E k \in DOMAIN run.phases : k < i /\ NameOf(k) = NameOf(j)
    /\ pc \in {"report", "done"} => i > Len(run.phases) \/ stop \/ code # 0
    /\ run.stopOnFailure => \A j \in DOMAIN run.phases :
         j < i /\ outcomes[NameOf(j)] = "failed" => j = i - 1 /\ pc \in {"report", "done", "killed"}

ExitInv == TypeOK /\ CodeIsTheWorst /\ OutcomesFollow

(* The phase at hand has passed its gate, and is driven more than once only *)
(* from fresh worlds.                                                       *)
PhaseIsOpen ==
    Busy => /\ ~Gated /\ ~Degenerate
            /\ case >= 1
            /\ case > 1 => Current.world = "fresh"

(* Worlds, of a run that names no profile twice: no phase ahead has one,    *)
(* and the runner's is what the phase at hand has made of its own.          *)
WorldsAtHand ==
    Distinct =>
      /\ \A j \in DOMAIN run.phases :
           j > i \/ (j = i /\ pc = "between") => origin[NameOf(j)] = NoWorld
      /\ pc = "obtain" => origin[Current.profile] = IF case = 1 THEN NoWorld ELSE <<>>
      /\ pc \in {"start", "driven"} =>
           /\ origin[Current.profile] # NoWorld
           /\ Current.world = "fresh" => origin[Current.profile] = <<>>
      /\ pc = "start" => world = origin[Current.profile]
      /\ pc = "driven" => world = Append(origin[Current.profile], Current.profile)

(* Each world that was started from, a fresh one aside, was left by a phase *)
(* that passed.                                                             *)
WorldsWereLeft ==
    Distinct => \A q \in Profile : origin[q] \notin {NoWorld, <<>>} =>
      Last(origin[q]) \in Profile /\ outcomes[Last(origin[q])] = "passed"

(* Only a run with heirs uses the slot.  What is in it was left by a phase  *)
(* that passed, and nobody started from it.                                 *)
SlotHolds ==
    session # NoWorld =>
      /\ Distinct
      /\ \E p \in Profile :
           /\ origin[p] # NoWorld /\ session = Append(origin[p], p)
           /\ outcomes[p] = "passed"
      /\ \A q \in Profile : origin[q] # session

(* Phase k is an heir that is still to start, whose slot is not contended   *)
(* and whose donor has passed.                                              *)
Awaits(k) ==
    /\ Promise!Inherits(k) /\ ~Promise!Contended(k)
    /\ i < k \/ (i = k /\ pc \in {"between", "obtain"})
    /\ \E d \in DOMAIN run.phases : d < i /\ NameOf(d) = Donor(k)
    /\ outcomes[Donor(k)] = "passed"

(* Such an heir finds the world its donor left.                             *)
SlotServes ==
    \A k \in DOMAIN run.phases : Awaits(k) =>
      /\ origin[Donor(k)] # NoWorld
      /\ session = Append(origin[Donor(k)], Donor(k))

HandoffInv ==
    ExitInv /\ PhaseIsOpen /\ WorldsAtHand /\ WorldsWereLeft /\ SlotHolds /\ SlotServes
-----------------------------------------------------------------------------
(* What select_phases lets through, of the run at hand.                     *)
LEMMA SuiteRules ==
    ASSUME run \in Invocations
    PROVE  /\ run \in Invocation /\ run.phases \in Seq(Phase)
           /\ Len(run.phases) \in Nat /\ DOMAIN run.phases = 1 .. Len(run.phases)
           /\ \A k \in DOMAIN run.phases :
                /\ NameOf(k) \in Profile
                /\ run.phases[k].needs \in Seq(Profile)
                /\ run.phases[k].world \in {"fresh", "inherit"}
                /\ \A n \in ToSet(run.phases[k].needs) :
                     \E j \in DOMAIN run.phases : j < k /\ NameOf(j) = n
                /\ run.phases[k].world = "inherit" =>
                     /\ Distinct
                     /\ Len(run.phases[k].needs) = 1
                     /\ Donor(k) \in ToSet(run.phases[k].needs)
                     /\ \A j \in DOMAIN run.phases :
                          run.phases[j].world = "inherit" /\ Donor(j) = Donor(k) => j = k
           /\ run.stopOnFailure => Distinct
<1>1. run \in Invocation /\ Selectable(run)
  BY PipelineAssumption
<1>2. /\ run.phases \in Seq(Phase) /\ Len(run.phases) \in Nat
      /\ DOMAIN run.phases = 1 .. Len(run.phases)
  BY <1>1 DEF Invocation
<1>3. \A k \in DOMAIN run.phases : run.phases[k] \in Phase
  BY <1>2
<1>4. ASSUME NEW k \in DOMAIN run.phases
      PROVE  /\ NameOf(k) \in Profile
             /\ run.phases[k].needs \in Seq(Profile)
             /\ run.phases[k].world \in {"fresh", "inherit"}
  BY <1>3 DEF Phase, Phases, NameOf
<1>5. CASE ValidSuite(run.phases)
  <2> DEFINE single == {p \in Profile : SingleSetup(p)}
  <2>1. ValidPhases(run.phases, single)
    BY <1>5 DEF ValidSuite
  <2> HIDE DEF single
  <2>2. Distinct
    BY <2>1 DEF ValidPhases, Distinct, NameOf
  <2>3. ASSUME NEW k \in DOMAIN run.phases, NEW n \in ToSet(run.phases[k].needs)
        PROVE  \E j \in DOMAIN run.phases : j < k /\ NameOf(j) = n
    <3>1. PICK j \in 1 .. (k - 1) : run.phases[j].profile = n
      BY <2>1 DEF ValidPhases
    <3>2. j \in DOMAIN run.phases /\ j < k
      BY <1>2
    <3> QED BY <3>1, <3>2 DEF NameOf
  <2>4. ASSUME NEW k \in DOMAIN run.phases, run.phases[k].world = "inherit"
        PROVE  /\ Len(run.phases[k].needs) = 1
               /\ Donor(k) \in ToSet(run.phases[k].needs)
               /\ run.phases[k].needs = <<Donor(k)>>
    <3>1. Len(run.phases[k].needs) = 1
      BY <2>1, <2>4 DEF ValidPhases
    <3> DEFINE s == run.phases[k].needs
    <3>2. s \in Seq(Profile) /\ Len(s) = 1 /\ Donor(k) = s[1]
      BY <1>4, <3>1 DEF Donor
    <3> HIDE DEF s
    <3>3. s = <<Donor(k)>> /\ 1 \in DOMAIN s
      BY <3>2
    <3> QED BY <3>1, <3>2, <3>3 DEF s, ToSet
  <2>5. ASSUME NEW k \in DOMAIN run.phases, run.phases[k].world = "inherit",
               NEW j \in DOMAIN run.phases, run.phases[j].world = "inherit",
               Donor(j) = Donor(k)
        PROVE  j = k
    <3>1. run.phases[j].needs = run.phases[k].needs
      BY <2>4, <2>5
    <3> QED BY <2>1, <2>5, <3>1 DEF ValidPhases
  <2> QED BY <1>1, <1>2, <1>4, <2>2, <2>3, <2>4, <2>5
<1>6. CASE /\ ~run.stopOnFailure
           /\ \A j \in DOMAIN run.phases : run.phases[j] = FreshPhase(run.phases[j].profile)
  <2>1. \A k \in DOMAIN run.phases :
          run.phases[k].needs = <<>> /\ run.phases[k].world = "fresh"
    <3>1. \A p : FreshPhase(p).needs = <<>> /\ FreshPhase(p).world = "fresh"
      BY DEF FreshPhase
    <3> QED BY <1>6, <3>1
  <2>2. ToSet(<<>>) = {}
    BY DEF ToSet
  <2> QED BY <1>1, <1>2, <1>4, <1>6, <2>1, <2>2
<1> QED BY <1>1, <1>5, <1>6 DEF Selectable

(* Folding one more code keeps the worst of them, by rank.                  *)
LEMMA CombineFolds ==
    ASSUME code \in Codes, CodeIsTheWorst, NEW c \in Codes,
           code' = Combine(code, c), found' = found \cup {c}
    PROVE  /\ code' \in Codes /\ CodeIsTheWorst'
           /\ code' = 0 <=> code = 0 /\ c = 0
BY SMTT(30) DEF Codes, CodeIsTheWorst, Combine, SeverityRank

(* The phase at hand is settled: its code is folded, its outcome follows.   *)
LEMMA SettleKeepsExit ==
    ASSUME ExitInv, i <= Len(run.phases), pc \notin {"report", "done", "killed"},
           NEW c \in Codes, Settle(c),
           case' \in Nat, session' \in Seq(Profile) \cup {NoWorld}
    PROVE  ExitInv'
<1> DEFINE last == run.phases[i].profile
           o == IF c = 0 THEN "passed" ELSE "failed"
<1>1. TypeOK /\ CodeIsTheWorst /\ OutcomesFollow
  BY DEF ExitInv
<1>2. /\ run' = run /\ i' = i + 1 /\ outcomes' = [outcomes EXCEPT ![last] = o]
      /\ pc' = IF StopsAfter(c) THEN "report" ELSE "between"
      /\ code' = Combine(code, c) /\ found' = found \cup {c}
      /\ world' = NoWorld /\ verdict' = "none" /\ stop' = stop /\ origin' = origin
  BY DEF Settle, Current
<1>3. /\ i \in DOMAIN run.phases /\ i \in Nat /\ Len(run.phases) \in Nat
      /\ DOMAIN run.phases \subseteq Nat
      /\ last = NameOf(i) /\ last \in Profile
      /\ \A k \in DOMAIN run.phases : NameOf(k) \in Profile
      /\ run.stopOnFailure => Distinct
  BY <1>1, SuiteRules DEF TypeOK, NameOf
<1>4. code' \in Codes /\ CodeIsTheWorst' /\ (code' = 0 <=> code = 0 /\ c = 0)
  BY <1>1, <1>2, CombineFolds DEF TypeOK
<1> HIDE DEF last
<1>5. TypeOK'
  <2>1. outcomes' \in [Profile -> {"none", "passed", "failed", "skipped"}]
    BY <1>1, <1>2 DEF TypeOK
  <2>2. i' \in 1 .. (Len(run'.phases) + 1)
    BY <1>2, <1>3
  <2> QED BY <1>1, <1>2, <1>4, <2>1, <2>2 DEF TypeOK, Busy
<1>6. \A k \in DOMAIN run.phases :
        outcomes'[NameOf(k)] = IF NameOf(k) = last THEN o ELSE outcomes[NameOf(k)]
  BY <1>1, <1>2, <1>3 DEF TypeOK
<1>7. \A j \in DOMAIN run.phases : (j < i + 1 <=> j < i \/ j = i) /\ (j >= i + 1 => j >= i)
  BY <1>3
<1>8. OutcomesFollow'
  <2>1. ASSUME NEW j \in DOMAIN run.phases, j < i + 1
        PROVE outcomes'[NameOf(j)] # "none" /\ (code' = 0 => outcomes'[NameOf(j)] = "passed")
    BY <1>1, <1>3, <1>4, <1>6, <1>7, <2>1 DEF OutcomesFollow
  <2>2. ASSUME NEW j \in DOMAIN run.phases, j >= i + 1
        PROVE \/ outcomes'[NameOf(j)] = "none"
              \/ \E k \in DOMAIN run.phases : k < i + 1 /\ NameOf(k) = NameOf(j)
    BY <1>1, <1>3, <1>6, <1>7, <2>2 DEF OutcomesFollow
  <2>3. ASSUME pc' \in {"report", "done"}
        PROVE i + 1 > Len(run.phases) \/ stop \/ code' # 0
    BY <1>2, <1>4, <2>3 DEF StopsAfter
  <2>4. ASSUME run.stopOnFailure, NEW j \in DOMAIN run.phases, j < i + 1,
               outcomes'[NameOf(j)] = "failed"
        PROVE j = i /\ pc' \in {"report", "done"}
    <3>1. CASE j = i
      <4>1. c # 0
        BY <1>3, <1>6, <2>4, <3>1
      <4>2. pc' = "report"
        BY <1>2, <2>4, <4>1 DEF StopsAfter
      <4> QED BY <1>3, <3>1, <4>2
    <3>2. CASE j < i
      <4>1. NameOf(j) # last
        BY <1>3, <2>4, <3>2 DEF Distinct
      <4> QED BY <1>1, <1>6, <2>4, <3>2, <4>1 DEF OutcomesFollow
    <3> QED BY <1>7, <2>4, <3>1, <3>2
  <2>5. \A j \in DOMAIN run'.phases : j < i' =>
          outcomes'[NameOf(j)'] # "none" /\ (code' = 0 => outcomes'[NameOf(j)'] = "passed")
    BY <1>2, <2>1 DEF NameOf
  <2>6. \A j \in DOMAIN run'.phases : j >= i' =>
          \/ outcomes'[NameOf(j)'] = "none"
          \/ \E k \in DOMAIN run'.phases : k < i' /\ NameOf(k)' = NameOf(j)'
    BY <1>2, <2>2 DEF NameOf
  <2>7. pc' \in {"report", "done"} => i' > Len(run'.phases) \/ stop' \/ code' # 0
    BY <1>2, <2>3
  <2>8. run'.stopOnFailure => \A j \in DOMAIN run'.phases :
          j < i' /\ outcomes'[NameOf(j)'] = "failed" => j = i' - 1 /\ pc' \in {"report", "done"}
    <3> SUFFICES ASSUME run'.stopOnFailure, NEW j \in DOMAIN run'.phases,
                        j < i', outcomes'[NameOf(j)'] = "failed"
                 PROVE  j = i' - 1 /\ pc' \in {"report", "done"}
      OBVIOUS
    <3>1. /\ run.stopOnFailure /\ j \in DOMAIN run.phases
          /\ j < i + 1 /\ outcomes'[NameOf(j)] = "failed"
      BY <1>2 DEF NameOf
    <3>2. j = i /\ pc' \in {"report", "done"}
      BY <2>4, <3>1
    <3> QED BY <1>2, <1>3, <3>2
  <2> QED BY <2>5, <2>6, <2>7, <2>8 DEF OutcomesFollow
<1> QED BY <1>4, <1>5, <1>8 DEF ExitInv

(* A step that settles no phase and folds no code leaves what was said of   *)
(* the outcomes as it was.                                                  *)
LEMMA QuietKeepsExit ==
    ASSUME ExitInv, TypeOK', UNCHANGED <<run, i, outcomes, code, found>>,
           stop => stop',
           pc \in {"report", "done", "killed"} => pc' \in {"report", "done", "killed"},
           pc' \in {"report", "done"} =>
             pc \in {"report", "done"} \/ i > Len(run.phases) \/ stop'
    PROVE  ExitInv'
<1>1. CodeIsTheWorst'
  BY DEF ExitInv, CodeIsTheWorst
<1>2. OutcomesFollow'
  BY DEF ExitInv, OutcomesFollow, NameOf
<1> QED BY <1>1, <1>2 DEF ExitInv

(* The exit code and the outcomes, through a whole invocation.              *)
LEMMA ExitInvariant == Spec => []ExitInv
<1>1. Init => ExitInv
  <2> SUFFICES ASSUME Init PROVE ExitInv
    OBVIOUS
  <2>1. Len(run.phases) \in Nat /\ DOMAIN run.phases = 1 .. Len(run.phases)
        /\ \A k \in DOMAIN run.phases : NameOf(k) \in Profile
    BY SuiteRules DEF Init
  <2>2. TypeOK
    <3>1. outcomes \in [Profile -> {"none", "passed", "failed", "skipped"}]
      BY DEF Init
    <3>2. origin \in [Profile -> Seq(Profile) \cup {NoWorld}]
      BY DEF Init
    <3>3. i \in 1 .. (Len(run.phases) + 1)
      BY <2>1 DEF Init
    <3> QED BY <3>1, <3>2, <3>3 DEF Init, TypeOK, Busy, Codes
  <2>3. CodeIsTheWorst
    BY DEF Init, CodeIsTheWorst
  <2>4. OutcomesFollow
    BY <2>1 DEF Init, OutcomesFollow
  <2> QED BY <2>2, <2>3, <2>4 DEF ExitInv
<1>2. ExitInv /\ [Next]_vars => ExitInv'
  <2> SUFFICES ASSUME ExitInv, [Next]_vars PROVE ExitInv'
    OBVIOUS
  <2>1. /\ TypeOK /\ run.phases \in Seq(Phase) /\ Len(run.phases) \in Nat
        /\ DOMAIN run.phases = 1 .. Len(run.phases)
        /\ \A k \in DOMAIN run.phases :
             NameOf(k) \in Profile /\ run.phases[k].needs \in Seq(Profile)
    BY SuiteRules DEF ExitInv, TypeOK
  <2>2. {0, 1, 2, 3} = Codes
    BY DEF Codes
  <2>3. i \in Nat /\ (Busy => i <= Len(run.phases)) /\ (AtPhase => i <= Len(run.phases))
    BY <2>1 DEF TypeOK, AtPhase
  <2>4. i <= Len(run.phases) => i \in DOMAIN run.phases
    BY <2>1, <2>3 DEF TypeOK
  <2>5. CASE Interrupt
    <3>1. TypeOK'
      BY <2>1, <2>5 DEF Interrupt, TypeOK, Busy
    <3> QED BY <2>5, <3>1, QuietKeepsExit DEF Interrupt
  <2>21. CASE Kill
    <3>1. TypeOK'
      BY <2>1, <2>21 DEF Kill, TypeOK, Busy
    <3> QED BY <2>21, <3>1, QuietKeepsExit DEF Kill
  <2>6. CASE Leave
    <3>1. TypeOK'
      BY <2>1, <2>6 DEF Leave, TypeOK, Busy
    <3> QED BY <2>6, <3>1, QuietKeepsExit DEF Leave
  <2>7. CASE Skip
    <3> DEFINE last == run.phases[i].profile
    <3>1. /\ run' = run /\ i' = i + 1 /\ code' = code /\ found' = found /\ stop' = stop
          /\ outcomes' = [outcomes EXCEPT ![last] = "skipped"]
          /\ pc = "between" /\ pc' = pc /\ i \in DOMAIN run.phases
          /\ last = NameOf(i) /\ last \in Profile
      BY <2>1, <2>3, <2>4, <2>7 DEF Skip, AtPhase, Current, NameOf
    <3>2. \A k \in DOMAIN run.phases :
            outcomes'[NameOf(k)] = IF NameOf(k) = last THEN "skipped" ELSE outcomes[NameOf(k)]
      BY <2>1, <3>1 DEF TypeOK
    <3>3. code # 0
      <4>1. PICK n \in ToSet(run.phases[i].needs) : outcomes[n] # "passed"
        BY <2>7 DEF Skip, Gated, Current
      <4>2. PICK j \in DOMAIN run.phases : j < i /\ NameOf(j) = n
        BY <2>1, <3>1, SuiteRules DEF TypeOK
      <4> QED BY <4>1, <4>2 DEF ExitInv, OutcomesFollow
    <3>4. TypeOK'
      <4>1. i' \in 1 .. (Len(run'.phases) + 1)
        BY <2>1, <2>3, <3>1
      <4>2. outcomes' \in [Profile -> {"none", "passed", "failed", "skipped"}]
        BY <2>1, <3>1 DEF TypeOK
      <4> QED BY <2>1, <2>7, <3>1, <4>1, <4>2 DEF Skip, TypeOK, Busy
    <3>5. CodeIsTheWorst'
      BY <3>1 DEF ExitInv, CodeIsTheWorst
    <3>6. OutcomesFollow'
      <4>0. OutcomesFollow
        BY DEF ExitInv
      <4> HIDE DEF last
      <4>1. \A j \in DOMAIN run.phases :
              /\ j < i + 1 <=> j < i \/ j = i
              /\ j >= i + 1 => j >= i
        BY <2>1, <2>3
      <4>2. \A j \in DOMAIN run'.phases : j < i' =>
              outcomes'[NameOf(j)'] # "none" /\ (code' = 0 => outcomes'[NameOf(j)'] = "passed")
        <5> SUFFICES ASSUME NEW j \in DOMAIN run.phases, j < i + 1
                     PROVE  outcomes'[NameOf(j)] # "none"
          BY <3>1, <3>3 DEF NameOf
        <5> QED BY <3>1, <3>2, <4>0, <4>1 DEF OutcomesFollow
      <4>3. \A j \in DOMAIN run'.phases : j >= i' =>
              \/ outcomes'[NameOf(j)'] = "none"
              \/ \E k \in DOMAIN run'.phases : k < i' /\ NameOf(k)' = NameOf(j)'
        <5> SUFFICES ASSUME NEW j \in DOMAIN run.phases, j >= i + 1
                     PROVE  \/ outcomes'[NameOf(j)] = "none"
                            \/ \E k \in DOMAIN run.phases : k < i + 1 /\ NameOf(k) = NameOf(j)
          BY <3>1 DEF NameOf
        <5> QED BY <3>1, <3>2, <4>0, <4>1 DEF OutcomesFollow
      <4>4. run'.stopOnFailure => \A j \in DOMAIN run'.phases :
              j < i' /\ outcomes'[NameOf(j)'] = "failed" => j = i' - 1 /\ pc' \in {"report", "done"}
        <5> SUFFICES ASSUME run.stopOnFailure, NEW j \in DOMAIN run.phases,
                            j < i + 1, outcomes'[NameOf(j)] = "failed"
                     PROVE  FALSE
          BY <3>1 DEF NameOf
        <5> QED BY <3>1, <3>2, <4>0, <4>1 DEF OutcomesFollow
      <4> QED BY <3>1, <4>2, <4>3, <4>4 DEF OutcomesFollow
    <3> QED BY <3>4, <3>5, <3>6 DEF ExitInv
  <2>8. CASE Refuse
    BY <2>1, <2>2, <2>3, <2>8, SettleKeepsExit DEF Refuse, AtPhase, TypeOK
  <2>9. CASE Enter
    <3>1. TypeOK'
      BY <2>1, <2>3, <2>9 DEF Enter, AtPhase, TypeOK, Busy
    <3> QED BY <2>9, <3>1, QuietKeepsExit DEF Enter, AtPhase
  <2>10. CASE ObtainFresh
    <3>1. <<>> \in Seq(Profile)
      OBVIOUS
    <3>3. <<>> # NoWorld
      BY <3>1, PipelineAssumption
    <3>2. TypeOK'
      BY <2>1, <2>3, <2>10, <3>1, <3>3 DEF ObtainFresh, Obtain, TypeOK, Busy
    <3> QED BY <2>10, <3>2, QuietKeepsExit DEF ObtainFresh, Obtain
  <2>11. CASE SetupFails
    BY <2>1, <2>2, <2>3, <2>11, SettleKeepsExit DEF SetupFails, TypeOK, Busy
  <2>12. CASE ObtainInherited
    <3>1. TypeOK'
      BY <2>1, <2>3, <2>12 DEF ObtainInherited, Obtain, TypeOK, Busy
    <3> QED BY <2>12, <3>1, QuietKeepsExit DEF ObtainInherited, Obtain
  <2>13. CASE NoDonorWorld
    BY <2>1, <2>2, <2>3, <2>13, SettleKeepsExit DEF NoDonorWorld, TypeOK, Busy
  <2>14. CASE Spoil
    BY <2>1, <2>2, <2>3, <2>14, SettleKeepsExit DEF Spoil, TypeOK, Busy
  <2>15. CASE Drive
    <3>1. /\ world' \in Seq(Profile) \cup {NoWorld} /\ case' \in Nat
          /\ pc' \in {"start", "driven"} => world' # NoWorld
      <4>1. /\ world \in Seq(Profile) /\ Current.profile \in Profile
            /\ NoWorld \notin Seq(Profile)
        BY <2>1, <2>3, <2>4, <2>15, PipelineAssumption DEF Drive, TypeOK, Busy, Current, NameOf
      <4>2. Append(world, Current.profile) \in Seq(Profile)
        BY <4>1
      <4>3. Append(world, Current.profile) # NoWorld
        BY <4>1, <4>2
      <4>4. \/ pc' = "obtain" /\ case' = case + 1 /\ world' = NoWorld
            \/ pc' = "driven" /\ case' = case /\ world' = Append(world, Current.profile)
        BY <2>15 DEF Drive
      <4>5. case \in Nat /\ case + 1 \in Nat
        BY <2>1 DEF TypeOK
      <4> QED BY <4>2, <4>3, <4>4, <4>5
    <3>2. /\ pc' \in {"obtain", "driven"}
          /\ verdict' \in {"none", "passed", "bug", "invariant", "infra"}
          /\ pc' = "driven" => verdict' # "none"
      BY <2>1, <2>15 DEF Drive, TypeOK
    <3>3. TypeOK'
      BY <2>1, <2>3, <2>15, <3>1, <3>2 DEF Drive, TypeOK, Busy
    <3> QED BY <2>15, <3>3, QuietKeepsExit DEF Drive
  <2>16. CASE ShrinkPanics
    <3>1. TypeOK'
      BY <2>1, <2>3, <2>16 DEF ShrinkPanics, TypeOK, Busy
    <3> QED BY <2>16, <3>1, QuietKeepsExit DEF ShrinkPanics
  <2>17. CASE Report
    <3>1. ExitCodeFor(verdict) \in Codes
      BY <2>1, <2>17 DEF Report, TypeOK, ExitCodeFor, Codes
    <3>2. session' \in Seq(Profile) \cup {NoWorld} /\ case' \in Nat
      BY <2>1, <2>17 DEF Report, TypeOK
    <3> QED BY <2>3, <2>17, <3>1, <3>2, SettleKeepsExit DEF Report, Busy
  <2>18. CASE ReportFails
    BY <2>1, <2>2, <2>3, <2>18, SettleKeepsExit DEF ReportFails, TypeOK, Busy
  <2>19. CASE WriteReport
    <3>1. PICK c \in IF run.json THEN {0, 3} ELSE {0} :
            code' = Combine(code, c) /\ found' = found \cup {c}
      BY <2>19 DEF WriteReport
    <3>2. c \in Codes
      BY DEF Codes
    <3>3. code' \in Codes /\ CodeIsTheWorst' /\ (code' = 0 <=> code = 0 /\ c = 0)
      BY <2>1, <3>1, <3>2, CombineFolds DEF ExitInv, TypeOK
    <3>4. /\ pc = "report" /\ pc' = "done" /\ run' = run /\ i' = i
          /\ outcomes' = outcomes /\ stop' = stop
      BY <2>19 DEF WriteReport
    <3>5. TypeOK'
      BY <2>1, <2>19, <3>1, <3>2, <3>3 DEF WriteReport, TypeOK, Busy
    <3>6. OutcomesFollow'
      BY <3>3, <3>4 DEF ExitInv, OutcomesFollow, NameOf
    <3> QED BY <3>3, <3>5, <3>6 DEF ExitInv
  <2>20. CASE UNCHANGED vars
    BY <2>20 DEF vars, ExitInv, TypeOK, Busy, CodeIsTheWorst, OutcomesFollow, NameOf
  <2> QED BY <2>5, <2>6, <2>7, <2>8, <2>9, <2>10, <2>11, <2>12, <2>13, <2>14, <2>15,
             <2>16, <2>17, <2>18, <2>19, <2>20, <2>21 DEF Next, Step, Done
<1> QED BY <1>1, <1>2, PTL DEF Spec

(* Type correctness: every variable keeps its type, whatever is selected.   *)
THEOREM TypeCorrect == Spec => []TypeOK
<1>1. ExitInv => TypeOK
  BY DEF ExitInv
<1> QED BY <1>1, ExitInvariant, PTL

(* The exit code is the worst any phase or the report writer ended with,    *)
(* green means that every phase passed, and nothing follows a failed phase  *)
(* under stop_on_failure.                                                   *)
THEOREM WorstCodeWins == Spec => []ExitIsTheWorst
<1>1. ExitInv => ExitIsTheWorst
  <2> SUFFICES ASSUME ExitInv PROVE ExitIsTheWorst
    OBVIOUS
  <2>1. TypeOK /\ CodeIsTheWorst /\ OutcomesFollow
    BY DEF ExitInv
  <2>2. /\ i \in Nat /\ Len(run.phases) \in Nat /\ DOMAIN run.phases = 1 .. Len(run.phases)
        /\ run.stopOnFailure => Distinct
    BY <2>1, SuiteRules DEF TypeOK
  <2>3. \A j \in DOMAIN run.phases : j \in Nat /\ j <= Len(run.phases) /\ (j < i \/ j >= i)
    BY <2>2
  <2>4. ASSUME pc = "done", code = 0, NEW j \in DOMAIN run.phases
        PROVE  \/ outcomes[NameOf(j)] = "passed"
               \/ stop /\ outcomes[NameOf(j)] = "none"
    <3>1. CASE j < i
      BY <2>1, <2>4, <3>1 DEF OutcomesFollow
    <3>2. CASE j >= i
      <4>1. stop
        <5>1. ~(i > Len(run.phases))
          BY <2>2, <2>3, <3>2
        <5> QED BY <2>1, <2>4, <5>1 DEF OutcomesFollow
      <4>2. CASE outcomes[NameOf(j)] = "none"
        BY <4>1, <4>2
      <4>3. CASE \E k \in DOMAIN run.phases : k < i /\ NameOf(k) = NameOf(j)
        BY <2>1, <2>4, <4>3 DEF OutcomesFollow
      <4> QED BY <2>1, <3>2, <4>2, <4>3 DEF OutcomesFollow
    <3> QED BY <2>3, <3>1, <3>2
  <2>5. ASSUME run.stopOnFailure, NEW j \in DOMAIN run.phases, NEW k \in DOMAIN run.phases,
               j < k, outcomes[NameOf(j)] = "failed"
        PROVE  outcomes[NameOf(k)] = "none"
    <3>1. Distinct
      BY <2>2, <2>5
    <3>2. j < i
      <4> SUFFICES ASSUME j >= i PROVE FALSE
        BY <2>3
      <4>1. PICK l \in DOMAIN run.phases : l < i /\ NameOf(l) = NameOf(j)
        BY <2>1, <2>5 DEF OutcomesFollow
      <4>2. l = j
        BY <3>1, <4>1 DEF Distinct
      <4> QED BY <2>2, <2>3, <4>1, <4>2
    <3>3. j = i - 1
      BY <2>1, <2>5, <3>2 DEF OutcomesFollow
    <3>4. k >= i
      BY <2>2, <2>3, <2>5, <3>3
    <3> SUFFICES ASSUME NEW l \in DOMAIN run.phases, l < i, NameOf(l) = NameOf(k) PROVE FALSE
      BY <2>1, <3>4 DEF OutcomesFollow
    <3>5. l = k
      BY <3>1 DEF Distinct
    <3> QED BY <2>2, <2>3, <3>4, <3>5
  <2>6. pc = "done" /\ code = 0 =>
          \A j \in DOMAIN run.phases :
            \/ outcomes[run.phases[j].profile] = "passed"
            \/ stop /\ outcomes[run.phases[j].profile] = "none"
    BY <2>4 DEF NameOf
  <2>7. run.stopOnFailure =>
          \A j, k \in DOMAIN run.phases :
            j < k /\ outcomes[run.phases[j].profile] = "failed"
              => outcomes[run.phases[k].profile] = "none"
    BY <2>5 DEF NameOf
  <2> QED BY <2>1, <2>6, <2>7 DEF ExitIsTheWorst, CodeIsTheWorst
<1> QED BY <1>1, ExitInvariant, PTL
-----------------------------------------------------------------------------
(* The world a driven phase leaves: one of its own, never the one it        *)
(* started from nor a fresh one, with the phase at its end.                 *)
LEMMA LeavingAWorld ==
    ASSUME NEW s \in Seq(Profile), NEW p \in Profile
    PROVE  /\ Append(s, p) \in Seq(Profile)
           /\ Append(s, p) # <<>> /\ Append(s, p) # NoWorld /\ Append(s, p) # s
           /\ Last(Append(s, p)) = p
<1>1. /\ Append(s, p) \in Seq(Profile) /\ Len(Append(s, p)) = Len(s) + 1
      /\ Append(s, p)[Len(s) + 1] = p /\ Len(s) \in Nat
  BY AppendProperties
<1>2. Append(s, p) # s /\ Append(s, p) # <<>>
  BY <1>1
<1>3. Append(s, p) # NoWorld
  BY <1>1, PipelineAssumption
<1> QED BY <1>1, <1>2, <1>3 DEF Last

(* What is known of the phase at hand.                                      *)
LEMMA PhaseAtHand ==
    ASSUME ExitInv, i <= Len(run.phases)
    PROVE  /\ i \in DOMAIN run.phases /\ i \in Nat /\ DOMAIN run.phases \subseteq Nat
           /\ Current.profile = NameOf(i) /\ Current.profile \in Profile
           /\ Current.world \in {"fresh", "inherit"}
           /\ Distinct => /\ outcomes[Current.profile] = "none"
                          /\ \A k \in DOMAIN run.phases : k # i => NameOf(k) # Current.profile
<1>1. /\ i \in DOMAIN run.phases /\ i \in Nat /\ DOMAIN run.phases \subseteq Nat
      /\ Current.profile = NameOf(i) /\ NameOf(i) \in Profile
      /\ Current.world \in {"fresh", "inherit"}
  BY SuiteRules DEF ExitInv, TypeOK, Current, NameOf
<1>2. ASSUME Distinct
      PROVE  /\ outcomes[NameOf(i)] = "none"
             /\ \A k \in DOMAIN run.phases : k # i => NameOf(k) # NameOf(i)
  <2>1. \A k \in DOMAIN run.phases : NameOf(k) = NameOf(i) => k = i
    BY <1>1, <1>2 DEF Distinct
  <2>2. i >= i /\ ~(i < i)
    BY <1>1
  <2> QED BY <1>1, <2>1, <2>2 DEF ExitInv, OutcomesFollow
<1> QED BY <1>1, <1>2

(* A donor or an heir between phase k and its donor contends for the slot.  *)
LEMMA Contention ==
    ASSUME run \in Invocations, NEW k \in DOMAIN run.phases, NEW d \in DOMAIN run.phases,
           NEW j \in DOMAIN run.phases, NameOf(d) = Donor(k), d < j, j < k,
           Promise!Inherits(j) \/ Promise!IsDonor(j)
    PROVE  Promise!Contended(k)
<1>1. d \in 1 .. (k - 1) /\ j \in 1 .. (k - 1)
  BY SuiteRules
<1> QED BY <1>1 DEF Promise!Contended, NameOf, Donor

(* Of a run that does not change, who waits for the slot is read off i, pc  *)
(* and the outcomes.                                                        *)
LEMMA AwaitsNext ==
    ASSUME run' = run, NEW k
    PROVE  Awaits(k)' <=>
             /\ Promise!Inherits(k) /\ ~Promise!Contended(k)
             /\ i' < k \/ (i' = k /\ pc' \in {"between", "obtain"})
             /\ \E d \in DOMAIN run.phases : d < i' /\ NameOf(d) = Donor(k)
             /\ outcomes'[Donor(k)] = "passed"
<1>1. Promise!Inherits(k)' <=> Promise!Inherits(k)
  BY DEF Promise!Inherits
<1>2. Promise!Contended(k)' <=> Promise!Contended(k)
  BY DEF Promise!Contended, Promise!Inherits, Promise!IsDonor
<1> QED BY <1>1, <1>2 DEF Awaits, NameOf, Donor

(* A step that is about the worlds and the slot alone keeps what is said of *)
(* them, if whoever waits now waited before.                                *)
LEMMA QuietKeepsHandoff ==
    ASSUME HandoffInv, ExitInv', UNCHANGED <<run, i, outcomes, session, world, origin>>,
           PhaseIsOpen', WorldsAtHand',
           pc' \in {"between", "obtain"} => pc \in {"between", "obtain"}
    PROVE  HandoffInv'
<1>2. WorldsWereLeft' /\ SlotHolds'
  BY DEF HandoffInv, WorldsWereLeft, SlotHolds, Distinct, NameOf
<1>3. SlotServes'
  <2> SUFFICES ASSUME NEW k \in DOMAIN run.phases, Awaits(k)'
               PROVE  /\ origin[Donor(k)] # NoWorld
                      /\ session = Append(origin[Donor(k)], Donor(k))
    BY DEF SlotServes, Donor
  <2>1. Awaits(k)
    BY AwaitsNext DEF Awaits
  <2> QED BY <2>1 DEF HandoffInv, SlotServes
<1> QED BY <1>2, <1>3 DEF HandoffInv

(* The phase at hand is settled with outcome o.  The slot is left alone but *)
(* by a phase that passed and stashes: its world goes there.                *)
LEMMA SettleKeepsHandoff ==
    ASSUME HandoffInv, ExitInv', i <= Len(run.phases),
           run' = run, origin' = origin, i' = i + 1, pc' \in {"between", "report"},
           NEW o \in {"passed", "failed", "skipped"},
           outcomes' = [outcomes EXCEPT ![Current.profile] = o],
           \/ o # "passed" /\ session' = session
           \/ /\ o = "passed" /\ pc = "driven"
              /\ session' = IF Stashes THEN world ELSE session
    PROVE  HandoffInv'
<1> DEFINE p == Current.profile
<1>1. /\ ExitInv /\ WorldsAtHand /\ WorldsWereLeft /\ SlotHolds /\ SlotServes
      /\ TypeOK /\ run \in Invocations
  BY DEF HandoffInv, ExitInv, TypeOK
<1>2. /\ i \in DOMAIN run.phases /\ i \in Nat /\ DOMAIN run.phases \subseteq Nat
      /\ DOMAIN run.phases = 1 .. Len(run.phases) /\ Len(run.phases) \in Nat
      /\ p = NameOf(i) /\ p \in Profile
      /\ Distinct => /\ outcomes[p] = "none"
                     /\ \A k \in DOMAIN run.phases : k # i => NameOf(k) # p
  BY <1>1, PhaseAtHand, SuiteRules
<1>3. /\ outcomes'[p] = o
      /\ \A q \in Profile : q # p => outcomes'[q] = outcomes[q]
  BY <1>1, <1>2 DEF TypeOK
<1>4. Distinct' = Distinct
  BY DEF Distinct, NameOf
<1> HIDE DEF p
<1>5. PhaseIsOpen'
  BY DEF PhaseIsOpen, Busy
<1>6. WorldsAtHand'
  <2> SUFFICES ASSUME Distinct, NEW j \in DOMAIN run.phases, j >= i + 1
               PROVE  origin[NameOf(j)] = NoWorld
    BY <1>2, <1>4 DEF WorldsAtHand, NameOf
  <2>1. j > i
    BY <1>2
  <2> QED BY <1>1, <2>1 DEF WorldsAtHand
<1>7. WorldsWereLeft'
  <2> SUFFICES ASSUME Distinct, NEW q \in Profile, origin[q] \notin {NoWorld, <<>>}
               PROVE  Last(origin[q]) \in Profile /\ outcomes'[Last(origin[q])] = "passed"
    BY <1>4 DEF WorldsWereLeft
  <2>1. Last(origin[q]) \in Profile /\ outcomes[Last(origin[q])] = "passed"
    BY <1>1 DEF WorldsWereLeft
  <2> QED BY <1>2, <1>3, <2>1
<1>8. CASE session' = session /\ ~(o = "passed" /\ Stashes)
  <2>1. SlotHolds'
    <3> SUFFICES ASSUME session # NoWorld
                 PROVE  /\ Distinct
                        /\ \E q \in Profile : /\ origin[q] # NoWorld /\ session = Append(origin[q], q)
                                              /\ outcomes'[q] = "passed"
                        /\ \A q \in Profile : origin[q] # session
      BY <1>4, <1>8 DEF SlotHolds
    <3>1. PICK q \in Profile : /\ origin[q] # NoWorld /\ session = Append(origin[q], q)
                               /\ outcomes[q] = "passed"
      BY <1>1 DEF SlotHolds
    <3>2. Distinct /\ \A r \in Profile : origin[r] # session
      BY <1>1 DEF SlotHolds
    <3>3. outcomes'[q] = "passed"
      BY <1>2, <1>3, <3>1, <3>2
    <3> QED BY <3>1, <3>2, <3>3
  <2>2. SlotServes'
    <3> SUFFICES ASSUME NEW k \in DOMAIN run.phases, Awaits(k)'
                 PROVE  /\ origin[Donor(k)] # NoWorld
                        /\ session = Append(origin[Donor(k)], Donor(k))
      BY <1>8 DEF SlotServes, Donor
    <3>1. /\ Promise!Inherits(k) /\ ~Promise!Contended(k)
          /\ i + 1 < k \/ (i + 1 = k /\ pc' \in {"between", "obtain"})
          /\ outcomes'[Donor(k)] = "passed"
      BY AwaitsNext
    <3>2. PICK d \in DOMAIN run.phases : d < i + 1 /\ NameOf(d) = Donor(k)
      BY AwaitsNext
    <3>3. Distinct /\ NameOf(d) \in Profile
      BY <1>1, <3>1, SuiteRules DEF Promise!Inherits
    <3>4. d # i
      <4> SUFFICES ASSUME d = i PROVE FALSE
        OBVIOUS
      <4>1. o = "passed" /\ NameOf(d) = p
        BY <1>2, <1>3, <3>1, <3>2
      <4>2. k \in (i + 1) .. Len(run.phases)
        BY <1>2, <3>1
      <4>3. Stashes
        BY <1>2, <3>1, <3>2, <4>1, <4>2 DEF Stashes, Promise!Inherits, Donor, p
      <4> QED BY <1>8, <4>1, <4>3
    <3>5. d < i /\ i < k
      BY <1>2, <3>1, <3>2, <3>4
    <3>6. outcomes[Donor(k)] = "passed"
      BY <1>2, <1>3, <3>1, <3>2, <3>3, <3>4
    <3>7. Awaits(k)
      BY <3>1, <3>2, <3>5, <3>6 DEF Awaits
    <3> QED BY <1>1, <3>7 DEF SlotServes
  <2> QED BY <1>5, <1>6, <1>7, <2>1, <2>2 DEF HandoffInv
<1>9. CASE o = "passed" /\ Stashes
  <2>1. Distinct /\ Promise!IsDonor(i)
    <3>1. PICK j \in (i + 1) .. Len(run.phases) :
            run.phases[j].world = "inherit" /\ run.phases[j].needs[1] = p
      BY <1>9 DEF Stashes, p
    <3>2. j \in DOMAIN run.phases
      BY <1>2
    <3> QED BY <1>1, <1>2, <3>1, <3>2, SuiteRules
            DEF Promise!IsDonor, Promise!Inherits, NameOf
  <2>2. /\ session' = world /\ world = Append(origin[p], p) /\ origin[p] # NoWorld
        /\ origin[p] \in Seq(Profile)
    BY <1>1, <1>2, <1>9, <2>1 DEF WorldsAtHand, TypeOK, p
  <2>3. SlotHolds'
    <3>1. ASSUME NEW q \in Profile, origin[q] = session' PROVE FALSE
      <4>1. Last(origin[q]) = p /\ origin[q] \notin {NoWorld, <<>>}
        <5>1. origin[q] = Append(origin[p], p)
          BY <2>2, <3>1
        <5>2. origin[p] \in Seq(Profile) /\ p \in Profile
          BY <1>2, <2>2
        <5> QED BY <5>1, <5>2, LeavingAWorld
      <4> QED BY <1>1, <1>2, <2>1, <4>1 DEF WorldsWereLeft
    <3> QED BY <1>2, <1>3, <1>4, <1>9, <2>1, <2>2, <3>1 DEF SlotHolds
  <2>4. SlotServes'
    <3> SUFFICES ASSUME NEW k \in DOMAIN run.phases, Awaits(k)'
                 PROVE  Donor(k) = p
      BY <2>2 DEF SlotServes, Donor
    <3>1. /\ Promise!Inherits(k) /\ ~Promise!Contended(k)
          /\ i + 1 < k \/ (i + 1 = k /\ pc' \in {"between", "obtain"})
      BY AwaitsNext
    <3>2. PICK d \in DOMAIN run.phases : d < i + 1 /\ NameOf(d) = Donor(k)
      BY AwaitsNext
    <3>3. i < k /\ (d < i \/ d = i)
      BY <1>2, <3>1, <3>2
    <3>4. ~(d < i)
      BY <1>1, <1>2, <2>1, <3>1, <3>2, <3>3, Contention
    <3> QED BY <1>2, <3>2, <3>3, <3>4
  <2> QED BY <1>5, <1>6, <1>7, <2>3, <2>4 DEF HandoffInv
<1> QED BY <1>8, <1>9

(* The phase at hand starts from w: a fresh world, or the one in the slot,  *)
(* which is then empty.                                                     *)
LEMMA ObtainKeepsHandoff ==
    ASSUME HandoffInv, ExitInv', pc = "obtain", NEW w, Obtain(w),
           UNCHANGED <<run, i, outcomes, case>>,
           \/ Current.world = "fresh" /\ w = <<>> /\ session' = session
           \/ /\ Current.world = "inherit" /\ session # NoWorld
              /\ w = session /\ session' = NoWorld
    PROVE  HandoffInv'
<1> DEFINE p == Current.profile
<1>1. /\ ExitInv /\ PhaseIsOpen /\ WorldsAtHand /\ WorldsWereLeft /\ SlotHolds /\ SlotServes
      /\ TypeOK /\ run \in Invocations /\ i <= Len(run.phases)
  BY DEF HandoffInv, ExitInv, TypeOK, Busy
<1>2. /\ i \in DOMAIN run.phases /\ i \in Nat /\ DOMAIN run.phases \subseteq Nat
      /\ p = NameOf(i) /\ p \in Profile
      /\ Distinct => /\ outcomes[p] = "none"
                     /\ \A k \in DOMAIN run.phases : k # i => NameOf(k) # p
      /\ \A k \in DOMAIN run.phases : NameOf(k) \in Profile
  BY <1>1, PhaseAtHand, SuiteRules
<1>3. /\ pc' = "start" /\ world' = w /\ run' = run /\ i' = i /\ outcomes' = outcomes
      /\ origin'[p] = w /\ \A q \in Profile : q # p => origin'[q] = origin[q]
  BY <1>1, <1>2 DEF Obtain, TypeOK
<1>4. Distinct' = Distinct /\ p' = p /\ Current' = Current
  BY <1>3 DEF Distinct, NameOf, Current
<1> HIDE DEF p
<1>5. PhaseIsOpen'
  <2>1. (~Gated /\ ~Degenerate)'
    BY <1>1, <1>3 DEF PhaseIsOpen, Busy, Gated, Degenerate, HandsOff, Stashes, Profiled, Cases, Current
  <2> QED BY <1>1, <1>3, <1>4, <2>1 DEF PhaseIsOpen, Busy
<1>6. session # NoWorld =>
        /\ Distinct
        /\ \E q \in Profile \ {p} :
             /\ origin[q] # NoWorld /\ session = Append(origin[q], q) /\ outcomes[q] = "passed"
             /\ session \in Seq(Profile) /\ session # <<>> /\ Last(session) = q
  <2> SUFFICES ASSUME session # NoWorld PROVE Distinct /\ \E q \in Profile \ {p} :
             /\ origin[q] # NoWorld /\ session = Append(origin[q], q) /\ outcomes[q] = "passed"
             /\ session \in Seq(Profile) /\ session # <<>> /\ Last(session) = q
    OBVIOUS
  <2>1. PICK q \in Profile : /\ origin[q] # NoWorld /\ session = Append(origin[q], q)
                             /\ outcomes[q] = "passed"
    BY <1>1 DEF SlotHolds
  <2>2. Distinct /\ q # p
    BY <1>1, <1>2, <2>1 DEF SlotHolds
  <2>3. origin[q] \in Seq(Profile)
    BY <1>1, <2>1 DEF TypeOK
  <2> QED BY <2>1, <2>2, <2>3, LeavingAWorld
<1>7. w # NoWorld
  <2>1. <<>> \in Seq(Profile)
    OBVIOUS
  <2> QED BY <2>1, PipelineAssumption
<1>8. WorldsAtHand'
  <2>1. ASSUME Distinct, NEW j \in DOMAIN run.phases, j > i
        PROVE  origin'[NameOf(j)] = NoWorld
    <3>1. j # i
      BY <1>2, <2>1
    <3> QED BY <1>1, <1>2, <1>3, <2>1, <3>1 DEF WorldsAtHand
  <2>2. \A j \in DOMAIN run'.phases :
          Distinct' /\ (j > i' \/ (j = i' /\ pc' = "between")) => origin'[NameOf(j)'] = NoWorld
    BY <1>3, <1>4, <2>1 DEF NameOf
  <2>3. Current'.world = "fresh" => w = <<>>
    BY <1>4
  <2> QED BY <1>3, <1>4, <1>7, <2>2, <2>3 DEF WorldsAtHand, p
<1>9. WorldsWereLeft'
  <2> SUFFICES ASSUME Distinct, NEW q \in Profile, origin'[q] \notin {NoWorld, <<>>}
               PROVE  Last(origin'[q]) \in Profile /\ outcomes[Last(origin'[q])] = "passed"
    BY <1>3, <1>4 DEF WorldsWereLeft
  <2>1. CASE q = p
    BY <1>3, <1>6, <2>1
  <2>2. CASE q # p
    BY <1>1, <1>3, <2>2 DEF WorldsWereLeft
  <2> QED BY <2>1, <2>2
<1>10. SlotHolds'
  <2> SUFFICES ASSUME session # NoWorld, session' = session, w = <<>>
               PROVE  /\ Distinct
                      /\ \E q \in Profile : /\ origin'[q] # NoWorld /\ session = Append(origin'[q], q)
                                            /\ outcomes[q] = "passed"
                      /\ \A q \in Profile : origin'[q] # session
    BY <1>3, <1>4 DEF SlotHolds
  <2>1. \A q \in Profile : origin[q] # session
    BY <1>1 DEF SlotHolds
  <2> QED BY <1>3, <1>6, <2>1
<1>11. SlotServes'
  <2> SUFFICES ASSUME NEW k \in DOMAIN run.phases, Awaits(k)'
               PROVE  /\ origin'[Donor(k)] # NoWorld
                      /\ session' = Append(origin'[Donor(k)], Donor(k))
    BY <1>3 DEF SlotServes, Donor
  <2>1. /\ Promise!Inherits(k) /\ ~Promise!Contended(k)
        /\ i < k /\ outcomes[Donor(k)] = "passed"
    BY <1>3, AwaitsNext
  <2>2. PICK d \in DOMAIN run.phases : d < i /\ NameOf(d) = Donor(k)
    BY <1>3, AwaitsNext
  <2>3. Distinct
    BY <1>1, <2>1, SuiteRules DEF Promise!Inherits
  <2>4. Current.world # "inherit"
    <3> SUFFICES ASSUME Current.world = "inherit" PROVE FALSE
      OBVIOUS
    <3>1. Promise!Inherits(i)
      BY DEF Promise!Inherits, Current
    <3> QED BY <1>1, <1>2, <2>1, <2>2, <3>1, Contention
  <2>5. Awaits(k)
    BY <2>1, <2>2 DEF Awaits
  <2>6. Donor(k) \in Profile /\ Donor(k) # p
    BY <1>2, <2>2, <2>3
  <2>7. session' = session
    BY <2>4
  <2> QED BY <1>1, <1>3, <2>5, <2>6, <2>7 DEF SlotServes
<1> QED BY <1>5, <1>8, <1>9, <1>10, <1>11 DEF HandoffInv

(* The phase at hand ends in an error or a failure: whatever the code, the  *)
(* slot is left alone.                                                      *)
LEMMA FailingKeepsHandoff ==
    ASSUME HandoffInv, ExitInv', i <= Len(run.phases),
           NEW c \in Codes \ {0}, Settle(c), session' = session
    PROVE  HandoffInv'
<1>1. /\ run' = run /\ origin' = origin /\ i' = i + 1 /\ pc' \in {"between", "report"}
      /\ outcomes' = [outcomes EXCEPT ![Current.profile] = "failed"]
  BY DEF Settle
<1> QED BY <1>1, SettleKeepsHandoff

(* The worlds and the slot, through a whole invocation.                     *)
LEMMA HandoffInvariant == Spec => []HandoffInv
<1>1. Init /\ ExitInv => HandoffInv
  <2> SUFFICES ASSUME Init, ExitInv PROVE HandoffInv
    OBVIOUS
  <2>1. \A k \in DOMAIN run.phases : NameOf(k) \in Profile
    BY SuiteRules DEF ExitInv, TypeOK
  <2>2. \A d \in DOMAIN run.phases : ~(d < 1)
    BY SuiteRules DEF ExitInv, TypeOK
  <2>3. PhaseIsOpen /\ WorldsAtHand /\ WorldsWereLeft /\ SlotHolds
    BY <2>1 DEF Init, PhaseIsOpen, WorldsAtHand, WorldsWereLeft, SlotHolds, Busy
  <2>4. SlotServes
    BY <2>2 DEF Init, SlotServes, Awaits
  <2> QED BY <2>3, <2>4 DEF HandoffInv
<1>2. HandoffInv /\ ExitInv' /\ [Next]_vars => HandoffInv'
  <2> SUFFICES ASSUME HandoffInv, ExitInv', [Next]_vars PROVE HandoffInv'
    OBVIOUS
  <2>1. /\ TypeOK /\ ExitInv /\ PhaseIsOpen /\ WorldsAtHand
        /\ i \in Nat /\ (Busy => i <= Len(run.phases)) /\ (AtPhase => i <= Len(run.phases))
    BY SuiteRules DEF HandoffInv, ExitInv, TypeOK, AtPhase
  <2>2. 2 \in Codes \ {0} /\ 3 \in Codes \ {0}
    BY DEF Codes
  <2>3. ASSUME UNCHANGED <<run, i, outcomes>>
        PROVE  /\ Gated' = Gated /\ Degenerate' = Degenerate /\ Current' = Current
               /\ Distinct' = Distinct
    BY <2>3 DEF Gated, Degenerate, HandsOff, Stashes, Profiled, Cases, Current, Distinct, NameOf
  <2>4. CASE Interrupt
    <3>1. PhaseIsOpen' /\ WorldsAtHand'
      BY <2>1, <2>3, <2>4 DEF Interrupt, PhaseIsOpen, WorldsAtHand, Busy, NameOf
    <3> QED BY <2>4, <3>1, QuietKeepsHandoff DEF Interrupt
  <2>20. CASE Kill
    <3>1. PhaseIsOpen' /\ WorldsAtHand'
      BY <2>1, <2>3, <2>20 DEF Kill, PhaseIsOpen, WorldsAtHand, Busy, NameOf
    <3> QED BY <2>20, <3>1, QuietKeepsHandoff DEF Kill
  <2>5. CASE Leave
    <3>1. PhaseIsOpen' /\ WorldsAtHand'
      BY <2>1, <2>3, <2>5 DEF Leave, PhaseIsOpen, WorldsAtHand, Busy, NameOf
    <3> QED BY <2>5, <3>1, QuietKeepsHandoff DEF Leave
  <2>6. CASE Skip
    <3>1. /\ run' = run /\ origin' = origin /\ i' = i + 1 /\ pc' \in {"between", "report"}
          /\ outcomes' = [outcomes EXCEPT ![Current.profile] = "skipped"]
          /\ session' = session
      BY <2>6 DEF Skip, AtPhase
    <3> QED BY <2>1, <2>6, <3>1, SettleKeepsHandoff DEF Skip
  <2>7. CASE Refuse
    BY <2>1, <2>2, <2>7, FailingKeepsHandoff DEF Refuse
  <2>8. CASE Enter
    <3>1. PhaseIsOpen'
      BY <2>3, <2>8 DEF Enter, PhaseIsOpen
    <3>2. Distinct => origin[Current.profile] = NoWorld
      BY <2>1, <2>8, PhaseAtHand DEF Enter, AtPhase, WorldsAtHand
    <3>3. WorldsAtHand'
      BY <2>1, <2>3, <2>8, <3>2 DEF Enter, AtPhase, WorldsAtHand, NameOf
    <3> QED BY <2>8, <3>1, <3>3, QuietKeepsHandoff DEF Enter, AtPhase
  <2>9. CASE ObtainFresh
    BY <2>9, ObtainKeepsHandoff DEF ObtainFresh
  <2>10. CASE SetupFails
    BY <2>1, <2>2, <2>10, FailingKeepsHandoff DEF SetupFails, Busy
  <2>11. CASE ObtainInherited
    BY <2>11, ObtainKeepsHandoff DEF ObtainInherited
  <2>12. CASE NoDonorWorld
    BY <2>1, <2>2, <2>12, FailingKeepsHandoff DEF NoDonorWorld, Busy
  <2>13. CASE Spoil
    BY <2>1, <2>2, <2>13, FailingKeepsHandoff DEF Spoil, Busy
  <2>14. CASE Drive
    <3>1. /\ pc = "start" /\ run' = run /\ i' = i /\ outcomes' = outcomes
          /\ session' = session /\ origin' = origin
          /\ \/ /\ pc' = "obtain" /\ case' = case + 1
                /\ Profiled.mode = "fuzz" /\ case < Cases
             \/ /\ pc' = "driven" /\ case' = case
                /\ world' = Append(world, Current.profile)
      BY <2>14 DEF Drive
    <3>2. /\ i \in DOMAIN run.phases /\ Current.profile \in Profile
          /\ Current.world \in {"fresh", "inherit"}
      BY <2>1, <3>1, PhaseAtHand DEF Busy
    <3>3. ~Gated /\ ~Degenerate /\ case >= 1 /\ case \in Nat
          /\ (case > 1 => Current.world = "fresh")
      BY <2>1, <3>1 DEF PhaseIsOpen, Busy, TypeOK
    <3>4. ASSUME pc' = "obtain"
          PROVE  Current.world = "fresh"
      <4>1. Cases \in Nat
        <5>1. run \in Invocation
          BY <2>1, SuiteRules DEF TypeOK
        <5>2. run.cases \in Nat \cup {Unset}
          BY <5>1 DEF Invocation
        <5>3. Profiled.cases \in Nat
          BY <3>2, PipelineAssumption DEF Profiled
        <5> QED BY <5>2, <5>3 DEF Cases
      <4>2. Profiled.mode = "fuzz" /\ Cases # 1
        BY <3>1, <3>3, <3>4, <4>1
      <4>3. ~HandsOff
        BY <3>3, <4>2 DEF Degenerate
      <4> QED BY <3>2, <4>3 DEF HandsOff
    <3>5. case' \in Nat /\ case' >= 1 /\ (case' = case \/ case' # 1)
      BY <3>1, <3>3
    <3>6. PhaseIsOpen'
      BY <2>3, <3>1, <3>3, <3>4, <3>5 DEF PhaseIsOpen, Busy
    <3>7. Distinct => origin[Current.profile] = world /\ origin[Current.profile] # NoWorld
          /\ (Current.world = "fresh" => origin[Current.profile] = <<>>)
      BY <2>1, <3>1 DEF WorldsAtHand
    <3>8. ASSUME Distinct, NEW j \in DOMAIN run.phases, j > i
          PROVE  origin[NameOf(j)] = NoWorld
      BY <2>1, <3>8 DEF WorldsAtHand
    <3>9. pc' = "obtain" => case' # 1
      BY <3>1, <3>3
    <3>10. WorldsAtHand'
      BY <2>3, <3>1, <3>4, <3>7, <3>8, <3>9 DEF WorldsAtHand, NameOf
    <3>11. WorldsWereLeft' /\ SlotHolds'
      BY <2>3, <3>1 DEF HandoffInv, WorldsWereLeft, SlotHolds
    <3>12. SlotServes'
      <4> SUFFICES ASSUME NEW k \in DOMAIN run.phases, Awaits(k)'
                   PROVE  /\ origin[Donor(k)] # NoWorld
                          /\ session = Append(origin[Donor(k)], Donor(k))
        BY <3>1 DEF SlotServes, Donor
      <4>1. /\ Promise!Inherits(k) /\ ~Promise!Contended(k)
            /\ i < k \/ (i = k /\ pc' = "obtain")
            /\ outcomes[Donor(k)] = "passed"
        BY <3>1, AwaitsNext
      <4>2. \E d \in DOMAIN run.phases : d < i /\ NameOf(d) = Donor(k)
        BY <3>1, AwaitsNext
      <4>3. i < k
        BY <3>4, <4>1 DEF Promise!Inherits, Current
      <4>4. Awaits(k)
        BY <4>1, <4>2, <4>3 DEF Awaits
      <4> QED BY <4>4 DEF HandoffInv, SlotServes
    <3> QED BY <3>6, <3>10, <3>11, <3>12 DEF HandoffInv
  <2>15. CASE ShrinkPanics
    <3>1. PhaseIsOpen' /\ WorldsAtHand'
      BY <2>1, <2>3, <2>15 DEF ShrinkPanics, PhaseIsOpen, WorldsAtHand, Busy, NameOf
    <3> QED BY <2>15, <3>1, QuietKeepsHandoff DEF ShrinkPanics
  <2>16. CASE Report
    <3> DEFINE c == ExitCodeFor(verdict)
    <3>1. c \in Codes /\ (c = 0 <=> verdict = "passed")
      BY <2>1, <2>16 DEF Report, TypeOK, ExitCodeFor, Codes
    <3>2. /\ run' = run /\ origin' = origin /\ i' = i + 1 /\ pc' \in {"between", "report"}
          /\ outcomes' = [outcomes EXCEPT ![Current.profile] = IF c = 0 THEN "passed" ELSE "failed"]
          /\ session' = IF verdict = "passed" /\ Stashes THEN world ELSE session
          /\ pc = "driven"
      BY <2>16 DEF Report, Settle
    <3> HIDE DEF c
    <3>3. CASE c = 0
      BY <2>1, <3>1, <3>2, <3>3, SettleKeepsHandoff DEF Busy
    <3>4. CASE c # 0
      BY <2>1, <3>1, <3>2, <3>4, SettleKeepsHandoff DEF Busy
    <3> QED BY <3>3, <3>4
  <2>17. CASE ReportFails
    BY <2>1, <2>2, <2>17, FailingKeepsHandoff DEF ReportFails, Busy
  <2>18. CASE WriteReport
    <3>1. PhaseIsOpen' /\ WorldsAtHand'
      BY <2>1, <2>3, <2>18 DEF WriteReport, PhaseIsOpen, WorldsAtHand, Busy, NameOf
    <3> QED BY <2>18, <3>1, QuietKeepsHandoff DEF WriteReport
  <2>19. CASE UNCHANGED vars
    <3>1. PhaseIsOpen' /\ WorldsAtHand'
      BY <2>1, <2>3, <2>19 DEF vars, PhaseIsOpen, WorldsAtHand, Busy, NameOf
    <3> QED BY <2>19, <3>1, QuietKeepsHandoff DEF vars
  <2> QED BY <2>4, <2>5, <2>6, <2>7, <2>8, <2>9, <2>10, <2>11, <2>12, <2>13, <2>14, <2>15,
             <2>16, <2>17, <2>18, <2>19, <2>20 DEF Next, Step, Done
<1> QED BY <1>1, <1>2, ExitInvariant, PTL DEF Spec

(* An heir that is about to start finds its donor's world.                  *)
LEMMA HeirIsServed ==
    ASSUME HandoffInv, pc = "obtain", Current.world = "inherit", ~Promise!Contended(i)
    PROVE  /\ Donor(i) \in Profile /\ origin[Donor(i)] \in Seq(Profile)
           /\ session = Append(origin[Donor(i)], Donor(i))
<1>1. ExitInv /\ TypeOK /\ PhaseIsOpen /\ SlotServes
  BY DEF HandoffInv, ExitInv
<1>2. i \in DOMAIN run.phases /\ ~Gated
  BY <1>1, PhaseAtHand DEF PhaseIsOpen, Busy, TypeOK
<1>3. Donor(i) \in ToSet(Current.needs)
  BY <1>1, <1>2, SuiteRules DEF TypeOK, Current
<1>4. PICK d \in DOMAIN run.phases : d < i /\ NameOf(d) = Donor(i)
  BY <1>1, <1>2, <1>3, SuiteRules DEF TypeOK, Current
<1>5. outcomes[Donor(i)] = "passed" /\ Donor(i) \in Profile
  BY <1>1, <1>2, <1>3, <1>4, SuiteRules DEF Gated, TypeOK
<1>6. Awaits(i)
  BY <1>4, <1>5 DEF Awaits, Promise!Inherits, Current
<1>7. /\ origin[Donor(i)] # NoWorld
      /\ session = Append(origin[Donor(i)], Donor(i))
  BY <1>1, <1>2, <1>6 DEF SlotServes
<1> QED BY <1>1, <1>5, <1>7 DEF TypeOK

(* The slot hands every world on, and once: an heir whose donor passed and  *)
(* whose slot is not contended finds a world, and a world lies there only   *)
(* while the phase that left it has passed and nobody started from it.      *)
THEOREM SlotIsKept == Spec => []SlotHandsOn
<1>1. HandoffInv => SlotHandsOn
  <2> SUFFICES ASSUME HandoffInv PROVE SlotHandsOn
    OBVIOUS
  <2>1. ExitInv /\ TypeOK /\ SlotHolds
    BY DEF HandoffInv, ExitInv
  <2>2. ASSUME pc = "obtain", Current.world = "inherit", ~Promise!Contended(i)
        PROVE  session # NoWorld
    BY <2>2, HeirIsServed, LeavingAWorld
  <2>3. ASSUME session # NoWorld
        PROVE  /\ session # <<>> /\ outcomes[Last(session)] = "passed"
               /\ \A p \in Profile : origin[p] # session
    <3>1. PICK p \in Profile : /\ origin[p] # NoWorld /\ session = Append(origin[p], p)
                               /\ outcomes[p] = "passed"
      BY <2>1, <2>3 DEF SlotHolds
    <3>2. origin[p] \in Seq(Profile)
      BY <2>1, <3>1 DEF TypeOK
    <3>3. session # <<>> /\ Last(session) = p
      BY <3>1, <3>2, LeavingAWorld
    <3> QED BY <2>1, <2>3, <3>1, <3>3 DEF SlotHolds
  <2> QED BY <2>2, <2>3 DEF SlotHandsOn
<1> QED BY <1>1, HandoffInvariant, PTL
-----------------------------------------------------------------------------
(* A phase that is settled has met its needs: to the suite it refuses when  *)
(* it never had a world, and finishes when it had.                          *)
LEMMA SettlingIsPromised ==
    ASSUME HandoffInv, Distinct, i <= Len(run.phases), ~Gated,
           NEW c \in Codes, Settle(c), c = 0 => pc = "driven"
    PROVE  [Promise!Next]_Promise!vars
<1> DEFINE p == run.phases[i].profile
           o == IF c = 0 THEN "passed" ELSE "failed"
<1>1. ExitInv /\ WorldsAtHand
  BY DEF HandoffInv
<1>2. i \in DOMAIN run.phases /\ outcomes[p] = "none"
  BY <1>1, PhaseAtHand DEF Current
<1>3. run' = run /\ origin' = origin /\ outcomes' = [outcomes EXCEPT ![p] = o]
  BY DEF Settle, Current
<1>4. Promise!Settles(i, o)
  BY <1>2, <1>3 DEF Promise!Settles
<1>5. CASE origin[p] # NoWorld
  BY <1>2, <1>3, <1>4, <1>5 DEF Promise!Next, Promise!Finish
<1>6. CASE origin[p] = NoWorld
  <2>1. o = "failed"
    BY <1>1, <1>6 DEF WorldsAtHand, Current
  <2>2. Promise!Met(i)
    BY DEF Promise!Met, Gated, Current, Promise!ToSet, ToSet
  <2> QED BY <1>2, <1>3, <1>4, <1>6, <2>1, <2>2 DEF Promise!Next, Promise!Refuse
<1> QED BY <1>5, <1>6

(* A phase that obtains a world starts, to the suite, from one it may start *)
(* from; the second and later cases of a fuzz run start nothing anew.       *)
LEMMA ObtainingIsPromised ==
    ASSUME HandoffInv, Distinct, ObtainFresh \/ ObtainInherited
    PROVE  [Promise!Next]_Promise!vars
<1> DEFINE p == run.phases[i].profile
<1>1. /\ TypeOK /\ ExitInv /\ PhaseIsOpen /\ WorldsAtHand /\ SlotHolds
      /\ pc = "obtain" /\ i <= Len(run.phases)
  BY DEF HandoffInv, ExitInv, ObtainFresh, ObtainInherited, TypeOK, Busy
<1>2. /\ i \in DOMAIN run.phases /\ p \in Profile /\ outcomes[p] = "none"
      /\ ~Gated /\ case \in Nat /\ case >= 1 /\ (case > 1 => Current.world = "fresh")
  BY <1>1, PhaseAtHand DEF Current, PhaseIsOpen, Busy, TypeOK
<1>3. run' = run /\ outcomes' = outcomes
  BY DEF ObtainFresh, ObtainInherited
<1>4. PICK w : /\ origin' = [origin EXCEPT ![p] = w]
               /\ \/ Current.world = "fresh" /\ w = <<>>
                  \/ Current.world = "inherit" /\ session # NoWorld /\ w = session
  BY DEF ObtainFresh, ObtainInherited, Obtain, Current
<1>5. CASE case = 1
  <2>1. origin[p] = NoWorld
    BY <1>1, <1>5 DEF WorldsAtHand, Current
  <2>2. Promise!Met(i)
    BY <1>2 DEF Promise!Met, Gated, Current, Promise!ToSet, ToSet
  <2>3. w \in Promise!StartWorlds(i)
    <3>1. CASE Current.world = "fresh"
      BY <1>4, <3>1 DEF Promise!StartWorlds, Promise!Inherits, Current
    <3>2. CASE Current.world = "inherit" /\ Promise!Contended(i)
      <4>1. w \in Promise!Left
        BY <1>1, <1>4, <3>2 DEF SlotHolds, Promise!Left
      <4> QED BY <3>2, <4>1 DEF Promise!StartWorlds, Promise!Inherits, Current
    <3>3. CASE Current.world = "inherit" /\ ~Promise!Contended(i)
      <4>1. w = Promise!Inherited(i)
        BY <1>1, <1>4, <3>3, HeirIsServed DEF Promise!Inherited, Donor
      <4> QED BY <3>3, <4>1 DEF Promise!StartWorlds, Promise!Inherits, Current
    <3> QED BY <1>4, <3>1, <3>2, <3>3
  <2>4. Promise!Start(i)
    BY <1>2, <1>3, <1>4, <2>1, <2>2, <2>3 DEF Promise!Start
  <2> QED BY <1>2, <1>3, <2>4 DEF Promise!Next
<1>6. CASE case # 1
  <2>1. Current.world = "fresh" /\ w = <<>>
    BY <1>2, <1>4, <1>6
  <2>2. origin[p] = <<>>
    BY <1>1, <1>6 DEF WorldsAtHand, Current
  <2>3. origin' = origin
    BY <1>1, <1>2, <1>4, <2>1, <2>2 DEF TypeOK
  <2> QED BY <1>3, <2>3 DEF Promise!vars
<1> QED BY <1>5, <1>6

(* An invocation that names no profile twice, as no suite does, keeps the   *)
(* suite's promise (Handoff) step by step: a phase runs once all it needs   *)
(* has passed, and an heir whose slot is not contended starts where its     *)
(* donor ended.  Of `--profile A --profile A` nothing is promised: its      *)
(* second run writes over the outcome and the world of the first.           *)
THEOREM Refinement == Spec /\ Distinct => Implements
<1>1. Init => Promise!Init
  BY DEF Init, Promise!Init
<1>2. ASSUME HandoffInv, ExitInv', Distinct, [Next]_vars
      PROVE  [Promise!Next]_Promise!vars
  <2>1. ExitInv /\ PhaseIsOpen /\ i \in Nat /\ (Busy => i <= Len(run.phases) /\ ~Gated)
    BY <1>2 DEF HandoffInv, ExitInv, TypeOK, PhaseIsOpen
  <2>2. 2 \in Codes /\ 3 \in Codes
    BY DEF Codes
  <2>3. CASE Skip
    <3> DEFINE p == run.phases[i].profile
    <3>1. i \in DOMAIN run.phases /\ outcomes[p] = "none"
      BY <1>2, <2>1, <2>3, PhaseAtHand DEF Skip, AtPhase, Current
    <3>2. /\ run' = run /\ origin' = origin
          /\ outcomes' = [outcomes EXCEPT ![p] = "skipped"]
      BY <2>3 DEF Skip, Current
    <3>3. ~Promise!Met(i)
      BY <2>3 DEF Skip, Gated, Current, Promise!Met, Promise!ToSet, ToSet
    <3> QED BY <3>1, <3>2, <3>3 DEF Promise!Next, Promise!Skip, Promise!Settles
  <2>4. CASE Refuse
    BY <1>2, <2>2, <2>4, SettlingIsPromised DEF Refuse, AtPhase
  <2>5. CASE SetupFails \/ NoDonorWorld \/ Spoil \/ ReportFails
    <3>1. Busy /\ \E c \in Codes \ {0} : Settle(c)
      BY <2>2, <2>5 DEF SetupFails, NoDonorWorld, Spoil, ReportFails, Busy
    <3> QED BY <1>2, <2>1, <3>1, SettlingIsPromised
  <2>6. CASE Report
    <3>1. Busy /\ pc = "driven" /\ ExitCodeFor(verdict) \in Codes /\ Settle(ExitCodeFor(verdict))
      BY <2>1, <2>6 DEF Report, ExitInv, TypeOK, ExitCodeFor, Codes, Busy
    <3> QED BY <1>2, <2>1, <3>1, SettlingIsPromised
  <2>7. CASE ObtainFresh \/ ObtainInherited
    BY <1>2, <2>7, ObtainingIsPromised
  <2>8. CASE UNCHANGED <<run, outcomes, origin>>
    BY <2>8 DEF Promise!vars
  <2> QED BY <1>2, <2>3, <2>4, <2>5, <2>6, <2>7, <2>8
          DEF Next, Step, Done, vars, Interrupt, Kill, Leave, Enter, Drive, ShrinkPanics, WriteReport
<1>3. Distinct /\ [Next]_vars => Distinct'
  <2>1. [Next]_vars => run' = run
    BY DEF Next, Step, Done, vars, Interrupt, Kill, Leave, Skip, Refuse, Enter, ObtainFresh,
           SetupFails, ObtainInherited, NoDonorWorld, Spoil, Drive, ShrinkPanics, Report,
           ReportFails, WriteReport, Settle
  <2> QED BY <2>1 DEF Distinct, NameOf
<1> QED BY <1>1, <1>2, <1>3, ExitInvariant, HandoffInvariant, PTL
        DEF Spec, Implements, Promise!Spec
=============================================================================
