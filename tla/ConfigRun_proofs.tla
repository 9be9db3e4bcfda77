-------------------------- MODULE ConfigRun_proofs --------------------------
(***************************************************************************)
(* ConfigRun, for any files, command lines and environments.               *)
(***************************************************************************)
EXTENDS ConfigRun, NaturalsInduction, WellFoundedInduction, TLAPS

(* How far the document has come at a stage.                                *)
AtFile ==
    {"source", "asked", "attribute", "parsed", "described", "tests", "refused at source",
     "refused at interpolated", "refused at described", "refused at expanded"}
AtTexts == {"interpolated", "refused at merged"}
AtMerge == {"merged", "refused at typed"}
AtTypes == {"typed", "refused at loaded"}
Driving == {"driven", "done"}
Building == {"built", "refused at patched", "refused at driven"} \cup Driving
Resolving == {"resolved", "refused at built"} \cup Building
Admitted == {"admitted", "refused at resolved", "inherits"} \cup Resolving
Chosen == {"selected", "refused at admitted"} \cup Admitted
AtLoad ==
    {"loaded", "listed", "valid", "refused at validated", "refused at selected",
     "refused at counted"} \cup Chosen

(* What every document keeps, an artifact too.                              *)
Formed(d) ==
    /\ DOMAIN d = DocFields
    /\ d.chain \in Seq(ToSet(d.chain))
    /\ \A i \in DOMAIN d.chain : DOMAIN d.chain[i] = ChainFields /\ d.chain[i].label # None

(* The file with its texts replaced, and with [defaults] and [env] merged.  *)
Texts == InterpolatedDoc(given, environ.vars)
Whole == Merged(Texts)

DocumentAccepted(d) ==
    Deserializable(d) /\ SuitesValid(d) /\ ProfilesValid(d) /\ ChainsValid(d)

Interpolable == \A t \in TextsOfDoc(given) : Resolvable(t, environ.vars)

(* The document is a function of the file and of the environment.           *)
DocInv ==
    /\ pc \in AtFile \cup AtTexts \cup AtMerge \cup AtTypes \cup AtLoad
    /\ pc \in AtFile => doc = given
    /\ pc \in AtTexts => doc = Texts
    /\ pc \in AtMerge \cup AtTypes => doc = Whole
    /\ pc \notin AtFile \cup AtTexts => Mergeable(Texts)
    /\ pc \in AtTypes \cup AtLoad => Deserializable(Whole)
    /\ pc \in AtLoad => doc = NormalizedSuites(Whole) /\ DocumentAccepted(Whole)
    /\ pc = "refused at interpolated" => ~Interpolable
    /\ pc = "refused at merged" => ~Mergeable(Texts)
    /\ pc = "refused at typed" => ~Deserializable(Whole)
    /\ pc = "refused at loaded" => ~DocumentAccepted(Whole)

(* What the stages of one run have found out.                               *)
Admissible == Admits(Harnessed, doc.profile[profile], Cases, phase.params \/ phase.handsOff)
Decodes == doc.profile[profile].mode = "scenario" => StepsDecode(Harnessed, doc.profile[profile])
ResolvesHere == Resolves(EffectiveEnv(doc, profile), doc.chain, Overrides)

(* A run's phase is one it selects; a test's is the profile it names.       *)
Selects ==
    /\ args.command = "run" => doc.harness \in DOMAIN Registered /\ phase \in SelectPhases
    /\ args.command # "run" => args.command = "test" /\ Testable /\ SameCases /\ phase = Alone(Tested)

SelectsNone == doc.harness \notin DOMAIN Registered \/ SelectPhases = {}

StageInv ==
    /\ pc \in Chosen => profile \in DOMAIN doc.profile /\ Selects
    /\ pc = "refused at selected" => SelectsNone \/ args.command = "test"
    /\ pc = "refused at counted" => Testable /\ ~SameCases
    /\ pc = "refused at admitted" => ~Admissible
    /\ pc \in Admitted => Admissible
    /\ pc = "refused at resolved" => ~ResolvesHere
    /\ pc \in Resolving =>
         /\ ResolvesHere
         /\ request.seed \in RunSeeds
         /\ request = SetupRequest(EffectiveEnv(doc, profile), doc.chain, Overrides, request.seed)
    /\ pc = "refused at built" => \E i \in DOMAIN request.specs : ~Buildable(request.specs[i])
    /\ pc = "refused at patched" => ~Patches(Harnessed, phase.params)
    /\ pc \in Building =>
         /\ \A i \in DOMAIN request.specs : Buildable(request.specs[i])
         /\ chains = [i \in DOMAIN request.specs |-> BuildChain(request.specs[i])]
    /\ pc = "refused at driven" => ~Decodes
    /\ pc \in Driving =>
         /\ Decodes
         /\ drive = [seed |-> request.seed,
                     resolved |-> ResolvedProfile(doc.profile[profile], RunOptions),
                     args |-> DriverArgs(Harnessed, doc.profile[profile], RunOptions)]

-----------------------------------------------------------------------------
(* Induction over the numbers up to a bound, for a set.                     *)
LEMMA UpTo ==
    ASSUME NEW m \in Nat, NEW S, 0 \in S, \A n \in 1 .. m : n - 1 \in S => n \in S
    PROVE  0 .. m \subseteq S
<1> DEFINE T == {n \in 0 .. m : n \notin S}
<1>1. SUFFICES ASSUME T # {} PROVE FALSE
  OBVIOUS
<1>2. T \subseteq Nat
  OBVIOUS
<1>3. PICK n \in T : \A k \in T : ~ (<<k, n>> \in OpToRel(<, Nat))
  BY <1>1, <1>2, NatLessThanWellFounded, WFMin, Zenon
<1>4. \A k \in T : ~ (k < n)
  BY <1>2, <1>3 DEF OpToRel
<1>5. n \in 1 .. m /\ n - 1 \in 0 .. m /\ n - 1 < n
  OBVIOUS
<1> QED
  BY <1>4, <1>5

(* The declarations an env selects, as far as the first few of them go.     *)
TakenOf(env, decls, f, n) ==
    IF n = 0 THEN <<>>
    ELSE IF IsSelected(env, decls[n]) THEN Append(f[n - 1], decls[n])
    ELSE f[n - 1]

TakenStep(env, decls, f) == [n \in 0 .. Len(decls) |-> TakenOf(env, decls, f, n)]

Taken(env, decls) == CHOOSE f : f = TakenStep(env, decls, f)

(* Selected is the last value of the recursive function it defines.         *)
LEMMA SelectedIsTaken ==
    ASSUME NEW env, NEW decls
    PROVE  Selected(env, decls) = Taken(env, decls)[Len(decls)]
  BY DEF Selected, Taken, TakenStep, TakenOf

(* That function exists, and satisfies its own equation.                     *)
LEMMA TakenExists ==
    ASSUME NEW env, NEW decls, Len(decls) \in Nat
    PROVE  \A n \in 0 .. Len(decls) : Taken(env, decls)[n] = TakenOf(env, decls, Taken(env, decls), n)
<1> DEFINE m == Len(decls)
           Good(f, n) == \A k \in 0 .. n : f[k] = TakenOf(env, decls, f, k)
           S == {n \in 0 .. m : \E f : Good(f, n)}
<1>1. 0 \in S
  <2> DEFINE f == [k \in 0 .. 0 |-> <<>>]
  <2>1. Good(f, 0)
    BY DEF TakenOf
  <2> HIDE DEF f, Good
  <2>2. \E h : Good(h, 0)
    BY <2>1
  <2>3. QED
    BY <2>2
<1>2. ASSUME NEW n \in 1 .. m, n - 1 \in S PROVE n \in S
  <2>1. PICK f : Good(f, n - 1)
    BY <1>2
  <2> DEFINE g == TakenStep(env, decls, f)
  <2>2. ASSUME NEW k \in 0 .. n PROVE g[k] = TakenOf(env, decls, f, k)
    BY DEF TakenStep
  <2> HIDE DEF g
  <2>3. ASSUME NEW k \in 0 .. n - 1 PROVE g[k] = f[k]
    BY <2>1, <2>2
  <2>4. ASSUME NEW k \in 0 .. n PROVE g[k] = TakenOf(env, decls, g, k)
    <3>1. k # 0 => g[k - 1] = f[k - 1]
      BY <2>3
    <3>2. QED
      BY <2>2, <3>1 DEF TakenOf
  <2>5. Good(g, n)
    BY <2>4
  <2> HIDE DEF Good
  <2>6. \E h : Good(h, n)
    BY <2>5
  <2>7. QED
    BY <2>6
<1>3. m \in S
  <2> HIDE DEF S
  <2>1. 0 .. m \subseteq S
    BY <1>1, <1>2, UpTo
  <2>2. QED
    BY <2>1
<1>4. PICK f : Good(f, m)
  BY <1>3
<1> DEFINE g == [n \in 0 .. m |-> f[n]]
<1>5. ASSUME NEW n \in 0 .. m PROVE g[n] = TakenOf(env, decls, g, n)
  <2>1. f[n] = TakenOf(env, decls, f, n)
    BY <1>4
  <2>2. n # 0 => g[n - 1] = f[n - 1]
    OBVIOUS
  <2>3. QED
    BY <2>1, <2>2 DEF TakenOf
<1>6. g = TakenStep(env, decls, g)
  <2> DEFINE h == TakenStep(env, decls, g)
  <2>1. h = [n \in 0 .. m |-> h[n]] /\ g = [n \in 0 .. m |-> g[n]]
    BY DEF TakenStep
  <2>2. \A n \in 0 .. m : g[n] = h[n]
    BY <1>5 DEF TakenStep
  <2> HIDE DEF g, h
  <2>3. g = h
    BY <2>1, <2>2
  <2>4. QED
    BY <2>3 DEF h
<1> HIDE DEF g
<1> DEFINE taken == Taken(env, decls)
<1>7. taken = TakenStep(env, decls, taken)
  BY <1>6 DEF Taken
<1> HIDE DEF taken
<1>8. \A n \in 0 .. m : taken[n] = TakenStep(env, decls, taken)[n]
  BY <1>7
<1>9. \A n \in 0 .. m : taken[n] = TakenOf(env, decls, taken, n)
  BY <1>8 DEF TakenStep
<1>10. QED
  BY <1>9 DEF taken

(* They are among the declarations, and all of them where each is selected. *)
LEMMA SelectedAreDeclared ==
    ASSUME NEW env, NEW D, NEW decls \in Seq(D)
    PROVE  /\ Selected(env, decls) \in Seq({d \in D : \E i \in DOMAIN decls : d = decls[i] /\ IsSelected(env, d)})
           /\ (\A i \in DOMAIN decls : IsSelected(env, decls[i])) => Selected(env, decls) = decls
<1> DEFINE m == Len(decls)
           taken == Taken(env, decls)
           E == {d \in D : \E i \in DOMAIN decls : d = decls[i] /\ IsSelected(env, d)}
           S == {n \in 0 .. m :
                   /\ taken[n] \in Seq(E)
                   /\ (\A i \in DOMAIN decls : IsSelected(env, decls[i])) =>
                        Len(taken[n]) = n /\ \A i \in 1 .. n : taken[n][i] = decls[i]}
<1>1. m \in Nat /\ DOMAIN decls = 1 .. m
  OBVIOUS
<1>2. \A n \in 0 .. m : taken[n] = TakenOf(env, decls, taken, n)
  BY <1>1, TakenExists
<1> HIDE DEF taken
<1>3. 0 \in S
  <2>1. taken[0] = <<>>
    BY <1>1, <1>2 DEF TakenOf
  <2>2. taken[0] \in Seq(E) /\ Len(taken[0]) = 0
    <3> HIDE DEF E
    <3>1. QED
      BY <2>1
  <2>3. 0 \in 0 .. m /\ 1 .. 0 = {}
    BY <1>1
  <2> HIDE DEF E
  <2>4. QED
    BY <2>2, <2>3
<1>4. ASSUME NEW n \in 1 .. m, n - 1 \in S PROVE n \in S
  <2>1. taken[n] = TakenOf(env, decls, taken, n) /\ n # 0
    BY <1>1, <1>2
  <2>2. taken[n - 1] \in Seq(E)
    BY <1>4
  <2>3. CASE IsSelected(env, decls[n])
    <3>1. taken[n] = Append(taken[n - 1], decls[n])
      BY <2>1, <2>3 DEF TakenOf
    <3>2. decls[n] \in E
      BY <1>1, <2>3
    <3> HIDE DEF E
    <3>3. taken[n] \in Seq(E)
      BY <2>2, <3>1, <3>2
    <3>4. ASSUME \A i \in DOMAIN decls : IsSelected(env, decls[i])
          PROVE  Len(taken[n]) = n /\ \A i \in 1 .. n : taken[n][i] = decls[i]
      <4>1. Len(taken[n - 1]) = n - 1 /\ \A i \in 1 .. n - 1 : taken[n - 1][i] = decls[i]
        BY <1>4, <3>4
      <4>2. QED
        BY <1>1, <2>2, <3>1, <3>2, <4>1
    <3>5. QED
      BY <1>1, <3>3, <3>4
  <2>4. CASE ~IsSelected(env, decls[n])
    <3>1. taken[n] = taken[n - 1]
      BY <2>1, <2>4 DEF TakenOf
    <3>2. n \in DOMAIN decls
      BY <1>1
    <3>3. QED
      BY <1>1, <2>2, <2>4, <3>1, <3>2
  <2>5. QED
    BY <2>3, <2>4
<1>5. m \in S
  <2> HIDE DEF S
  <2>1. 0 .. m \subseteq S
    BY <1>1, <1>3, <1>4, UpTo
  <2>2. QED
    BY <1>1, <2>1
<1>6. Selected(env, decls) = taken[m]
  BY SelectedIsTaken DEF taken
<1>7. ASSUME \A i \in DOMAIN decls : IsSelected(env, decls[i])
      PROVE  taken[m] = decls
  <2>1. taken[m] \in Seq(E) /\ Len(taken[m]) = m /\ \A i \in 1 .. m : taken[m][i] = decls[i]
    BY <1>5, <1>7
  <2>2. QED
    BY <1>1, <2>1
<1>8. QED
  BY <1>5, <1>6, <1>7

(* Declarations told apart by their labels are, once selected, too.         *)
LEMMA SelectedStayApart ==
    ASSUME NEW env, NEW D, NEW decls \in Seq(D),
           \A i, j \in DOMAIN decls : decls[i].label = decls[j].label => i = j
    PROVE  LET list == Selected(env, decls)
           IN  \A i, j \in DOMAIN list : list[i].label = list[j].label => i = j
<1> DEFINE m == Len(decls)
           taken == Taken(env, decls)
           Apart(list, n) ==
             /\ list \in Seq(D)
             /\ \A i \in 1 .. Len(list) : \E j \in 1 .. n : list[i] = decls[j]
             /\ \A i, j \in 1 .. Len(list) : list[i].label = list[j].label => i = j
           S == {n \in 0 .. m : Apart(taken[n], n)}
<1>1. m \in Nat /\ DOMAIN decls = 1 .. m
  OBVIOUS
<1>2. \A n \in 0 .. m : taken[n] = TakenOf(env, decls, taken, n)
  BY <1>1, TakenExists
<1> HIDE DEF taken
<1>3. 0 \in S
  <2>1. taken[0] = <<>>
    BY <1>1, <1>2 DEF TakenOf
  <2>2. Apart(<<>>, 0)
    OBVIOUS
  <2> HIDE DEF Apart
  <2>3. QED
    BY <1>1, <2>1, <2>2
<1>4. ASSUME NEW n \in 1 .. m, n - 1 \in S PROVE n \in S
  <2>1. taken[n] = TakenOf(env, decls, taken, n) /\ n # 0 /\ n \in 0 .. m /\ n \in DOMAIN decls
    BY <1>1, <1>2
  <2>2. Apart(taken[n - 1], n - 1)
    BY <1>4
  <2> DEFINE before == taken[n - 1]
  <2>3. CASE IsSelected(env, decls[n])
    <3>1. taken[n] = Append(before, decls[n])
      BY <2>1, <2>3 DEF TakenOf
    <3> HIDE DEF before
    <3>2. before \in Seq(D) /\ decls[n] \in D
      BY <2>1, <2>2 DEF before
    <3>3. /\ taken[n] \in Seq(D) /\ Len(taken[n]) = Len(before) + 1
          /\ \A i \in 1 .. Len(before) : taken[n][i] = before[i]
          /\ taken[n][Len(before) + 1] = decls[n]
      BY <3>1, <3>2
    <3>4. /\ \A i \in 1 .. Len(before) : \E j \in 1 .. n - 1 : before[i] = decls[j]
          /\ \A i, j \in 1 .. Len(before) : before[i].label = before[j].label => i = j
      BY <2>2 DEF before
    <3>5. Len(before) \in Nat
      BY <3>2
    <3>6. ASSUME NEW i \in 1 .. Len(before) PROVE before[i].label # decls[n].label
      <4>1. PICK j \in 1 .. n - 1 : before[i] = decls[j]
        BY <3>4
      <4>2. j \in DOMAIN decls /\ n \in DOMAIN decls /\ j # n
        BY <1>1
      <4>3. QED
        BY <4>1, <4>2
    <3>7. \A i \in 1 .. Len(taken[n]) : \E j \in 1 .. n : taken[n][i] = decls[j]
      BY <3>3, <3>4, <3>5
    <3>8. \A i, j \in 1 .. Len(taken[n]) : taken[n][i].label = taken[n][j].label => i = j
      <4> SUFFICES ASSUME NEW i \in 1 .. Len(taken[n]), NEW j \in 1 .. Len(taken[n]),
                          taken[n][i].label = taken[n][j].label
                   PROVE  i = j
        OBVIOUS
      <4>1. \A k \in 1 .. Len(taken[n]) : k \in 1 .. Len(before) \/ k = Len(before) + 1
        BY <3>3, <3>5
      <4>2. CASE i \in 1 .. Len(before) /\ j \in 1 .. Len(before)
        <5>1. before[i].label = before[j].label
          BY <3>3, <4>2
        <5>2. QED
          BY <3>4, <4>2, <5>1
      <4>3. CASE i \in 1 .. Len(before) /\ j = Len(before) + 1
        BY <3>3, <3>6, <4>3
      <4>4. CASE i = Len(before) + 1 /\ j \in 1 .. Len(before)
        BY <3>3, <3>6, <4>4
      <4>5. QED
        BY <4>1, <4>2, <4>3, <4>4
    <3>9. Apart(taken[n], n)
      BY <3>3, <3>7, <3>8
    <3> HIDE DEF Apart
    <3>10. QED
      BY <2>1, <3>9
  <2>4. CASE ~IsSelected(env, decls[n])
    <3>1. taken[n] = before
      BY <2>1, <2>4 DEF TakenOf
    <3>2. Apart(before, n)
      BY <1>1, <2>2
    <3> HIDE DEF Apart, before
    <3>3. QED
      BY <2>1, <3>1, <3>2
  <2>5. QED
    BY <2>3, <2>4
<1>5. m \in S
  <2> HIDE DEF S
  <2>1. 0 .. m \subseteq S
    BY <1>1, <1>3, <1>4, UpTo
  <2>2. QED
    BY <1>1, <2>1
<1>6. Selected(env, decls) = taken[m]
  BY SelectedIsTaken DEF taken
<1>7. QED
  BY <1>5, <1>6
-----------------------------------------------------------------------------
(* Normalizing the suites touches nothing else.                             *)
LEMMA NormalizedKeeps ==
    ASSUME NEW d, {"profile", "chain", "env", "harness"} \subseteq DOMAIN d
    PROVE  /\ NormalizedSuites(d).profile = d.profile /\ NormalizedSuites(d).chain = d.chain
           /\ NormalizedSuites(d).env = d.env /\ NormalizedSuites(d).harness = d.harness
  BY DEF NormalizedSuites

(* The stages are told apart.                                               *)
LEMMA Framed ==
    ASSUME UNCHANGED <<doc, args, environ, test, phase>>
    PROVE  /\ profile' = profile /\ Harnessed' = Harnessed /\ RunOptions' = RunOptions
           /\ Cases' = Cases /\ Overrides' = Overrides
           /\ BaseSeeds' = BaseSeeds /\ RunSeeds' = RunSeeds
           /\ Tested' = Tested /\ (Testable' <=> Testable) /\ (SameCases' <=> SameCases)
           /\ (Selects' <=> Selects) /\ (SelectsNone' <=> SelectsNone)
           /\ (Admissible' <=> Admissible) /\ (Decodes' <=> Decodes) /\ (ResolvesHere' <=> ResolvesHere)
<1>1. /\ profile' = profile /\ Harnessed' = Harnessed /\ RunOptions' = RunOptions
      /\ Overrides' = Overrides
  BY DEF profile, Harnessed, RunOptions, Overrides
<1>2. Cases' = Cases
  BY <1>1 DEF Cases
<1>3. BaseSeeds' = BaseSeeds
  BY <1>1 DEF BaseSeeds
<1>4. RunSeeds' = RunSeeds
  BY <1>1, <1>2, <1>3 DEF RunSeeds
<1>5. Tested' = Tested /\ (Testable' <=> Testable) /\ (SameCases' <=> SameCases)
  BY DEF Tested, Testable, SameCases
<1>6. SelectPhases' = SelectPhases
  BY DEF SelectPhases, Known
<1>7. (Selects' <=> Selects) /\ (SelectsNone' <=> SelectsNone)
  BY <1>5, <1>6 DEF Selects, SelectsNone
<1>8. QED
  BY <1>1, <1>2, <1>3, <1>4, <1>5, <1>7 DEF Admissible, Decodes, ResolvesHere

(* It starts with the file as given.                                        *)
LEMMA DocInvInit == Init => DocInv /\ StageInv
  BY DEF Init, DocInv, StageInv, AtFile, AtTexts, AtMerge, AtTypes, AtLoad, Chosen, Admitted,
         Resolving, Building, Driving

(* Each stage of the loader keeps what it says of the document.             *)
LEMMA DocInvStep ==
    ASSUME DocInv, [Next]_vars
    PROVE  DocInv'
<1> USE DEF AtFile, AtTexts, AtMerge, AtTypes, AtLoad, Chosen, Admitted, Resolving, Building,
            Driving
<1>1. ASSUME UNCHANGED <<given, environ>>
      PROVE  Texts' = Texts /\ Whole' = Whole /\ (Interpolable' <=> Interpolable)
  BY <1>1 DEF Texts, Whole, Interpolable
<1>2. CASE UNCHANGED vars
  <2>1. UNCHANGED <<doc, pc, given, environ>>
    BY <1>2 DEF vars
  <2> HIDE DEF AtFile, AtTexts, AtMerge, AtTypes, AtLoad
  <2>2. QED
    BY <1>1, <2>1 DEF DocInv
<1>3. CASE Expand
  BY <1>3 DEF Expand, DocInv
<1>4. CASE Interpolate
  <2>1. UNCHANGED <<given, environ>> /\ pc = "parsed"
    BY <1>4 DEF Interpolate, Stage
  <2>2. doc = given
    BY <2>1 DEF DocInv
  <2>3. CASE pc' = "interpolated" /\ doc' = Texts
    BY <1>1, <2>1, <2>3 DEF DocInv
  <2>4. CASE pc' = "refused at interpolated" /\ ~Interpolable /\ UNCHANGED doc
    BY <1>1, <2>1, <2>2, <2>4 DEF DocInv
  <2>5. QED
    BY <1>4, <2>2, <2>3, <2>4 DEF Interpolate, Stage, Texts, Interpolable
<1>5. CASE Merge
  <2>1. UNCHANGED <<given, environ>>
    BY <1>5 DEF Merge, Stage
  <2>2. QED
    BY <1>1, <1>5, <2>1 DEF Merge, Stage, DocInv, Whole
<1>6. CASE Deserialize
  <2>1. UNCHANGED <<given, environ>>
    BY <1>6 DEF Deserialize, Stage
  <2>2. QED
    <3>1. doc = Whole /\ pc = "merged" /\ doc' = doc /\ Mergeable(Texts)
      BY <1>6 DEF Deserialize, Stage, DocInv
    <3>2. \/ pc' = "typed" /\ Deserializable(doc)
          \/ pc' = "refused at typed" /\ ~Deserializable(doc)
      BY <1>6 DEF Deserialize, Stage
    <3>3. Mergeable(Texts)'
      BY <1>1, <2>1, <3>1
    <3>4. CASE pc' = "typed" /\ Deserializable(doc)
      BY <1>1, <2>1, <3>1, <3>3, <3>4 DEF DocInv
    <3>5. CASE pc' = "refused at typed" /\ ~Deserializable(doc)
      BY <1>1, <2>1, <3>1, <3>3, <3>5 DEF DocInv
    <3>6. QED
      BY <3>2, <3>4, <3>5
<1>7. CASE Validate
  <2>1. UNCHANGED <<given, environ>>
    BY <1>7 DEF Validate, Stage
  <2>2. doc = Whole /\ pc = "typed" /\ Mergeable(Texts) /\ Deserializable(Whole)
    BY <1>7 DEF Validate, Stage, DocInv
  <2>3. \/ pc' = "loaded" /\ doc' = NormalizedSuites(Whole) /\ DocumentAccepted(Whole)
        \/ pc' = "refused at loaded" /\ doc' = Whole /\ ~DocumentAccepted(Whole)
    BY <1>7, <2>2 DEF Validate, Stage, DocumentAccepted
  <2>4. /\ Mergeable(Texts)' /\ Deserializable(Whole)'
        /\ NormalizedSuites(Whole)' = NormalizedSuites(Whole)
        /\ DocumentAccepted(Whole)' <=> DocumentAccepted(Whole)
    BY <1>1, <2>1, <2>2
  <2>5. CASE pc' = "loaded" /\ doc' = NormalizedSuites(Whole) /\ DocumentAccepted(Whole)
    BY <2>4, <2>5 DEF DocInv
  <2>6. CASE pc' = "refused at loaded" /\ doc' = Whole /\ ~DocumentAccepted(Whole)
    BY <1>1, <2>1, <2>4, <2>6 DEF DocInv
  <2>7. QED
    BY <2>3, <2>5, <2>6
<1>8. CASE FailAndReplay
  BY <1>8 DEF FailAndReplay, DocInv
<1>9. ASSUME UNCHANGED <<doc, given, environ>>, pc \in AtFile, pc' \in AtFile \ {"refused at interpolated"} PROVE DocInv'
  BY <1>1, <1>9 DEF DocInv
<1>10. ASSUME UNCHANGED <<doc, given, environ>>, pc \in AtLoad, pc' \in AtLoad PROVE DocInv'
  BY <1>1, <1>10 DEF DocInv
<1>11. CASE Select \/ ValidateWithConfig \/ List \/ RunForTest \/ Admit \/ Resolve \/ Build
              \/ Drive \/ Pass
  BY <1>10, <1>11
  DEF Select, ValidateWithConfig, List, RunForTest, Admit, Resolve, Build, Drive, Pass
<1>12. CASE Describe \/ ExpandAttribute \/ RunAttributeTests
  BY <1>9, <1>12 DEF Describe, ExpandAttribute, RunAttributeTests, RunAttributeTest
<1>13. QED
  BY <1>2, <1>3, <1>4, <1>5, <1>6, <1>7, <1>8, <1>11, <1>12 DEF Next, Done

(* The phases to choose from are of profiles the file has: the loader has   *)
(* looked a suite's up, and select_phases the others.                       *)
LEMMA ChosenIsThere ==
    ASSUME DocInv, pc = "loaded", Formed(given), NEW p \in SelectPhases
    PROVE  p.profile \in DOMAIN doc.profile
<1>1. doc = NormalizedSuites(Whole) /\ SuitesValid(Whole)
  BY DEF DocInv, AtFile, AtTexts, AtMerge, AtTypes, AtLoad, DocumentAccepted
<1>2. DOMAIN Whole = DocFields
  BY DEF Whole, Merged, Texts, InterpolatedDoc, Formed
<1>3. /\ doc.profile = Whole.profile
      /\ doc.suite = [s \in DOMAIN Whole.suite |-> Normalized(Whole.suite[s])]
  BY <1>1, <1>2 DEF NormalizedSuites, DocFields
<1>4. ASSUME NEW names, p \in Known(names)
      PROVE  p.profile \in DOMAIN doc.profile
  <2>1. PICK q \in DOMAIN doc.profile : p = Alone(q)
    BY <1>4 DEF Known
  <2>2. <<FreshPhase(q)>>[1].profile = q
    BY DEF FreshPhase
  <2>3. QED
    BY <2>1, <2>2 DEF Alone, PlanOf
<1>5. CASE args.suite # None /\ args.suite \in DOMAIN doc.suite
  <2> DEFINE phases == doc.suite[args.suite].phases
  <2>1. PICK i \in DOMAIN phases : p = PlanOf(phases, i)
    BY <1>5 DEF SelectPhases
  <2>2. phases = Normalized(Whole.suite[args.suite]).phases
    BY <1>3, <1>5
  <2>3. phases[i].profile \in DOMAIN Whole.profile
    BY <1>1, <1>3, <1>5, <2>2 DEF SuitesValid
  <2>4. QED
    BY <1>3, <2>1, <2>3 DEF PlanOf
<1>6. QED
  BY <1>4, <1>5 DEF SelectPhases

(* A phase of its own is of the profile it names, and has no params.        *)
LEMMA AloneIsItself == \A p : Alone(p).profile = p /\ Alone(p).params = FALSE
<1> SUFFICES ASSUME NEW p PROVE Alone(p).profile = p /\ Alone(p).params = FALSE
  OBVIOUS
<1>1. <<FreshPhase(p)>>[1].profile = p /\ <<FreshPhase(p)>>[1].params = FALSE
  BY DEF FreshPhase
<1>2. QED
  BY <1>1 DEF Alone, PlanOf

(* Each step keeps what the stages before it found out.                     *)
LEMMA StageInvStep ==
    ASSUME DocInv, StageInv, Formed(given), [Next]_vars
    PROVE  StageInv'
<1> USE DEF Chosen, Admitted, Resolving, Building, Driving
<1> DEFINE Same ==
             /\ profile' = profile /\ Overrides' = Overrides /\ Harnessed' = Harnessed
             /\ RunOptions' = RunOptions /\ RunSeeds' = RunSeeds
             /\ (Testable' <=> Testable) /\ (SameCases' <=> SameCases)
             /\ (Selects' <=> Selects) /\ (SelectsNone' <=> SelectsNone) /\ (Admissible' <=> Admissible)
             /\ (Decodes' <=> Decodes) /\ (ResolvesHere' <=> ResolvesHere)
<1>0. ASSUME UNCHANGED <<doc, args, environ, test, phase>> PROVE Same
  BY <1>0, Framed
<1>1. ASSUME pc' \notin Chosen \cup {"refused at selected", "refused at counted"} PROVE StageInv'
  BY <1>1 DEF StageInv
<1>2. CASE UNCHANGED vars
  <2>1. /\ UNCHANGED <<doc, args, environ, test, phase>> /\ pc' = pc /\ request' = request
        /\ chains' = chains /\ drive' = drive
    BY <1>2 DEF vars
  <2>2. QED
    BY <2>1, <1>0 DEF StageInv
<1>3. CASE Expand \/ Interpolate \/ Merge \/ Deserialize \/ Validate \/ ValidateWithConfig \/ List
             \/ Describe \/ FailAndReplay \/ ExpandAttribute \/ RunAttributeTests
  BY <1>1, <1>3
  DEF Expand, Interpolate, Merge, Deserialize, Validate, Stage, ValidateWithConfig, List, Describe,
      FailAndReplay, ExpandAttribute, RunAttributeTests, RunAttributeTest
<1>4. ASSUME pc' = "selected", UNCHANGED doc, profile' \in DOMAIN doc.profile, Selects' PROVE StageInv'
  BY <1>4 DEF StageInv
<1>5. CASE Select
  <2>1. UNCHANGED <<doc, args, environ, test>> /\ args.command = "run"
    BY <1>5 DEF Select
  <2>2. SelectPhases' = SelectPhases
    BY <2>1 DEF SelectPhases, Known
  <2>3. CASE pc' = "refused at selected" /\ SelectsNone
    <3>1. SelectsNone'
      BY <2>1, <2>2, <2>3 DEF SelectsNone
    <3>2. QED
      BY <2>3, <3>1 DEF StageInv
  <2>4. CASE doc.harness \in DOMAIN Registered /\ phase' \in SelectPhases /\ pc' = "selected"
    <3>1. phase'.profile \in DOMAIN doc.profile
      BY <1>5, <2>4, ChosenIsThere DEF Select
    <3>2. profile' \in DOMAIN doc.profile /\ Selects'
      BY <2>1, <2>2, <2>4, <3>1 DEF profile, Selects
    <3>3. QED
      BY <1>4, <2>1, <2>4, <3>2
  <2>5. QED
    BY <1>5, <2>3, <2>4 DEF Select, SelectsNone
<1>6. CASE RunForTest
  <2>1. /\ UNCHANGED <<doc, args, environ, test>> /\ args.command = "test"
        /\ Tested' = Tested /\ (Testable' <=> Testable) /\ (SameCases' <=> SameCases)
    BY <1>6 DEF RunForTest, Tested, Testable, SameCases
  <2>2. CASE pc' = "refused at selected"
    BY <2>1, <2>2 DEF StageInv
  <2>3. CASE pc' = "refused at counted" /\ Testable /\ ~SameCases
    BY <2>1, <2>3 DEF StageInv
  <2>4. CASE Testable /\ SameCases /\ phase' = Alone(Tested) /\ pc' = "selected"
    <3>1. phase'.profile \in DOMAIN doc.profile
      BY <2>4, AloneIsItself DEF Testable
    <3>2. profile' \in DOMAIN doc.profile /\ Selects'
      BY <2>1, <2>4, <3>1 DEF profile, Selects
    <3>3. QED
      BY <1>4, <2>1, <2>4, <3>2
  <2>5. QED
    BY <1>6, <2>2, <2>3, <2>4 DEF RunForTest
<1>7. CASE Admit
  <2>1. UNCHANGED <<doc, args, environ, test, phase>> /\ pc = "selected"
    BY <1>7 DEF Admit
  <2>2. \/ pc' = "refused at admitted" /\ ~Admissible
        \/ pc' \in {"inherits", "admitted"} /\ Admissible
    BY <1>7 DEF Admit, Admissible
  <2>3. QED
    BY <2>1, <2>2, <1>0 DEF StageInv
<1>8. CASE Resolve
  <2>1. UNCHANGED <<doc, args, environ, test, phase>> /\ pc = "admitted"
    BY <1>8 DEF Resolve
  <2>2. CASE pc' = "refused at resolved" /\ ~ResolvesHere
    BY <2>1, <2>2, <1>0 DEF StageInv
  <2>3. CASE pc' = "resolved" /\ ResolvesHere
    <3>1. PICK s \in RunSeeds :
             request' = SetupRequest(EffectiveEnv(doc, profile), doc.chain, Overrides, s)
      BY <1>8, <2>3 DEF Resolve
    <3>2. request'.seed = s
      BY <3>1 DEF SetupRequest
    <3>3. /\ request'.seed \in RunSeeds
          /\ request' = SetupRequest(EffectiveEnv(doc, profile), doc.chain, Overrides, request'.seed)
      BY <3>1, <3>2
    <3>4. QED
      BY <2>1, <2>3, <3>3, <1>0 DEF StageInv
  <2>4. QED
    BY <1>8, <2>2, <2>3 DEF Resolve, ResolvesHere
<1>9. CASE Build
  <2>1. UNCHANGED <<doc, args, environ, test, phase, request>> /\ pc = "resolved"
    BY <1>9 DEF Build
  <2>2. \/ pc' = "refused at built" /\ \E i \in DOMAIN request.specs : ~Buildable(request.specs[i])
        \/ /\ pc' = "built" /\ \A i \in DOMAIN request.specs : Buildable(request.specs[i])
           /\ chains' = [i \in DOMAIN request.specs |-> BuildChain(request.specs[i])]
    BY <1>9 DEF Build
  <2>3. QED
    BY <2>1, <2>2, <1>0 DEF StageInv
<1>10. CASE Drive
  <2>1. UNCHANGED <<doc, args, environ, test, phase, request, chains>> /\ pc = "built"
    BY <1>10 DEF Drive
  <2>2. CASE pc' = "refused at patched" /\ ~Patches(Harnessed, phase.params)
    BY <2>1, <2>2, <1>0 DEF StageInv
  <2>3. CASE pc' = "refused at driven" /\ ~Decodes
    BY <2>1, <2>3, <1>0 DEF StageInv
  <2>4. CASE /\ pc' = "driven" /\ Decodes
             /\ drive' = [seed |-> request.seed,
                          resolved |-> ResolvedProfile(doc.profile[profile], RunOptions),
                          args |-> DriverArgs(Harnessed, doc.profile[profile], RunOptions)]
    BY <2>1, <2>4, <1>0 DEF StageInv
  <2>5. QED
    BY <1>10, <2>2, <2>3, <2>4 DEF Drive, Decodes
<1>11. CASE Pass
  <2>1. UNCHANGED <<doc, args, environ, test, phase, request, chains, drive>> /\ pc = "driven" /\ pc' = "done"
    BY <1>11 DEF Pass
  <2>2. QED
    BY <2>1, <1>0 DEF StageInv
<1>12. QED
  BY <1>2, <1>3, <1>5, <1>6, <1>7, <1>8, <1>9, <1>10, <1>11 DEF Next, Done
-----------------------------------------------------------------------------
(* What the loader makes of the sections of a file.                         *)
LEMMA WholeSections ==
    ASSUME Formed(given)
    PROVE  /\ DOMAIN Texts = DocFields /\ DOMAIN Whole = DocFields
           /\ Texts.harness = given.harness /\ Whole.harness = given.harness
           /\ Texts.unknown = given.unknown /\ Whole.unknown = given.unknown
           /\ Texts.suite = given.suite /\ Whole.suite = given.suite
           /\ Texts.env = InterpolatedEnv(given.env, environ.vars) /\ Whole.env = Texts.env
           /\ Texts.defaults = InterpolatedProfile(given.defaults, environ.vars)
           /\ Texts.profile =
                [p \in DOMAIN given.profile |-> InterpolatedProfile(given.profile[p], environ.vars)]
           /\ Whole.profile =
                [p \in DOMAIN given.profile |->
                   MergedProfile(Texts.defaults, Texts.env, Texts.profile[p])]
           /\ Texts.chain =
                [i \in DOMAIN given.chain |-> InterpolatedChain(given.chain[i], environ.vars)]
           /\ Whole.chain = Texts.chain
<1>1. DOMAIN given = DocFields
  BY DEF Formed
<1>2. /\ DOMAIN Texts = DocFields
      /\ Texts.harness = given.harness /\ Texts.unknown = given.unknown /\ Texts.suite = given.suite
      /\ Texts.env = InterpolatedEnv(given.env, environ.vars)
      /\ Texts.defaults = InterpolatedProfile(given.defaults, environ.vars)
      /\ Texts.profile =
           [p \in DOMAIN given.profile |-> InterpolatedProfile(given.profile[p], environ.vars)]
      /\ Texts.chain =
           [i \in DOMAIN given.chain |-> InterpolatedChain(given.chain[i], environ.vars)]
  BY <1>1 DEF Texts, InterpolatedDoc, DocFields
<1>3. DOMAIN Texts.profile = DOMAIN given.profile
  BY <1>2
<1>4. /\ DOMAIN Whole = DocFields
      /\ Whole.harness = Texts.harness /\ Whole.unknown = Texts.unknown /\ Whole.suite = Texts.suite
      /\ Whole.env = Texts.env /\ Whole.chain = Texts.chain
      /\ Whole.profile =
           [p \in DOMAIN Texts.profile |-> MergedProfile(Texts.defaults, Texts.env, Texts.profile[p])]
  BY <1>2 DEF Whole, Merged, DocFields
<1>5. QED
  BY <1>2, <1>3, <1>4

(* Interpolation reaches one field of a declaration.                        *)
LEMMA ChainKept ==
    ASSUME Formed(given)
    PROVE  /\ DOMAIN Texts.chain = DOMAIN given.chain
           /\ \A i \in DOMAIN given.chain :
                /\ DOMAIN Texts.chain[i] = ChainFields
                /\ \A field \in ChainFields \ {"rpc_url"} :
                     Texts.chain[i][field] = given.chain[i][field]
           /\ Texts.chain \in Seq(ToSet(Texts.chain))
<1>1. Texts.chain = [i \in DOMAIN given.chain |-> InterpolatedChain(given.chain[i], environ.vars)]
  BY WholeSections
<1>2. DOMAIN Texts.chain = DOMAIN given.chain
  BY <1>1
<1>3. ASSUME NEW i \in DOMAIN given.chain
      PROVE  /\ DOMAIN Texts.chain[i] = ChainFields
             /\ \A field \in ChainFields \ {"rpc_url"} : Texts.chain[i][field] = given.chain[i][field]
  <2>1. Texts.chain[i] = InterpolatedChain(given.chain[i], environ.vars)
    BY <1>1
  <2>2. DOMAIN given.chain[i] = ChainFields
    BY DEF Formed
  <2>3. QED
    BY <2>1, <2>2 DEF InterpolatedChain
<1>4. given.chain \in Seq(ToSet(given.chain))
  BY DEF Formed
<1>5. PICK n \in Nat : DOMAIN given.chain = 1 .. n
  BY <1>4
<1>6. Texts.chain \in Seq(ToSet(Texts.chain))
  <2> DEFINE c == Texts.chain
             S == ToSet(c)
  <2>1. c = [i \in 1 .. n |-> c[i]]
    BY <1>1, <1>2, <1>5
  <2>2. \A i \in 1 .. n : c[i] \in S
    BY <1>2, <1>5 DEF ToSet
  <2> HIDE DEF c, S
  <2>3. c \in Seq(S)
    BY <2>1, <2>2
  <2>4. QED
    BY <2>3 DEF c, S
<1>7. QED
  BY <1>2, <1>3, <1>6

(* What a loaded document is.                                               *)
LEMMA LoadedDocument ==
    ASSUME DocInv, Formed(given), pc \in AtLoad
    PROVE  /\ doc.harness = given.harness /\ doc.env = Texts.env /\ doc.chain = Texts.chain
           /\ DOMAIN doc.profile = DOMAIN given.profile
           /\ doc.profile = Whole.profile
           /\ Mergeable(Texts) /\ DocumentAccepted(Whole)
           /\ \A p \in DOMAIN doc.profile :
                /\ Get(doc.profile[p], "mode") \in Modes
                /\ Required(doc.profile[p].mode) \subseteq DOMAIN doc.profile[p]
<1>1. doc = NormalizedSuites(Whole) /\ DocumentAccepted(Whole) /\ Mergeable(Texts)
  BY DEF DocInv, AtFile, AtTexts, AtMerge, AtTypes, AtLoad, Chosen, Admitted, Resolving, Building,
         Driving
<1>2. DOMAIN Whole = DocFields
  BY WholeSections
<1>3. /\ doc.profile = Whole.profile /\ doc.chain = Whole.chain
      /\ doc.env = Whole.env /\ doc.harness = Whole.harness
  BY <1>1, <1>2, NormalizedKeeps DEF DocFields
<1>4. Deserializable(Whole)
  BY <1>1 DEF DocumentAccepted
<1>5. \A p \in DOMAIN Whole.profile :
        /\ Get(Whole.profile[p], "mode") \in Modes
        /\ Required(Whole.profile[p].mode) \subseteq DOMAIN Whole.profile[p]
  BY <1>4 DEF Deserializable
<1>6. QED
  BY <1>1, <1>3, <1>5, WholeSections

(* A value in a table that is not None has a key.                           *)
LEMMA GetIsThere ==
    ASSUME NEW t, NEW key, Get(t, key) # None
    PROVE  key \in DOMAIN t /\ t[key] = Get(t, key)
  BY DEF Get

(* ... and it has a mode, which is one of four.                             *)
LEMMA ModeIsKnown ==
    ASSUME DocInv, Formed(given), pc \in AtLoad, NEW p \in DOMAIN doc.profile
    PROVE  "mode" \in DOMAIN doc.profile[p] /\ doc.profile[p].mode \in Modes
<1>1. Get(doc.profile[p], "mode") \in Modes /\ None \notin Modes
  BY LoadedDocument, ConfigAssumption
<1>2. QED
  BY <1>1, GetIsThere

(* The checks of `validate` are those of the run, taken in another order.   *)
LEMMA ForetoldWhereReached ==
    ASSUME DocInv, StageInv, Formed(given)
    PROVE  ValidateForetellsRun
<1> DEFINE t == doc.profile[profile]
<1>1. ASSUME pc \in Chosen PROVE t.mode \in Modes
  <2>1. pc \in AtLoad /\ profile \in DOMAIN doc.profile
    BY <1>1 DEF StageInv, AtLoad
  <2>2. QED
    BY <2>1, ModeIsKnown
<1>2. CASE pc = "refused at admitted"
  <2>1. t.mode \in Modes /\ ~Admissible
    BY <1>1, <1>2 DEF StageInv, Chosen
  <2>2. QED
    BY <1>2, <2>1
    DEF Admissible, Admits, ValidateForetellsRun, Validates, ValidateProfile, ValidateExportWorld, Modes
<1>3. CASE pc = "refused at driven"
  <2>1. ~Decodes
    BY <1>3 DEF StageInv
  <2>2. QED
    BY <1>3, <2>1 DEF Decodes, ValidateForetellsRun, Validates, ValidateProfile
<1>4. CASE pc = "driven"
  <2>1. t.mode \in Modes /\ Admissible /\ Decodes
    BY <1>1, <1>4 DEF StageInv, Chosen, Admitted, Resolving, Building, Driving
  <2>2. QED
    BY <1>4, <2>1
    DEF Admissible, Decodes, Admits, ValidateForetellsRun, Validates, ValidateProfile,
        ValidateExportWorld, Modes
<1>5. QED
  BY <1>2, <1>3, <1>4 DEF ValidateForetellsRun
-----------------------------------------------------------------------------
(* What resolving makes of a declaration.                                   *)
SpecFrom(spec, decl, env, over) ==
    /\ DOMAIN spec = ChainFields
    /\ spec.target = ResolveChainTarget(decl.label, decl.target, env, over)
    /\ spec.adjustment = IF decl.adjustment = None THEN DefaultGasAdjustment ELSE decl.adjustment
    /\ spec.symbol = IF decl.symbol = None THEN DefaultNativeSymbol(decl.kind) ELSE decl.symbol
    /\ \A field \in ChainFields \ {"target", "adjustment", "symbol"} : spec[field] = decl[field]

(* ... which is so of every declaration, env and flags.                     *)
LEMMA SpecOf ==
    ASSUME NEW decl, DOMAIN decl = ChainFields, NEW env, NEW over
    PROVE  SpecFrom(ChainSpec(decl, env, over), decl, env, over)
  BY DEF ChainSpec, ChainFields, SpecFrom

(* The specs of a request are those of declared chains, selected, in order. *)
LEMMA SpecsAreDeclared ==
    ASSUME Formed(given), NEW env, NEW over
    PROVE  /\ Selected(env, Texts.chain) \in Seq(ToSet(Texts.chain))
           /\ DOMAIN ChainSpecs(env, Texts.chain, over) = DOMAIN Selected(env, Texts.chain)
           /\ \A i \in DOMAIN Selected(env, Texts.chain) :
                \E j \in DOMAIN Texts.chain :
                  /\ Selected(env, Texts.chain)[i] = Texts.chain[j]
                  /\ ChainSpecs(env, Texts.chain, over)[i] = ChainSpec(Texts.chain[j], env, over)
<1> DEFINE decls == Texts.chain
           list == Selected(env, decls)
           E == {d \in ToSet(decls) : \E i \in DOMAIN decls : d = decls[i] /\ IsSelected(env, d)}
<1>1. decls \in Seq(ToSet(decls))
  BY ChainKept
<1>2. list \in Seq(E)
  BY <1>1, SelectedAreDeclared
<1>3. \A i \in DOMAIN list : list[i] \in E
  <2> HIDE DEF list, E
  <2>1. QED
    BY <1>2
<1>4. list \in Seq(ToSet(decls))
  <2>1. E \subseteq ToSet(decls)
    OBVIOUS
  <2> HIDE DEF list, E
  <2>2. QED
    BY <1>2, <2>1
<1>5. ASSUME NEW i \in DOMAIN list
      PROVE  \E j \in DOMAIN decls :
               list[i] = decls[j] /\ ChainSpecs(env, decls, over)[i] = ChainSpec(decls[j], env, over)
  <2>1. PICK j \in DOMAIN decls : list[i] = decls[j]
    BY <1>3
  <2>2. ChainSpecs(env, decls, over)[i] = ChainSpec(list[i], env, over)
    BY DEF ChainSpecs
  <2>3. QED
    BY <2>1, <2>2
<1>6. DOMAIN ChainSpecs(env, decls, over) = DOMAIN list
  BY DEF ChainSpecs
<1>7. QED
  BY <1>4, <1>5, <1>6

(* Flags that say nothing change nothing.                                   *)
LEMMA SilentFlags ==
    ASSUME NEW over, over.target = None, DOMAIN over.targetChain = {}, NEW label, NEW target, NEW env
    PROVE  ResolveChainTarget(label, target, env, over) = ResolveChainTarget(label, target, env, NoOverrides)
<1>1. Get(over.targetChain, label) = None /\ Get(NoOverrides.targetChain, label) = None
  BY DEF Get, NoOverrides, Empty
<1>2. NoOverrides.target = None
  BY DEF NoOverrides
<1>3. QED
  BY <1>1, <1>2 DEF ResolveChainTarget

(* The load-time check of the urls is the one that resolving makes.         *)
LEMMA LoadedResolvesWhereReached ==
    ASSUME DocInv, StageInv, Formed(given)
    PROVE  LoadedConfigsResolve
<1> SUFFICES ASSUME pc = "refused at resolved", args.target = None, DOMAIN args.targetChain = {},
                    \A i \in DOMAIN doc.chain : doc.chain[i].kind \in Kinds
             PROVE  FALSE
  BY DEF LoadedConfigsResolve
<1> DEFINE env == EffectiveEnv(doc, profile)
           decls == Texts.chain
<1>1. pc \in AtLoad /\ profile \in DOMAIN doc.profile /\ ~ResolvesHere
  BY DEF StageInv, AtLoad, Chosen, Admitted
<1>2. doc.chain = decls
  BY <1>1, LoadedDocument
<1>3. RpcUrlsValid(env, decls)
  <2>1. /\ ChainsValid(Whole) /\ Whole.profile = doc.profile /\ Whole.env = doc.env
        /\ Whole.chain = decls
    BY <1>1, LoadedDocument, WholeSections DEF DocumentAccepted
  <2>2. EffectiveEnv(Whole, profile) = env
    BY <2>1 DEF EffectiveEnv
  <2>3. QED
    BY <1>1, <2>1, <2>2 DEF ChainsValid
<1>4. Overrides.target = None /\ DOMAIN Overrides.targetChain = {}
  BY DEF Overrides, NoOverrides, Empty
<1>5. PICK i \in DOMAIN Selected(env, decls) :
        LET spec == ChainSpec(Selected(env, decls)[i], env, Overrides)
        IN  ~(spec.kind \in Kinds /\ (spec.target = "rpc" => spec.rpc_url # None))
  BY <1>1, <1>2 DEF ResolvesHere, Resolves
<1>6. PICK j \in DOMAIN decls : Selected(env, decls)[i] = decls[j]
  BY SpecsAreDeclared
<1> DEFINE spec == ChainSpec(decls[j], env, Overrides)
<1>7. DOMAIN decls[j] = ChainFields
  BY ChainKept
<1>8. /\ spec.kind = decls[j].kind /\ spec.rpc_url = decls[j].rpc_url
      /\ spec.target = ResolveChainTarget(decls[j].label, decls[j].target, env, Overrides)
  <2>1. SpecFrom(spec, decls[j], env, Overrides)
    BY <1>7, SpecOf, Zenon
  <2>2. {"kind", "rpc_url"} \subseteq ChainFields \ {"target", "adjustment", "symbol"}
    BY DEF ChainFields
  <2> HIDE DEF spec, decls
  <2>3. QED
    BY <2>1, <2>2 DEF SpecFrom
<1>9. spec.target = ResolveChainTarget(decls[j].label, decls[j].target, env, NoOverrides)
  <2> HIDE DEF spec, decls, env
  <2>1. \A label, target, e :
          ResolveChainTarget(label, target, e, Overrides) = ResolveChainTarget(label, target, e, NoOverrides)
    BY <1>4, SilentFlags
  <2>2. QED
    BY <1>8, <2>1
<1>10. spec.target = "rpc" => spec.rpc_url # None
  BY <1>3, <1>8, <1>9 DEF RpcUrlsValid
<1>11. spec.kind \in Kinds
  BY <1>2, <1>8
<1>12. QED
  BY <1>5, <1>6, <1>10, <1>11
-----------------------------------------------------------------------------
(* First answers the least option that is given.                            *)
LEMMA FirstIs ==
    ASSUME NEW s, DOMAIN s \subseteq Int, NEW i \in DOMAIN s, s[i] # None,
           \A j \in DOMAIN s : j < i => s[j] = None
    PROVE  First(s) = s[i]
<1> DEFINE set == {k \in DOMAIN s : s[k] # None}
           least == CHOOSE k \in set : \A j \in set : k <= j
<1>1. i \in set /\ \A j \in set : i <= j
  OBVIOUS
<1>2. least \in set /\ \A j \in set : least <= j
  BY <1>1
<1>3. least = i
  <2>1. least <= i /\ i <= least /\ least \in Int /\ i \in Int
    BY <1>1, <1>2
  <2> HIDE DEF least
  <2>2. QED
    BY <2>1
<1>4. First(s) = IF set = {} THEN None ELSE s[least]
  BY DEF First
<1>5. QED
  <2> HIDE DEF set, least
  <2>1. QED
    BY <1>1, <1>3, <1>4

(* ... None where none is given.                                            *)
LEMMA FirstOfNone ==
    ASSUME NEW s, \A j \in DOMAIN s : s[j] = None
    PROVE  First(s) = None
  BY DEF First

(* ... and of two or of three it is a nested IF.                            *)
LEMMA FirstOfTwo ==
    \A a, b : First(<<a, b>>) = IF a # None THEN a ELSE b
<1> SUFFICES ASSUME NEW a, NEW b PROVE First(<<a, b>>) = IF a # None THEN a ELSE b
  OBVIOUS
<1> DEFINE s == <<a, b>>
<1>1. DOMAIN s = {1, 2} /\ s[1] = a /\ s[2] = b
  OBVIOUS
<1> HIDE DEF s
<1>2. First(s) = IF a # None THEN a ELSE b
  <2>1. CASE a # None
    <3>1. First(s) = s[1]
      BY <1>1, <2>1, FirstIs
    <3>2. QED
      BY <1>1, <2>1, <3>1
  <2>2. CASE a = None /\ b # None
    <3>1. First(s) = s[2]
      BY <1>1, <2>2, FirstIs
    <3>2. QED
      BY <1>1, <2>2, <3>1
  <2>3. CASE a = None /\ b = None
    <3>1. First(s) = None
      BY <1>1, <2>3, FirstOfNone
    <3>2. QED
      BY <2>3, <3>1
  <2>4. QED
    BY <2>1, <2>2, <2>3
<1>3. QED
  BY <1>2 DEF s

(* The same for three options.                                              *)
LEMMA FirstOfThree ==
    \A a, b, c : First(<<a, b, c>>) = IF a # None THEN a ELSE IF b # None THEN b ELSE c
<1> SUFFICES ASSUME NEW a, NEW b, NEW c
             PROVE  First(<<a, b, c>>) = IF a # None THEN a ELSE IF b # None THEN b ELSE c
  OBVIOUS
<1> DEFINE s == <<a, b, c>>
<1>1. DOMAIN s = {1, 2, 3} /\ s[1] = a /\ s[2] = b /\ s[3] = c
  OBVIOUS
<1> HIDE DEF s
<1>2. First(s) = IF a # None THEN a ELSE IF b # None THEN b ELSE c
  <2>1. CASE a # None
    <3>1. First(s) = s[1]
      BY <1>1, <2>1, FirstIs
    <3>2. QED
      BY <1>1, <2>1, <3>1
  <2>2. CASE a = None /\ b # None
    <3>1. First(s) = s[2]
      BY <1>1, <2>2, FirstIs
    <3>2. QED
      BY <1>1, <2>2, <3>1
  <2>3. CASE a = None /\ b = None /\ c # None
    <3>1. First(s) = s[3]
      BY <1>1, <2>3, FirstIs
    <3>2. QED
      BY <1>1, <2>3, <3>1
  <2>4. CASE a = None /\ b = None /\ c = None
    <3>1. First(s) = None
      BY <1>1, <2>4, FirstOfNone
    <3>2. QED
      BY <2>4, <3>1
  <2>5. QED
    BY <2>1, <2>2, <2>3, <2>4
<1>3. QED
  BY <1>2 DEF s
-----------------------------------------------------------------------------
(* A key of a profile as the file writes it, the profile before the         *)
(* defaults.                                                                *)
Written(p, key) == First(<<Get(given.profile[p], key), Get(given.defaults, key)>>)

(* Interpolation reaches two keys of a table.                               *)
LEMMA TableKept ==
    ASSUME NEW t, NEW vars_, t # NotATable
    PROVE  /\ DOMAIN InterpolatedProfile(t, vars_) = DOMAIN t
           /\ \A key : key \notin {"env", "steps"} => Get(InterpolatedProfile(t, vars_), key) = Get(t, key)
           /\ "env" \in DOMAIN t => InterpolatedProfile(t, vars_).env = InterpolatedEnv(t.env, vars_)
  BY DEF InterpolatedProfile, Get

(* The tables of a file that merges are tables, before and after.           *)
LEMMA MergedTables ==
    ASSUME Formed(given), Mergeable(Texts), NEW p \in DOMAIN given.profile
    PROVE  /\ given.defaults # NotATable /\ given.profile[p] # NotATable
           /\ DOMAIN Texts.defaults = DOMAIN given.defaults
           /\ DOMAIN Texts.profile[p] = DOMAIN given.profile[p]
           /\ \A key : key \notin {"env", "steps"} =>
                /\ Get(Texts.defaults, key) = Get(given.defaults, key)
                /\ Get(Texts.profile[p], key) = Get(given.profile[p], key)
<1>1. /\ Texts.profile[p] = InterpolatedProfile(given.profile[p], environ.vars)
      /\ Texts.defaults = InterpolatedProfile(given.defaults, environ.vars)
      /\ p \in DOMAIN Texts.profile
  BY WholeSections
<1>2. Texts.defaults # NotATable /\ Texts.profile[p] # NotATable
  BY <1>1 DEF Mergeable
<1>3. given.defaults # NotATable /\ given.profile[p] # NotATable
  BY <1>1, <1>2 DEF InterpolatedProfile
<1>4. QED
  BY <1>1, <1>3, TableKept

(* A default reaches a profile unless the mode has no use for it.           *)
LEMMA DefaultedKeys ==
    ASSUME NEW defaults, NEW env, NEW t, NEW key, key # "env"
    PROVE  LET mode == Get(MergedProfile(defaults, env, t), "mode")
           IN  /\ mode = Get(Shallow(defaults, t), "mode")
               /\ key \in DOMAIN MergedProfile(defaults, env, t) <=>
                    \/ key \in DOMAIN t
                    \/ key \in DOMAIN defaults /\ (mode = None \/ KeyAppliesToMode(key, mode))
               /\ key \in DOMAIN MergedProfile(defaults, env, t) =>
                    MergedProfile(defaults, env, t)[key] = Shallow(defaults, t)[key]
<1> DEFINE all == Shallow(defaults, t)
           merged == MergedProfile(defaults, env, t)
           strip == Stripped(defaults, t)
<1>1. DOMAIN all = DOMAIN defaults \cup DOMAIN t
  BY DEF Shallow
<1>2. \A k : k # "env" =>
        /\ k \in DOMAIN merged <=> k \in DOMAIN all \ strip
        /\ k \in DOMAIN all \ strip => merged[k] = all[k]
  BY DEF MergedProfile, Defaulted
<1>3. \A k : k \in strip <=>
        /\ k \in DOMAIN defaults \ DOMAIN t
        /\ Get(all, "mode") # None /\ ~KeyAppliesToMode(k, Get(all, "mode"))
  BY DEF Stripped
<1>4. "mode" \notin strip
  BY <1>3 DEF KeyAppliesToMode, CommonKeys
<1> HIDE DEF all, merged, strip
<1>5. Get(merged, "mode") = Get(all, "mode")
  BY <1>2, <1>4 DEF Get
<1>6. /\ key \in DOMAIN merged <=>
           \/ key \in DOMAIN t
           \/ key \in DOMAIN defaults /\ (Get(all, "mode") = None \/ KeyAppliesToMode(key, Get(all, "mode")))
      /\ key \in DOMAIN merged => merged[key] = all[key]
  BY <1>1, <1>2, <1>3
<1>7. QED
  BY <1>5, <1>6 DEF merged, all

(* No key a profile sets to nothing hides a default.                        *)
Kept ==
    \A p \in DOMAIN given.profile :
      given.profile[p] # NotATable /\ given.defaults # NotATable =>
        /\ given.defaults = Empty \/ Told(given.profile[p])
        /\ EnvShaped(OwnEnv(p))

(* What the loader leaves of a key the mode uses is what the file says.     *)
LEMMA WrittenKept ==
    ASSUME Formed(given), Kept, Mergeable(Texts), NEW p \in DOMAIN given.profile,
           NEW key, key \notin {"env", "steps"},
           \/ Get(Whole.profile[p], "mode") = None
           \/ KeyAppliesToMode(key, Get(Whole.profile[p], "mode"))
    PROVE  Get(Whole.profile[p], key) = Written(p, key)
<1> DEFINE d == Texts.defaults
           t == Texts.profile[p]
           merged == Whole.profile[p]
<1>1. merged = MergedProfile(d, Texts.env, t)
  BY WholeSections
<1>2. /\ key \in DOMAIN merged <=> key \in DOMAIN t \cup DOMAIN d
      /\ key \in DOMAIN merged => merged[key] = Shallow(d, t)[key]
  BY <1>1, DefaultedKeys
<1>3. /\ given.profile[p] # NotATable /\ given.defaults # NotATable
      /\ DOMAIN d = DOMAIN given.defaults /\ DOMAIN t = DOMAIN given.profile[p]
      /\ Get(d, key) = Get(given.defaults, key) /\ Get(t, key) = Get(given.profile[p], key)
  BY MergedTables
<1>4. Written(p, key) = IF Get(t, key) # None THEN Get(t, key) ELSE Get(d, key)
  BY <1>3, FirstOfTwo DEF Written
<1>5. key \in DOMAIN t => t[key] # None \/ key \notin DOMAIN d
  <2>1. given.defaults = Empty => key \notin DOMAIN d
    BY <1>3 DEF Empty
  <2>2. key \in DOMAIN t => t[key] = given.profile[p][key]
    BY <1>3 DEF Get
  <2>3. QED
    BY <1>3, <2>1, <2>2 DEF Kept, Told
<1> HIDE DEF d, t, merged
<1>6. CASE key \in DOMAIN t
  <2>1. merged[key] = t[key] /\ key \in DOMAIN merged
    BY <1>2, <1>6 DEF Shallow
  <2>2. Get(merged, key) = t[key] /\ Get(t, key) = t[key]
    BY <1>6, <2>1 DEF Get
  <2>3. t[key] = None => Get(d, key) = None
    BY <1>5, <1>6 DEF Get
  <2>4. QED
    BY <1>4, <2>2, <2>3 DEF merged
<1>7. CASE key \notin DOMAIN t /\ key \in DOMAIN d
  <2>1. merged[key] = d[key] /\ key \in DOMAIN merged
    BY <1>2, <1>7 DEF Shallow
  <2>2. QED
    BY <1>4, <1>7, <2>1 DEF Get, merged
<1>8. CASE key \notin DOMAIN t /\ key \notin DOMAIN d
  BY <1>2, <1>4, <1>8 DEF Get, merged
<1>9. QED
  BY <1>6, <1>7, <1>8

(* The two tables of the keys of a mode agree.                              *)
LEMMA AllowlistIsWire ==
    ASSUME NEW mode \in Modes, NEW key, key # "mode"
    PROVE  KeyAppliesToMode(key, mode) <=> key \in Wire(mode)
<1>1. mode \in Modes => (KeyAppliesToMode(key, mode) <=> key \in CommonKeys \cup ModeSpecificKeys(mode))
  BY DEF KeyAppliesToMode
<1>2. key \in CommonKeys <=> key \in CommonWire
  BY DEF CommonKeys, CommonWire
<1>3. CASE mode = "fuzz"
  BY <1>1, <1>2, <1>3 DEF ModeSpecificKeys, Wire, FuzzWire
<1>4. CASE mode = "invariant"
  BY <1>1, <1>2, <1>4 DEF ModeSpecificKeys, Wire, InvariantWire
<1>5. CASE mode = "endurance"
  BY <1>1, <1>2, <1>5 DEF ModeSpecificKeys, Wire, EnduranceWire
<1>6. CASE mode = "scenario"
  BY <1>1, <1>2, <1>6 DEF ModeSpecificKeys, Wire, ScenarioWire
<1>7. QED
  BY <1>3, <1>4, <1>5, <1>6 DEF Modes

(* The allowlist and the wire structs agree at the merge, and the driver is *)
(* handed the keys as the file wrote them.                                  *)
LEMMA DefaultsReachWhereReached ==
    ASSUME DocInv, StageInv, Formed(given), Kept
    PROVE  DefaultsReachTheirModes
<1>1. ASSUME pc = "merged", NEW p \in DOMAIN doc.profile,
             Get(doc.profile[p], "mode") \in Modes,
             NEW key \in DOMAIN given.defaults \ (DOMAIN given.profile[p] \cup {"mode", "env"})
      PROVE  key \in DOMAIN doc.profile[p] <=> key \in Wire(Get(doc.profile[p], "mode"))
  <2>1. doc = Whole /\ Mergeable(Texts)
    BY <1>1 DEF DocInv, AtFile, AtTexts, AtMerge
  <2>2. p \in DOMAIN given.profile /\ doc.profile[p] = MergedProfile(Texts.defaults, Texts.env, Texts.profile[p])
    BY <2>1, WholeSections
  <2>3. DOMAIN Texts.defaults = DOMAIN given.defaults /\ DOMAIN Texts.profile[p] = DOMAIN given.profile[p]
    BY <2>1, <2>2, MergedTables
  <2> DEFINE mode == Get(doc.profile[p], "mode")
  <2>4. key \in DOMAIN doc.profile[p] <=> mode = None \/ KeyAppliesToMode(key, mode)
    BY <1>1, <2>2, <2>3, DefaultedKeys
  <2>5. mode # None
    BY <1>1, ConfigAssumption
  <2>6. QED
    BY <1>1, <2>4, <2>5, AllowlistIsWire
<1>2. ASSUME pc = "driven", args.command = "run"
      PROVE  /\ drive.resolved.every = First(<<args.every, Written(profile, "check_every"), 1>>)
             /\ "ops" \in DOMAIN drive.args =>
                  drive.args.ops =
                    First(<<args.ops, Parsed(environ.ops),
                            Written(profile, IF doc.profile[profile].mode = "endurance"
                                               THEN "max_ops" ELSE "ops")>>)
  <2> DEFINE t == doc.profile[profile]
  <2>1. /\ pc \in AtLoad /\ profile \in DOMAIN doc.profile
        /\ drive.resolved = ResolvedProfile(t, RunOptions)
        /\ drive.args = DriverArgs(Harnessed, t, RunOptions)
    BY <1>2 DEF StageInv, AtLoad, Chosen, Admitted, Resolving, Building, Driving
  <2>2. /\ profile \in DOMAIN given.profile /\ t = Whole.profile[profile] /\ Mergeable(Texts)
        /\ "mode" \in DOMAIN t /\ t.mode \in Modes
    BY <2>1, LoadedDocument, ModeIsKnown
  <2>3. Get(Whole.profile[profile], "mode") = t.mode
    BY <2>2 DEF Get
  <2>4. RunOptions.every = args.every /\ RunOptions.ops = First(<<args.ops, Parsed(environ.ops)>>)
    BY <1>2 DEF RunOptions
  <2>5. Get(t, "check_every") = Written(profile, "check_every")
    <3>1. KeyAppliesToMode("check_every", t.mode)
      BY DEF KeyAppliesToMode, CommonKeys
    <3>2. QED
      BY <2>2, <2>3, <3>1, WrittenKept
  <2>6. t.mode \in {"fuzz", "invariant"} => Get(t, "ops") = Written(profile, "ops")
    <3>1. t.mode \in {"fuzz", "invariant"} => KeyAppliesToMode("ops", t.mode)
      BY DEF KeyAppliesToMode, ModeSpecificKeys
    <3>2. QED
      BY <2>2, <2>3, <3>1, WrittenKept
  <2>7. t.mode = "endurance" => Get(t, "max_ops") = Written(profile, "max_ops")
    <3>1. t.mode = "endurance" => KeyAppliesToMode("max_ops", t.mode)
      BY DEF KeyAppliesToMode, ModeSpecificKeys
    <3>2. QED
      BY <2>2, <2>3, <3>1, WrittenKept
  <2>8. \A w : First(<<RunOptions.ops, w>>) = First(<<args.ops, Parsed(environ.ops), w>>)
    BY <2>4, FirstOfTwo, FirstOfThree
  <2> HIDE DEF t
  <2>9. drive.resolved.every = First(<<args.every, Written(profile, "check_every"), 1>>)
    BY <2>1, <2>4, <2>5 DEF ResolvedProfile
  <2>10. CASE t.mode \in {"fuzz", "invariant"}
    <3>1. drive.args.ops = First(<<RunOptions.ops, Get(t, "ops")>>)
      BY <2>1, <2>10 DEF DriverArgs, SequenceArgs
    <3>2. QED
      BY <2>6, <2>8, <2>9, <2>10, <3>1 DEF t
  <2>11. CASE t.mode = "endurance"
    <3>1. drive.args.ops = First(<<RunOptions.ops, Get(t, "max_ops")>>)
      BY <2>1, <2>11 DEF DriverArgs, EnduranceArgs
    <3>2. QED
      BY <2>7, <2>8, <2>9, <2>11, <3>1 DEF t
  <2>12. CASE t.mode = "scenario"
    <3>1. "ops" \notin DOMAIN drive.args
      BY <2>1, <2>12 DEF DriverArgs, ScenarioArgs
    <3>2. QED
      BY <2>9, <3>1
  <2>13. QED
    BY <2>2, <2>10, <2>11, <2>12 DEF Modes
<1>3. QED
  BY <1>1, <1>2 DEF DefaultsReachTheirModes, Written
-----------------------------------------------------------------------------
(* A test was expanded from the file as it then was, which is the file as   *)
(* given unless it was edited.                                              *)
TestInv ==
    /\ pc = "source" => args.command = "test" /\ doc = given
    /\ test # None =>
         /\ args.command = "test"
         /\ test.case # None =>
              /\ test.case \in 0 .. (test.fan - 1)
              /\ ~test.edited /\ given.defaults # NotATable =>
                   Written(Tested, "mode") = "fuzz" /\ test.fan = Written(Tested, "cases")

(* The tests of an attribute that have run took the seed in the cell.       *)
AttributeInv ==
    pc = "tests" /\ FansOut(args.attribute) =>
      /\ \/ drive.cell = None /\ DOMAIN drive.seeds = {}
         \/ drive.cell \in AttributeSeeds(args.attribute, RandomSeeds)
      /\ \A case \in DOMAIN drive.seeds : drive.seeds[case] = SubSeed(drive.cell, case)

(* No test has started at first.                                            *)
LEMMA TestInvInit == Init => TestInv /\ AttributeInv
  BY DEF Init, TestInv, AttributeInv

(* A test keeps its case and the fan it was expanded with.                  *)
LEMMA TestInvStep ==
    ASSUME TestInv, [Next]_vars
    PROVE  TestInv'
<1>1. CASE Expand
  <2>1. pc = "source" /\ UNCHANGED args /\ args.command = "test" /\ doc = given
    BY <1>1 DEF Expand, TestInv
  <2>2. CASE pc' = "refused at source" /\ UNCHANGED <<test, doc, given>>
    BY <2>1, <2>2 DEF TestInv, Written, Tested
  <2>3. CASE pc' = "parsed"
    <3>1. PICK t \in Tests, d \in Revisions \cup {doc} :
             /\ test' = [fan |-> t.fan, case |-> t.case, edited |-> d # doc]
             /\ doc' = d /\ given' = d
      BY <1>1, <2>3 DEF Expand
    <3>2. ASSUME t.case # None
          PROVE  /\ t.case \in 0 .. (t.fan - 1)
                 /\ OwnOrDefault("mode") = "fuzz" /\ t.fan = OwnOrDefault("cases")
      BY <3>2 DEF Tests
    <3>3. ASSUME d = doc, given.defaults # NotATable, NEW key
          PROVE  Written(Tested, key)' = OwnOrDefault(key)
      BY <2>1, <3>1, <3>3, FirstOfTwo DEF Written, Tested, OwnOrDefault
    <3>4. ASSUME t.case # None, d = doc, given.defaults # NotATable
          PROVE  Written(Tested, "mode")' = "fuzz" /\ t.fan = Written(Tested, "cases")'
      BY <3>2, <3>3, <3>4
    <3>5. /\ test'.case = t.case /\ test'.fan = t.fan /\ (test'.edited <=> d # doc)
          /\ (d = doc => given' = given)
      BY <2>1, <3>1
    <3>6. QED
      BY <2>1, <2>3, <3>2, <3>4, <3>5 DEF TestInv
  <2>4. QED
    BY <1>1, <2>2, <2>3 DEF Expand
<1>2. ASSUME UNCHANGED <<args, test, given>>, pc' # "source" PROVE TestInv'
  <2>1. Tested' = Tested /\ \A p, key : Written(p, key)' = Written(p, key)
    BY <1>2 DEF Tested, Written
  <2>2. Written(Tested, "mode")' = Written(Tested, "mode") /\ Written(Tested, "cases")' = Written(Tested, "cases")
    BY <1>2 DEF Tested, Written
  <2>3. QED
    BY <1>2, <2>2 DEF TestInv
<1>3. CASE UNCHANGED vars
  <2>1. Written(Tested, "mode")' = Written(Tested, "mode") /\ Written(Tested, "cases")' = Written(Tested, "cases")
    BY <1>3 DEF vars, Tested, Written
  <2>2. QED
    BY <1>3, <2>1 DEF TestInv, vars
<1>4. CASE FailAndReplay
  BY <1>4 DEF FailAndReplay, TestInv
<1>5. CASE Interpolate \/ Merge \/ Deserialize \/ Validate
  BY <1>2, <1>5 DEF Interpolate, Merge, Deserialize, Validate, Stage
<1>6. CASE \/ Select \/ ValidateWithConfig \/ List \/ Describe \/ RunForTest \/ Admit \/ Resolve
           \/ Build \/ Drive \/ Pass
  BY <1>2, <1>6
  DEF Select, ValidateWithConfig, List, Describe, RunForTest, Admit, Resolve, Build, Drive, Pass
<1>7. CASE ExpandAttribute \/ RunAttributeTests
  BY <1>2, <1>7 DEF ExpandAttribute, RunAttributeTests, RunAttributeTest
<1>8. QED
  BY <1>1, <1>3, <1>4, <1>5, <1>6, <1>7 DEF Next, Done

(* The tests of an attribute share the base that the first of them drew.    *)
LEMMA AttributeInvStep ==
    ASSUME AttributeInv, [Next]_vars
    PROVE  AttributeInv'
<1> DEFINE a == args.attribute
           seeds == AttributeSeeds(a, RandomSeeds)
<1>1. CASE UNCHANGED vars
  BY <1>1 DEF vars, AttributeInv
<1>2. ASSUME pc' # "tests" PROVE AttributeInv'
  BY <1>2 DEF AttributeInv
<1>3. CASE Expand \/ Interpolate \/ Merge \/ Deserialize \/ Validate \/ FailAndReplay
  BY <1>2, <1>3 DEF Expand, Interpolate, Merge, Deserialize, Validate, Stage, FailAndReplay
<1>4. CASE \/ Select \/ ValidateWithConfig \/ List \/ Describe \/ RunForTest \/ Admit \/ Resolve
           \/ Build \/ Drive \/ Pass
  BY <1>2, <1>4
  DEF Select, ValidateWithConfig, List, Describe, RunForTest, Admit, Resolve, Build, Drive, Pass
<1>5. CASE ExpandAttribute
  <2>1. pc' = "tests" => drive' = [cell |-> None, seeds |-> Empty]
    BY <1>5 DEF ExpandAttribute
  <2>2. pc' = "tests" => drive'.cell = None /\ DOMAIN drive'.seeds = {}
    BY <2>1 DEF Empty
  <2>3. QED
    BY <2>2 DEF AttributeInv
<1>6. CASE RunAttributeTests /\ FansOut(a)
  <2>1. PICK case \in AttributeTests(a) : RunAttributeTest(case)
    BY <1>6 DEF RunAttributeTests
  <2>2. PICK base \in IF drive.cell # None THEN {drive.cell} ELSE seeds :
          drive' = [cell |-> base,
                    seeds |-> Shallow(drive.seeds, [c \in {case} |-> SubSeed(base, c)])]
    BY <1>6, <2>1 DEF RunAttributeTest
  <2>3. pc = "tests" /\ UNCHANGED args
    BY <2>1 DEF RunAttributeTest
  <2>4. /\ \/ drive.cell = None /\ DOMAIN drive.seeds = {}
           \/ drive.cell \in seeds
        /\ \A c \in DOMAIN drive.seeds : drive.seeds[c] = SubSeed(drive.cell, c)
    BY <1>6, <2>3 DEF AttributeInv
  <2>5. base \in seeds /\ (DOMAIN drive.seeds # {} => base = drive.cell)
    <3>1. None \notin RandomSeeds
      <4>1. RandomSeeds \subseteq Nat /\ None \notin Int
        BY ConfigAssumption
      <4>2. \A n \in RandomSeeds : n \in Int
        BY <4>1
      <4>3. QED
        BY <4>1, <4>2
    <3>2. seeds = RandomSeeds \/ seeds = {a.seed}
      BY DEF AttributeSeeds
    <3> HIDE DEF seeds
    <3>3. QED
      BY <2>2, <2>4, <3>1, <3>2
  <2>6. /\ drive'.cell = base /\ DOMAIN drive'.seeds = DOMAIN drive.seeds \cup {case}
        /\ \A c \in DOMAIN drive'.seeds :
             drive'.seeds[c] = IF c = case THEN SubSeed(base, c) ELSE drive.seeds[c]
    BY <2>2 DEF Shallow
  <2>7. \A c \in DOMAIN drive'.seeds : drive'.seeds[c] = SubSeed(drive'.cell, c)
    BY <2>4, <2>5, <2>6
  <2>8. QED
    BY <2>3, <2>5, <2>6, <2>7 DEF AttributeInv
<1>7. CASE RunAttributeTests /\ ~FansOut(a)
  BY <1>7 DEF RunAttributeTests, RunAttributeTest, AttributeInv
<1>8. QED
  BY <1>1, <1>3, <1>4, <1>5, <1>6, <1>7 DEF Next, Done

(* A case that drives is a case of the file as it is now.                   *)
LEMMA CasesWhereReached ==
    ASSUME DocInv, StageInv, TestInv, AttributeInv, Formed(given), Kept
    PROVE  TestsRunCasesOfTheRun
<1>1. ASSUME pc = "tests", FansOut(args.attribute)
      PROVE  \E base \in AttributeSeeds(args.attribute, RandomSeeds) :
               \A case \in DOMAIN drive.seeds : drive.seeds[case] = SubSeed(base, case)
  <2>1. CASE drive.cell \in AttributeSeeds(args.attribute, RandomSeeds)
    BY <1>1, <2>1 DEF AttributeInv
  <2>2. CASE DOMAIN drive.seeds = {}
    <3>1. AttributeSeeds(args.attribute, RandomSeeds) # {}
      BY ConfigAssumption DEF AttributeSeeds
    <3>2. QED
      BY <2>2, <3>1
  <2>3. QED
    BY <1>1, <2>1, <2>2 DEF AttributeInv
<1>2. ASSUME test # None, test.case # None, pc = "driven"
      PROVE  /\ test.fan = doc.profile[profile].cases
             /\ \E s \in BaseSeeds, c \in 0 .. (doc.profile[profile].cases - 1) :
                  drive.seed = SubSeed(s, c)
  <2>1. Selects /\ request.seed \in RunSeeds /\ drive.seed = request.seed
    BY <1>2 DEF StageInv, Chosen, Admitted, Resolving, Building, Driving
  <2>2. args.command = "test"
    BY <1>2 DEF TestInv
  <2>3. Testable /\ SameCases /\ profile = Tested
    BY <2>1, <2>2, AloneIsItself DEF Selects, profile
  <2>4. doc.profile[profile].mode = "fuzz" /\ doc.profile[profile].cases = test.fan
    BY <1>2, <2>3 DEF Testable, SameCases
  <2>5. PICK s \in BaseSeeds : request.seed = SubSeed(s, test.case)
    BY <1>2, <2>1, <2>4 DEF RunSeeds
  <2>6. test.case \in 0 .. (test.fan - 1)
    BY <1>2 DEF TestInv
  <2>7. QED
    BY <2>1, <2>4, <2>5, <2>6
<1>3. ASSUME test # None, pc = "refused at counted", ~test.edited
      PROVE  FALSE
  <2>1. Testable /\ ~SameCases /\ pc \in AtLoad
    BY <1>3 DEF StageInv, AtLoad
  <2>2. /\ test.case # None /\ Tested \in DOMAIN doc.profile
        /\ doc.profile[Tested].mode = "fuzz" /\ doc.profile[Tested].cases # test.fan
    BY <2>1 DEF Testable, SameCases
  <2>3. /\ Tested \in DOMAIN given.profile /\ Mergeable(Texts) /\ doc.profile = Whole.profile
        /\ "mode" \in DOMAIN doc.profile[Tested] /\ "cases" \in DOMAIN doc.profile[Tested]
    BY <2>1, <2>2, LoadedDocument, ModeIsKnown DEF Required
  <2>4. KeyAppliesToMode("cases", "fuzz")
    BY DEF KeyAppliesToMode, ModeSpecificKeys
  <2>5. Get(Whole.profile[Tested], "mode") = "fuzz"
    BY <2>2, <2>3 DEF Get
  <2>6. Get(Whole.profile[Tested], "cases") = Written(Tested, "cases")
    BY <2>3, <2>4, <2>5, WrittenKept
  <2>7. given.defaults # NotATable
    BY <2>3, MergedTables
  <2>8. test.fan = Written(Tested, "cases")
    BY <1>3, <2>2, <2>7 DEF TestInv
  <2>9. QED
    BY <2>2, <2>3, <2>6, <2>8 DEF Get
<1>4. QED
  BY <1>1, <1>2, <1>3 DEF TestsRunCasesOfTheRun
-----------------------------------------------------------------------------
(* What the first of an order that speaks says.                             *)
Speaker(order) ==
    order[CHOOSE n \in DOMAIN order : order[n] # None /\ \A k \in 1 .. (n - 1) : order[k] = None]

(* Precedence in two levels is precedence in one.                           *)
LEMMA Flattened ==
    ASSUME NEW a, NEW b, NEW c, NEW d, NEW e, NEW f, NEW g, NEW h, h # None
    PROVE  First(<<a, First(<<b, c>>), d, e, First(<<f, g>>), h>>) = Speaker(<<a, b, c, d, e, f, g, h>>)
<1> DEFINE order == <<a, b, c, d, e, f, g, h>>
           pair == First(<<b, c>>)
           last == First(<<f, g>>)
           six == <<a, pair, d, e, last, h>>
           Speaks(n) == order[n] # None /\ \A k \in 1 .. (n - 1) : order[k] = None
           speaks == CHOOSE n \in DOMAIN order : Speaks(n)
<1>1. /\ DOMAIN order = 1 .. 8 /\ order[1] = a /\ order[2] = b /\ order[3] = c /\ order[4] = d
      /\ order[5] = e /\ order[6] = f /\ order[7] = g /\ order[8] = h
  OBVIOUS
<1>2. /\ DOMAIN six = 1 .. 6 /\ six[1] = a /\ six[2] = pair /\ six[3] = d /\ six[4] = e
      /\ six[5] = last /\ six[6] = h
  OBVIOUS
<1>3. pair = (IF b # None THEN b ELSE c) /\ last = (IF f # None THEN f ELSE g)
  BY FirstOfTwo
<1> HIDE DEF order, pair, last, six
<1>4. ASSUME NEW n \in 1 .. 8, Speaks(n) PROVE order[speaks] = order[n]
  <2>1. speaks \in 1 .. 8 /\ Speaks(speaks)
    <3> HIDE DEF Speaks
    <3>1. QED
      BY <1>1, <1>4
  <2> HIDE DEF speaks
  <2>2. \A k \in 1 .. 8 : k < n => order[k] = None
    BY <1>4
  <2>3. \A k \in 1 .. 8 : k < speaks => order[k] = None
    BY <2>1
  <2>4. speaks = n
    BY <1>4, <2>1, <2>2, <2>3
  <2>5. QED
    BY <2>4
<1>5. First(six) = order[speaks]
  <2> HIDE DEF speaks
  <2>1. CASE a # None
    <3>1. Speaks(1)
      BY <1>1, <2>1
    <3>2. First(six) = six[1]
      BY <1>2, <2>1, FirstIs
    <3>3. QED
      BY <1>1, <1>2, <1>4, <3>1, <3>2
  <2>2. CASE a = None /\ pair # None
    <3>1. First(six) = six[2]
      BY <1>2, <2>2, FirstIs
    <3>2. CASE b # None
      <4>1. Speaks(2)
        BY <1>1, <2>2, <3>2
      <4>2. QED
        BY <1>1, <1>2, <1>3, <1>4, <3>1, <3>2, <4>1
    <3>3. CASE b = None
      <4>1. Speaks(3)
        BY <1>1, <1>3, <2>2, <3>3
      <4>2. QED
        BY <1>1, <1>2, <1>3, <1>4, <3>1, <3>3, <4>1
    <3>4. QED
      BY <3>2, <3>3
  <2>3. CASE a = None /\ pair = None /\ d # None
    <3>1. Speaks(4)
      BY <1>1, <1>3, <2>3
    <3>2. First(six) = six[3]
      BY <1>2, <2>3, FirstIs
    <3>3. QED
      BY <1>1, <1>2, <1>4, <3>1, <3>2
  <2>4. CASE a = None /\ pair = None /\ d = None /\ e # None
    <3>1. Speaks(5)
      BY <1>1, <1>3, <2>4
    <3>2. First(six) = six[4]
      BY <1>2, <2>4, FirstIs
    <3>3. QED
      BY <1>1, <1>2, <1>4, <3>1, <3>2
  <2>5. CASE a = None /\ pair = None /\ d = None /\ e = None /\ last # None
    <3>1. First(six) = six[5]
      BY <1>2, <2>5, FirstIs
    <3>2. CASE f # None
      <4>1. Speaks(6)
        BY <1>1, <1>3, <2>5, <3>2
      <4>2. QED
        BY <1>1, <1>2, <1>3, <1>4, <3>1, <3>2, <4>1
    <3>3. CASE f = None
      <4>1. Speaks(7)
        BY <1>1, <1>3, <2>5, <3>3
      <4>2. QED
        BY <1>1, <1>2, <1>3, <1>4, <3>1, <3>3, <4>1
    <3>4. QED
      BY <3>2, <3>3
  <2>6. CASE a = None /\ pair = None /\ d = None /\ e = None /\ last = None
    <3>1. Speaks(8)
      BY <1>1, <1>3, <2>6
    <3>2. First(six) = six[6]
      BY <1>2, <2>6, FirstIs
    <3>3. QED
      BY <1>1, <1>2, <1>4, <3>1, <3>2
  <2>7. QED
    BY <2>1, <2>2, <2>3, <2>4, <2>5, <2>6
<1>6. QED
  BY <1>5 DEF order, pair, last, six, Speaker

(* Interpolation reaches the parameters of an env.                          *)
LEMMA EnvKept ==
    ASSUME NEW env, NEW vars_
    PROVE  /\ DOMAIN InterpolatedEnv(env, vars_) = DOMAIN env
           /\ \A key \in DOMAIN env \ {"params"} : InterpolatedEnv(env, vars_)[key] = env[key]
  BY DEF InterpolatedEnv

(* The env of a loaded profile is its own over the top-level one.           *)
LEMMA EffectiveIsMerged ==
    ASSUME Formed(given), Mergeable(Texts), NEW file, file.profile = Whole.profile, file.env = Texts.env,
           NEW p \in DOMAIN given.profile
    PROVE  /\ DOMAIN EffectiveEnv(file, p) = DOMAIN given.env \cup DOMAIN OwnEnv(p)
           /\ \A key \in (DOMAIN given.env \cup DOMAIN OwnEnv(p)) \ {"params"} :
                EffectiveEnv(file, p)[key] =
                  IF key \notin DOMAIN OwnEnv(p) THEN given.env[key]
                  ELSE IF key \notin DOMAIN given.env THEN OwnEnv(p)[key]
                  ELSE MergeEnvEntry(key, given.env[key], OwnEnv(p)[key])
<1> DEFINE d == Texts.defaults
           t == Texts.profile[p]
           top == Texts.env
           own == InterpolatedEnv(OwnEnv(p), environ.vars)
           both == Defaulted(d, t)
           effective == IF "env" \in DOMAIN both THEN MergeEnvTables(top, both.env) ELSE top
           merged == MergedProfile(d, top, t)
<1>1. /\ file.profile[p] = merged /\ top = InterpolatedEnv(given.env, environ.vars)
      /\ d = InterpolatedProfile(given.defaults, environ.vars)
      /\ t = InterpolatedProfile(given.profile[p], environ.vars)
  BY WholeSections
<1>2. /\ given.defaults # NotATable /\ given.profile[p] # NotATable
      /\ DOMAIN d = DOMAIN given.defaults /\ DOMAIN t = DOMAIN given.profile[p]
  BY MergedTables
<1>3. /\ "env" \in DOMAIN both <=> "env" \in DOMAIN t \cup DOMAIN d
      /\ "env" \in DOMAIN both => both.env = IF "env" \in DOMAIN t THEN t.env ELSE d.env
  <2>1. "env" \notin Stripped(d, t)
    BY DEF Stripped, KeyAppliesToMode, CommonKeys
  <2>2. QED
    BY <2>1 DEF Defaulted, Shallow
<1>4. /\ "env" \in DOMAIN t => t.env = InterpolatedEnv(given.profile[p].env, environ.vars)
      /\ "env" \in DOMAIN d => d.env = InterpolatedEnv(given.defaults.env, environ.vars)
  BY <1>1, <1>2, TableKept
<1>5. /\ "env" \in DOMAIN both => both.env = own
      /\ "env" \notin DOMAIN both => DOMAIN OwnEnv(p) = {}
  BY <1>2, <1>3, <1>4 DEF OwnEnv, Empty
<1>6. /\ "env" \in DOMAIN merged <=> DOMAIN effective # {}
      /\ "env" \in DOMAIN merged => merged.env = effective
  BY DEF MergedProfile
<1>7. /\ DOMAIN top = DOMAIN given.env /\ DOMAIN own = DOMAIN OwnEnv(p)
      /\ \A key \in DOMAIN given.env \ {"params"} : top[key] = given.env[key]
      /\ \A key \in DOMAIN OwnEnv(p) \ {"params"} : own[key] = OwnEnv(p)[key]
  BY <1>1, EnvKept
<1> HIDE DEF d, t, top, own, both, merged
<1>8. /\ DOMAIN effective = DOMAIN given.env \cup DOMAIN OwnEnv(p)
      /\ \A key \in (DOMAIN given.env \cup DOMAIN OwnEnv(p)) \ {"params"} :
           effective[key] =
             IF key \notin DOMAIN OwnEnv(p) THEN given.env[key]
             ELSE IF key \notin DOMAIN given.env THEN OwnEnv(p)[key]
             ELSE MergeEnvEntry(key, given.env[key], OwnEnv(p)[key])
  <2>1. CASE "env" \in DOMAIN both
    <3>1. effective = MergeEnvTables(top, own)
      BY <1>5, <2>1
    <3> HIDE DEF effective
    <3>2. DOMAIN effective = DOMAIN top \cup DOMAIN own
      BY <3>1 DEF MergeEnvTables
    <3>3. \A key \in DOMAIN top \cup DOMAIN own :
            effective[key] = IF key \notin DOMAIN own THEN top[key]
                             ELSE IF key \notin DOMAIN top THEN own[key]
                             ELSE MergeEnvEntry(key, top[key], own[key])
      BY <3>1 DEF MergeEnvTables
    <3>4. QED
      BY <1>7, <3>2, <3>3
  <2>2. CASE "env" \notin DOMAIN both
    BY <1>5, <1>7, <2>2
  <2>3. QED
    BY <2>1, <2>2
<1> HIDE DEF effective
<1>9. EffectiveEnv(file, p) = IF DOMAIN effective # {} THEN effective ELSE top
  BY <1>1, <1>6 DEF EffectiveEnv, top
<1>10. CASE DOMAIN effective # {}
  BY <1>8, <1>9, <1>10
<1>11. CASE DOMAIN effective = {}
  BY <1>7, <1>8, <1>9, <1>11
<1>12. QED
  BY <1>10, <1>11

(* An env a profile has is a table.                                         *)
LEMMA OwnEnvIsTable ==
    ASSUME Formed(given), Kept, Mergeable(Texts), NEW p \in DOMAIN given.profile
    PROVE  /\ Told(OwnEnv(p))
           /\ "targets" \in DOMAIN OwnEnv(p) => Told(OwnEnv(p).targets)
<1> DEFINE d == Texts.defaults
           t == Texts.profile[p]
           own == OwnEnv(p)
<1>1. /\ p \in DOMAIN Texts.profile
      /\ d = InterpolatedProfile(given.defaults, environ.vars)
      /\ t = InterpolatedProfile(given.profile[p], environ.vars)
  BY WholeSections
<1>2. /\ given.defaults # NotATable /\ given.profile[p] # NotATable
      /\ DOMAIN d = DOMAIN given.defaults /\ DOMAIN t = DOMAIN given.profile[p]
  BY MergedTables
<1>3. CASE "env" \in DOMAIN t \cup DOMAIN d
  <2>1. "env" \notin Stripped(d, t)
    BY DEF Stripped, KeyAppliesToMode, CommonKeys
  <2>2. Get(Defaulted(d, t), "env") = IF "env" \in DOMAIN t THEN t.env ELSE d.env
    BY <1>3, <2>1 DEF Defaulted, Shallow, Get
  <2>3. Get(Defaulted(d, t), "env") # NotATable
    BY <1>1 DEF Mergeable
  <2>4. Get(Defaulted(d, t), "env") = InterpolatedEnv(own, environ.vars)
    BY <1>1, <1>2, <1>3, <2>2, TableKept DEF OwnEnv
  <2>5. own # NotATable
    BY <2>3, <2>4 DEF InterpolatedEnv, TextsOfEnv
  <2>6. EnvShaped(own)
    BY <1>2 DEF Kept
  <2>7. QED
    BY <2>5, <2>6 DEF EnvShaped
<1>4. CASE "env" \notin DOMAIN t \cup DOMAIN d
  BY <1>2, <1>4 DEF OwnEnv, Empty, Told
<1>5. QED
  BY <1>3, <1>4

(* Of a key, and of a label in the targets, the profile's word comes first. *)
LEMMA EffectiveSpeaks ==
    ASSUME Formed(given), Kept, Mergeable(Texts), doc.profile = Whole.profile, doc.env = Texts.env,
           NEW p \in DOMAIN given.profile
    PROVE  /\ Get(EffectiveEnv(doc, p), "target") =
                First(<<Get(OwnEnv(p), "target"), Get(given.env, "target")>>)
           /\ \A label : In(EffectiveEnv(doc, p), label) =
                First(<<In(OwnEnv(p), label), In(given.env, label)>>)
<1> DEFINE env == EffectiveEnv(doc, p)
           own == OwnEnv(p)
           top == given.env
<1>1. /\ DOMAIN env = DOMAIN top \cup DOMAIN own
      /\ \A key \in (DOMAIN top \cup DOMAIN own) \ {"params"} :
           env[key] = IF key \notin DOMAIN own THEN top[key]
                      ELSE IF key \notin DOMAIN top THEN own[key]
                      ELSE MergeEnvEntry(key, top[key], own[key])
  BY EffectiveIsMerged
<1>2. Told(own) /\ ("targets" \in DOMAIN own => Told(own.targets))
  BY OwnEnvIsTable
<1> HIDE DEF env, own, top
<1>3. Get(env, "target") = IF Get(own, "target") # None THEN Get(own, "target") ELSE Get(top, "target")
  BY <1>1, <1>2 DEF Get, Told, MergeEnvEntry
<1>4. ASSUME NEW label
      PROVE  In(env, label) = IF In(own, label) # None THEN In(own, label) ELSE In(top, label)
  <2>1. CASE "targets" \in DOMAIN own /\ "targets" \in DOMAIN top
    <3>1. "targets" \in DOMAIN env /\ env.targets = Shallow(top.targets, own.targets)
      BY <1>1, <2>1 DEF MergeEnvEntry
    <3>2. Get(env.targets, label) =
            IF Get(own.targets, label) # None THEN Get(own.targets, label) ELSE Get(top.targets, label)
      BY <1>2, <2>1, <3>1 DEF Get, Told, Shallow
    <3>3. QED
      BY <2>1, <3>1, <3>2 DEF In
  <2>2. CASE "targets" \in DOMAIN own /\ "targets" \notin DOMAIN top
    BY <1>1, <2>2 DEF In
  <2>3. CASE "targets" \notin DOMAIN own
    BY <1>1, <2>3 DEF In
  <2>4. QED
    BY <2>1, <2>2, <2>3
<1>5. QED
  BY <1>3, <1>4, FirstOfTwo DEF env, own, top

(* Labels tell the declarations apart, of the file and of the document.     *)
LEMMA LabelsApart ==
    ASSUME DocInv, Formed(given), pc \in AtLoad
    PROVE  /\ \A i, j \in DOMAIN given.chain : given.chain[i].label = given.chain[j].label => i = j
           /\ \A i, j \in DOMAIN Texts.chain : Texts.chain[i].label = Texts.chain[j].label => i = j
<1>1. ChainsValid(Whole) /\ Whole.chain = Texts.chain
  BY LoadedDocument, WholeSections DEF DocumentAccepted
<1>2. \A i, j \in DOMAIN Texts.chain : Texts.chain[i].label = Texts.chain[j].label => i = j
  BY <1>1 DEF ChainsValid
<1>3. "label" \in ChainFields \ {"rpc_url"}
  BY DEF ChainFields
<1>4. /\ DOMAIN Texts.chain = DOMAIN given.chain
      /\ \A i \in DOMAIN given.chain : Texts.chain[i].label = given.chain[i].label
  BY <1>3, ChainKept
<1>5. QED
  BY <1>2, <1>4

(* The flags that count are those of the command line: a test has none.     *)
LEMMA FlagsAreArgs ==
    ASSUME StageInv, ArgsShaped(args), pc \in Chosen
    PROVE  Overrides.target = args.target /\ Overrides.targetChain = args.targetChain
<1>1. CASE args.command = "test"
  BY <1>1 DEF ArgsShaped, Overrides, NoOverrides
<1>2. CASE args.command # "test"
  BY <1>2 DEF Overrides
<1>3. QED
  BY <1>1, <1>2

(* The eight words on a chain's target, through both merges.                *)
LEMMA PrecedenceWhereReached ==
    ASSUME DocInv, StageInv, Formed(given), Kept, ArgsShaped(args)
    PROVE  TargetsFollowThePrecedence
<1> SUFFICES ASSUME pc = "resolved", NEW i \in DOMAIN request.specs
             PROVE  LET spec == request.specs[i]
                        decl == CHOOSE j \in DOMAIN given.chain : given.chain[j].label = spec.label
                        order == <<Get(args.targetChain, spec.label), In(OwnEnv(profile), spec.label),
                                   In(given.env, spec.label), given.chain[decl].target, args.target,
                                   Get(OwnEnv(profile), "target"), Get(given.env, "target"), "mock">>
                        speaks == CHOOSE n \in DOMAIN order :
                                    order[n] # None /\ \A k \in 1 .. (n - 1) : order[k] = None
                    IN  spec.target = order[speaks]
  BY DEF TargetsFollowThePrecedence
<1> DEFINE env == EffectiveEnv(doc, profile)
           spec == request.specs[i]
           decl == CHOOSE j \in DOMAIN given.chain : given.chain[j].label = spec.label
<1>1. /\ pc \in AtLoad /\ pc \in Chosen /\ profile \in DOMAIN doc.profile
      /\ request = SetupRequest(env, doc.chain, Overrides, request.seed)
  BY DEF StageInv, AtLoad, Chosen, Admitted, Resolving
<1>2. /\ doc.chain = Texts.chain /\ doc.env = Texts.env /\ doc.profile = Whole.profile
      /\ Mergeable(Texts) /\ profile \in DOMAIN given.profile
  BY <1>1, LoadedDocument
<1>3. request.specs = ChainSpecs(env, Texts.chain, Overrides)
  BY <1>1, <1>2 DEF SetupRequest
<1>4. PICK j \in DOMAIN Texts.chain : spec = ChainSpec(Texts.chain[j], env, Overrides)
  BY <1>3, SpecsAreDeclared
<1>5. /\ j \in DOMAIN given.chain /\ DOMAIN Texts.chain[j] = ChainFields
      /\ Texts.chain[j].label = given.chain[j].label /\ Texts.chain[j].target = given.chain[j].target
  <2>1. {"label", "target"} \subseteq ChainFields \ {"rpc_url"}
    BY DEF ChainFields
  <2>2. QED
    BY <2>1, ChainKept
<1>6. /\ spec.label = given.chain[j].label
      /\ spec.target = ResolveChainTarget(given.chain[j].label, given.chain[j].target, env, Overrides)
  <2>1. SpecFrom(spec, Texts.chain[j], env, Overrides)
    BY <1>4, <1>5, SpecOf, Zenon
  <2>2. "label" \in ChainFields \ {"target", "adjustment", "symbol"}
    BY DEF ChainFields
  <2> HIDE DEF spec, env
  <2>3. QED
    BY <1>5, <2>1, <2>2 DEF SpecFrom
<1>7. decl = j
  <2> HIDE DEF spec
  <2>1. \A k \in DOMAIN given.chain : given.chain[k].label = spec.label => k = j
    BY <1>1, <1>5, <1>6, LabelsApart
  <2>2. QED
    BY <1>5, <1>6, <2>1
<1>8. spec.target =
        First(<<Get(args.targetChain, spec.label),
                First(<<In(OwnEnv(profile), spec.label), In(given.env, spec.label)>>),
                given.chain[decl].target, args.target,
                First(<<Get(OwnEnv(profile), "target"), Get(given.env, "target")>>), "mock">>)
  <2>1. Overrides.target = args.target /\ Overrides.targetChain = args.targetChain
    BY <1>1, FlagsAreArgs
  <2>2. /\ Get(env, "target") = First(<<Get(OwnEnv(profile), "target"), Get(given.env, "target")>>)
        /\ In(env, spec.label) = First(<<In(OwnEnv(profile), spec.label), In(given.env, spec.label)>>)
    BY <1>2, EffectiveSpeaks
  <2> HIDE DEF spec, env, decl
  <2>3. spec.target = First(<<Get(args.targetChain, spec.label), In(env, spec.label),
                              given.chain[decl].target, args.target, Get(env, "target"), "mock">>)
    BY <1>6, <1>7, <2>1 DEF ResolveChainTarget, In
  <2>4. QED
    BY <2>2, <2>3
<1>9. "mock" # None
  BY ConfigAssumption DEF Targets
<1> HIDE DEF spec, decl
<1>10. spec.target =
         Speaker(<<Get(args.targetChain, spec.label), In(OwnEnv(profile), spec.label),
                   In(given.env, spec.label), given.chain[decl].target, args.target,
                   Get(OwnEnv(profile), "target"), Get(given.env, "target"), "mock">>)
  <2> DEFINE a == Get(args.targetChain, spec.label)
             b == In(OwnEnv(profile), spec.label)
             c == In(given.env, spec.label)
             d == given.chain[decl].target
             e == args.target
             f == Get(OwnEnv(profile), "target")
             g == Get(given.env, "target")
  <2>1. spec.target = First(<<a, First(<<b, c>>), d, e, First(<<f, g>>), "mock">>)
    BY <1>8
  <2> HIDE DEF a, b, c, d, e, f, g
  <2>2. First(<<a, First(<<b, c>>), d, e, First(<<f, g>>), "mock">>) =
          Speaker(<<a, b, c, d, e, f, g, "mock">>)
    BY <1>9, Flattened
  <2>3. spec.target = Speaker(<<a, b, c, d, e, f, g, "mock">>)
    BY <2>1, <2>2
  <2>4. QED
    BY <2>3 DEF a, b, c, d, e, f, g
<1>11. QED
  BY <1>10 DEF spec, decl, Speaker
-----------------------------------------------------------------------------
(* What a request that was driven says of its chains.                       *)
SpecSound(spec) ==
    /\ DOMAIN spec = ChainFields
    /\ spec.label # None /\ spec.kind \in Kinds /\ spec.target \in Targets
    /\ spec.target = "rpc" => spec.rpc_url # None
    /\ spec.adjustment # None /\ GasAdjustmentValid(spec)
    /\ spec.symbol = None => DefaultNativeSymbol(spec.kind) = None
    /\ ~MissingRequiredFields(spec)
    /\ Buildable(spec)

RequestSound(r) ==
    /\ r.target \in Targets /\ r.seed \in Nat
    /\ r.specs \in Seq(ToSet(r.specs))
    /\ \A i \in DOMAIN r.specs : SpecSound(r.specs[i])
    /\ \A i, j \in DOMAIN r.specs : r.specs[i].label = r.specs[j].label => i = j

(* Target flags repeat what they said of a request.                         *)
FlagsAgree(a, r) ==
    /\ a.target # None => r.target = a.target
    /\ \A i \in DOMAIN r.specs :
         Get(a.targetChain, r.specs[i].label) # None =>
           r.specs[i].target = Get(a.targetChain, r.specs[i].label)

(* In the second round the file is the artifact of the first.               *)
Replays ==
    /\ args.command = "run" /\ args.suite = None /\ args.profiles = {"replay"} /\ args.seed = None
    /\ RequestSound(first.request) /\ FlagsAgree(args, first.request)
    /\ first.chains = [i \in DOMAIN first.request.specs |-> BuildChain(first.request.specs[i])]
    /\ \A i \in DOMAIN first.history :
         LET op == first.history[i]
         IN  /\ op = Op(op.kind, op.data) /\ op.kind # NoData
             /\ Decodable(Registered[given.harness].ops, EncodeOp(op))
    /\ given.harness # None /\ given.harness \in DOMAIN Registered
    /\ given =
         [harness |-> given.harness, unknown |-> FALSE, defaults |-> Empty, suite |-> Empty,
          env |-> ArtifactEnv(first.request), chain |-> ArtifactChains(first.request),
          profile |-> [replay |->
            [mode |-> "scenario", seed |-> first.request.seed,
             steps |-> [i \in DOMAIN first.history |-> EncodeOp(first.history[i])]]]]

(* Where only the other commands come.                                      *)
NotOfARun ==
    {"source", "refused at source", "asked", "described", "refused at described", "attribute",
     "tests", "refused at expanded", "valid", "refused at validated", "listed", "refused at counted"}

InputInv ==
    /\ round \in {1, 2}
    /\ ArgsShaped(args) /\ EnvironShaped(environ)
    /\ round = 1 => Shaped(given)
    /\ round = 2 => Replays
    /\ pc \in NotOfARun => args.command # "run"

(* A spec keeps in the artifact what it has in the request.                 *)
LEMMA ArtifactChainKeeps ==
    ASSUME NEW spec, DOMAIN spec = ChainFields
    PROVE  /\ DOMAIN ArtifactChain(spec) = ChainFields
           /\ ArtifactChain(spec).transport = None /\ ArtifactChain(spec).batched = FALSE
           /\ \A field \in ChainFields \ {"transport", "batched"} :
                ArtifactChain(spec)[field] = spec[field]
  BY DEF ArtifactChain, ChainFields

(* Files and artifacts are documents.                                       *)
LEMMA GivenIsFormed ==
    ASSUME InputInv
    PROVE  Formed(given) /\ Kept
<1>1. CASE round = 1
  <2>1. Shaped(given)
    BY <1>1 DEF InputInv
  <2>2. Formed(given)
    BY <2>1 DEF Shaped, Formed
  <2>3. ASSUME NEW p \in DOMAIN given.profile, given.profile[p] # NotATable, given.defaults # NotATable
        PROVE  Told(given.profile[p]) /\ EnvShaped(OwnEnv(p))
    <3>1. TableShaped(given.profile[p]) /\ TableShaped(given.defaults)
      BY <2>1, <2>3 DEF Shaped
    <3>2. EnvShaped(Empty)
      BY DEF EnvShaped, Told, Empty
    <3>3. QED
      BY <2>3, <3>1, <3>2 DEF TableShaped, OwnEnv
  <2>4. QED
    BY <2>2, <2>3 DEF Kept
<1>2. CASE round = 2
  <2> DEFINE r == first.request
  <2>1. Replays
    BY <1>2 DEF InputInv
  <2>2. /\ DOMAIN given = DocFields /\ given.defaults = Empty /\ given.chain = ArtifactChains(r)
        /\ DOMAIN given.profile = {"replay"}
        /\ DOMAIN given.profile["replay"] = {"mode", "seed", "steps"}
    BY <2>1 DEF Replays, DocFields
  <2>3. r.specs \in Seq(ToSet(r.specs)) /\ \A i \in DOMAIN r.specs : SpecSound(r.specs[i])
    BY <2>1 DEF Replays, RequestSound
  <2> HIDE DEF r
  <2>4. /\ DOMAIN given.chain = DOMAIN r.specs
        /\ given.chain = [i \in DOMAIN r.specs |-> given.chain[i]]
        /\ \A i \in DOMAIN r.specs :
             DOMAIN given.chain[i] = ChainFields /\ given.chain[i].label # None
    <3>1. DOMAIN given.chain = DOMAIN r.specs
      BY <2>2 DEF ArtifactChains
    <3>2. \A i \in DOMAIN r.specs : given.chain[i] = ArtifactChain(r.specs[i])
      BY <2>2 DEF ArtifactChains
    <3>3. given.chain = [i \in DOMAIN r.specs |-> given.chain[i]]
      BY <2>2 DEF ArtifactChains
    <3>4. \A i \in DOMAIN r.specs : DOMAIN given.chain[i] = ChainFields /\ given.chain[i].label # None
      <4> SUFFICES ASSUME NEW i \in DOMAIN r.specs
                   PROVE  DOMAIN given.chain[i] = ChainFields /\ given.chain[i].label # None
        OBVIOUS
      <4>1. DOMAIN r.specs[i] = ChainFields /\ r.specs[i].label # None
        BY <2>3 DEF SpecSound
      <4>2. "label" \in ChainFields \ {"transport", "batched"}
        BY DEF ChainFields
      <4>3. QED
        BY <3>2, <4>1, <4>2, ArtifactChainKeeps
    <3>5. QED
      BY <3>1, <3>3, <3>4
  <2>5. PICK n \in Nat : DOMAIN r.specs = 1 .. n
    BY <2>3
  <2>6. given.chain \in Seq(ToSet(given.chain))
    <3> DEFINE c == given.chain
               S == ToSet(c)
    <3>1. c = [i \in 1 .. n |-> c[i]]
      BY <2>4, <2>5
    <3>2. \A i \in 1 .. n : c[i] \in S
      BY <2>4, <2>5 DEF ToSet
    <3> HIDE DEF c, S
    <3>3. c \in Seq(S)
      BY <3>1, <3>2
    <3>4. QED
      BY <3>3 DEF c, S
  <2>7. EnvShaped(OwnEnv("replay"))
    BY <2>2 DEF OwnEnv, EnvShaped, Told, Empty
  <2>8. QED
    BY <2>2, <2>4, <2>6, <2>7 DEF Formed, Kept
<1>3. QED
  BY <1>1, <1>2 DEF InputInv

(* The numbers of a file stay numbers.                                      *)
LEMMA NumbersKept ==
    ASSUME Formed(given), Shaped(given), Mergeable(Texts), NEW p \in DOMAIN given.profile
    PROVE  /\ "seed" \in DOMAIN Whole.profile[p] => Whole.profile[p].seed \in Int
           /\ "cases" \in DOMAIN Whole.profile[p] => Whole.profile[p].cases \in Nat
<1> DEFINE d == Texts.defaults
           t == Texts.profile[p]
           merged == Whole.profile[p]
<1>1. merged = MergedProfile(d, Texts.env, t)
  BY WholeSections
<1>2. \A key \in {"seed", "cases"} : key \in DOMAIN merged =>
        /\ key \in DOMAIN t \cup DOMAIN d
        /\ merged[key] = IF key \in DOMAIN t THEN t[key] ELSE d[key]
  <2>1. \A key \in {"seed", "cases"} :
          /\ key \in DOMAIN merged => key \in DOMAIN t \cup DOMAIN d
          /\ key \in DOMAIN merged => merged[key] = Shallow(d, t)[key]
    BY <1>1, DefaultedKeys
  <2>2. \A key \in DOMAIN t \cup DOMAIN d :
          Shallow(d, t)[key] = IF key \in DOMAIN t THEN t[key] ELSE d[key]
    BY DEF Shallow
  <2> HIDE DEF d, t, merged
  <2>3. QED
    BY <2>1, <2>2
<1>3. /\ given.profile[p] # NotATable /\ given.defaults # NotATable
      /\ DOMAIN d = DOMAIN given.defaults /\ DOMAIN t = DOMAIN given.profile[p]
      /\ \A key \in {"seed", "cases"} :
           Get(d, key) = Get(given.defaults, key) /\ Get(t, key) = Get(given.profile[p], key)
  BY MergedTables
<1>4. TableShaped(given.profile[p]) /\ TableShaped(given.defaults)
  BY DEF Shaped
<1> HIDE DEF d, t, merged
<1>5. \A key \in {"seed", "cases"} :
        /\ key \in DOMAIN d => d[key] = given.defaults[key] /\ key \in DOMAIN given.defaults
        /\ key \in DOMAIN t => t[key] = given.profile[p][key] /\ key \in DOMAIN given.profile[p]
  BY <1>3 DEF Get
<1>6. /\ "seed" \in DOMAIN merged => merged.seed \in Int
      /\ "cases" \in DOMAIN merged => merged.cases \in Nat
  BY <1>2, <1>3, <1>4, <1>5 DEF TableShaped
<1>7. QED
  BY <1>6 DEF merged

(* A run resolves to a seed that is a number.                               *)
LEMMA SeedsAreNumbers ==
    ASSUME DocInv, StageInv, TestInv, InputInv, round = 1, args.command = "run", pc \in Admitted
    PROVE  RunSeeds \subseteq Nat
<1> DEFINE t == doc.profile[profile]
<1>1. /\ pc \in AtLoad /\ profile \in DOMAIN doc.profile /\ Formed(given) /\ Shaped(given)
      /\ ArgsShaped(args) /\ EnvironShaped(environ)
  BY GivenIsFormed DEF StageInv, InputInv, AtLoad, Chosen
<1>2. /\ t = Whole.profile[profile] /\ profile \in DOMAIN given.profile /\ Mergeable(Texts)
      /\ Required(t.mode) \subseteq DOMAIN t
  BY <1>1, LoadedDocument
<1>3. /\ "seed" \in DOMAIN t => t.seed \in Int
      /\ "cases" \in DOMAIN t => t.cases \in Nat
  BY <1>1, <1>2, NumbersKept
<1>4. test = None
  BY DEF TestInv
<1> HIDE DEF t
<1>5. BaseSeeds \subseteq Nat
  <2> DEFINE asked == First(<<RunOptions.seed, Get(t, "seed"), 0>>)
  <2>1. Parsed(environ.seed) \in Int \cup {None}
    BY <1>1 DEF EnvironShaped, Parsed
  <2>2. RunOptions.seed = First(<<args.seed, Parsed(environ.seed)>>)
    BY DEF RunOptions
  <2>3. RunOptions.seed \in Int \cup {None}
    BY <1>1, <2>1, <2>2, FirstOfTwo DEF ArgsShaped
  <2>4. Get(t, "seed") \in Int \cup {None}
    BY <1>3 DEF Get
  <2>5. asked \in Int
    BY <2>3, <2>4, FirstOfThree
  <2>6. RandomSeeds \subseteq Nat
    BY ConfigAssumption
  <2>7. BaseSeeds = IF asked < 0 THEN RandomSeeds ELSE {asked}
    BY DEF BaseSeeds, t
  <2> HIDE DEF asked
  <2>8. QED
    BY <2>5, <2>6, <2>7
<1>6. CASE t.mode # "fuzz"
  BY <1>5, <1>6 DEF RunSeeds, t
<1>7. CASE t.mode = "fuzz"
  <2>1. RunOptions.cases \in Nat \cup {None}
    <3>1. RunOptions.cases =
            First(<<args.cases, Parsed(IF environ.cases # None THEN environ.cases ELSE environ.proptest)>>)
      BY DEF RunOptions
    <3>2. Parsed(IF environ.cases # None THEN environ.cases ELSE environ.proptest) \in Nat \cup {None}
      BY <1>1 DEF EnvironShaped, Parsed
    <3>3. QED
      BY <1>1, <3>1, <3>2, FirstOfTwo DEF ArgsShaped
  <2>2. "cases" \in DOMAIN t /\ Get(t, "cases") = t.cases
    BY <1>2, <1>7 DEF Required, Get
  <2>3. Cases \in Nat
    BY <1>3, <2>1, <2>2 DEF Cases, t
  <2>4. RunSeeds = {SubSeed(s, c) : s \in BaseSeeds, c \in 0 .. (Cases - 1)}
    BY <1>4, <1>7 DEF RunSeeds, t
  <2>5. \A s \in Nat, c \in 0 .. (Cases - 1) : SubSeed(s, c) \in Nat
    BY <2>3 DEF SubSeed
  <2>6. ASSUME NEW x \in RunSeeds PROVE x \in Nat
    <3>1. PICK s \in BaseSeeds, c \in 0 .. (Cases - 1) : x = SubSeed(s, c)
      BY <2>4
    <3>2. QED
      BY <1>5, <2>5, <3>1
  <2>7. QED
    BY <2>6
<1>8. QED
  BY <1>6, <1>7

(* A chain's target is one of the two.                                      *)
LEMMA ResolvedIsTarget ==
    ASSUME NEW label, NEW target \in Targets \cup {None}, NEW env, EnvSpecReads(env), NEW over,
           over.target \in Targets \cup {None},
           \A l \in DOMAIN over.targetChain : over.targetChain[l] \in Targets
    PROVE  ResolveChainTarget(label, target, env, over) \in Targets
<1> DEFINE s == <<Get(over.targetChain, label),
                  IF "targets" \in DOMAIN env THEN Get(env.targets, label) ELSE None,
                  target, over.target, Get(env, "target"), "mock">>
<1>1. \A i \in 1 .. 6 : s[i] \in Targets \cup {None}
  <2>1. /\ Get(over.targetChain, label) \in Targets \cup {None}
        /\ (IF "targets" \in DOMAIN env THEN Get(env.targets, label) ELSE None) \in Targets \cup {None}
        /\ Get(env, "target") \in Targets \cup {None}
    BY DEF EnvSpecReads, Get
  <2>2. "mock" \in Targets
    BY DEF Targets
  <2>3. QED
    BY <2>1, <2>2
<1>2. DOMAIN s = 1 .. 6 /\ s[6] = "mock"
  OBVIOUS
<1>3. "mock" # None
  BY ConfigAssumption DEF Targets
<1> HIDE DEF s
<1> DEFINE set == {i \in DOMAIN s : s[i] # None}
           least == CHOOSE i \in set : \A j \in set : i <= j
<1>4. \E i \in set : \A j \in set : i <= j
  <2>1. 6 \in set /\ set \subseteq 1 .. 6
    BY <1>2, <1>3
  <2> HIDE DEF set
  <2>2. QED
    BY <2>1
<1>5. least \in set
  BY <1>4
<1>6. First(s) = s[least]
  BY <1>5 DEF First
<1>7. s[least] \in Targets
  <2> HIDE DEF least
  <2>1. QED
    BY <1>1, <1>2, <1>5
<1>8. QED
  BY <1>6, <1>7 DEF ResolveChainTarget, s

(* The loader and the stages after it have looked at all that a setup needs.*)
LEMMA RequestIsSound ==
    ASSUME DocInv, StageInv, TestInv, InputInv, round = 1, args.command = "run", pc \in Building
    PROVE  RequestSound(request) /\ FlagsAgree(args, request)
<1> DEFINE env == EffectiveEnv(doc, profile)
           decls == Texts.chain
           list == Selected(env, decls)
<1>1. /\ pc \in AtLoad /\ pc \in Chosen /\ pc \in Admitted /\ Formed(given) /\ ArgsShaped(args)
      /\ profile \in DOMAIN doc.profile /\ ResolvesHere /\ request.seed \in RunSeeds
      /\ request = SetupRequest(env, doc.chain, Overrides, request.seed)
      /\ \A i \in DOMAIN request.specs : Buildable(request.specs[i])
  BY GivenIsFormed DEF StageInv, InputInv, AtLoad, Chosen, Admitted, Resolving
<1>2. /\ doc.chain = decls /\ doc.env = Whole.env /\ doc.profile = Whole.profile /\ ChainsValid(Whole)
      /\ Whole.chain = decls
  BY <1>1, LoadedDocument, WholeSections DEF DocumentAccepted
<1>3. /\ EnvSpecReads(env) /\ EnvTargetsValid(env, decls) /\ RpcUrlsValid(env, decls)
      /\ \A j \in DOMAIN decls :
           ~MissingRequiredFields(decls[j]) /\ GasAdjustmentValid(decls[j]) /\ TransportValid(decls[j])
  <2>1. EffectiveEnv(Whole, profile) = env
    BY <1>2 DEF EffectiveEnv
  <2> HIDE DEF env, decls
  <2>2. QED
    BY <1>1, <1>2, <2>1 DEF ChainsValid
<1>4. Overrides = args /\ args.target \in Targets \cup {None}
      /\ \A l \in DOMAIN args.targetChain : args.targetChain[l] \in Targets
  BY <1>1 DEF Overrides, ArgsShaped
<1>5. /\ request.specs = ChainSpecs(env, decls, args)
      /\ request.target = ResolveChainTarget(None, None, env, [args EXCEPT !.targetChain = Empty])
  BY <1>1, <1>2, <1>4 DEF SetupRequest
<1>6. request.target \in Targets /\ (args.target # None => request.target = args.target)
  <2> DEFINE over == [args EXCEPT !.targetChain = Empty]
  <2>1. /\ over.target \in Targets \cup {None} /\ Get(over.targetChain, None) = None
        /\ \A l \in DOMAIN over.targetChain : over.targetChain[l] \in Targets
        /\ args.target # None => over.target = args.target
    BY <1>4 DEF Empty, Get
  <2>0. request.target = ResolveChainTarget(None, None, env, over)
    BY <1>5
  <2> HIDE DEF over, env
  <2>2. request.target \in Targets
    <3>1. None \in Targets \cup {None}
      OBVIOUS
    <3>2. ResolveChainTarget(None, None, env, over) \in Targets
      BY <1>3, <2>1, <3>1, ResolvedIsTarget
    <3>3. QED
      BY <2>0, <3>2
  <2>3. (IF "targets" \in DOMAIN env THEN Get(env.targets, None) ELSE None) = None
    <3>1. \A j \in DOMAIN decls : decls[j].label # None
      <4>1. "label" \in ChainFields \ {"rpc_url"}
        BY DEF ChainFields
      <4>2. QED
        BY <1>1, <4>1, ChainKept DEF Formed
    <3>2. "targets" \in DOMAIN env => None \notin DOMAIN env.targets
      BY <1>3, <3>1 DEF EnvTargetsValid, Labels
    <3>3. QED
      BY <3>2 DEF Get
  <2>4. ASSUME args.target # None PROVE request.target = args.target
    <3> DEFINE s == <<None, None, None, args.target, Get(env, "target"), "mock">>
    <3>1. request.target = First(s)
      BY <1>5, <2>1, <2>3, <2>4 DEF ResolveChainTarget, over
    <3>2. DOMAIN s = 1 .. 6 /\ s[1] = None /\ s[2] = None /\ s[3] = None /\ s[4] = args.target
      OBVIOUS
    <3> HIDE DEF s
    <3>3. First(s) = s[4]
      BY <2>4, <3>2, FirstIs
    <3>4. QED
      BY <3>1, <3>2, <3>3
  <2>5. QED
    BY <2>2, <2>4
<1>7. /\ list \in Seq(ToSet(decls)) /\ DOMAIN request.specs = DOMAIN list
      /\ \A i \in DOMAIN list : \E j \in DOMAIN decls :
           list[i] = decls[j] /\ request.specs[i] = ChainSpec(decls[j], env, args)
  BY <1>1, <1>5, SpecsAreDeclared
<1> HIDE DEF list
<1>8. request.specs \in Seq(ToSet(request.specs))
  <2> DEFINE c == request.specs
             S == ToSet(c)
  <2>1. PICK n \in Nat : DOMAIN list = 1 .. n
    BY <1>7
  <2>2. c = [i \in 1 .. n |-> c[i]]
    BY <1>5, <1>7, <2>1 DEF ChainSpecs, list
  <2>3. \A i \in 1 .. n : c[i] \in S
    BY <1>7, <2>1 DEF ToSet
  <2> HIDE DEF c, S
  <2>4. c \in Seq(S)
    BY <2>2, <2>3
  <2>5. QED
    BY <2>4 DEF c, S
<1>9. ASSUME NEW i \in DOMAIN request.specs
      PROVE  /\ SpecSound(request.specs[i]) /\ request.specs[i].label = list[i].label
             /\ Get(args.targetChain, request.specs[i].label) # None =>
                  request.specs[i].target = Get(args.targetChain, request.specs[i].label)
  <2> DEFINE spec == request.specs[i]
  <2>1. PICK j \in DOMAIN decls : list[i] = decls[j] /\ spec = ChainSpec(decls[j], env, args)
    BY <1>7
  <2>2. DOMAIN decls[j] = ChainFields /\ decls[j].label # None
    <3>1. "label" \in ChainFields \ {"rpc_url"}
      BY DEF ChainFields
    <3>2. QED
      BY <1>1, <3>1, ChainKept DEF Formed
  <2>3. SpecFrom(spec, decls[j], env, args)
    BY <2>1, <2>2, SpecOf, Zenon
  <2>4. spec.kind \in Kinds /\ (spec.target = "rpc" => spec.rpc_url # None)
    <3>1. Resolves(env, decls, args)
      BY <1>1, <1>2, <1>4 DEF ResolvesHere
    <3>2. spec = ChainSpec(list[i], env, args) /\ i \in DOMAIN list
      BY <1>7, <2>1
    <3>3. QED
      BY <3>1, <3>2 DEF Resolves, list
  <2>5. Buildable(spec)
    BY <1>1
  <2> HIDE DEF spec, env, decls
  <2>6. /\ DOMAIN spec = ChainFields
        /\ spec.target = ResolveChainTarget(decls[j].label, decls[j].target, env, args)
        /\ spec.adjustment = IF decls[j].adjustment = None THEN DefaultGasAdjustment ELSE decls[j].adjustment
        /\ spec.symbol = IF decls[j].symbol = None THEN DefaultNativeSymbol(decls[j].kind) ELSE decls[j].symbol
        /\ spec.label = decls[j].label /\ spec.kind = decls[j].kind
        /\ spec.denominated = decls[j].denominated
    <3>1. {"label", "kind", "denominated"} \subseteq ChainFields \ {"target", "adjustment", "symbol"}
      BY DEF ChainFields
    <3>2. QED
      BY <2>3, <3>1 DEF SpecFrom
  <2>7. spec.target \in Targets
    <3>1. decls[j].target \in Targets \cup {None}
      BY <1>3 DEF RpcUrlsValid
    <3>2. QED
      BY <1>3, <1>4, <2>6, <3>1, ResolvedIsTarget
  <2>8. spec.adjustment # None /\ GasAdjustmentValid(spec)
    <3>1. 13 # None
      BY ConfigAssumption
    <3>2. QED
      BY <1>3, <2>6, <3>1 DEF GasAdjustmentValid, DefaultGasAdjustment
  <2>9. ~MissingRequiredFields(spec)
    BY <1>3, <2>6 DEF MissingRequiredFields
  <2>10. SpecSound(spec)
    BY <2>2, <2>4, <2>5, <2>6, <2>7, <2>8, <2>9 DEF SpecSound
  <2>11. ASSUME Get(args.targetChain, spec.label) # None
         PROVE  spec.target = Get(args.targetChain, spec.label)
    <3> DEFINE s == <<Get(args.targetChain, spec.label),
                      IF "targets" \in DOMAIN env THEN Get(env.targets, spec.label) ELSE None,
                      decls[j].target, args.target, Get(env, "target"), "mock">>
    <3>1. spec.target = First(s)
      BY <2>6 DEF ResolveChainTarget
    <3>2. DOMAIN s = 1 .. 6 /\ s[1] = Get(args.targetChain, spec.label)
      OBVIOUS
    <3> HIDE DEF s
    <3>3. First(s) = s[1]
      BY <2>11, <3>2, FirstIs
    <3>4. QED
      BY <3>1, <3>2, <3>3
  <2>12. QED
    BY <2>1, <2>6, <2>10, <2>11 DEF spec
<1>10. \A i, j \in DOMAIN request.specs : request.specs[i].label = request.specs[j].label => i = j
  <2>1. \A i, j \in DOMAIN decls : decls[i].label = decls[j].label => i = j
    BY <1>1, LabelsApart
  <2>2. decls \in Seq(ToSet(decls))
    BY <1>1, ChainKept
  <2>3. \A i, j \in DOMAIN list : list[i].label = list[j].label => i = j
    BY <2>1, <2>2, SelectedStayApart DEF list
  <2>4. QED
    BY <1>7, <1>9, <2>3
<1>11. request.seed \in Nat
  BY <1>1, SeedsAreNumbers
<1>12. QED
  BY <1>6, <1>8, <1>9, <1>10, <1>11 DEF RequestSound, FlagsAgree

(* It begins with a file of the inputs.                                     *)
LEMMA InputInvInit == Init => InputInv
<1> SUFFICES ASSUME Init PROVE InputInv
  OBVIOUS
<1>1. PICK in \in Inputs : doc = in.doc /\ args = in.args /\ environ = in.environ
  BY DEF Init
<1>2. Shaped(in.doc) /\ ArgsShaped(in.args) /\ EnvironShaped(in.environ)
  BY ConfigAssumption
<1>3. round = 1 /\ given = doc
  BY DEF Init
<1>4. pc \in NotOfARun => args.command # "run"
  BY DEF Init, NotOfARun
<1>5. QED
  BY <1>1, <1>2, <1>3, <1>4 DEF InputInv

(* The artifact of a run is what the second round reads.                    *)
LEMMA ArtifactIsReplayed ==
    ASSUME DocInv, StageInv, TestInv, InputInv, FailAndReplay
    PROVE  InputInv'
<1>1. pc = "driven" /\ round = 1 /\ args.command = "run" /\ UNCHANGED environ
  BY DEF FailAndReplay
<1>2. PICK h \in Histories :
        /\ Reportable(h)
        /\ given' = Artifact(h)
        /\ first' = [given |-> given, request |-> request, chains |-> chains, history |-> h]
  BY DEF FailAndReplay
<1>3. PICK flags \in {NoOverrides, [target |-> args.target, targetChain |-> args.targetChain]} :
        args' = [command |-> "run", suite |-> None, profiles |-> {"replay"},
                 seed |-> None, cases |-> None, ops |-> None, duration |-> None,
                 every |-> None, noShrink |-> FALSE,
                 target |-> flags.target, targetChain |-> flags.targetChain]
  BY DEF FailAndReplay
<1>4. /\ pc \in Building /\ pc \in AtLoad /\ Formed(given) /\ ArgsShaped(args)
      /\ doc.harness \in DOMAIN Registered
      /\ chains = [i \in DOMAIN request.specs |-> BuildChain(request.specs[i])]
  BY <1>1, GivenIsFormed
  DEF StageInv, Selects, InputInv, Building, Driving, AtLoad, Chosen, Admitted, Resolving
<1>5. RequestSound(request) /\ FlagsAgree(args, request)
  BY <1>1, <1>4, RequestIsSound
<1>6. doc.harness # None
  <2>1. DocumentAccepted(Whole) /\ Whole.harness = given.harness /\ doc.harness = given.harness
    BY <1>4, LoadedDocument, WholeSections
  <2>2. QED
    BY <2>1 DEF DocumentAccepted, Deserializable
<1>7. /\ given' =
           [harness |-> doc.harness, unknown |-> FALSE, defaults |-> Empty, suite |-> Empty,
            env |-> ArtifactEnv(request), chain |-> ArtifactChains(request),
            profile |-> [replay |->
              [mode |-> "scenario", seed |-> request.seed,
               steps |-> [i \in DOMAIN h |-> EncodeOp(h[i])]]]]
      /\ given'.harness = doc.harness
  BY <1>2 DEF Artifact, BuildArtifact
<1>8. \A i \in DOMAIN h :
        /\ h[i] = Op(h[i].kind, h[i].data) /\ h[i].kind # NoData
        /\ Decodable(Registered[doc.harness].ops, EncodeOp(h[i]))
  <2>1. Harnessed = Registered[doc.harness]
    BY <1>1 DEF Harnessed
  <2>2. QED
    BY <1>2, <2>1, ConfigAssumption DEF Reportable
<1>9. ArgsShaped(args') /\ FlagsAgree(args', request)
  <2>1. /\ flags.target \in Targets \cup {None}
        /\ \A label \in DOMAIN flags.targetChain : flags.targetChain[label] \in Targets
        /\ flags.target # None => request.target = flags.target
        /\ \A i \in DOMAIN request.specs :
             Get(flags.targetChain, request.specs[i].label) # None =>
               request.specs[i].target = Get(flags.targetChain, request.specs[i].label)
    <3>1. CASE flags = NoOverrides
      BY <3>1 DEF NoOverrides, Empty, Get
    <3>2. CASE flags = [target |-> args.target, targetChain |-> args.targetChain]
      BY <1>4, <1>5, <3>2 DEF ArgsShaped, FlagsAgree
    <3>3. QED
      BY <3>1, <3>2
  <2>2. /\ args'.command = "run" /\ args'.target = flags.target
        /\ args'.targetChain = flags.targetChain /\ args'.seed = None /\ args'.cases = None
    BY <1>3
  <2>3. QED
    BY <2>1, <2>2 DEF ArgsShaped, FlagsAgree
<1>10. Replays'
  <2>1. /\ args'.command = "run" /\ args'.suite = None /\ args'.profiles = {"replay"}
        /\ args'.seed = None
    BY <1>3
  <2>2. first'.request = request /\ first'.chains = chains /\ first'.history = h
    BY <1>2
  <2>3. QED
    BY <1>4, <1>5, <1>6, <1>7, <1>8, <1>9, <2>1, <2>2 DEF Replays
<1>11. round' = 2 /\ pc' = "parsed"
  BY DEF FailAndReplay
<1>12. QED
  BY <1>1, <1>9, <1>10, <1>11 DEF InputInv, NotOfARun

(* Every step keeps the input, and only FailAndReplay replaces it.          *)
LEMMA InputInvStep ==
    ASSUME DocInv, StageInv, TestInv, InputInv, [Next]_vars
    PROVE  InputInv'
<1>1. CASE FailAndReplay
  BY <1>1, ArtifactIsReplayed
<1>2. CASE Expand
  <2>1. /\ pc = "source" /\ UNCHANGED <<args, environ, round, first>> /\ args.command = "test"
        /\ doc = given
    BY <1>2 DEF Expand, TestInv
  <2>2. round = 1 /\ Shaped(given)
    BY <2>1 DEF InputInv, Replays
  <2>3. given' \in Revisions \cup {given}
    BY <1>2, <2>1 DEF Expand
  <2>4. \A d \in Revisions : Shaped(d)
    BY ConfigAssumption
  <2>5. Shaped(given')
    BY <2>2, <2>3, <2>4
  <2>6. QED
    BY <2>1, <2>2, <2>5 DEF InputInv
<1>3. ASSUME UNCHANGED <<args, environ, round, given, first>>,
             pc' \in NotOfARun => pc \in NotOfARun \/ args.command # "run"
      PROVE  InputInv'
  BY <1>3 DEF InputInv, Replays
<1>4. CASE UNCHANGED vars
  BY <1>3, <1>4 DEF vars
<1>5. CASE Interpolate \/ Merge \/ Deserialize \/ Validate
  BY <1>3, <1>5 DEF Interpolate, Merge, Deserialize, Validate, Stage, NotOfARun
<1>6. CASE Select \/ Admit \/ Resolve \/ Build \/ Drive \/ Pass
  BY <1>3, <1>6 DEF Select, Admit, Resolve, Build, Drive, Pass, NotOfARun
<1>7. CASE ValidateWithConfig \/ List \/ RunForTest
  BY <1>3, <1>7 DEF ValidateWithConfig, List, RunForTest
<1>8. CASE Describe \/ ExpandAttribute \/ RunAttributeTests
  BY <1>3, <1>8 DEF Describe, ExpandAttribute, RunAttributeTests, RunAttributeTest, NotOfARun
<1>9. QED
  BY <1>1, <1>2, <1>4, <1>5, <1>6, <1>7, <1>8 DEF Next, Done
-----------------------------------------------------------------------------
(* An artifact, with its texts replaced and its env merged.                 *)
LEMMA ReplayedFile ==
    ASSUME InputInv, round = 2
    PROVE  /\ DOMAIN given.profile = {"replay"} /\ given.defaults = Empty /\ given.suite = Empty
           /\ given.unknown = FALSE /\ given.harness # None /\ given.harness \in DOMAIN Registered
           /\ DOMAIN given.profile["replay"] = {"mode", "seed", "steps"}
           /\ given.profile["replay"].mode = "scenario"
           /\ given.profile["replay"].seed = first.request.seed
           /\ given.profile["replay"].steps =
                [i \in DOMAIN first.history |-> EncodeOp(first.history[i])]
           /\ given.env = ArtifactEnv(first.request) /\ given.chain = ArtifactChains(first.request)
           /\ DOMAIN OwnEnv("replay") = {}
<1>1. Replays
  BY DEF InputInv
<1>2. /\ given.defaults = Empty /\ given.suite = Empty /\ given.unknown = FALSE
      /\ given.env = ArtifactEnv(first.request) /\ given.chain = ArtifactChains(first.request)
      /\ given.profile =
           [replay |->
             [mode |-> "scenario", seed |-> first.request.seed,
              steps |-> [i \in DOMAIN first.history |-> EncodeOp(first.history[i])]]]
  BY <1>1 DEF Replays
<1>3. given.harness # None /\ given.harness \in DOMAIN Registered
  BY <1>1 DEF Replays
<1>4. DOMAIN OwnEnv("replay") = {}
  BY <1>2 DEF OwnEnv, Empty
<1>5. QED
  BY <1>2, <1>3, <1>4

(* ... merged into the one profile it has, under the env it has.            *)
LEMMA ReplayedTable ==
    ASSUME InputInv, round = 2, Formed(given), Mergeable(Texts),
           NEW file, file.profile = Whole.profile, file.env = Texts.env
    PROVE  LET t == file.profile["replay"]
               env == EffectiveEnv(file, "replay")
           IN  /\ DOMAIN file.profile = {"replay"}
               /\ DOMAIN t \subseteq {"mode", "seed", "steps", "env"}
               /\ {"mode", "seed", "steps"} \subseteq DOMAIN t
               /\ t.mode = "scenario" /\ t.seed = first.request.seed
               /\ t.steps = Texts.profile["replay"].steps
               /\ DOMAIN env = {"target", "chains"}
               /\ env.target = first.request.target
               /\ env.chains = [i \in DOMAIN first.request.specs |-> first.request.specs[i].label]
<1> DEFINE d == Texts.defaults
           g == Texts.profile["replay"]
           t == file.profile["replay"]
           env == EffectiveEnv(file, "replay")
<1>1. /\ DOMAIN given.profile = {"replay"} /\ given.defaults = Empty
      /\ DOMAIN given.profile["replay"] = {"mode", "seed", "steps"}
      /\ given.profile["replay"].mode = "scenario"
      /\ given.profile["replay"].seed = first.request.seed
      /\ given.env = ArtifactEnv(first.request) /\ DOMAIN OwnEnv("replay") = {}
  BY ReplayedFile
<1>2. DOMAIN file.profile = {"replay"} /\ t = MergedProfile(d, Texts.env, g)
  BY <1>1, WholeSections
<1>3. /\ DOMAIN d = {} /\ DOMAIN g = {"mode", "seed", "steps"}
      /\ \A key : key \notin {"env", "steps"} => Get(g, key) = Get(given.profile["replay"], key)
  BY <1>1, MergedTables DEF Empty
<1>4. g.mode = "scenario" /\ g.seed = first.request.seed
  BY <1>1, <1>3 DEF Get
<1>5. \A key : key # "env" =>
        /\ key \in DOMAIN t <=> key \in {"mode", "seed", "steps"}
        /\ key \in DOMAIN t => t[key] = Shallow(d, g)[key]
  BY <1>2, <1>3, DefaultedKeys
<1>6. \A key \in DOMAIN g : Shallow(d, g)[key] = g[key]
  BY DEF Shallow
<1>7. /\ DOMAIN t \subseteq {"mode", "seed", "steps", "env"}
      /\ {"mode", "seed", "steps"} \subseteq DOMAIN t
      /\ t.mode = "scenario" /\ t.seed = first.request.seed /\ t.steps = g.steps
  <2> HIDE DEF t, d, g
  <2>1. QED
    BY <1>3, <1>4, <1>5, <1>6
<1>8. /\ DOMAIN given.env = {"target", "chains"} /\ given.env.target = first.request.target
      /\ given.env.chains = [i \in DOMAIN first.request.specs |-> first.request.specs[i].label]
  BY <1>1 DEF ArtifactEnv
<1>9. /\ DOMAIN env = DOMAIN given.env
      /\ \A key \in DOMAIN given.env \ {"params"} : env[key] = given.env[key]
  <2>1. /\ DOMAIN env = DOMAIN given.env \cup DOMAIN OwnEnv("replay")
        /\ \A key \in (DOMAIN given.env \cup DOMAIN OwnEnv("replay")) \ {"params"} :
             env[key] = IF key \notin DOMAIN OwnEnv("replay") THEN given.env[key]
                        ELSE IF key \notin DOMAIN given.env THEN OwnEnv("replay")[key]
                        ELSE MergeEnvEntry(key, given.env[key], OwnEnv("replay")[key])
    BY <1>1, EffectiveIsMerged
  <2> HIDE DEF env
  <2>2. QED
    BY <1>1, <2>1
<1> HIDE DEF env, t, g
<1>10. env.target = given.env.target /\ env.chains = given.env.chains
  BY <1>8, <1>9
<1>11. QED
  BY <1>2, <1>7, <1>8, <1>9, <1>10 DEF env, t, g

(* Its chains are those of the request it records, and all of them.         *)
LEMMA ReplayedChains ==
    ASSUME InputInv, round = 2, NEW env, DOMAIN env = {"target", "chains"},
           env.target = first.request.target,
           env.chains = [i \in DOMAIN first.request.specs |-> first.request.specs[i].label]
    PROVE  /\ DOMAIN Texts.chain = DOMAIN first.request.specs
           /\ Selected(env, Texts.chain) = Texts.chain
           /\ \A i \in DOMAIN first.request.specs :
                LET then == first.request.specs[i]
                    now == ChainSpec(Texts.chain[i], env, args)
                IN  /\ Texts.chain[i].transport = None /\ Texts.chain[i].batched = FALSE
                    /\ DOMAIN Texts.chain[i] = ChainFields
                    /\ \A field \in ChainFields \ {"transport", "batched", "rpc_url"} :
                         Texts.chain[i][field] = then[field]
                    /\ \A field \in ChainFields \ {"transport", "batched", "rpc_url"} :
                         now[field] = then[field]
                    /\ now.rpc_url = Texts.chain[i].rpc_url
<1> DEFINE r == first.request
           decls == Texts.chain
<1>1. Formed(given) /\ Replays
  BY GivenIsFormed DEF InputInv
<1>2. /\ RequestSound(r) /\ FlagsAgree(args, r)
      /\ given.chain = ArtifactChains(r) /\ args.command = "run"
  BY <1>1, ReplayedFile DEF Replays
<1>3. /\ DOMAIN decls = DOMAIN given.chain /\ decls \in Seq(ToSet(decls))
      /\ \A i \in DOMAIN given.chain :
           /\ DOMAIN decls[i] = ChainFields
           /\ \A field \in ChainFields \ {"rpc_url"} : decls[i][field] = given.chain[i][field]
  BY <1>1, ChainKept
<1>4. /\ DOMAIN given.chain = DOMAIN r.specs
      /\ \A i \in DOMAIN r.specs : given.chain[i] = ArtifactChain(r.specs[i])
  BY <1>2 DEF ArtifactChains
<1> HIDE DEF r, decls
<1>5. ASSUME NEW i \in DOMAIN r.specs
      PROVE  /\ DOMAIN decls[i] = ChainFields
             /\ decls[i].transport = None /\ decls[i].batched = FALSE
             /\ \A field \in ChainFields \ {"transport", "batched", "rpc_url"} :
                  decls[i][field] = r.specs[i][field]
  <2>1. DOMAIN r.specs[i] = ChainFields
    BY <1>2 DEF RequestSound, SpecSound
  <2>2. /\ given.chain[i].transport = None /\ given.chain[i].batched = FALSE
        /\ \A field \in ChainFields \ {"transport", "batched"} : given.chain[i][field] = r.specs[i][field]
    <3>1. given.chain[i] = ArtifactChain(r.specs[i])
      BY <1>4
    <3>2. /\ ArtifactChain(r.specs[i]).transport = None /\ ArtifactChain(r.specs[i]).batched = FALSE
          /\ \A field \in ChainFields \ {"transport", "batched"} :
               ArtifactChain(r.specs[i])[field] = r.specs[i][field]
      BY <2>1, ArtifactChainKeeps
    <3>3. QED
      BY <3>1, <3>2
  <2>3. {"transport", "batched"} \subseteq ChainFields \ {"rpc_url"}
    BY DEF ChainFields
  <2>4. QED
    BY <1>3, <1>4, <2>2, <2>3
<1>6. {"label", "kind", "target", "adjustment", "symbol"} \subseteq
        ChainFields \ {"transport", "batched", "rpc_url"}
  BY DEF ChainFields
<1>7. Selected(env, decls) = decls
  <2>1. ASSUME NEW i \in DOMAIN decls PROVE IsSelected(env, decls[i])
    <3>1. i \in DOMAIN r.specs /\ decls[i].label = r.specs[i].label
      BY <1>3, <1>4, <1>5, <1>6
    <3>2. i \in DOMAIN env.chains /\ env.chains[i] = r.specs[i].label
      BY <3>1 DEF r
    <3>3. QED
      BY <3>1, <3>2 DEF IsSelected, ToSet
  <2>2. QED
    BY <1>3, <2>1, SelectedAreDeclared
<1>8. ASSUME NEW i \in DOMAIN r.specs
      PROVE  LET now == ChainSpec(decls[i], env, args)
             IN  /\ \A field \in ChainFields \ {"transport", "batched", "rpc_url"} :
                      now[field] = r.specs[i][field]
                 /\ now.rpc_url = decls[i].rpc_url
  <2> DEFINE now == ChainSpec(decls[i], env, args)
             then == r.specs[i]
  <2>1. SpecFrom(now, decls[i], env, args)
    BY <1>5, SpecOf, Zenon
  <2>2. SpecSound(then) /\ (Get(args.targetChain, then.label) # None => then.target = Get(args.targetChain, then.label))
    BY <1>2 DEF RequestSound, FlagsAgree
  <2>3. /\ decls[i].label = then.label /\ decls[i].kind = then.kind /\ decls[i].target = then.target
        /\ decls[i].adjustment = then.adjustment /\ decls[i].symbol = then.symbol
    BY <1>5, <1>6
  <2> HIDE DEF now, then
  <2>4. now.target = then.target
    <3> DEFINE s == <<Get(args.targetChain, then.label),
                      IF "targets" \in DOMAIN env THEN Get(env.targets, then.label) ELSE None,
                      then.target, args.target, Get(env, "target"), "mock">>
    <3>1. now.target = First(s)
      BY <2>1, <2>3 DEF SpecFrom, ResolveChainTarget
    <3>2. DOMAIN s = 1 .. 6 /\ s[1] = Get(args.targetChain, then.label) /\ s[2] = None /\ s[3] = then.target
      OBVIOUS
    <3>3. then.target # None
      BY <2>2, ConfigAssumption DEF SpecSound
    <3> HIDE DEF s
    <3>4. CASE s[1] # None
      <4>1. First(s) = s[1]
        BY <3>2, <3>4, FirstIs
      <4>2. QED
        BY <2>2, <3>1, <3>2, <3>4, <4>1
    <3>5. CASE s[1] = None
      <4>1. First(s) = s[3]
        BY <3>2, <3>3, <3>5, FirstIs
      <4>2. QED
        BY <3>1, <3>2, <4>1
    <3>6. QED
      BY <3>4, <3>5
  <2>5. now.adjustment = then.adjustment /\ now.symbol = then.symbol
    BY <2>1, <2>2, <2>3 DEF SpecFrom, SpecSound
  <2>6. \A field \in ChainFields \ {"target", "adjustment", "symbol"} : now[field] = decls[i][field]
    BY <2>1 DEF SpecFrom
  <2>7. \A field \in ChainFields \ {"transport", "batched", "rpc_url"} : now[field] = then[field]
    BY <1>5, <2>4, <2>5, <2>6 DEF then
  <2>8. "rpc_url" \in ChainFields \ {"target", "adjustment", "symbol"}
    BY DEF ChainFields
  <2>9. QED
    BY <2>6, <2>7, <2>8 DEF now, then
<1>9. QED
  BY <1>3, <1>4, <1>5, <1>7, <1>8 DEF r, decls

(* What a chain is built of.                                                *)
LEMMA BuildsAlike ==
    ASSUME NEW a, NEW b, a.kind \in Kinds, a.target \in Targets, b.kind = a.kind,
           b.target = a.target, b.adjustment = a.adjustment, b.symbol = a.symbol,
           b.dialect = a.dialect
    PROVE  /\ \A it \in {"vm", "adjustment", "symbol", "rules"} : BuildChain(a)[it] = BuildChain(b)[it]
           /\ BuildChain(a).via = "mock" <=> BuildChain(b).via = "mock"
<1>1. CASE a.kind = "cosmwasm"
  BY <1>1 DEF BuildChain, BuildCosmWasm, Built, Plainly, Targets
<1>2. CASE a.kind = "evm"
  BY <1>2 DEF BuildChain, BuildEvm, Built, Plainly, Targets
<1>3. CASE a.kind = "svm"
  BY <1>3 DEF BuildChain, BuildSvm, Built, Plainly, Targets
<1>4. CASE a.kind = "tron"
  BY <1>4 DEF BuildChain, BuildTron, Built, Plainly, Targets
<1>5. QED
  BY <1>1, <1>2, <1>3, <1>4 DEF Kinds

(* A replay resolves the one profile of the artifact with its one env.      *)
LEMMA ReplayResolves ==
    ASSUME DocInv, StageInv, InputInv, round = 2, pc \in Chosen
    PROVE  LET env == EffectiveEnv(doc, "replay")
           IN  /\ profile = "replay" /\ Overrides = args
               /\ doc.profile = Whole.profile /\ doc.env = Texts.env /\ doc.chain = Texts.chain
               /\ doc.harness = given.harness /\ Mergeable(Texts) /\ Formed(given)
               /\ DOMAIN doc.profile = {"replay"}
               /\ DOMAIN doc.profile["replay"] \subseteq {"mode", "seed", "steps", "env"}
               /\ doc.profile["replay"].mode = "scenario"
               /\ doc.profile["replay"].steps = Texts.profile["replay"].steps
               /\ "seed" \in DOMAIN doc.profile["replay"]
               /\ doc.profile["replay"].seed = first.request.seed
               /\ DOMAIN env = {"target", "chains"} /\ env.target = first.request.target
               /\ env.chains = [i \in DOMAIN first.request.specs |-> first.request.specs[i].label]
<1>0. Formed(given) /\ Replays
  BY GivenIsFormed DEF InputInv
<1>1. pc \in AtLoad /\ pc \in Chosen /\ profile \in DOMAIN doc.profile
  BY Zenon DEF StageInv, AtLoad
<1>2. /\ doc.harness = given.harness /\ doc.env = Texts.env /\ doc.chain = Texts.chain
      /\ doc.profile = Whole.profile /\ Mergeable(Texts)
  BY <1>0, <1>1, LoadedDocument
<1>3. Overrides = args
  BY <1>0 DEF Replays, Overrides
<1> DEFINE t == doc.profile["replay"]
           env == EffectiveEnv(doc, "replay")
<1>4. /\ DOMAIN doc.profile = {"replay"} /\ DOMAIN t \subseteq {"mode", "seed", "steps", "env"}
      /\ {"mode", "seed", "steps"} \subseteq DOMAIN t
      /\ t.mode = "scenario" /\ t.seed = first.request.seed
      /\ t.steps = Texts.profile["replay"].steps
      /\ DOMAIN env = {"target", "chains"} /\ env.target = first.request.target
      /\ env.chains = [i \in DOMAIN first.request.specs |-> first.request.specs[i].label]
  BY <1>0, <1>2, ReplayedTable
<1> HIDE DEF t, env
<1>5. QED
  BY <1>0, <1>1, <1>2, <1>3, <1>4 DEF t, env

(* It meets the chains that the failing run met, under its seed.            *)
LEMMA SameChainsWhereReached ==
    ASSUME DocInv, StageInv, InputInv
    PROVE  ReplayMeetsTheSameChains
<1> SUFFICES ASSUME round = 2, pc = "built" PROVE ReplayMeetsTheSameChains
  BY DEF ReplayMeetsTheSameChains
<1> DEFINE env == EffectiveEnv(doc, "replay")
           r == first.request
           list == Selected(env, Texts.chain)
<1>1. /\ pc \in Chosen /\ profile \in DOMAIN doc.profile /\ Replays
      /\ request.seed \in RunSeeds
      /\ request = SetupRequest(EffectiveEnv(doc, profile), doc.chain, Overrides, request.seed)
      /\ chains = [i \in DOMAIN request.specs |-> BuildChain(request.specs[i])]
  BY DEF StageInv, InputInv, Chosen, Admitted, Resolving, Building
<1>2. /\ profile = "replay" /\ Overrides = args /\ doc.chain = Texts.chain
      /\ doc.profile["replay"].mode = "scenario"
      /\ "seed" \in DOMAIN doc.profile["replay"] /\ doc.profile["replay"].seed = r.seed
      /\ DOMAIN env = {"target", "chains"} /\ env.target = r.target
      /\ env.chains = [i \in DOMAIN r.specs |-> r.specs[i].label]
  BY <1>1, ReplayResolves
<1>3. /\ RequestSound(r) /\ FlagsAgree(args, r) /\ args.seed = None /\ args.command = "run"
      /\ first.chains = [i \in DOMAIN r.specs |-> BuildChain(r.specs[i])]
  BY <1>1 DEF Replays
<1>4. /\ request.specs = ChainSpecs(env, Texts.chain, args)
      /\ request.target = ResolveChainTarget(None, None, env, [args EXCEPT !.targetChain = Empty])
  BY <1>1, <1>2 DEF SetupRequest
<1> HIDE DEF env, r
<1>5. request.target = r.target
  <2> DEFINE over == [args EXCEPT !.targetChain = Empty]
             s == <<Get(over.targetChain, None),
                    IF "targets" \in DOMAIN env THEN Get(env.targets, None) ELSE None,
                    None, over.target, Get(env, "target"), "mock">>
  <2>1. request.target = First(s)
    BY <1>4 DEF ResolveChainTarget
  <2>2. ArgsShaped(args) /\ args.command = "run"
    BY <1>3 DEF InputInv
  <2>3. args.target \in Targets \cup {None} /\ (args.target # None => r.target = args.target)
    BY <1>3, <2>2 DEF ArgsShaped, FlagsAgree
  <2>4. over.target = args.target /\ Get(over.targetChain, None) = None
    BY DEF Get, Empty
  <2>5. r.target \in Targets /\ r.target # None
    BY <1>3, ConfigAssumption DEF RequestSound
  <2>6. /\ DOMAIN s = 1 .. 6 /\ s[1] = None /\ s[2] = None /\ s[3] = None
        /\ s[4] = args.target /\ s[5] = r.target
    BY <1>2, <2>4 DEF Get
  <2> HIDE DEF s, over
  <2>7. CASE args.target # None
    <3>1. First(s) = s[4]
      BY <2>6, <2>7, FirstIs
    <3>2. QED
      BY <2>1, <2>3, <2>6, <2>7, <3>1
  <2>8. CASE args.target = None
    <3>1. First(s) = s[5]
      BY <2>5, <2>6, <2>8, FirstIs
    <3>2. QED
      BY <2>1, <2>6, <3>1
  <2>9. QED
    BY <2>7, <2>8
<1>6. ASSUME Parsed(environ.seed) = None PROVE request.seed = r.seed
  <2> DEFINE asked == First(<<RunOptions.seed, Get(doc.profile[profile], "seed"), 0>>)
  <2>1. RunOptions.seed = First(<<args.seed, Parsed(environ.seed)>>)
    BY <1>3 DEF RunOptions
  <2>2. RunOptions.seed = None
    BY <1>3, <1>6, <2>1, FirstOfTwo
  <2>3. Get(doc.profile[profile], "seed") = r.seed /\ r.seed \in Nat /\ r.seed # None
    BY <1>2, <1>3, ConfigAssumption DEF Get, RequestSound
  <2>4. asked = r.seed
    BY <2>2, <2>3, FirstOfThree
  <2>5. BaseSeeds = IF asked < 0 THEN RandomSeeds ELSE {asked}
    BY DEF BaseSeeds
  <2>6. RunSeeds = BaseSeeds
    BY <1>2 DEF RunSeeds
  <2> HIDE DEF asked
  <2>7. QED
    BY <1>1, <2>3, <2>4, <2>5, <2>6
<1>7. /\ DOMAIN Texts.chain = DOMAIN r.specs /\ list = Texts.chain
      /\ DOMAIN request.specs = DOMAIN r.specs
      /\ \A i \in DOMAIN r.specs :
           \A field \in ChainFields \ {"transport", "batched", "rpc_url"} :
             request.specs[i][field] = r.specs[i][field]
  <2>1. /\ env.target = first.request.target
        /\ env.chains = [i \in DOMAIN first.request.specs |-> first.request.specs[i].label]
    BY <1>2 DEF r
  <2>2. /\ DOMAIN Texts.chain = DOMAIN r.specs /\ Selected(env, Texts.chain) = Texts.chain
        /\ \A i \in DOMAIN r.specs :
             \A field \in ChainFields \ {"transport", "batched", "rpc_url"} :
               ChainSpec(Texts.chain[i], env, args)[field] = r.specs[i][field]
    <3>1. /\ DOMAIN Texts.chain = DOMAIN first.request.specs
          /\ Selected(env, Texts.chain) = Texts.chain
          /\ \A i \in DOMAIN first.request.specs :
               LET then == first.request.specs[i]
                   now == ChainSpec(Texts.chain[i], env, args)
               IN  /\ Texts.chain[i].transport = None /\ Texts.chain[i].batched = FALSE
                   /\ DOMAIN Texts.chain[i] = ChainFields
                   /\ \A field \in ChainFields \ {"transport", "batched", "rpc_url"} :
                        Texts.chain[i][field] = then[field]
                   /\ \A field \in ChainFields \ {"transport", "batched", "rpc_url"} :
                        now[field] = then[field]
                   /\ now.rpc_url = Texts.chain[i].rpc_url
      BY <1>2, <2>1, ReplayedChains
    <3>2. QED
      BY <3>1 DEF r
  <2>3. /\ DOMAIN request.specs = DOMAIN Texts.chain
        /\ \A i \in DOMAIN Texts.chain : request.specs[i] = ChainSpec(Texts.chain[i], env, args)
    BY <1>4, <2>2 DEF ChainSpecs
  <2>4. QED
    BY <2>2, <2>3
<1>8. {"label", "kind", "target", "adjustment", "symbol", "dialect"} \subseteq
        ChainFields \ {"transport", "batched", "rpc_url"}
  BY DEF ChainFields
<1>9. Len(request.specs) = Len(r.specs)
  <2>1. r.specs \in Seq(ToSet(r.specs))
    BY <1>3 DEF RequestSound
  <2>2. PICK n \in Nat : DOMAIN r.specs = 1 .. n
    BY <2>1
  <2>3. request.specs \in Seq(ToSet(request.specs))
    <3> DEFINE c == request.specs
               S == ToSet(c)
    <3>1. c = [i \in 1 .. n |-> c[i]]
      BY <1>4, <1>7, <2>2 DEF ChainSpecs
    <3>2. \A i \in 1 .. n : c[i] \in S
      BY <1>7, <2>2 DEF ToSet
    <3> HIDE DEF c, S
    <3>3. c \in Seq(S)
      BY <3>1, <3>2
    <3>4. QED
      BY <3>3 DEF c, S
  <2>4. QED
    BY <1>7, <2>1, <2>2, <2>3
<1>10. ASSUME NEW i \in DOMAIN request.specs
       PROVE  LET now == request.specs[i] then == r.specs[i]
              IN  /\ now.label = then.label /\ now.target = then.target
                  /\ \A it \in {"vm", "adjustment", "symbol", "rules"} :
                       chains[i][it] = first.chains[i][it]
                  /\ chains[i].via = "mock" <=> first.chains[i].via = "mock"
  <2> DEFINE now == request.specs[i]
             then == r.specs[i]
  <2>1. /\ i \in DOMAIN r.specs /\ now.label = then.label /\ now.kind = then.kind
        /\ now.target = then.target /\ now.adjustment = then.adjustment
        /\ now.symbol = then.symbol /\ now.dialect = then.dialect
    BY <1>7, <1>8
  <2>2. then.kind \in Kinds /\ then.target \in Targets
    BY <1>3, <2>1 DEF RequestSound, SpecSound
  <2>3. chains[i] = BuildChain(now) /\ first.chains[i] = BuildChain(then)
    BY <1>1, <1>3, <2>1
  <2> HIDE DEF now, then
  <2>4. /\ \A it \in {"vm", "adjustment", "symbol", "rules"} :
             BuildChain(then)[it] = BuildChain(now)[it]
        /\ BuildChain(then).via = "mock" <=> BuildChain(now).via = "mock"
    BY <2>1, <2>2, BuildsAlike
  <2>5. QED
    BY <2>1, <2>3, <2>4 DEF now, then
<1>11. QED
  BY <1>5, <1>6, <1>9, <1>10 DEF ReplayMeetsTheSameChains, r
-----------------------------------------------------------------------------
(* A value of another type than a table is not a function.                  *)
NotAFunction == NotATable # [key \in DOMAIN NotATable |-> NotATable[key]]

(* So every function is a table.                                            *)
LEMMA FunctionsAreTables ==
    ASSUME NotAFunction, NEW t, t = [key \in DOMAIN t |-> t[key]]
    PROVE  t # NotATable
  BY DEF NotAFunction

(* An artifact merges: every table in it is one.                            *)
LEMMA ReplayMerges ==
    ASSUME NotAFunction, InputInv, round = 2
    PROVE  Mergeable(Texts)
<1> DEFINE d == Texts.defaults
           t == Texts.profile["replay"]
           g == given.profile["replay"]
<1>1. /\ Formed(given) /\ DOMAIN given.profile = {"replay"} /\ given.defaults = Empty
      /\ DOMAIN g = {"mode", "seed", "steps"} /\ given.env = ArtifactEnv(first.request)
  BY GivenIsFormed, ReplayedFile
<1>2. /\ DOMAIN Texts.profile = {"replay"}
      /\ d = InterpolatedProfile(Empty, environ.vars) /\ t = InterpolatedProfile(g, environ.vars)
      /\ Texts.env = InterpolatedEnv(given.env, environ.vars)
  BY <1>1, WholeSections
<1>3. Empty # NotATable
  <2>1. Empty = [key \in DOMAIN Empty |-> Empty[key]]
    BY DEF Empty
  <2>2. QED
    BY <2>1, FunctionsAreTables
<1>4. g # NotATable
  <2>1. g = [mode |-> "scenario", seed |-> first.request.seed,
             steps |-> [i \in DOMAIN first.history |-> EncodeOp(first.history[i])]]
    BY DEF InputInv, Replays
  <2>2. g = [key \in DOMAIN g |-> g[key]]
    BY <2>1
  <2> HIDE DEF g
  <2>3. QED
    BY <2>2, FunctionsAreTables
<1>5. d # NotATable /\ DOMAIN d = {}
  <2>1. d = [key \in DOMAIN d |-> d[key]] /\ DOMAIN d = {}
    BY <1>2, <1>3 DEF InterpolatedProfile, Empty
  <2> HIDE DEF d
  <2>2. QED
    BY <2>1, FunctionsAreTables
<1>6. t # NotATable /\ DOMAIN t = {"mode", "seed", "steps"}
  <2>1. t = [key \in DOMAIN t |-> t[key]] /\ DOMAIN t = {"mode", "seed", "steps"}
    BY <1>1, <1>2, <1>4 DEF InterpolatedProfile
  <2> HIDE DEF t
  <2>2. QED
    BY <2>1, FunctionsAreTables
<1>7. Texts.env # NotATable
  <2>1. Texts.env = ArtifactEnv(first.request)
    BY <1>1, <1>2 DEF InterpolatedEnv, TextsOfEnv, ArtifactEnv
  <2>2. Texts.env = [key \in DOMAIN Texts.env |-> Texts.env[key]]
    BY <2>1 DEF ArtifactEnv
  <2>3. QED
    BY <2>2, FunctionsAreTables
<1>8. Get(Defaulted(d, t), "env") = None
  <2> HIDE DEF d, t
  <2>1. DOMAIN Defaulted(d, t) \subseteq {"mode", "seed", "steps"}
    BY <1>5, <1>6 DEF Defaulted, Shallow
  <2>2. QED
    BY <2>1 DEF Get
<1>9. None # NotATable
  BY ConfigAssumption
<1>10. QED
  BY <1>2, <1>5, <1>6, <1>7, <1>8, <1>9 DEF Mergeable

(* An artifact whose texts are plain is as it was, its texts replaced.      *)
LEMMA LiteralReplay ==
    ASSUME InputInv, round = 2, Literal(given)
    PROVE  /\ Interpolable
           /\ Texts.profile["replay"].steps = given.profile["replay"].steps
           /\ \A i \in DOMAIN given.chain : Texts.chain[i].rpc_url = given.chain[i].rpc_url
<1> DEFINE g == given.profile["replay"]
           steps == [i \in DOMAIN first.history |-> EncodeOp(first.history[i])]
<1>1. /\ Formed(given) /\ DOMAIN given.profile = {"replay"}
      /\ DOMAIN g = {"mode", "seed", "steps"} /\ g.steps = steps
  BY GivenIsFormed, ReplayedFile
<1>2. \A text \in TextsOfDoc(given) : text.form = "plain"
  BY DEF Literal
<1>3. Interpolable
  BY <1>2 DEF Interpolable, Resolvable
<1>4. ASSUME NEW text, text.form = "plain" PROVE InterpolateStr(text, environ.vars) = text
  BY <1>4 DEF InterpolateStr
<1>5. \A i \in DOMAIN given.chain :
        given.chain[i].rpc_url = None \/ given.chain[i].rpc_url \in TextsOfDoc(given)
  BY DEF TextsOfDoc
<1>6. \A i \in DOMAIN given.chain : Texts.chain[i].rpc_url = given.chain[i].rpc_url
  <2> SUFFICES ASSUME NEW i \in DOMAIN given.chain
               PROVE  Texts.chain[i].rpc_url = given.chain[i].rpc_url
    OBVIOUS
  <2>1. Texts.chain[i] = InterpolatedChain(given.chain[i], environ.vars)
    BY <1>1, WholeSections
  <2>2. "rpc_url" \in DOMAIN given.chain[i]
    BY <1>1 DEF Formed, ChainFields
  <2>3. CASE given.chain[i].rpc_url = None
    BY <2>1, <2>3 DEF InterpolatedChain
  <2>4. CASE given.chain[i].rpc_url # None
    <3>1. InterpolateStr(given.chain[i].rpc_url, environ.vars) = given.chain[i].rpc_url
      BY <1>2, <1>4, <1>5, <2>4
    <3>2. QED
      BY <2>1, <2>2, <2>4, <3>1 DEF InterpolatedChain
  <2>5. QED
    BY <2>3, <2>4
<1>7. CASE g = NotATable
  BY <1>1, <1>3, <1>6, <1>7, WholeSections DEF InterpolatedProfile
<1>8. CASE g # NotATable
  <2>1. \A i \in DOMAIN steps : steps[i].value = NoData \/ steps[i].value \in TextsOfProfile(g)
    BY <1>1, <1>8 DEF TextsOfProfile
  <2>2. TextsOfProfile(g) \subseteq TextsOfDoc(given)
    BY <1>1 DEF TextsOfDoc
  <2>3. Texts.profile["replay"] = InterpolatedProfile(g, environ.vars)
    BY <1>1, WholeSections
  <2>4. Texts.profile["replay"].steps =
          [i \in DOMAIN steps |->
             [steps[i] EXCEPT !.value = IF @ = NoData THEN @ ELSE InterpolateStr(@, environ.vars)]]
    <3> HIDE DEF g, steps
    <3>1. "steps" \in DOMAIN g /\ g.steps = steps
      BY <1>1
    <3>2. InterpolatedProfile(g, environ.vars).steps =
            [i \in DOMAIN g.steps |->
               [g.steps[i] EXCEPT !.value = IF @ = NoData THEN @ ELSE InterpolateStr(@, environ.vars)]]
      BY <1>8, <3>1 DEF InterpolatedProfile
    <3>3. QED
      BY <2>3, <3>1, <3>2
  <2>5. ASSUME NEW i \in DOMAIN steps
        PROVE  [steps[i] EXCEPT !.value = IF @ = NoData THEN @ ELSE InterpolateStr(@, environ.vars)] =
                 steps[i]
    <3>1. /\ steps[i].value = NoData \/ InterpolateStr(steps[i].value, environ.vars) = steps[i].value
      BY <1>2, <1>4, <2>1, <2>2
    <3>2. steps[i] = [key |-> steps[i].key, value |-> steps[i].value]
      BY DEF EncodeOp
    <3> HIDE DEF steps
    <3>3. QED
      BY <3>1, <3>2
  <2>6. steps = [i \in DOMAIN steps |-> steps[i]]
    OBVIOUS
  <2> HIDE DEF steps
  <2>7. Texts.profile["replay"].steps = steps
    BY <2>4, <2>5, <2>6
  <2>8. QED
    BY <1>1, <1>3, <1>6, <2>7
<1>9. QED
  BY <1>7, <1>8

(* The stages of the loader accept it.                                      *)
LEMMA ReplayLoads ==
    ASSUME NotAFunction, InputInv, round = 2, Literal(given), given.profile["replay"].steps # <<>>
    PROVE  DocumentAccepted(Whole)
<1> DEFINE r == first.request
           t == Whole.profile["replay"]
           env == EffectiveEnv(Whole, "replay")
           decls == Texts.chain
           steps == [i \in DOMAIN first.history |-> EncodeOp(first.history[i])]
<1>1. Formed(given) /\ Mergeable(Texts)
  BY GivenIsFormed, ReplayMerges
<1>2. /\ Whole.chain = decls /\ Whole.env = Texts.env /\ Whole.harness = given.harness
      /\ Whole.unknown = given.unknown /\ Whole.suite = given.suite
      /\ Texts.env = InterpolatedEnv(given.env, environ.vars)
  BY <1>1, WholeSections
<1>3. /\ given.suite = Empty /\ given.unknown = FALSE /\ given.harness # None
      /\ given.profile["replay"].steps = steps /\ given.env = ArtifactEnv(r)
      /\ given.chain = ArtifactChains(r)
  BY ReplayedFile
<1>4. /\ DOMAIN Whole.profile = {"replay"} /\ DOMAIN t \subseteq {"mode", "seed", "steps", "env"}
      /\ {"mode", "seed", "steps"} \subseteq DOMAIN t
      /\ t.mode = "scenario" /\ t.steps = Texts.profile["replay"].steps
      /\ DOMAIN env = {"target", "chains"} /\ env.target = r.target
      /\ env.chains = [i \in DOMAIN r.specs |-> r.specs[i].label]
  BY <1>1, <1>2, ReplayedTable
<1>5. t.steps = steps /\ steps # <<>>
  BY <1>3, <1>4, LiteralReplay
<1>6. RequestSound(r) /\ None \notin Targets
  BY ConfigAssumption DEF InputInv, Replays
<1> HIDE DEF t, env, decls, r
<1>7. Deserializable(Whole)
  <2>1. Get(t, "mode") = "scenario" /\ "scenario" \in Modes
    BY <1>4 DEF Get, Modes
  <2>2. UnknownFields(t) = {}
    BY <1>4 DEF UnknownFields, Wire, ScenarioWire, CommonWire
  <2>3. Required(t.mode) \subseteq DOMAIN t
    BY <1>4 DEF Required
  <2>4. DurationsRead(t)
    <3>1. {"duration", "base_delay", "max_delay", "heartbeat"} \cap DOMAIN t = {}
      BY <1>4
    <3>2. QED
      BY <3>1 DEF DurationsRead
  <2>5. StepsRead(t)
    <3>1. \A i \in DOMAIN steps : DOMAIN steps[i] = {"key", "value"}
      BY DEF EncodeOp
    <3> HIDE DEF steps
    <3>2. QED
      BY <1>5, <3>1 DEF StepsRead
  <2>6. QED
    BY <1>2, <1>3, <1>4, <2>1, <2>2, <2>3, <2>4, <2>5 DEF Deserializable, t
<1>8. SuitesValid(Whole)
  BY <1>2, <1>3 DEF SuitesValid, Empty
<1>9. ProfilesValid(Whole)
  <2>1. ProfileValid(t)
    <3> HIDE DEF steps
    <3>1. QED
      BY <1>4, <1>5 DEF ProfileValid
  <2>2. QED
    BY <1>4, <2>1 DEF ProfilesValid, t
<1>10. /\ DOMAIN decls = DOMAIN r.specs
       /\ \A i \in DOMAIN r.specs :
            /\ decls[i].transport = None /\ decls[i].batched = FALSE
            /\ \A field \in ChainFields \ {"transport", "batched"} : decls[i][field] = r.specs[i][field]
  <2>1. /\ DOMAIN given.chain = DOMAIN r.specs
        /\ \A i \in DOMAIN r.specs : given.chain[i] = ArtifactChain(r.specs[i])
    BY <1>3 DEF ArtifactChains
  <2>2. DOMAIN decls = DOMAIN r.specs
    BY <1>1, <2>1, ChainKept DEF decls
  <2>3. ASSUME NEW i \in DOMAIN r.specs
        PROVE  /\ decls[i].transport = None /\ decls[i].batched = FALSE
               /\ \A field \in ChainFields \ {"transport", "batched"} : decls[i][field] = r.specs[i][field]
    <3>1. DOMAIN r.specs[i] = ChainFields
      BY <1>6 DEF RequestSound, SpecSound
    <3>2. /\ ArtifactChain(r.specs[i]).transport = None /\ ArtifactChain(r.specs[i]).batched = FALSE
          /\ \A field \in ChainFields \ {"transport", "batched"} :
               ArtifactChain(r.specs[i])[field] = r.specs[i][field]
      BY <3>1, ArtifactChainKeeps
    <3>3. \A field \in ChainFields \ {"rpc_url"} : decls[i][field] = given.chain[i][field]
      BY <1>1, <2>1, ChainKept DEF decls
    <3>4. decls[i].rpc_url = given.chain[i].rpc_url
      BY <2>1, LiteralReplay DEF decls
    <3>5. {"transport", "batched"} \subseteq ChainFields \ {"rpc_url"}
      BY DEF ChainFields
    <3>6. QED
      BY <2>1, <3>2, <3>3, <3>4, <3>5
  <2>4. QED
    BY <2>2, <2>3
<1>11. {"label", "kind", "target", "rpc_url", "denominated", "adjustment"} \subseteq
         ChainFields \ {"transport", "batched"}
  BY DEF ChainFields
<1>12. \A i \in DOMAIN decls : SpecSound(r.specs[i])
  BY <1>6, <1>10 DEF RequestSound
<1>13. EnvSpecReads(Whole.env)
  <2>1. /\ DOMAIN given.env = {"target", "chains"} /\ given.env.target = r.target
    BY <1>3 DEF ArtifactEnv
  <2>2. DOMAIN Whole.env = {"target", "chains"} /\ Whole.env.target = r.target
    <3>1. /\ DOMAIN InterpolatedEnv(given.env, environ.vars) = DOMAIN given.env
          /\ \A key \in DOMAIN given.env \ {"params"} :
               InterpolatedEnv(given.env, environ.vars)[key] = given.env[key]
      BY EnvKept
    <3>2. "target" \in DOMAIN given.env \ {"params"}
      BY <2>1
    <3>3. QED
      BY <1>2, <2>1, <3>1, <3>2
  <2>3. QED
    BY <1>6, <2>2 DEF EnvSpecReads, EnvKeys, RequestSound
<1>14. /\ EnvSpecReads(env) /\ EnvTargetsValid(env, decls)
  BY <1>4, <1>6 DEF EnvSpecReads, EnvKeys, RequestSound, EnvTargetsValid
<1>15. EnvSelectionValid(env, decls)
  <2>1. ASSUME NEW label \in ToSet(env.chains) PROVE label \in Labels(decls)
    <3>1. PICK i \in DOMAIN r.specs : label = r.specs[i].label
      BY <1>4, <2>1 DEF ToSet
    <3>2. QED
      BY <1>10, <1>11, <3>1 DEF Labels
  <2>2. QED
    BY <2>1 DEF EnvSelectionValid
<1>16. RpcUrlsValid(env, decls)
  <2> SUFFICES ASSUME NEW i \in DOMAIN decls
               PROVE  /\ decls[i].target \in Targets \cup {None}
                      /\ ResolveChainTarget(decls[i].label, decls[i].target, env, NoOverrides) = "rpc"
                           => decls[i].rpc_url # None
    BY DEF RpcUrlsValid
  <2> DEFINE s == <<Get(NoOverrides.targetChain, decls[i].label),
                    IF "targets" \in DOMAIN env THEN Get(env.targets, decls[i].label) ELSE None,
                    decls[i].target, NoOverrides.target, Get(env, "target"), "mock">>
  <2>1. /\ decls[i].target = r.specs[i].target /\ decls[i].rpc_url = r.specs[i].rpc_url
    BY <1>10, <1>11
  <2>2. decls[i].target \in Targets /\ (decls[i].target = "rpc" => decls[i].rpc_url # None)
    BY <1>12, <2>1 DEF SpecSound
  <2>3. DOMAIN s = 1 .. 6 /\ s[1] = None /\ s[2] = None /\ s[3] = decls[i].target
    BY <1>4 DEF NoOverrides, Empty, Get
  <2>4. ResolveChainTarget(decls[i].label, decls[i].target, env, NoOverrides) = First(s)
    BY DEF ResolveChainTarget
  <2> HIDE DEF s
  <2>5. First(s) = s[3]
    <3>1. s[3] # None
      BY <1>6, <2>2, <2>3
    <3>2. QED
      BY <2>3, <3>1, FirstIs
  <2>6. QED
    BY <2>2, <2>3, <2>4, <2>5
<1>17. \A i, j \in DOMAIN decls : decls[i].label = decls[j].label => i = j
  BY <1>6, <1>10, <1>11 DEF RequestSound
<1>18. ASSUME NEW i \in DOMAIN decls
       PROVE  /\ decls[i].kind # "" /\ ~MissingRequiredFields(decls[i])
              /\ GasAdjustmentValid(decls[i]) /\ TransportValid(decls[i])
  <2>1. /\ decls[i].kind = r.specs[i].kind /\ decls[i].denominated = r.specs[i].denominated
        /\ decls[i].adjustment = r.specs[i].adjustment
        /\ decls[i].transport = None /\ decls[i].batched = FALSE
    BY <1>10, <1>11
  <2>2. SpecSound(r.specs[i])
    BY <1>12
  <2>3. decls[i].kind # ""
    <3>1. decls[i].kind \in Kinds
      BY <2>1, <2>2 DEF SpecSound
    <3>2. QED
      BY <3>1, Zenon DEF Kinds
  <2>4. ~MissingRequiredFields(decls[i]) /\ GasAdjustmentValid(decls[i])
    BY <2>1, <2>2 DEF SpecSound, MissingRequiredFields, GasAdjustmentValid
  <2>5. TransportValid(decls[i])
    BY <2>1 DEF TransportValid
  <2>6. QED
    BY <2>3, <2>4, <2>5, Zenon
<1>19. ChainsValid(Whole)
  <2>1. \A p \in DOMAIN Whole.profile :
          /\ EnvSpecReads(EffectiveEnv(Whole, p))
          /\ EnvSelectionValid(EffectiveEnv(Whole, p), Whole.chain)
          /\ EnvTargetsValid(EffectiveEnv(Whole, p), Whole.chain)
          /\ RpcUrlsValid(EffectiveEnv(Whole, p), Whole.chain)
    BY <1>2, <1>4, <1>14, <1>15, <1>16 DEF env
  <2>2. QED
    BY <1>2, <1>13, <1>17, <1>18, <2>1, Zenon DEF ChainsValid
<1>20. QED
  BY <1>7, <1>8, <1>9, <1>19 DEF DocumentAccepted

(* The phase a replay selects.                                              *)
LEMMA ReplaySelects ==
    ASSUME Replays, "replay" \in DOMAIN doc.profile
    PROVE  SelectPhases = {Alone("replay")}
<1>1. args.suite = None /\ args.profiles = {"replay"}
  BY DEF Replays
<1>2. Known({"replay"}) = {Alone("replay")}
  BY DEF Known
<1>3. {"replay"} # {}
  OBVIOUS
<1>4. QED
  BY <1>1, <1>2, <1>3 DEF SelectPhases

(* No stage after the loader refuses it.                                    *)
LEMMA ReplayIsTaken ==
    ASSUME DocInv, StageInv, InputInv, round = 2, Literal(given), pc \in Chosen
    PROVE  /\ Admissible /\ ResolvesHere /\ Patches(Harnessed, phase.params)
           /\ doc.profile[profile].mode = "scenario"
           /\ doc.profile[profile].steps =
                [i \in DOMAIN first.history |-> EncodeOp(first.history[i])]
           /\ Decodes
           /\ pc \in Resolving => \A i \in DOMAIN request.specs : Buildable(request.specs[i])
<1> DEFINE env == EffectiveEnv(doc, "replay")
           t == doc.profile["replay"]
           r == first.request
           steps == [i \in DOMAIN first.history |-> EncodeOp(first.history[i])]
<1>1. /\ profile = "replay" /\ Overrides = args /\ doc.chain = Texts.chain
      /\ doc.harness = given.harness
      /\ DOMAIN doc.profile = {"replay"} /\ DOMAIN t \subseteq {"mode", "seed", "steps", "env"}
      /\ t.mode = "scenario" /\ t.steps = Texts.profile["replay"].steps
      /\ DOMAIN env = {"target", "chains"} /\ env.target = r.target
      /\ env.chains = [i \in DOMAIN r.specs |-> r.specs[i].label]
  BY ReplayResolves
<1>2. Replays /\ RequestSound(r) /\ args.command = "run"
  BY DEF InputInv, Replays
<1>3. t.steps = steps
  BY <1>1, LiteralReplay, ReplayedFile
<1>4. Harnessed = Registered[given.harness]
  BY <1>1, <1>2 DEF Harnessed
<1>5. phase = Alone("replay")
  <2>1. Selects
    BY DEF StageInv
  <2>2. phase \in SelectPhases
    BY <1>2, <2>1 DEF Selects
  <2>3. SelectPhases = {Alone("replay")}
    BY <1>1, <1>2, ReplaySelects
  <2>4. QED
    BY <2>2, <2>3
<1>6. Patches(Harnessed, phase.params)
  BY <1>5, AloneIsItself DEF Patches
<1>7. \A i \in DOMAIN steps : Decodable(Harnessed.ops, OpValue(steps[i]))
  <2> SUFFICES ASSUME NEW i \in DOMAIN first.history
               PROVE  Decodable(Harnessed.ops, OpValue(steps[i]))
    OBVIOUS
  <2>1. /\ first.history[i].kind # NoData
        /\ Decodable(Registered[given.harness].ops, EncodeOp(first.history[i]))
    BY <1>2 DEF Replays
  <2>2. OpValue(EncodeOp(first.history[i])) = EncodeOp(first.history[i])
    BY <2>1 DEF OpValue, EncodeOp
  <2>3. QED
    BY <1>4, <2>1, <2>2
<1> HIDE DEF steps, t, env, r
<1>8. Decodes
  BY <1>1, <1>3, <1>7 DEF Decodes, StepsDecode, t
<1>9. Admissible
  BY <1>1 DEF Admissible, Admits, t
<1>10. /\ DOMAIN Texts.chain = DOMAIN r.specs
       /\ ChainSpecs(env, Texts.chain, args) =
            [i \in DOMAIN Texts.chain |-> ChainSpec(Texts.chain[i], env, args)]
       /\ Selected(env, Texts.chain) = Texts.chain
       /\ \A i \in DOMAIN r.specs :
            /\ ChainSpec(Texts.chain[i], env, args).kind = r.specs[i].kind
            /\ ChainSpec(Texts.chain[i], env, args).target = r.specs[i].target
            /\ ChainSpec(Texts.chain[i], env, args).dialect = r.specs[i].dialect
            /\ ChainSpec(Texts.chain[i], env, args).rpc_url = r.specs[i].rpc_url
  <2>1. /\ env.target = first.request.target
        /\ env.chains = [i \in DOMAIN first.request.specs |-> first.request.specs[i].label]
    BY <1>1 DEF r
  <2>2. /\ DOMAIN Texts.chain = DOMAIN first.request.specs
        /\ Selected(env, Texts.chain) = Texts.chain
        /\ \A i \in DOMAIN first.request.specs :
             LET then == first.request.specs[i]
                 now == ChainSpec(Texts.chain[i], env, args)
             IN  /\ Texts.chain[i].transport = None /\ Texts.chain[i].batched = FALSE
                 /\ DOMAIN Texts.chain[i] = ChainFields
                 /\ \A field \in ChainFields \ {"transport", "batched", "rpc_url"} :
                      Texts.chain[i][field] = then[field]
                 /\ \A field \in ChainFields \ {"transport", "batched", "rpc_url"} :
                      now[field] = then[field]
                 /\ now.rpc_url = Texts.chain[i].rpc_url
    BY <1>1, <2>1, ReplayedChains
  <2>3. {"kind", "target", "dialect"} \subseteq ChainFields \ {"transport", "batched", "rpc_url"}
    BY DEF ChainFields
  <2>4. ASSUME NEW i \in DOMAIN r.specs PROVE Texts.chain[i].rpc_url = r.specs[i].rpc_url
    <3>1. /\ i \in DOMAIN given.chain /\ given.chain[i] = ArtifactChain(r.specs[i])
      BY ReplayedFile DEF ArtifactChains, r
    <3>2. DOMAIN r.specs[i] = ChainFields
      BY <1>2 DEF RequestSound, SpecSound
    <3>3. ArtifactChain(r.specs[i]).rpc_url = r.specs[i].rpc_url
      BY <3>2 DEF ArtifactChain, ChainFields
    <3>4. QED
      BY <3>1, <3>3, LiteralReplay
  <2>5. QED
    BY <2>2, <2>3, <2>4 DEF r, ChainSpecs
<1>11. \A i \in DOMAIN Texts.chain : SpecSound(r.specs[i])
  BY <1>2, <1>10 DEF RequestSound
<1>12. ResolvesHere
  <2>1. ASSUME NEW i \in DOMAIN Texts.chain
        PROVE  /\ ChainSpec(Texts.chain[i], env, args).kind \in Kinds
               /\ ChainSpec(Texts.chain[i], env, args).target = "rpc" =>
                    ChainSpec(Texts.chain[i], env, args).rpc_url # None
    BY <1>10, <1>11 DEF SpecSound
  <2>2. Resolves(env, Texts.chain, args)
    BY <1>10, <2>1 DEF Resolves
  <2>3. QED
    BY <1>1, <2>2 DEF ResolvesHere, env
<1>13. ASSUME pc \in Resolving, NEW i \in DOMAIN request.specs PROVE Buildable(request.specs[i])
  <2>1. request = SetupRequest(EffectiveEnv(doc, profile), doc.chain, Overrides, request.seed)
    BY <1>13 DEF StageInv
  <2>2. request.specs = ChainSpecs(env, Texts.chain, args)
    BY <1>1, <2>1 DEF SetupRequest, env
  <2>3. i \in DOMAIN Texts.chain /\ request.specs[i] = ChainSpec(Texts.chain[i], env, args)
    BY <1>10, <2>2
  <2>4. request.specs[i].kind = r.specs[i].kind /\ request.specs[i].dialect = r.specs[i].dialect
    BY <1>10, <2>3
  <2>5. Buildable(r.specs[i])
    BY <1>11, <2>3 DEF SpecSound
  <2>6. QED
    BY <2>4, <2>5 DEF Buildable
<1>14. QED
  BY <1>1, <1>3, <1>6, <1>8, <1>9, <1>12, <1>13 DEF t, steps

(* So an artifact replays to the end, and its steps are the history.        *)
LEMMA ArtifactsLoadWhereReached ==
    ASSUME NotAFunction, DocInv, StageInv, InputInv
    PROVE  ArtifactsLoad
<1>1. ASSUME round = 2, pc \in Refusals, given.profile["replay"].steps # <<>>, Literal(given)
      PROVE  FALSE
  <2>1. /\ Replays /\ args.command = "run" /\ Interpolable /\ Mergeable(Texts)
        /\ DocumentAccepted(Whole) /\ Deserializable(Whole)
    BY <1>1, LiteralReplay, ReplayMerges, ReplayLoads DEF InputInv, Replays, DocumentAccepted
  <2>2. pc \notin NotOfARun
    BY <2>1 DEF InputInv
  <2>3. pc \notin {"refused at interpolated", "refused at merged", "refused at typed", "refused at loaded"}
    BY <2>1 DEF DocInv
  <2>4. pc # "refused at selected"
    <3> SUFFICES ASSUME pc = "refused at selected" PROVE FALSE
      OBVIOUS
    <3>1. SelectsNone
      BY <2>1 DEF StageInv
    <3>2. pc \in AtLoad
      BY DEF AtLoad
    <3>3. doc.harness = given.harness /\ DOMAIN doc.profile = DOMAIN given.profile
      BY <3>2, GivenIsFormed, LoadedDocument
    <3>4. DOMAIN given.profile = {"replay"} /\ given.harness \in DOMAIN Registered
      BY <1>1, ReplayedFile
    <3>5. SelectPhases = {Alone("replay")}
      BY <2>1, <3>3, <3>4, ReplaySelects
    <3>6. QED
      BY <3>1, <3>3, <3>4, <3>5 DEF SelectsNone
  <2>5. pc \in {"refused at admitted", "refused at resolved", "refused at built", "refused at patched",
                "refused at driven"}
    BY <1>1, <2>2, <2>3, <2>4 DEF Refusals, NotOfARun
  <2>6. pc \in Chosen
    BY <2>5 DEF Chosen, Admitted, Resolving, Building
  <2>7. /\ Admissible /\ ResolvesHere /\ Patches(Harnessed, phase.params) /\ Decodes
        /\ pc \in Resolving => \A i \in DOMAIN request.specs : Buildable(request.specs[i])
    BY <1>1, <2>6, ReplayIsTaken
  <2>8. pc \notin {"refused at admitted", "refused at resolved", "refused at patched", "refused at driven"}
    BY <2>7 DEF StageInv
  <2>9. pc # "refused at built"
    <3>1. "refused at built" \in Resolving
      BY DEF Resolving
    <3>2. QED
      BY <2>7, <3>1 DEF StageInv
  <2>10. QED
    BY <2>5, <2>8, <2>9
<1>2. ASSUME round = 2, pc = "driven", Literal(given)
      PROVE  drive.args.steps = [i \in DOMAIN first.history |->
                [op |-> first.history[i], expect |-> "accepted", delay |-> Zero, check |-> TRUE]]
  <2> DEFINE t == doc.profile[profile]
             steps == [i \in DOMAIN first.history |-> EncodeOp(first.history[i])]
  <2>1. pc \in Chosen
    BY <1>2 DEF Chosen, Admitted, Resolving, Building, Driving
  <2>2. t.mode = "scenario" /\ t.steps = steps
    BY <1>2, <2>1, ReplayIsTaken
  <2>3. drive.args = DriverArgs(Harnessed, t, RunOptions)
    BY <1>2 DEF StageInv, Driving
  <2> HIDE DEF t
  <2>4. drive.args.steps = [i \in DOMAIN first.history |-> ScenarioStep(EncodeOp(first.history[i]))]
    BY <2>2, <2>3 DEF DriverArgs, ScenarioArgs
  <2>5. ASSUME NEW i \in DOMAIN first.history
        PROVE  ScenarioStep(EncodeOp(first.history[i])) =
                 [op |-> first.history[i], expect |-> "accepted", delay |-> Zero, check |-> TRUE]
    <3> DEFINE op == first.history[i]
               step == EncodeOp(op)
    <3>1. op = Op(op.kind, op.data) /\ op.kind # NoData
      BY <1>2 DEF InputInv, Replays
    <3>2. OpValue(step) = step /\ DecodeOp(step) = op
      BY <3>1 DEF OpValue, EncodeOp, DecodeOp, NameIn, DataIn
    <3>3. Get(step, "expect") = None /\ Get(step, "delay") = None /\ Get(step, "check") = None
      BY DEF EncodeOp, Get
    <3> HIDE DEF step, op
    <3>4. /\ First(<<Get(step, "expect"), "accepted">>) = "accepted"
          /\ First(<<Get(step, "delay"), Zero>>) = Zero
          /\ First(<<Get(step, "check"), TRUE>>) = TRUE
      BY <3>3, FirstOfTwo
    <3>5. QED
      BY <3>2, <3>4 DEF ScenarioStep, step, op
  <2>6. QED
    BY <2>4, <2>5
<1>3. QED
  BY <1>1, <1>2 DEF ArtifactsLoad
-----------------------------------------------------------------------------
ConfigInv == DocInv /\ StageInv /\ TestInv /\ AttributeInv /\ InputInv

(* The invariant the theorems rest on.                                      *)
THEOREM ConfigInvariant == Spec => []ConfigInv
<1>1. Init => ConfigInv
  BY DocInvInit, TestInvInit, InputInvInit DEF ConfigInv
<1>2. ConfigInv /\ [Next]_vars => ConfigInv'
  BY GivenIsFormed, DocInvStep, StageInvStep, TestInvStep, AttributeInvStep, InputInvStep DEF ConfigInv
<1>3. QED
  BY <1>1, <1>2, PTL DEF Spec

(* `validate` refuses what the run would refuse of the profile itself.      *)
THEOREM ForetoldByValidate == Spec => []ValidateForetellsRun
<1>1. ConfigInv => ValidateForetellsRun
  BY GivenIsFormed, ForetoldWhereReached DEF ConfigInv
<1>2. QED
  BY <1>1, ConfigInvariant, PTL

(* What loads resolves, without target flags.                               *)
THEOREM LoadedResolves == Spec => []LoadedConfigsResolve
<1>1. ConfigInv => LoadedConfigsResolve
  BY GivenIsFormed, LoadedResolvesWhereReached DEF ConfigInv
<1>2. QED
  BY <1>1, ConfigInvariant, PTL

(* A default reaches the profiles whose mode has a field for it, and the    *)
(* driver gets the first of flag, variable, profile and default.            *)
THEOREM DefaultsArrive == Spec => []DefaultsReachTheirModes
<1>1. ConfigInv => DefaultsReachTheirModes
  BY GivenIsFormed, DefaultsReachWhereReached DEF ConfigInv
<1>2. QED
  BY <1>1, ConfigInvariant, PTL

(* A chain's target is the first word on it, read off the file as written.  *)
THEOREM PrecedenceIsKept == Spec => []TargetsFollowThePrecedence
<1>1. ConfigInv => TargetsFollowThePrecedence
  BY GivenIsFormed, PrecedenceWhereReached DEF ConfigInv, InputInv
<1>2. QED
  BY <1>1, ConfigInvariant, PTL

(* A test runs a case of the plain run, or asks for a rebuild.              *)
THEOREM CasesAreOfTheRun == Spec => []TestsRunCasesOfTheRun
<1>1. ConfigInv => TestsRunCasesOfTheRun
  BY GivenIsFormed, CasesWhereReached DEF ConfigInv
<1>2. QED
  BY <1>1, ConfigInvariant, PTL

(* The replay of an artifact meets the chains of the failing run, each as   *)
(* live as it was, under the same seed.                                     *)
THEOREM ChainsAreMetAgain == Spec => []ReplayMeetsTheSameChains
<1>1. ConfigInv => ReplayMeetsTheSameChains
  BY SameChainsWhereReached DEF ConfigInv
<1>2. QED
  BY <1>1, ConfigInvariant, PTL

(* An artifact is a config that loads, resolves and builds, and its steps   *)
(* decode to the recorded ops.                                              *)
THEOREM ArtifactsAreConfigs ==
    ASSUME NotAFunction
    PROVE  Spec => []ArtifactsLoad
<1>1. ConfigInv => ArtifactsLoad
  BY ArtifactsLoadWhereReached DEF ConfigInv
<1>2. QED
  BY <1>1, ConfigInvariant, PTL
=============================================================================
