--------------------------- MODULE Funding_proofs ---------------------------
(***************************************************************************)
(* For any chains, labels, accounts, denoms and amounts, and any bounds:   *)
(* the ledgers never go negative, applying a funding plan takes nothing    *)
(* from a mock, when it returns every requirement on a mock is met or      *)
(* reported, and no step of a test creates or destroys funds beside those  *)
(* it is to.                                                               *)
(***************************************************************************)
EXTENDS Funding, FiniteSetTheorems, NaturalsInduction, WellFoundedInduction, TLAPS

Account == Who \X Denom
Book == [Account -> Nat]

(* Moving what the first account holds leaves every balance a number, also  *)
(* when both accounts are the same.                                         *)
LEMMA MovedIsABook ==
    ASSUME NEW book \in Book, NEW a \in Account, NEW b \in Account,
           NEW n \in Nat, book[a] >= n
    PROVE  Moved(book, a, b, n) \in Book
<1> DEFINE spent == [book EXCEPT ![a] = @ - n]
<1>1. spent \in Book
  BY DEF Book
<1> QED
  BY <1>1 DEF Moved, Book

(* Who else may set a balance, of a mock or of a live chain.                *)
LEMMA SetBalanceIsABook ==
    ASSUME held \in [Chain -> Book], NEW c \in Chain, NEW w \in Who,
           NEW d \in Denom, NEW n \in Nat, SetBalance(c, w, d, n)
    PROVE  /\ held' \in [Chain -> Book]
           /\ \A e \in Chain, x \in Account :
                held'[e][x] = IF e = c /\ x = <<w, d>> THEN n ELSE held[e][x]
  BY DEF SetBalance, Book, Account

(* The coin a requirement is about is one of the denoms.                    *)
LEMMA CoinIsADenom ==
    ASSUME NEW c \in Chain, NEW d \in Denom
    PROVE  Coin(c, d) \in Denom
  BY FundingAssumption DEF Coin
-----------------------------------------------------------------------------
(* Every requirement has a known label and is well formed.                  *)
LEMMA RequirementsAreKnown ==
    ASSUME TypeOK, NEW i \in DOMAIN pending
    PROVE  /\ pending[i] \in Requirement
           /\ Target(i) \in Chain \cup {NoChain}
<1>1. pending \in Seq(Requirement)
  BY DEF TypeOK
<1>2. pending[i] \in Requirement
  BY <1>1
<1> QED
  BY <1>2 DEF TypeOK, Target, Requirement

(* What a move does to the ledgers: balances stay natural numbers, and      *)
(* while a plan is applied only a live chain moves.                         *)
LEMMA MoveStep ==
    ASSUME TypeOK, NEW c \in Chain, Move(c)
    PROVE  /\ held' \in [Chain -> Book]
           /\ moves' \in 0 .. MaxMoves
           /\ phase = "starting" => \A e \in Mock : held'[e] = held[e]
<1> USE FundingAssumption
<1> held \in [Chain -> Book]
  BY DEF TypeOK, Book, Account
<1>1. moves' \in 0 .. MaxMoves
  BY DEF Move, TypeOK
<1>2. PICK w \in Who, v \in Who :
         \/ NewAccount(c, w)
         \/ \E d \in Denom, n \in Amount : Transfer(c, w, v, d, n)
         \/ \E n \in Amount : Call(c, w, v, n) \/ External(c, w, n)
  BY DEF Move
<1>3. CASE NewAccount(c, w)
  BY <1>1, <1>3, SetBalanceIsABook DEF NewAccount
<1>4. CASE \E d \in Denom, n \in Amount : Transfer(c, w, v, d, n)
  <2>1. PICK d \in Denom, n \in Amount : Transfer(c, w, v, d, n)
    BY <1>4
  <2> DEFINE charged == [held[c] EXCEPT ![<<w, d>>] = @ - FeeOf(c)]
  <2>2. charged \in Book
    BY <2>1 DEF Transfer, Book, Account, FeeOf
  <2>3. charged[<<w, d>>] >= n => Moved(charged, <<w, d>>, <<v, d>>, n) \in Book
    BY <2>2, MovedIsABook DEF Account
  <2>4. \E book \in Book : held' = [held EXCEPT ![c] = book]
    BY <2>1, <2>2, <2>3 DEF Transfer
  <2> QED
    BY <1>1, <2>1, <2>4 DEF Transfer
<1>5. CASE \E n \in Amount : Call(c, w, v, n)
  <2>1. PICK n \in Amount : Call(c, w, v, n)
    BY <1>5
  <2> DEFINE a == <<w, Native[c]>>
             topped == IF held[c][a] < n THEN [held[c] EXCEPT ![a] = n] ELSE held[c]
  <2> a \in Account /\ n \in Nat /\ held[c] \in Book
    BY DEF Account, Call
  <2>2. topped \in Book /\ topped[a] >= n
    BY DEF Book
  <2>3. Moved(topped, a, <<v, Native[c]>>, n) \in Book
    BY <2>2, MovedIsABook DEF Account
  <2>4. \E book \in Book : held' = [held EXCEPT ![c] = book]
    BY <2>1, <2>2, <2>3 DEF Call
  <2> QED
    BY <1>1, <2>1, <2>4 DEF Call
<1>6. CASE \E n \in Amount : External(c, w, n)
  <2>1. PICK n \in Amount : External(c, w, n)
    BY <1>6
  <2>2. held' \in [Chain -> Book]
    BY <2>1 DEF External, Book, Account
  <2> QED
    BY <1>1, <2>1, <2>2 DEF External, Mock
<1> QED
  BY <1>2, <1>3, <1>4, <1>5, <1>6

(* What applying one requirement does: balances stay natural numbers, no    *)
(* mock loses anything, only this requirement can be reported, and on a     *)
(* mock it is answered.                                                     *)
LEMMA ApplyStep ==
    ASSUME TypeOK, Apply, NEW i \in Nat, i = applied + 1,
           chains[pending[i].label] # NoChain
    PROVE  /\ held' \in [Chain -> Book]
           /\ \A c \in Mock, a \in Account : held'[c][a] >= held[c][a]
           /\ errors' = errors \/ errors' = errors \cup {i}
           /\ Target(i) \in Mock => Answered(i)'
<1> USE FundingAssumption
<1> DEFINE r == pending[i]
           c == chains[r.label]
<1>1. i \in DOMAIN pending /\ i \notin errors /\ held \in [Chain -> Book]
  <2>1. pending \in Seq(Requirement) /\ applied \in 0 .. Len(pending)
    BY DEF TypeOK
  <2>2. i \in DOMAIN pending
    BY <2>1 DEF Apply
  <2>3. i \notin errors
    BY <2>1 DEF TypeOK
  <2> QED
    BY <2>2, <2>3 DEF TypeOK, Book, Account
<1>2. r \in Requirement /\ c \in Chain /\ r.amount \in Nat
  BY <1>1, RequirementsAreKnown DEF Target, Requirement
<1>3. UNCHANGED <<chains, pending>>
  BY DEF Apply
<1>4. CASE Kind[c] # r.kind
  <2>1. errors' = errors \cup {i} /\ held' = held
    BY <1>2, <1>4 DEF Apply
  <2> QED
    BY <1>1, <1>3, <1>4, <2>1 DEF Answered, Target, Book, Mock
<1>5. CASE Kind[c] = r.kind /\ c \in Live
  <2>1. held' = held /\ (errors' = errors \/ errors' = errors \cup {i})
    BY <1>2, <1>5 DEF Apply, EnsureAsset, Ask, Mock
  <2> QED
    BY <1>1, <1>5, <2>1 DEF Target, Book, Mock
<1>6. CASE Kind[c] = r.kind /\ c \in Mock
  <2> DEFINE d == Coin(c, r.denom)
             x == <<r.who, d>>
  <2>1. d \in Denom /\ r.who \in Who
    BY <1>2, CoinIsADenom DEF Requirement
  <2>2. EnsureAsset(c, r, i)
    BY <1>2, <1>6 DEF Apply
  <2>3. errors' = errors
    BY <1>6, <2>2 DEF EnsureAsset, Mock
  <2>4. x \in Account
    BY <2>1 DEF Account
  <2>5. CASE held[c][x] < r.amount
    <3>1. SetBalance(c, r.who, d, r.amount)
      BY <1>6, <2>2, <2>5 DEF EnsureAsset, Mint, Mock, Balance
    <3>2. /\ held' \in [Chain -> Book]
          /\ \A e \in Chain, y \in Account :
               held'[e][y] = IF e = c /\ y = x THEN r.amount ELSE held[e][y]
      BY <1>1, <1>2, <2>1, <3>1, SetBalanceIsABook
    <3> HIDE DEF x
    <3>3. held'[c][x] = r.amount
      BY <1>2, <2>4, <3>2
    <3>4. ASSUME NEW e \in Mock, NEW y \in Account
          PROVE  held'[e][y] >= held[e][y]
      <4>1. e \in Chain /\ held[e][y] \in Nat
        BY <1>1 DEF Book, Mock
      <4> QED
        BY <1>2, <2>5, <3>2, <4>1
    <3>5. held'[c][x] >= r.amount
      BY <1>2, <3>3
    <3>6. Answered(i)'
      <4>1. pending'[i] = r /\ Target(i)' = c
        BY <1>3 DEF Target
      <4> QED
        BY <1>1, <1>6, <2>3, <3>5, <4>1 DEF Answered, Balance, x
    <3> QED
      BY <2>3, <3>2, <3>4, <3>6
  <2>6. CASE ~(held[c][x] < r.amount)
    <3>1. held' = held
      BY <1>6, <2>2, <2>6 DEF EnsureAsset, Mint, Mock, Balance
    <3> DEFINE h == held[c][x]
    <3>2. h \in Nat /\ r.amount \in Nat /\ ~(h < r.amount)
      <4> HIDE DEF x
      <4>1. held[c] \in Book
        BY <1>1, <1>2
      <4> QED
        BY <1>2, <2>4, <2>6, <4>1 DEF Book
    <3>3. h \in Nat /\ h >= r.amount
      <4> HIDE DEF h
      <4> QED
        BY <3>2
    <3>4. \A e \in Mock, y \in Account : held[e][y] >= held[e][y]
      BY <1>1 DEF Book, Mock
    <3> QED
      BY <1>1, <1>3, <1>6, <2>3, <3>1, <3>3, <3>4 DEF Answered, Target, Balance
  <2> QED
    BY <2>5, <2>6
<1> QED
  BY <1>2, <1>4, <1>5, <1>6 DEF Mock
-----------------------------------------------------------------------------
(* A requirement keeps a chain under its label, though not always the one   *)
(* it was declared for.                                                     *)
LabelsStay == \A i \in DOMAIN pending : chains[pending[i].label] # NoChain

(* The requirements applied so far are met together.                        *)
AppliedStayMet ==
    phase = "starting" => \A i \in 1 .. applied : Target(i) \in Mock => Answered(i)

FundInv ==
    /\ TypeOK
    /\ LabelsStay
    /\ phase = "setup" => applied = 0
    /\ AppliedStayMet

(* A fresh environment satisfies the invariant.                             *)
LEMMA FundInvInit == Init => FundInv
<1> SUFFICES ASSUME Init PROVE FundInv
  OBVIOUS
<1> USE FundingAssumption DEF Init
<1>1. pending \in Seq(Requirement) /\ Len(pending) = 0 /\ DOMAIN pending = {}
  OBVIOUS
<1>2. held \in [Chain -> [Who \X Denom -> Nat]]
  OBVIOUS
<1>3. TypeOK
  BY <1>1, <1>2 DEF TypeOK
<1> QED
  BY <1>1, <1>3 DEF FundInv, LabelsStay, AppliedStayMet

(* Every step preserves it.                                                 *)
LEMMA FundInvStep == FundInv /\ [Next]_vars => FundInv'
<1> SUFFICES ASSUME FundInv, [Next]_vars PROVE FundInv'
  OBVIOUS
<1> USE FundingAssumption
<1> TypeOK
  BY DEF FundInv
<1>t. /\ pending \in Seq(Requirement)
      /\ chains \in [Label -> Chain \cup {NoChain}]
      /\ applied \in 0 .. Len(pending)
      /\ held \in [Chain -> Book]
  BY DEF TypeOK, Book, Account
<1>1. ASSUME NEW l \in Label, NEW c \in Chain, Inject(l, c) PROVE FundInv'
  <2>1. TypeOK'
    BY <1>1 DEF Inject, TypeOK
  <2>2. LabelsStay'
    <3>1. ASSUME NEW i \in DOMAIN pending PROVE chains'[pending[i].label] # NoChain
      <4>1. pending[i] \in Requirement
        BY <1>t
      <4> QED
        BY <1>1, <1>t, <4>1 DEF Inject, FundInv, LabelsStay, Requirement
    <3> QED
      BY <1>1, <3>1 DEF Inject, LabelsStay
  <2> QED
    BY <1>1, <2>1, <2>2 DEF Inject, FundInv, AppliedStayMet
<1>2. ASSUME NEW l \in Label, NEW w \in Who, NEW d \in Denom, NEW n \in Amount,
             Fund(l, w, d, n)
      PROVE  FundInv'
  <2> DEFINE r == [label |-> l, kind |-> Kind[chains[l]], who |-> w, denom |-> d,
                   amount |-> n]
  <2>1. r \in Requirement /\ chains[r.label] # NoChain
    BY <1>2, <1>t DEF Fund, Requirement
  <2>2. pending' = Append(pending, r)
    BY <1>2 DEF Fund
  <2> HIDE DEF r
  <2>3. /\ pending' \in Seq(Requirement) /\ Len(pending') = Len(pending) + 1
        /\ \A i \in DOMAIN pending' : pending'[i] = r \/ (i \in DOMAIN pending /\ pending'[i] = pending[i])
    BY <1>t, <2>1, <2>2
  <2>4. TypeOK'
    <3>1. applied \in 0 .. Len(pending')
      BY <1>t, <2>3
    <3> QED
      BY <1>2, <2>3, <3>1 DEF Fund, TypeOK
  <2>5. LabelsStay'
    BY <1>2, <2>1, <2>3 DEF Fund, FundInv, LabelsStay
  <2> QED
    BY <1>2, <2>4, <2>5 DEF Fund, FundInv, AppliedStayMet
<1>3. CASE Start
  <2>1. TypeOK' /\ LabelsStay'
    BY <1>3 DEF Start, FundInv, TypeOK, LabelsStay
  <2>2. applied' = 0 /\ phase' = "starting"
    BY <1>3 DEF Start, FundInv
  <2> QED
    BY <2>1, <2>2 DEF FundInv, AppliedStayMet
<1>4. CASE Apply
  <2>0. PICK k \in Nat : k = applied + 1
    BY <1>t
  <2>1. k \in DOMAIN pending
    BY <1>4, <1>t, <2>0 DEF Apply
  <2>2. /\ held' \in [Chain -> Book]
        /\ \A c \in Mock, a \in Account : held'[c][a] >= held[c][a]
        /\ errors' = errors \/ errors' = errors \cup {k}
        /\ Target(k) \in Mock => Answered(k)'
    BY <1>4, <2>0, <2>1, ApplyStep DEF FundInv, LabelsStay
  <2>3. UNCHANGED <<phase, chains, pending, moves>> /\ applied' = k
    BY <1>4, <2>0 DEF Apply
  <2>4. TypeOK'
    <3>1. applied' \in 0 .. Len(pending')
      BY <1>t, <2>0, <2>1, <2>3
    <3>2. errors \subseteq 1 .. applied
      BY DEF TypeOK
    <3>3. errors' \subseteq 1 .. applied'
      <4>1. 1 .. applied \subseteq 1 .. k /\ k \in 1 .. k
        BY <1>t, <2>0
      <4>2. errors' \subseteq errors \cup {k}
        BY <2>2
      <4> QED
        BY <2>3, <3>2, <4>1, <4>2
    <3> QED
      BY <2>2, <2>3, <3>1, <3>3 DEF TypeOK, Book, Account
  <2>5. ASSUME NEW i \in 1 .. applied, Target(i) \in Mock PROVE Answered(i)'
    <3>1. i \in DOMAIN pending /\ i # k
      BY <1>t, <2>0
    <3>2. Answered(i)
      BY <1>4, <2>5 DEF Apply, FundInv, AppliedStayMet
    <3>3. Target(i)' = Target(i) /\ pending' = pending /\ (i \in errors' <=> i \in errors)
      BY <2>2, <2>3, <3>1 DEF Target
    <3> DEFINE c == Target(i)
               x == <<pending[i].who, Coin(c, pending[i].denom)>>
    <3>4. x \in Account /\ pending[i].amount \in Nat /\ c \in Chain
      <4>1. pending[i] \in Requirement
        BY <3>1, RequirementsAreKnown
      <4>2. c \in Chain
        BY <2>5 DEF Mock
      <4> QED
        BY <4>1, <4>2, CoinIsADenom DEF Requirement, Account
    <3> HIDE DEF x
    <3>5. held'[c][x] >= held[c][x] /\ held'[c][x] \in Nat /\ held[c][x] \in Nat
      BY <1>t, <2>2, <2>5, <3>4 DEF Book
    <3> QED
      BY <3>2, <3>3, <3>4, <3>5 DEF Answered, Balance, x
  <2>6. \A i \in 1 .. k : Target(i)' \in Mock => Answered(i)'
    <3>1. \A i \in 1 .. k : i = k \/ i \in 1 .. applied
      BY <1>t, <2>0
    <3>2. \A i : Target(i)' = Target(i)
      BY <2>3 DEF Target
    <3> QED
      BY <2>2, <2>5, <3>1, <3>2
  <2> QED
    BY <1>4, <2>3, <2>4, <2>6 DEF Apply, FundInv, LabelsStay, AppliedStayMet
<1>5. CASE Finish
  BY <1>5 DEF Finish, FundInv, TypeOK, LabelsStay, AppliedStayMet
<1>6. ASSUME NEW c \in Chain, Move(c) PROVE FundInv'
  <2>1. UNCHANGED env
    BY <1>6 DEF Move
  <2>2. /\ held' \in [Chain -> Book]
        /\ moves' \in 0 .. MaxMoves
        /\ phase = "starting" => \A e \in Mock : held'[e] = held[e]
    BY <1>6, MoveStep
  <2>3. TypeOK'
    BY <2>1, <2>2 DEF env, TypeOK, Book, Account
  <2>4. AppliedStayMet'
    BY <2>1, <2>2 DEF env, FundInv, AppliedStayMet, Answered, Balance, Target
  <2> QED
    BY <2>1, <2>3, <2>4 DEF env, FundInv, LabelsStay
<1>7. CASE UNCHANGED vars
  BY <1>7 DEF vars, FundInv, TypeOK, LabelsStay, AppliedStayMet, Answered, Balance, Target
<1> QED
  BY <1>1, <1>2, <1>3, <1>4, <1>5, <1>6, <1>7 DEF Next

(* Funding never loses its types: no transfer, top-up, call or requirement  *)
(* of the mocks leaves a balance below zero.                                *)
THEOREM TypeCorrect == Spec => []TypeOK
<1>1. FundInv => TypeOK
  BY DEF FundInv
<1> QED
  BY <1>1, FundInvInit, FundInvStep, PTL DEF Spec

(* start() lowers no balance of a mock, whatever the plan, its order and    *)
(* the labels its requirements share.                                       *)
THEOREM StartTakesNothing == Spec => FundingNeverTakes
<1>1. ASSUME FundInv, [Next]_vars, phase = "starting",
             NEW c \in Mock, NEW a \in Who \X Denom
      PROVE  held'[c][a] >= held[c][a]
  <2>1. TypeOK /\ held[c][a] \in Nat
    BY <1>1 DEF FundInv, TypeOK, Mock
  <2>2. CASE Apply
    <3>1. PICK i \in Nat : i = applied + 1
      BY <2>1 DEF TypeOK
    <3>2. i \in DOMAIN pending
      BY <2>1, <2>2, <3>1 DEF Apply, TypeOK
    <3> QED
      BY <1>1, <2>1, <2>2, <3>1, <3>2, ApplyStep DEF FundInv, LabelsStay, Account
  <2>3. ASSUME NEW e \in Chain, Move(e) PROVE held'[c] = held[c]
    BY <1>1, <2>1, <2>3, MoveStep
  <2>4. CASE held' = held
    BY <2>1, <2>4
  <2> QED
    BY <1>1, <2>1, <2>2, <2>3, <2>4 DEF Next, Inject, Fund, Start, Finish, vars
<1>2. FundInv /\ [Next]_vars =>
        (phase = "starting" =>
           \A c \in Mock : \A a \in Who \X Denom : held'[c][a] >= held[c][a])
  BY <1>1
<1> QED
  BY <1>2, FundInvInit, FundInvStep, PTL DEF Spec, FundingNeverTakes

(* When start() returns, with an environment or with errors, each           *)
(* requirement on a mock chain holds or its mismatch is reported, all of    *)
(* them at once; and it returns an environment only without any error.      *)
THEOREM PlanHolds == Spec => PlanIsApplied
<1> DEFINE Returned ==
      phase = "starting" /\ phase' # "starting" =>
         /\ phase' = "running" <=> errors = {}
         /\ \A i \in DOMAIN pending : Target(i) \in Mock => Answered(i)
<1>1. ASSUME FundInv, [Next]_vars PROVE Returned
  <2> SUFFICES ASSUME phase = "starting", phase' # "starting"
               PROVE  /\ phase' = "running" <=> errors = {}
                      /\ \A i \in DOMAIN pending : Target(i) \in Mock => Answered(i)
    OBVIOUS
  <2>1. Finish
    BY <1>1 DEF Next, Inject, Fund, Start, Apply, Move, env, vars
  <2>2. DOMAIN pending = 1 .. applied
    BY <1>1, <2>1 DEF Finish, FundInv, TypeOK
  <2> QED
    BY <1>1, <2>1, <2>2 DEF Finish, FundInv, AppliedStayMet
<1>2. FundInv /\ [Next]_vars => Returned
  BY <1>1
<1>3. FundInv /\ [Next]_vars => [Returned]_vars
  BY <1>2
<1> QED
  BY <1>2, FundInvInit, FundInvStep, PTL DEF Spec, PlanIsApplied
-----------------------------------------------------------------------------
(* The sum over the accounts, as the fold computes it: set by set, of one   *)
(* account of the set and of the rest.                                      *)
Some(s) == CHOOSE w \in s : TRUE

SumOf(book, d, sums, s) ==
    IF s = {} THEN 0 ELSE book[<<Some(s), d>>] + sums[s \ {Some(s)}]

SumStep(book, d, sums) == [s \in SUBSET Who |-> SumOf(book, d, sums, s)]

Sums(book, d) == CHOOSE sums : sums = SumStep(book, d, sums)

(* A supply is that sum.                                                   *)
LEMMA SupplyIsSum ==
    ASSUME NEW book, NEW d
    PROVE  Supply(book, d) = Sums(book, d)[Who]
  BY DEF Supply, MapThenSumSet, MapThenFoldSet, Sums, SumStep, SumOf, Some

(* Induction over the numbers up to a bound, for a set.                     *)
LEMMA UpTo ==
    ASSUME NEW m \in Nat, NEW S, 0 \in S, \A n \in 1 .. m : n - 1 \in S => n \in S
    PROVE  0 .. m \subseteq S
<1> DEFINE T == {n \in 0 .. m : n \notin S}
<1>1. SUFFICES ASSUME T # {} PROVE FALSE
  OBVIOUS
<1>2. T \subseteq Nat
  OBVIOUS
<1>3. PICK n \in T : \A k \in T : ~ (<<k, n>> \in OpToRel(<, Nat))
  BY <1>1, <1>2, NatLessThanWellFounded, WFMin, Zenon
<1>4. \A k \in T : ~ (k < n)
  BY <1>2, <1>3 DEF OpToRel
<1>5. n \in 1 .. m /\ n - 1 \in 0 .. m /\ n - 1 < n
  OBVIOUS
<1> QED
  BY <1>4, <1>5

(* What is left of a set of accounts without one of them is smaller.        *)
LEMMA OneLess ==
    ASSUME NEW s \in SUBSET Who
    PROVE  /\ Cardinality(s) \in 0 .. Cardinality(Who)
           /\ Cardinality(s) = 0 => s = {}
           /\ s # {} => /\ Some(s) \in s /\ s \ {Some(s)} \in SUBSET Who
                        /\ Cardinality(s \ {Some(s)}) = Cardinality(s) - 1
                        /\ Cardinality(s) > 0
<1>1. IsFiniteSet(Who)
  BY FundingAssumption
<1>2. IsFiniteSet(s) /\ Cardinality(s) <= Cardinality(Who)
  BY <1>1, FS_Subset
<1>3. Cardinality(s) \in Nat /\ Cardinality(Who) \in Nat
  BY <1>1, <1>2, FS_CardinalityType
<1>4. Cardinality(s) = 0 <=> s = {}
  BY <1>2, FS_EmptySet
<1>5. s # {} => Some(s) \in s
  BY DEF Some
<1>6. s # {} => Cardinality(s \ {Some(s)}) = Cardinality(s) - 1
  BY <1>2, <1>5, FS_RemoveElement
<1> QED
  BY <1>2, <1>3, <1>4, <1>5, <1>6

(* There are such sums.                                                     *)
LEMMA SumsExist ==
    ASSUME NEW book, NEW d
    PROVE  Sums(book, d) = SumStep(book, d, Sums(book, d))
<1> DEFINE m == Cardinality(Who)
           Good(f, n) == \A s \in SUBSET Who : Cardinality(s) <= n =>
                           f[s] = IF s = {} THEN 0 ELSE book[<<Some(s), d>>] + f[s \ {Some(s)}]
           S == {n \in 0 .. m : \E f : Good(f, n)}
<1>1. m \in Nat
  BY FundingAssumption, FS_CardinalityType
<1>2. 0 \in S
  <2> DEFINE f == [s \in SUBSET Who |-> 0]
  <2>1. Good(f, 0)
    <3>1. SUFFICES ASSUME NEW s \in SUBSET Who, Cardinality(s) <= 0 PROVE s = {}
      OBVIOUS
    <3>2. Cardinality(s) \in 0 .. m /\ (Cardinality(s) = 0 => s = {})
      BY OneLess
    <3>3. QED
      BY <1>1, <3>1, <3>2
  <2> HIDE DEF f, Good
  <2>2. \E h : Good(h, 0)
    BY <2>1
  <2>3. QED
    BY <1>1, <2>2
<1>3. ASSUME NEW n \in 1 .. m, n - 1 \in S PROVE n \in S
  <2>1. PICK f : Good(f, n - 1)
    BY <1>3
  <2> DEFINE g == SumStep(book, d, f)
  <2>2. ASSUME NEW s \in SUBSET Who
        PROVE  g[s] = IF s = {} THEN 0 ELSE book[<<Some(s), d>>] + f[s \ {Some(s)}]
    BY DEF SumStep, SumOf
  <2> HIDE DEF g
  <2>3. ASSUME NEW s \in SUBSET Who, Cardinality(s) <= n
        PROVE  g[s] = IF s = {} THEN 0 ELSE book[<<Some(s), d>>] + g[s \ {Some(s)}]
    <3>1. CASE s = {}
      BY <2>2, <3>1
    <3>2. CASE s # {}
      <4> DEFINE r == s \ {Some(s)}
      <4>1. r \in SUBSET Who /\ Cardinality(r) <= n - 1
        BY <1>1, <2>3, <3>2, OneLess
      <4>2. f[r] = IF r = {} THEN 0 ELSE book[<<Some(r), d>>] + f[r \ {Some(r)}]
        BY <2>1, <4>1
      <4>3. f[r] = g[r]
        BY <2>2, <4>1, <4>2
      <4>4. QED
        BY <2>2, <3>2, <4>3
    <3>3. QED
      BY <3>1, <3>2
  <2>4. Good(g, n)
    BY <2>3
  <2> HIDE DEF Good
  <2>5. \E h : Good(h, n)
    BY <2>4
  <2>6. QED
    BY <1>1, <2>5
<1>4. m \in S
  <2> HIDE DEF S
  <2>1. 0 .. m \subseteq S
    BY <1>1, <1>2, <1>3, UpTo
  <2>2. QED
    BY <1>1, <2>1
<1>5. PICK f : Good(f, m)
  BY <1>4
<1> DEFINE g == [s \in SUBSET Who |-> f[s]]
<1>6. ASSUME NEW s \in SUBSET Who PROVE g[s] = SumStep(book, d, g)[s]
  <2>1. f[s] = IF s = {} THEN 0 ELSE book[<<Some(s), d>>] + f[s \ {Some(s)}]
    BY <1>1, <1>5, OneLess
  <2>2. s # {} => g[s \ {Some(s)}] = f[s \ {Some(s)}]
    OBVIOUS
  <2>3. SumStep(book, d, g)[s] = IF s = {} THEN 0 ELSE book[<<Some(s), d>>] + g[s \ {Some(s)}]
    BY DEF SumStep, SumOf
  <2>4. QED
    BY <2>1, <2>2, <2>3
<1>7. g = SumStep(book, d, g)
  <2> DEFINE h == SumStep(book, d, g)
  <2>1. h = [s \in SUBSET Who |-> h[s]] /\ g = [s \in SUBSET Who |-> g[s]]
    BY DEF SumStep, SumOf
  <2>2. \A s \in SUBSET Who : g[s] = h[s]
    BY <1>6
  <2> HIDE DEF g, h
  <2>3. g = h
    BY <2>1, <2>2
  <2>4. QED
    BY <2>3 DEF h
<1> HIDE DEF g
<1>8. QED
  BY <1>7 DEF Sums

(* A set's sum is that of one account of it and of the rest.                *)
LEMMA SumsFollow ==
    ASSUME NEW book, NEW d
    PROVE  \A s \in SUBSET Who : Sums(book, d)[s] = SumOf(book, d, Sums(book, d), s)
<1> TAKE s \in SUBSET Who
<1> DEFINE sums == Sums(book, d)
<1>1. sums = SumStep(book, d, sums)
  BY SumsExist
<1> HIDE DEF sums
<1>2. sums[s] = SumStep(book, d, sums)[s]
  BY <1>1
<1>3. SumStep(book, d, sums)[s] = SumOf(book, d, sums, s)
  BY DEF SumStep
<1>4. QED
  BY <1>2, <1>3 DEF sums

(* A supply is a sum of the balances: one that changes changes it by as     *)
(* much.                                                                    *)
LEMMA OneChanges ==
    ASSUME NEW old \in Book, NEW new \in Book, NEW d \in Denom, NEW w \in Who,
           \A v \in Who \ {w} : new[<<v, d>>] = old[<<v, d>>]
    PROVE  /\ Supply(old, d) \in Int /\ Supply(new, d) \in Int
           /\ Supply(new, d) = Supply(old, d) + (new[<<w, d>>] - old[<<w, d>>])
<1> DEFINE m == Cardinality(Who)
           more == new[<<w, d>>] - old[<<w, d>>]
           was(s) == Sums(old, d)[s]
           is(s) == Sums(new, d)[s]
           Good(s) == was(s) \in Int /\ is(s) = was(s) + IF w \in s THEN more ELSE 0
           S == {n \in 0 .. m : \A s \in SUBSET Who : Cardinality(s) = n => Good(s)}
<1>1. m \in Nat /\ more \in Int /\ \A v \in Who : old[<<v, d>>] \in Nat /\ new[<<v, d>>] \in Nat
  <2>1. \A v \in Who : <<v, d>> \in Account
    BY DEF Account
  <2>2. QED
    BY <2>1, FundingAssumption, FS_CardinalityType DEF Book
<1>2. ASSUME NEW s \in SUBSET Who
      PROVE  /\ was(s) = IF s = {} THEN 0 ELSE old[<<Some(s), d>>] + was(s \ {Some(s)})
             /\ is(s) = IF s = {} THEN 0 ELSE new[<<Some(s), d>>] + is(s \ {Some(s)})
  <2>1. Sums(old, d)[s] = SumOf(old, d, Sums(old, d), s)
    BY SumsFollow, Zenon
  <2>2. Sums(new, d)[s] = SumOf(new, d, Sums(new, d), s)
    BY SumsFollow, Zenon
  <2>3. QED
    BY <2>1, <2>2 DEF SumOf
<1> HIDE DEF was, is
<1>3. 0 \in S
  <2>1. ASSUME NEW s \in SUBSET Who, Cardinality(s) = 0 PROVE Good(s)
    <3>1. s = {}
      BY <2>1, OneLess
    <3>2. was(s) = 0 /\ is(s) = 0 /\ w \notin s
      BY <1>2, <3>1
    <3>3. QED
      BY <3>2
  <2>2. QED
    BY <1>1, <2>1
<1>4. ASSUME NEW n \in 1 .. m, n - 1 \in S PROVE n \in S
  <2>1. ASSUME NEW s \in SUBSET Who, Cardinality(s) = n PROVE Good(s)
    <3> DEFINE x == Some(s)
               r == s \ {x}
    <3>1. s # {}
      <4>1. s = {} => Cardinality(s) = 0
        BY FS_EmptySet
      <4>2. n # 0
        BY <1>1
      <4>3. QED
        BY <2>1, <4>1, <4>2
    <3>2. x \in s /\ x \in Who /\ r \in SUBSET Who /\ Cardinality(r) = n - 1
      BY <2>1, <3>1, OneLess
    <3>3. Good(r)
      BY <1>4, <3>2
    <3>4. was(s) = old[<<x, d>>] + was(r) /\ is(s) = new[<<x, d>>] + is(r)
      BY <1>2, <3>1
    <3>5. (w \in s <=> w = x \/ w \in r) /\ x \notin r
      BY <3>2
    <3> HIDE DEF x, r
    <3>6. CASE w = x
      BY <1>1, <3>2, <3>3, <3>4, <3>5, <3>6
    <3>7. CASE w # x
      <4>1. new[<<x, d>>] = old[<<x, d>>]
        BY <3>2, <3>7
      <4>2. QED
        BY <1>1, <3>2, <3>3, <3>4, <3>5, <3>7, <4>1
    <3>8. QED
      BY <3>6, <3>7
  <2>2. QED
    BY <1>1, <2>1
<1>5. m \in S
  <2> HIDE DEF S
  <2>1. 0 .. m \subseteq S
    BY <1>1, <1>3, <1>4, UpTo
  <2>2. QED
    BY <1>1, <2>1
<1>6. Good(Who)
  BY <1>5
<1>7. Supply(old, d) = was(Who) /\ Supply(new, d) = is(Who)
  BY SupplyIsSum DEF was, is
<1> HIDE DEF more
<1>8. was(Who) \in Int /\ is(Who) = was(Who) + more
  BY <1>6
<1>9. QED
  BY <1>1, <1>7, <1>8 DEF more

(* A supply is a number, also of no accounts at all.                        *)
LEMMA SupplyIsInt ==
    ASSUME NEW book \in Book, NEW d \in Denom
    PROVE  Supply(book, d) \in Int
<1>1. CASE Who = {}
  <2>1. Sums(book, d)[Who] = SumOf(book, d, Sums(book, d), Who)
    BY SumsFollow, Zenon
  <2>2. QED
    BY <1>1, <2>1, SupplyIsSum DEF SumOf
<1>2. CASE Who # {}
  <2>1. PICK w : w \in Who
    BY <1>2
  <2>2. QED
    BY <2>1, OneChanges
<1>3. QED
  BY <1>1, <1>2

(* Setting one balance.                                                     *)
LEMMA OneIsSet ==
    ASSUME NEW book \in Book, NEW w \in Who, NEW e \in Denom, NEW x \in Nat, NEW d \in Denom
    PROVE  /\ [book EXCEPT ![<<w, e>>] = x] \in Book
           /\ Supply(book, d) \in Int
           /\ Supply([book EXCEPT ![<<w, e>>] = x], d) =
                Supply(book, d) + IF d = e THEN x - book[<<w, e>>] ELSE 0
<1> DEFINE new == [book EXCEPT ![<<w, e>>] = x]
<1>1. /\ new \in Book
      /\ \A v \in Who : new[<<v, d>>] = IF v = w /\ d = e THEN x ELSE book[<<v, d>>]
  BY DEF Book, Account
<1>2. <<w, d>> \in Account /\ book[<<w, d>>] \in Nat
  BY DEF Account, Book
<1> HIDE DEF new
<1>3. Supply(book, d) \in Int /\ Supply(new, d) = Supply(book, d) + (new[<<w, d>>] - book[<<w, d>>])
  BY <1>1, OneChanges
<1>4. new[<<w, d>>] - book[<<w, d>>] = IF d = e THEN x - book[<<w, e>>] ELSE 0
  BY <1>1, <1>2
<1>5. QED
  BY <1>1, <1>3, <1>4 DEF new

(* What one account gives another, or itself, neither adds nor takes.       *)
LEMMA MovedKeeps ==
    ASSUME NEW book \in Book, NEW w \in Who, NEW v \in Who, NEW e \in Denom,
           NEW n \in Nat, book[<<w, e>>] >= n, NEW d \in Denom
    PROVE  Supply(Moved(book, <<w, e>>, <<v, e>>, n), d) = Supply(book, d)
<1> DEFINE left == book[<<w, e>>] - n
           spent == [book EXCEPT ![<<w, e>>] = left]
           got == spent[<<v, e>>] + n
<1>1. left \in Nat /\ book[<<w, e>>] \in Nat
  BY DEF Book, Account
<1>2. Moved(book, <<w, e>>, <<v, e>>, n) = [spent EXCEPT ![<<v, e>>] = got]
  BY DEF Moved
<1> HIDE DEF left
<1>3. /\ spent \in Book /\ Supply(book, d) \in Int
      /\ Supply(spent, d) = Supply(book, d) + IF d = e THEN left - book[<<w, e>>] ELSE 0
  BY <1>1, OneIsSet
<1> HIDE DEF spent
<1>4. got \in Nat /\ spent[<<v, e>>] \in Nat
  BY <1>3 DEF Book, Account
<1>5. got - spent[<<v, e>>] = n
  BY <1>4
<1> HIDE DEF got
<1>6. /\ Supply(spent, d) \in Int
      /\ Supply([spent EXCEPT ![<<v, e>>] = got], d) =
           Supply(spent, d) + IF d = e THEN got - spent[<<v, e>>] ELSE 0
  BY <1>3, <1>4, OneIsSet
<1>7. left - book[<<w, e>>] = -n
  BY <1>1 DEF left
<1>8. QED
  BY <1>2, <1>3, <1>5, <1>6, <1>7

(* What a step of a running test does to the supply of a mock.              *)
LEMMA MoveKeeps ==
    ASSUME TypeOK, NEW c \in Chain, Move(c), NEW e \in Mock, NEW d \in Denom
    PROVE  LET gained == Supply(held'[e], d) - Supply(held[e], d)
           IN  \/ phase = "starting"
               \/ \E w \in Who : NewAccount(e, w)
               \/ gained \in {0, -FeeOf(e)}
               \/ gained > 0 /\ \E w, v \in Who, n \in Amount : Call(e, w, v, n)
<1> USE FundingAssumption
<1> DEFINE gained == Supply(held'[e], d) - Supply(held[e], d)
<1>1. held \in [Chain -> Book] /\ e \in Chain /\ held[e] \in Book
  BY DEF TypeOK, Book, Account, Mock
<1>2. Supply(held[e], d) \in Int
  BY <1>1, SupplyIsInt
<1>3. held'[e] = held[e] => gained = 0
  BY <1>2
<1>4. PICK w \in Who, v \in Who :
         \/ NewAccount(c, w)
         \/ \E b \in Denom, n \in Amount : Transfer(c, w, v, b, n)
         \/ \E n \in Amount : Call(c, w, v, n) \/ External(c, w, n)
  BY DEF Move
<1>5. CASE c # e
  <2>1. \E book : held' = [held EXCEPT ![c] = book]
    <3>1. CASE NewAccount(c, w)
      <4>1. held' = [held EXCEPT ![c] = [held[c] EXCEPT ![<<w, Native[c]>>] = Given]]
        BY <1>1, <3>1 DEF NewAccount, SetBalance
      <4>2. QED
        BY <4>1
    <3>2. CASE \E b \in Denom, n \in Amount : Transfer(c, w, v, b, n)
      BY <3>2 DEF Transfer
    <3>3. CASE \E n \in Amount : Call(c, w, v, n)
      BY <3>3 DEF Call
    <3>4. CASE \E n \in Amount : External(c, w, n)
      <4>1. PICK n \in Amount : held' = [held EXCEPT ![c] = [held[c] EXCEPT ![<<w, Native[c]>>] = n]]
        BY <1>1, <3>4 DEF External
      <4>2. QED
        BY <4>1
    <3>5. QED
      BY <1>4, <3>1, <3>2, <3>3, <3>4
  <2>2. held'[e] = held[e]
    BY <1>1, <1>5, <2>1
  <2>3. QED
    BY <1>3, <2>2
<1>6. CASE c = e /\ \E b \in Denom, n \in Amount : Transfer(c, w, v, b, n)
  <2>1. PICK b \in Denom, n \in Amount : Transfer(c, w, v, b, n)
    BY <1>6
  <2> DEFINE left == held[c][<<w, b>>] - FeeOf(c)
             charged == [held[c] EXCEPT ![<<w, b>>] = left]
  <2>2. left \in Nat /\ FeeOf(c) \in Nat /\ held[c][<<w, b>>] \in Nat /\ n \in Nat
    BY <1>1, <1>6, <2>1 DEF Transfer, FeeOf, Book, Account
  <2>3. \/ held'[c] = charged
        \/ charged[<<w, b>>] >= n /\ held'[c] = Moved(charged, <<w, b>>, <<v, b>>, n)
    BY <1>1, <2>1 DEF Transfer
  <2>4. left - held[c][<<w, b>>] = -FeeOf(c)
    BY <2>2
  <2> HIDE DEF left
  <2>5. /\ charged \in Book
        /\ Supply(charged, d) = Supply(held[c], d) + IF d = b THEN -FeeOf(c) ELSE 0
    BY <1>1, <1>6, <2>2, <2>4, OneIsSet
  <2> HIDE DEF charged
  <2>6. Supply(held'[c], d) = Supply(charged, d)
    BY <2>2, <2>3, <2>5, MovedKeeps
  <2>7. gained \in {0, -FeeOf(c)}
    BY <1>2, <1>6, <2>2, <2>5, <2>6
  <2>8. QED
    BY <1>6, <2>7
<1>7. CASE c = e /\ \E n \in Amount : Call(c, w, v, n)
  <2>1. PICK n \in Amount : Call(c, w, v, n)
    BY <1>7
  <2> DEFINE a == <<w, Native[c]>>
             topped == IF held[c][a] < n THEN [held[c] EXCEPT ![a] = n] ELSE held[c]
  <2>2. n \in Nat /\ Native[c] \in Denom /\ held[c][a] \in Nat
    BY <1>1, <1>7 DEF Book, Account
  <2>3. /\ topped \in Book /\ topped[a] >= n
        /\ Supply(topped, d) >= Supply(held[c], d) /\ Supply(topped, d) \in Int
    <3>1. CASE held[c][a] < n
      <4>1. /\ [held[c] EXCEPT ![a] = n] \in Book
            /\ Supply([held[c] EXCEPT ![a] = n], d) =
                 Supply(held[c], d) + IF d = Native[c] THEN n - held[c][a] ELSE 0
        BY <1>1, <1>7, <2>2, OneIsSet
      <4>2. [held[c] EXCEPT ![a] = n][a] = n
        BY <1>1, <1>7, <2>2 DEF Book, Account
      <4>3. QED
        BY <1>2, <1>7, <2>2, <3>1, <4>1, <4>2
    <3>2. CASE ~(held[c][a] < n)
      BY <1>1, <1>2, <1>7, <2>2, <3>2
    <3>3. QED
      BY <3>1, <3>2
  <2>4. held'[c] = topped \/ held'[c] = Moved(topped, a, <<v, Native[c]>>, n)
    BY <1>1, <2>1 DEF Call
  <2> HIDE DEF topped
  <2>5. Supply(held'[c], d) = Supply(topped, d)
    BY <2>2, <2>3, <2>4, MovedKeeps
  <2>6. gained = 0 \/ gained > 0
    BY <1>2, <1>7, <2>3, <2>5
  <2>7. QED
    BY <1>7, <2>1, <2>6
<1>8. CASE c = e /\ NewAccount(c, w)
  BY <1>8
<1>9. ASSUME c = e, NEW n \in Amount, External(c, w, n) PROVE FALSE
  BY <1>9 DEF External, Mock
<1>10. QED
  BY <1>4, <1>5, <1>6, <1>7, <1>8, <1>9

(* A running test destroys no funds of a mock but Solana's fees and what an *)
(* account held that is created again, and only the top-up of a call        *)
(* creates any (transfer_funds, call_value, new_account).                   *)
THEOREM SupplyIsConserved == Spec => SupplyIsKept
<1> DEFINE Kept(c, d) ==
      \/ phase = "starting"
      \/ \E w \in Who : NewAccount(c, w)
      \/ LET gained == Supply(held'[c], d) - Supply(held[c], d)
         IN  \/ gained \in {0, -FeeOf(c)}
             \/ gained > 0 /\ \E w, v \in Who, n \in Amount : Call(c, w, v, n)
<1>1. ASSUME FundInv, [Next]_vars, NEW c \in Mock, NEW d \in Denom PROVE Kept(c, d)
  <2>1. TypeOK
    BY <1>1 DEF FundInv
  <2>2. ASSUME NEW e \in Chain, Move(e) PROVE Kept(c, d)
    BY <1>1, <2>1, <2>2, MoveKeeps
  <2>3. CASE held' = held
    <3>1. Supply(held[c], d) \in Int
      <4>1. held[c] \in Book
        BY <1>1, <2>1 DEF TypeOK, Book, Account, Mock
      <4>2. QED
        BY <4>1, SupplyIsInt
    <3>2. Supply(held'[c], d) - Supply(held[c], d) = 0
      BY <2>3, <3>1
    <3>3. QED
      BY <3>2
  <2>4. QED
    BY <1>1, <2>2, <2>3 DEF Next, Inject, Fund, Start, Apply, Finish, vars
<1>2. FundInv /\ [Next]_vars => \A c \in Mock, d \in Denom : Kept(c, d)
  BY <1>1
<1>3. QED
  BY <1>2, FundInvInit, FundInvStep, PTL DEF Spec, SupplyIsKept
=============================================================================
