------------------------------ MODULE MCRunner ------------------------------
(***************************************************************************)
(* A small test subject for TLC: a counter 0 .. 3 that should not stay at  *)
(* 3 and a broken world 9.  It has ops that are rejected at a limit, one   *)
(* that surfaces a bug, one that fails for lack of infrastructure with or  *)
(* without effect, a violation that heals, one that does not, an invariant *)
(* that is not applicable at first and a kind that is undrawable at 0.     *)
(***************************************************************************)
EXTENDS Runner, OpSet, SequencesExt

MCInvName == {"applicable", "below"}
MCInvariants == <<"applicable", "below">>
MCBugDetail == {"over", "under"}
MCWorld == {0, 1, 2, 3, 9}
MCMaxU32 == 3

(* The registry: dec weighs nothing at 0 and rpc nothing at 9.              *)
Everywhere(x) == [w \in MCWorld |-> x]
MCOps ==
    <<WithWeight(OpDefOf("dec", Everywhere({NoData}), {NoData}), [Everywhere(1) EXCEPT ![0] = 0]),
      WithWeight(OpDefOf("inc", Everywhere({NoData}), {NoData}), Everywhere(2)),
      WithWeight(OpDefOf("rpc", Everywhere({NoData}), {NoData}), [Everywhere(1) EXCEPT ![9] = 0])>>

MCOpKind == Names(MCOps)
MCKinds == KindsOf(MCOps)
MCOperation == {Op(k, NoData) : k \in MCOpKind}
MCWeight(w, k) == WeightOf(MCOps, w, k)
MCGenerate(w, k) == GenerateOp(MCOps, w, k)

Ans(a, w) == [answer |-> <<a, NoOp>>, world |-> w]
BugAns(d, w) == [answer |-> <<"bug", d>>, world |-> w]

(* The backend answers deterministically: rpc is rejected at 0, fails at 1  *)
(* and, with an effect, at 3; at 2 it is accepted and breaks the world.     *)
MCApply(w, o) ==
    CASE o.kind = "inc" -> IF w < 3 THEN {Ans("accepted", w + 1)}
                      ELSE IF w = 3 THEN {Ans("rejected", w)} ELSE {BugAns("over", w)}
      [] o.kind = "dec" -> IF w = 0 THEN {BugAns("under", w)}
                      ELSE {Ans("accepted", IF w = 9 THEN 9 ELSE w - 1)}
      [] o.kind = "rpc" -> CASE w = 1 -> {Ans("infra", 1)}
                        [] w = 3 -> {Ans("infra", 9)}
                        [] w = 2 -> {Ans("accepted", 9)}
                        [] w = 0 -> {Ans("rejected", 0)}
                        [] w = 9 -> {Ans("accepted", 9)}

MCCheck(w, n) ==
    CASE n = "applicable" -> IF w = 0 THEN "skipped" ELSE IF w = 9 THEN "violated" ELSE "held"
      [] n = "below" -> IF w \in {3, 9} THEN "violated" ELSE "held"
-----------------------------------------------------------------------------
MCStarts == [sequence |-> {0, 1, 2, 9}, endurance |-> {1}, scenario |-> {0, 1}]

Mixes ==
    {[shape |-> "Harness", list |-> <<>>],
     [shape |-> "Restricted", list |-> <<>>],
     [shape |-> "Restricted", list |-> <<"dec">>],
     [shape |-> "Weighted", list |-> << <<"inc", 0>>, <<"dec", 0>> >>],
     [shape |-> "Weighted", list |-> << <<"inc", 2>>, <<"dec", 3>> >>],
     [shape |-> "Weighted", list |-> << <<"rpc", 1>>, <<"inc", 2>> >>]}

(* Generated runs of up to five ops, and every fixed list of up to three.   *)
MCPlans ==
    {[fixed |-> FALSE, mix |-> m, ops |-> 5, list |-> <<>>, every |-> e]
        : m \in Mixes, e \in 0 .. 3}
      \cup
    {[fixed |-> TRUE, mix |-> [shape |-> "Harness", list |-> <<>>], ops |-> 0,
      list |-> l, every |-> e] : l \in BoundedSeq(MCOperation, 3), e \in 0 .. 2}

MCLimits == {0, 1, 3, 20}

MCUnbounded == -1

(* A block may heal 3, break 2, change nothing or fail. *)
MCAdvance(w) ==
    {[ok |-> TRUE, world |-> w], [ok |-> FALSE, world |-> w]}
      \cup IF w = 2 THEN {[ok |-> TRUE, world |-> 3]} ELSE {}

LoopMixes ==
    {[shape |-> "Harness", list |-> <<>>],
     [shape |-> "Restricted", list |-> <<>>],
     [shape |-> "Restricted", list |-> <<"dec">>]}

MCConfigs ==
    {[mix |-> m, every |-> e, advance |-> a, maxOps |-> n, maxInfra |-> i, stoppable |-> TRUE]
        : m \in LoopMixes, e \in 0 .. 2, a \in BOOLEAN, n \in {MCUnbounded, 0, 3}, i \in 0 .. 2}

(* Every list of up to two steps of every shape, after an op that leads     *)
(* them to the interesting worlds.                                          *)
Lead == {<<>>, <<[op |-> Op("inc", NoData), expect |-> "any", check |-> FALSE],
                 [op |-> Op("inc", NoData), expect |-> "accepted", check |-> TRUE]>>}

MCSteps == [op : MCOperation, expect : {"accepted", "rejected", "any"}, check : BOOLEAN]

MCScripts ==
    {[steps |-> l \o s, every |-> e] : l \in Lead, s \in BoundedSeq(MCSteps, 2), e \in 0 .. 2}
=============================================================================
