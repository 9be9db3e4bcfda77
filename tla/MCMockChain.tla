---------------------------- MODULE MCMockChain ----------------------------
(***************************************************************************)
(* Two wallets, three labels.  The limits: what a transfer needs and a     *)
(* clearing call is billed, enough for a later write but not the first,    *)
(* and ample; on Solana, those a transfer is adjusted to, those of any     *)
(* call, and more than the ceiling leaves.  The adjustments: just what     *)
(* covers a refund, none, and the default.                                 *)
(***************************************************************************)
EXTENDS MockChain, TLC

GasLimits == [low |-> {21}, later |-> {27}, ample |-> {100}]
UnitLimits == [low |-> {2}, ample |-> {1400}, over |-> {1500}]
GasPercents == [evm |-> 125, tron |-> 100, svm |-> 130, cw |-> 130]

(* No operation reads the clock: it moves while the chain does nothing, and *)
(* the chain runs under the labels of one environment.                      *)
Apart ==
    \/ time = [c \in Chain |-> 0] /\ {l \in Label : behind[l] = "here"} = {"first"}
    \/ seq = 0 /\ last.ask.op = "none" /\ asked = <<>>

Symmetry == Permutations(Wallet)
=============================================================================
