------------------------------ MODULE MCFunding ------------------------------
EXTENDS Funding, TLC

CONSTANTS cosmos, revm, solana, node, l1, l2, alice, bob, osmo, wei

MCChain == {cosmos, revm, solana, node}
MCKind == (cosmos :> "cw") @@ (revm :> "evm") @@ (solana :> "svm") @@ (node :> "evm")
MCNative == [c \in MCChain |-> IF c = cosmos THEN osmo ELSE wei]
MCLive == {node}
MCLabel == {l1, l2}
MCWho == {alice, bob}
MCDenom == {osmo, wei}
MCAmount == {1, 2}
MCSymmetry == Permutations(MCLabel) \cup Permutations(MCWho)
=============================================================================
