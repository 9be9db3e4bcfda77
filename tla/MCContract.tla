----------------------------- MODULE MCContract -----------------------------
(***************************************************************************)
(* Two calls of one wrapper, on every backend, with one poll for a         *)
(* receipt.  The roster has a row that tries a phrase and then a key, one  *)
(* of no candidates, and one of the same label which a later row hides.    *)
(***************************************************************************)
EXTENDS Contract

MCRoster ==
    << [label |-> "any", candidates |-> <<>>, index |-> 0],
       [label |-> "any", index |-> 1,
        candidates |-> << [kind |-> "mnemonic", var |-> "A", index |-> Inherit],
                          [kind |-> "key", var |-> "B", index |-> Inherit] >>],
       [label |-> "auto", candidates |-> <<>>, index |-> 2] >>

(* The environment varies on the mock only, where an operation is one step. *)
Apart == ask.vm = "mock" \/ environ = [v \in Var |-> "phrase"]
=============================================================================
