---------------------------- MODULE MCTransport ----------------------------
(***************************************************************************)
(* Five calls over batches of two: enough for two chunks in flight, a      *)
(* leader dropped between them and a later call that takes the queue over. *)
(***************************************************************************)
EXTENDS Transport

CONSTANTS c1, c2, c3, c4, c5

MCCall == {c1, c2, c3, c4, c5}

MCNoId == {c5}

MCHasty == {c1, c2}
=============================================================================
