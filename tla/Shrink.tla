------------------------------ MODULE Shrink ------------------------------
(***************************************************************************)
(* Runner::shrink_with_limit as maybe_shrink (harness-cli registry) calls  *)
(* it: a failing history is minimised by dropping windows of ops, largest  *)
(* first, then single ops, each candidate replayed with run_fixed on a     *)
(* fresh (Ctx, World) under a budget of replays.                           *)
(*                                                                         *)
(* replays counts the rebuilds and is read only by the properties.         *)
(***************************************************************************)
EXTENDS FixedRun

VARIABLES
    failure,    \* what maybe_shrink is handed: [history, kind, every, world, limit]
    refKind,    \* the reference failure, NoFailure until established
    current,    \* the best sequence so far
    budget,
    size, at,   \* window size and position; at is the index of the single pass
    pc,
    replays

vars == <<failure, refKind, current, budget, size, at, pc, replays>>

Replay(ops) == RunFixed(ops, failure.every, failure.world)

(* shrink_inner: the reference is what the history fails with when it is    *)
(* replayed; one that does not fail is returned unchanged.                  *)
Reference ==
    /\ pc = "reference"
    /\ refKind' = Replay(failure.history).kind
    /\ replays' = replays + 1
    /\ IF refKind' = NoFailure
         THEN pc' = "done" /\ UNCHANGED size
         ELSE pc' = "chunk" /\ size' = Len(current) \div 2
    /\ UNCHANGED <<failure, current, budget, at>>

(* The head of the chunked pass, then of the single-op pass. *)
NextSize ==
    /\ pc = "chunk"
    /\ pc' = IF size >= 1 /\ Len(current) > 1 THEN "window" ELSE "single"
    /\ at' = 0
    /\ UNCHANGED <<failure, refKind, current, budget, size, replays>>

Without(from, to) == SubSeq(current, 1, from) \o SubSeq(current, to + 1, Len(current))

(* Seeded defect: any failure will do. *)
FailsAnyhow(ops) == Replay(ops).kind # NoFailure

FailsTheSame(ops) ==
    LET again == Replay(ops).kind IN again # NoFailure /\ SameFailure(again, refKind)

(* try_candidate: out of budget the best so far is returned; otherwise a    *)
(* candidate that fails the same way is kept and the position stays.        *)
Try(candidate, stride) ==
    IF budget = 0
      THEN pc' = "done" /\ UNCHANGED <<current, budget, at, replays>>
      ELSE LET fails == FailsTheSame(candidate)
           IN  /\ budget' = budget - 1
               /\ replays' = replays + 1
               /\ current' = IF fails THEN candidate ELSE current
               /\ at' = IF fails THEN at ELSE at + stride
               /\ UNCHANGED pc

(* One window of the chunked pass. *)
Window ==
    /\ pc = "window" /\ at < Len(current)
    /\ LET end == IF at + size > Len(current) THEN Len(current) ELSE at + size
           candidate == Without(at, end)
       IN  IF candidate = <<>>
             THEN at' = at + size /\ UNCHANGED <<current, budget, pc, replays>>
             ELSE Try(candidate, size)
    /\ UNCHANGED <<failure, refKind, size>>

Halve ==
    /\ pc = "window" /\ at >= Len(current)
    /\ size' = size \div 2
    /\ pc' = "chunk"
    /\ UNCHANGED <<failure, refKind, current, budget, at, replays>>

(* The single-op pass. *)
Single ==
    /\ pc = "single"
    /\ IF at < Len(current) /\ Len(current) > 1
         THEN Try(Without(at, at + 1), 1)
         ELSE pc' = "done" /\ UNCHANGED <<current, budget, at, replays>>
    /\ UNCHANGED <<failure, refKind, size>>

Done == pc = "done" /\ UNCHANGED vars

Next == Reference \/ NextSize \/ Window \/ Halve \/ Single \/ Done
-----------------------------------------------------------------------------
(* At any moment, out of budget or not, the sequence in hand fails the same *)
(* way as the replayed original: minimising never drifts to another bug and *)
(* never returns a passing list.                                            *)
AlwaysReproduces ==
    refKind # NoFailure => SameFailure(Replay(current).kind, refKind)

(* The result keeps ops of the original in their order, and some op.        *)
KeepsTheOrder ==
    /\ current = <<>> => failure.history = <<>>
    /\ \E from \in [DOMAIN current -> DOMAIN failure.history] :
         /\ \A i, j \in DOMAIN current : i < j => from[i] < from[j]
         /\ \A i \in DOMAIN current : current[i] = failure.history[from[i]]

(* The replays a shrink costs are the reference and at most shrink_limit more. *)
BudgetBoundsReplays ==
    /\ replays <= failure.limit + 1
    /\ pc = "done" /\ refKind = NoFailure => current = failure.history
=============================================================================
