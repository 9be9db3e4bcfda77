----------------------------- MODULE Transport -----------------------------
(***************************************************************************)
(* BatchHttpTransport (crates/cosmwasm/src/transport.rs): concurrent       *)
(* JSON-RPC calls merged into batch POSTs by whichever caller finds no     *)
(* leader.  Everything runs on one thread: a step is what one poll of one  *)
(* future does.  A hasty call's future may be dropped at any await.        *)
(***************************************************************************)
EXTENDS Integers, Sequences, FiniteSets, SequencesExt

CONSTANTS
    Call,           \* the calls, each with an id of its own
    NoId,           \* those whose envelope has no id
    Hasty,          \* those whose future may be dropped
    MaxSize,        \* BatchConfig::max_size as configured
    NoAnswer, Error, Closed

ASSUME TransportAssumption ==
    /\ NoId \subseteq Call /\ Hasty \subseteq Call
    /\ MaxSize \in Nat
    /\ {NoAnswer, Error, Closed} \cap Call = {}
    /\ NoAnswer # Error /\ NoAnswer # Closed /\ Error # Closed

VARIABLES
    pc,             \* "idle", "lead", "await", "done" or "dropped"
    queue,          \* the parked calls
    leader,         \* true while some call drives the tick loop
    flights,        \* the chunks posted and not answered, in the leader's future
    slot,           \* what a call's oneshot holds; Closed: its sender is gone
    posted,         \* the calls whose envelope has left
    result

vars == <<pc, queue, leader, flights, slot, posted, result>>

(* with_poster: a zero max_size would drain empty chunks forever. *)
ChunkSize == IF MaxSize = 0 THEN 1 ELSE MaxSize

Init ==
    /\ pc = [c \in Call |-> "idle"]
    /\ queue = <<>>
    /\ leader = FALSE
    /\ flights = {}
    /\ slot = [c \in Call |-> NoAnswer]
    /\ posted = {}
    /\ result = [c \in Call |-> NoAnswer]

Leading(c) == pc[c] = "lead"
-----------------------------------------------------------------------------
(* request_id fails: nothing is parked. *)
Reject(c) ==
    /\ pc[c] = "idle" /\ c \in NoId
    /\ pc' = [pc EXCEPT ![c] = "done"]
    /\ result' = [result EXCEPT ![c] = Error]
    /\ UNCHANGED <<queue, leader, flights, slot, posted>>

(* Seeded defect: who finds others parked waits for their leader. *)
BeginBehindTheQueue(c) ==
    /\ pc[c] = "idle" /\ c \notin NoId
    /\ queue' = Append(queue, c)
    /\ leader' = (leader \/ queue = <<>>)
    /\ pc' = [pc EXCEPT ![c] = IF leader \/ queue # <<>> THEN "await" ELSE "lead"]
    /\ UNCHANGED <<flights, slot, posted, result>>

(* call: parks itself and leads when nobody does. *)
Begin(c) ==
    /\ pc[c] = "idle" /\ c \notin NoId
    /\ queue' = Append(queue, c)
    /\ leader' = TRUE
    /\ pc' = [pc EXCEPT ![c] = IF leader THEN "await" ELSE "lead"]
    /\ UNCHANGED <<flights, slot, posted, result>>

(* lead, at a tick: the front of the queue is drained and its POST started; *)
(* earlier POSTs may still be out.                                          *)
Tick(l) ==
    /\ Leading(l) /\ queue # <<>>
    /\ LET n == IF Len(queue) < ChunkSize THEN Len(queue) ELSE ChunkSize IN
         /\ flights' = flights \cup {SubSeq(queue, 1, n)}
         /\ queue' = SubSeq(queue, n + 1, Len(queue))
         /\ posted' = posted \cup ToSet(SubSeq(queue, 1, n))
    /\ UNCHANGED <<pc, leader, slot, result>>

(* Seeded defect: the k-th element answers the k-th call of the chunk. *)
RouteByPosition(chunk, body) ==
    [c \in Call |->
       IF c \notin ToSet(chunk) THEN slot[c]
       ELSE LET k == CHOOSE j \in DOMAIN chunk : chunk[j] = c
            IN  IF k \in DOMAIN body THEN body[k] ELSE Error]

(* route: an element answers the call of the chunk that has its id; a call  *)
(* with no element gets an error.  `body' lists the ids of the elements.    *)
Route(chunk, body) ==
    [c \in Call |->
       IF c \notin ToSet(chunk) THEN slot[c]
       ELSE IF c \in ToSet(body) THEN c ELSE Error]

(* The bodies a node may answer a chunk with: some of its ids in any order, *)
(* or nothing of use (a failed POST, no JSON, an error for the whole).      *)
Bodies(chunk) == SetToAllKPermutations(ToSet(chunk))

(* A POST of the leader is answered or fails.  In the same poll the loop    *)
(* ends, and the leader flag with it, when nothing is parked or out.        *)
Answer(l, chunk) ==
    /\ Leading(l) /\ chunk \in flights
    /\ flights' = flights \ {chunk}
    /\ \E body \in Bodies(chunk) : slot' = Route(chunk, body)
    /\ IF flights' = {} /\ queue = <<>>
         THEN /\ leader' = FALSE
              /\ pc' = [pc EXCEPT ![l] = "await"]
         ELSE UNCHANGED <<leader, pc>>
    /\ UNCHANGED <<queue, posted, result>>

(* The call's oneshot resolves; a closed one is an error. *)
Return(c) ==
    /\ pc[c] = "await" /\ slot[c] # NoAnswer
    /\ pc' = [pc EXCEPT ![c] = "done"]
    /\ result' = [result EXCEPT ![c] = IF slot[c] = Closed THEN Error ELSE slot[c]]
    /\ UNCHANGED <<queue, leader, flights, slot, posted>>

(* A waiting call is dropped: its envelope stays where it is. *)
DropWaiting(c) ==
    /\ c \in Hasty /\ pc[c] = "await"
    /\ pc' = [pc EXCEPT ![c] = "dropped"]
    /\ UNCHANGED <<queue, leader, flights, slot, posted, result>>

(* Seeded defect: without the guard's Drop the flag survives its holder. *)
DropWithoutGuard(l) ==
    /\ l \in Hasty /\ Leading(l)
    /\ pc' = [pc EXCEPT ![l] = "dropped"]
    /\ flights' = {}
    /\ slot' = [c \in Call |->
                  IF \E f \in flights : c \in ToSet(f) THEN Closed ELSE slot[c]]
    /\ UNCHANGED <<queue, leader, posted, result>>

(* The leader is dropped, and with it the POSTs it was driving: LeaderGuard *)
(* clears the flag, the calls in flight see their sender go.                *)
DropLeader(l) ==
    /\ l \in Hasty /\ Leading(l)
    /\ pc' = [pc EXCEPT ![l] = "dropped"]
    /\ leader' = FALSE
    /\ flights' = {}
    /\ slot' = [c \in Call |->
                  IF \E f \in flights : c \in ToSet(f) THEN Closed ELSE slot[c]]
    /\ UNCHANGED <<queue, posted, result>>

Progress(c) ==
    \/ Reject(c) \/ Begin(c) \/ Tick(c) \/ Return(c)
    \/ \E chunk \in flights : Answer(c, chunk)

(* Every call that will be made has been, and none of them moves again. *)
Quiet ==
    /\ \A c \in Call : pc[c] \in {"done", "dropped"} \/ (pc[c] = "await" /\ slot[c] = NoAnswer)
    /\ ~leader
    /\ UNCHANGED vars

Next ==
    \/ \E c \in Call : Progress(c) \/ DropWaiting(c) \/ DropLeader(c)
    \/ Quiet

(* The node answers or the POST fails; ticks come; callers are polled. *)
Spec == Init /\ [][Next]_vars /\ \A c \in Call : WF_vars(Progress(c))
-----------------------------------------------------------------------------
(* The tick loop has exactly one driver while the flag is up and none while *)
(* it is down, whoever was dropped; what is in flight always has that       *)
(* driver to poll it, its chunks are disjoint and within the batch size,    *)
(* and a call whose response is still to come is parked or in one chunk.    *)
OneDriver ==
    /\ Cardinality({c \in Call : Leading(c)}) = (IF leader THEN 1 ELSE 0)
    /\ flights # {} => leader
    /\ \A f \in flights : Len(f) \in 1 .. ChunkSize
    /\ \A f, g \in flights : f # g => ToSet(f) \cap ToSet(g) = {}
    /\ \A c \in Call : pc[c] \in {"lead", "await"} /\ slot[c] = NoAnswer =>
         (c \in ToSet(queue)) # (\E f \in flights : c \in ToSet(f))

Gone(c) == pc[c] \in {"done", "dropped"}

(* A call returns, even one whose leader was dropped while it was parked,   *)
(* once no other call can be dropped and somebody is left to drive the      *)
(* queue: a leader, or one more call to come.                               *)
Served ==
    \A c \in Call :
      /\ pc[c] \in {"lead", "await"}
      /\ \A d \in Hasty \ {c} : Gone(d)
      /\ leader \/ \E d \in Call \ NoId : pc[d] = "idle"
      ~> Gone(c)

Port == INSTANCE CallPort WITH
    stage <- [c \in Call |->
                IF pc[c] \in {"lead", "await"} THEN "open" ELSE pc[c]]

(* Batching is invisible to the callers: the transport keeps the promise of *)
(* one POST per call (CallPort), so no envelope is posted twice, whoever    *)
(* takes the queue over, and no call gets another call's response.          *)
Implements == Port!Spec
=============================================================================
