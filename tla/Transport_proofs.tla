-------------------------- MODULE Transport_proofs --------------------------
(***************************************************************************)
(* Transport, for every set of calls, whichever of them may be dropped,    *)
(* and every batch size.                                                   *)
(***************************************************************************)
EXTENDS Transport, FiniteSetTheorems, SequenceTheorems, TLAPS

(* A batch holds one call at least. *)
LEMMA ChunkSizePositive == ChunkSize \in Nat \ {0}
BY TransportAssumption DEF ChunkSize

(* Parking a call at the end of a queue it is not in. *)
LEMMA ParkingOne ==
    ASSUME NEW s \in Seq(Call), NEW c \in Call
    PROVE  /\ Append(s, c) \in Seq(Call)
           /\ ToSet(Append(s, c)) = ToSet(s) \cup {c}
           /\ IsInjective(s) /\ c \notin ToSet(s) => IsInjective(Append(s, c))
<1> DEFINE t == Append(s, c)
<1>1. /\ t \in Seq(Call) /\ Len(t) = Len(s) + 1 /\ Len(s) \in Nat /\ t[Len(s) + 1] = c
      /\ \A i \in 1 .. Len(s) : t[i] = s[i]
      /\ DOMAIN t = 1 .. Len(s) + 1 /\ DOMAIN s = 1 .. Len(s)
  BY AppendProperties
<1> HIDE DEF t
<1>2. \A i \in 1 .. Len(s) + 1 : i \in 1 .. Len(s) \/ i = Len(s) + 1
  BY <1>1
<1>3. ToSet(t) = ToSet(s) \cup {c}
  <2>1. ASSUME NEW x \in ToSet(t) PROVE x \in ToSet(s) \cup {c}
    BY <1>1, <1>2 DEF ToSet
  <2>2. ASSUME NEW x \in ToSet(s) \cup {c} PROVE x \in ToSet(t)
    BY <1>1 DEF ToSet
  <2> QED BY <2>1, <2>2
<1>4. ASSUME IsInjective(s), c \notin ToSet(s) PROVE IsInjective(t)
  <2> SUFFICES ASSUME NEW i \in DOMAIN t, NEW j \in DOMAIN t, t[i] = t[j] PROVE i = j
    BY DEF IsInjective
  <2>1. \A k \in 1 .. Len(s) : s[k] # c
    BY <1>1, <1>4 DEF ToSet
  <2>2. CASE i \in 1 .. Len(s) /\ j \in 1 .. Len(s)
    BY <1>1, <1>4, <2>2 DEF IsInjective
  <2> QED BY <1>1, <1>2, <2>1, <2>2
<1> QED BY <1>1, <1>3, <1>4 DEF t

(* Draining n calls from the front of a queue. *)
LEMMA DrainingSome ==
    ASSUME NEW s \in Seq(Call), IsInjective(s), NEW n \in 1 .. Len(s)
    PROVE  /\ SubSeq(s, 1, n) \in Seq(Call) /\ Len(SubSeq(s, 1, n)) = n
           /\ SubSeq(s, n + 1, Len(s)) \in Seq(Call)
           /\ IsInjective(SubSeq(s, n + 1, Len(s)))
           /\ ToSet(s) = ToSet(SubSeq(s, 1, n)) \cup ToSet(SubSeq(s, n + 1, Len(s)))
           /\ ToSet(SubSeq(s, 1, n)) \cap ToSet(SubSeq(s, n + 1, Len(s))) = {}
           /\ ToSet(SubSeq(s, 1, n)) # {}
<1> DEFINE f == SubSeq(s, 1, n)
           b == SubSeq(s, n + 1, Len(s))
<1>1. Len(s) \in Nat /\ n \in Nat /\ n >= 1 /\ n <= Len(s) /\ DOMAIN s = 1 .. Len(s)
  OBVIOUS
<1>2. \A i \in 1 .. n : s[i] \in Call
  BY <1>1
<1>3. \A i \in (n + 1) .. Len(s) : s[i] \in Call
  BY <1>1
<1>4. /\ f \in Seq(Call) /\ Len(f) = n /\ DOMAIN f = 1 .. n
      /\ \A i \in 1 .. n : f[i] = s[i]
  <2>1. f \in Seq(Call) /\ Len(f) = n /\ \A i \in 1 .. n : f[i] = s[1 + i - 1]
    BY <1>1, <1>2, SubSeqProperties
  <2> QED BY <2>1
<1>5. /\ b \in Seq(Call) /\ Len(b) = Len(s) - n /\ DOMAIN b = 1 .. Len(s) - n
      /\ \A i \in 1 .. Len(s) - n : b[i] = s[n + i]
  <2> DEFINE m == n + 1
             l == Len(s)
  <2>1. m = n + 1 /\ m \in Int /\ l \in Int /\ l = Len(s)
    BY <1>1
  <2>0. b = SubSeq(s, m, l) /\ \A i \in m .. l : s[i] \in Call
    BY <1>3 DEF b
  <2> HIDE DEF m, l
  <2>2. /\ b \in Seq(Call)
        /\ Len(b) = IF m <= l THEN l - m + 1 ELSE 0
        /\ \A i \in 1 .. l - m + 1 : b[i] = s[m + i - 1]
    BY <2>0, <2>1, SubSeqProperties
  <2> HIDE DEF b
  <2>3. Len(b) = Len(s) - n /\ l - m + 1 = Len(s) - n
    <3>1. n \in Int /\ l \in Int /\ n <= l /\ m = n + 1
      BY <1>1, <2>1
    <3>2. l - m + 1 = l - n /\ (m <= l \/ l - n = 0)
      BY <3>1
    <3>3. (IF m <= l THEN l - m + 1 ELSE 0) = l - n
      BY <3>1, <3>2
    <3> QED BY <2>1, <2>2, <3>2, <3>3
  <2>4. \A i \in 1 .. Len(s) - n : m + i - 1 = n + i
    BY <1>1, <2>1
  <2>5. DOMAIN b = 1 .. Len(b)
    BY <2>2
  <2> QED BY <2>2, <2>3, <2>4, <2>5
<1> HIDE DEF f, b
<1>6. ASSUME NEW x PROVE x \in ToSet(s) <=> x \in ToSet(f) \cup ToSet(b)
  <2>1. ASSUME NEW i \in 1 .. Len(s), s[i] = x PROVE x \in ToSet(f) \cup ToSet(b)
    <3>1. CASE i <= n
      BY <1>1, <1>4, <2>1, <3>1 DEF ToSet
    <3>2. CASE i > n
      <4>1. i - n \in 1 .. Len(s) - n /\ n + (i - n) = i
        BY <1>1, <3>2
      <4> QED BY <1>5, <2>1, <4>1 DEF ToSet
    <3> QED BY <1>1, <3>1, <3>2
  <2>2. ASSUME NEW i \in 1 .. n, f[i] = x PROVE x \in ToSet(s)
    BY <1>1, <1>4, <2>2 DEF ToSet
  <2>3. ASSUME NEW i \in 1 .. Len(s) - n, b[i] = x PROVE x \in ToSet(s)
    <3>1. n + i \in 1 .. Len(s)
      BY <1>1
    <3> QED BY <1>1, <1>5, <2>3, <3>1 DEF ToSet
  <2> QED BY <1>1, <1>4, <1>5, <2>1, <2>2, <2>3 DEF ToSet
<1>7. ASSUME NEW i \in 1 .. n, NEW j \in 1 .. Len(s) - n PROVE f[i] # b[j]
  <2>1. n + j \in 1 .. Len(s) /\ i \in 1 .. Len(s) /\ n + j # i
    BY <1>1
  <2>2. s[i] # s[n + j]
    BY <1>1, <2>1 DEF IsInjective
  <2> QED BY <1>4, <1>5, <2>2
<1>8. ToSet(f) \cap ToSet(b) = {}
  BY <1>4, <1>5, <1>7 DEF ToSet
<1>9. IsInjective(b)
  <2> SUFFICES ASSUME NEW i \in DOMAIN b, NEW j \in DOMAIN b, b[i] = b[j] PROVE i = j
    BY DEF IsInjective
  <2>1. n + i \in 1 .. Len(s) /\ n + j \in 1 .. Len(s) /\ i \in Int /\ j \in Int
    BY <1>1, <1>5
  <2>2. n + i = n + j
    BY <1>1, <1>5, <2>1 DEF IsInjective
  <2> QED BY <1>1, <2>1, <2>2
<1>10. ToSet(f) # {}
  <2>1. 1 \in DOMAIN f
    BY <1>1, <1>4
  <2>2. f[1] \in ToSet(f)
    BY <2>1 DEF ToSet
  <2> QED BY <2>2
<1>11. ToSet(s) = ToSet(f) \cup ToSet(b)
  BY <1>6
<1> QED BY <1>4, <1>5, <1>8, <1>9, <1>10, <1>11 DEF f, b
-----------------------------------------------------------------------------
(* Every variable keeps its type; an answer is the call's own or an error.  *)
TypeOK ==
    /\ pc \in [Call -> {"idle", "lead", "await", "done", "dropped"}]
    /\ queue \in Seq(Call) /\ IsInjective(queue)
    /\ leader \in BOOLEAN
    /\ flights \subseteq Seq(Call)
    /\ \A c \in Call : slot[c] \in {NoAnswer, Error, Closed, c}
    /\ posted \subseteq Call
    /\ DOMAIN slot = Call /\ DOMAIN result = Call

(* The flag is up exactly while one call drives the loop. *)
FlagIsTheDriver ==
    /\ \A c, d \in Call : Leading(c) /\ Leading(d) => c = d
    /\ leader <=> \E c \in Call : Leading(c)
    /\ flights # {} => leader

Parked(c) == c \in ToSet(queue)
Flying(c) == \E f \in flights : c \in ToSet(f)

(* Where an unanswered call is: parked before its envelope leaves, then in  *)
(* one chunk, until an answer or an error is routed to it.                  *)
OnePlaceEach ==
    /\ \A f \in flights : Len(f) \in 1 .. ChunkSize
    /\ \A f, g \in flights : f # g => ToSet(f) \cap ToSet(g) = {}
    /\ \A c \in Call : Parked(c) => c \notin posted
    /\ \A c \in Call : Flying(c) => c \in posted
    /\ \A c \in Call : Parked(c) \/ Flying(c) => slot[c] = NoAnswer /\ pc[c] # "idle"
    /\ \A c \in Call : pc[c] \in {"lead", "await"} /\ slot[c] = NoAnswer => Parked(c) \/ Flying(c)
    /\ \A c \in Call : slot[c] = c => c \in posted
    /\ \A c \in Call : pc[c] = "idle" => slot[c] = NoAnswer /\ c \notin posted

TransportInv == TypeOK /\ FlagIsTheDriver /\ OnePlaceEach
(* Parking a call: Begin, whether it leads or waits. *)
LEMMA BeginKeeps ==
    ASSUME TransportInv, NEW c \in Call, Begin(c) PROVE TransportInv'
<1> USE DEF TransportInv, Leading, Parked, Flying
<1>1. /\ pc[c] = "idle" /\ pc' = [pc EXCEPT ![c] = IF leader THEN "await" ELSE "lead"]
      /\ queue' = Append(queue, c) /\ leader' = TRUE
      /\ UNCHANGED <<flights, slot, posted, result>>
  BY DEF Begin
<1>2. /\ queue' \in Seq(Call) /\ ToSet(queue') = ToSet(queue) \cup {c}
      /\ IsInjective(queue')
  BY <1>1, ParkingOne DEF TypeOK, OnePlaceEach
<1>3. TypeOK'
  BY <1>1, <1>2 DEF TypeOK
<1>4. FlagIsTheDriver'
  BY <1>1 DEF TypeOK, FlagIsTheDriver
<1>5. \A d \in Call : d # c => pc'[d] = pc[d]
  BY <1>1 DEF TypeOK
<1>6. pc'[c] \in {"lead", "await"}
  BY <1>1 DEF TypeOK
<1>7. OnePlaceEach'
  BY <1>1, <1>2, <1>5, <1>6 DEF OnePlaceEach, TypeOK
<1> QED BY <1>3, <1>4, <1>7

(* A tick moves the front of the queue to a chunk of its own. *)
LEMMA TickKeeps ==
    ASSUME TransportInv, NEW l \in Call, Tick(l) PROVE TransportInv'
<1> USE DEF TransportInv, Leading, Parked, Flying
<1> DEFINE n == IF Len(queue) < ChunkSize THEN Len(queue) ELSE ChunkSize
           front == SubSeq(queue, 1, n)
           back == SubSeq(queue, n + 1, Len(queue))
<1>1. /\ Leading(l) /\ queue # <<>>
      /\ flights' = flights \cup {front} /\ queue' = back
      /\ posted' = posted \cup ToSet(front)
      /\ UNCHANGED <<pc, leader, slot, result>>
  BY DEF Tick
<1>2. n \in 1 .. Len(queue) /\ n \in 1 .. ChunkSize
  <2>1. Len(queue) \in Nat \ {0}
    BY <1>1, EmptySeq DEF TypeOK
  <2> QED BY <2>1, ChunkSizePositive
<1> HIDE DEF n
<1>3. /\ front \in Seq(Call) /\ Len(front) = n /\ back \in Seq(Call) /\ IsInjective(back)
      /\ ToSet(queue) = ToSet(front) \cup ToSet(back)
      /\ ToSet(front) \cap ToSet(back) = {}
  BY <1>2, DrainingSome DEF TypeOK
<1> HIDE DEF front, back
<1>4. ToSet(front) \subseteq Call
  BY <1>3 DEF ToSet
<1>5. TypeOK'
  BY <1>1, <1>3, <1>4 DEF TypeOK
<1>6. FlagIsTheDriver'
  BY <1>1 DEF FlagIsTheDriver
<1>7. OnePlaceEach'
  <2>1. \A f \in flights : ToSet(f) \cap ToSet(front) = {}
    <3>1. \A f \in flights : ToSet(f) \subseteq Call
      BY DEF ToSet, TypeOK
    <3> QED BY <1>3, <3>1 DEF OnePlaceEach
  <2>2. \A f, g \in flights' : f # g => ToSet(f) \cap ToSet(g) = {}
    BY <1>1, <2>1 DEF OnePlaceEach
  <2>3. \A f \in flights' : Len(f) \in 1 .. ChunkSize
    BY <1>1, <1>2, <1>3 DEF OnePlaceEach
  <2>4. \A c \in Call : Parked(c)' <=> Parked(c) /\ c \notin ToSet(front)
    BY <1>1, <1>3
  <2>5. \A c \in Call : Flying(c)' <=> Flying(c) \/ c \in ToSet(front)
    BY <1>1
  <2>6. \A c \in Call : c \in ToSet(front) => Parked(c)
    BY <1>3
  <2> QED BY <1>1, <2>2, <2>3, <2>4, <2>5, <2>6 DEF OnePlaceEach
<1> QED BY <1>5, <1>6, <1>7

(* Chunks leave flight, and each call in them is told its answer or an      *)
(* error: what Answer and DropLeader have in common.                        *)
LEMMA LandingKeepsPlaces ==
    ASSUME TransportInv, NEW F \in SUBSET flights, flights' = F,
           \A c \in Call : slot'[c] = slot[c] \/ slot'[c] \in {Error, Closed}
                              \/ (slot'[c] = c /\ Flying(c)),
           \A c \in Call : Flying(c) => (slot'[c] = slot[c] <=> Flying(c)'),
           \A c \in Call : ~Flying(c) => slot'[c] = slot[c],
           \A c \in Call : pc'[c] = pc[c] \/ (pc[c] = "lead" /\ pc'[c] \in {"await", "dropped"}),
           UNCHANGED <<queue, posted>>
    PROVE  OnePlaceEach'
<1> USE DEF TransportInv, Leading, Parked, Flying
<1>1. \A c \in Call : Flying(c)' => Flying(c)
  OBVIOUS
<1>2. \A c \in Call : Parked(c)' <=> Parked(c)
  OBVIOUS
<1>3. \A c \in Call : Parked(c) => ~Flying(c)
  BY DEF OnePlaceEach
<1>4. \A f \in flights' : Len(f) \in 1 .. ChunkSize
  BY DEF OnePlaceEach
<1>5. \A f, g \in flights' : f # g => ToSet(f) \cap ToSet(g) = {}
  BY DEF OnePlaceEach
<1>6. \A c \in Call : Parked(c)' \/ Flying(c)' => slot'[c] = NoAnswer /\ pc'[c] # "idle"
  BY <1>1, <1>2, <1>3 DEF OnePlaceEach
<1>7. \A c \in Call : pc'[c] \in {"lead", "await"} /\ slot'[c] = NoAnswer
                        => Parked(c)' \/ Flying(c)'
  <2> SUFFICES ASSUME NEW c \in Call, pc'[c] \in {"lead", "await"}, slot'[c] = NoAnswer
               PROVE  Parked(c) \/ Flying(c)'
    BY <1>2
  <2>1. slot[c] = NoAnswer /\ pc[c] \in {"lead", "await"}
    BY TransportAssumption
  <2> QED BY <2>1 DEF OnePlaceEach
<1>8. \A c \in Call : slot'[c] = c => c \in posted'
  BY TransportAssumption DEF OnePlaceEach
<1>9. \A c \in Call : pc'[c] = "idle" => slot'[c] = NoAnswer /\ c \notin posted'
  BY DEF OnePlaceEach
<1> QED BY <1>1, <1>2, <1>4, <1>5, <1>6, <1>7, <1>8, <1>9 DEF OnePlaceEach

(* An answer lands one chunk, and ends the loop when nothing is left. *)
LEMMA AnswerKeeps ==
    ASSUME TransportInv, NEW l \in Call, NEW chunk \in flights, Answer(l, chunk)
    PROVE  TransportInv'
<1> USE DEF TransportInv, Leading, Parked, Flying
<1>1. PICK body \in Bodies(chunk) : slot' = Route(chunk, body)
  BY DEF Answer
<1>2. /\ Leading(l) /\ flights' = flights \ {chunk} /\ UNCHANGED <<queue, posted, result>>
      /\ \/ /\ flights' = {} /\ leader' = FALSE /\ pc' = [pc EXCEPT ![l] = "await"]
         \/ UNCHANGED <<leader, pc>>
  BY DEF Answer
<1>3. ToSet(chunk) \subseteq Call
  BY DEF TypeOK, ToSet
<1>4. /\ \A c \in Call : slot'[c] = IF c \notin ToSet(chunk) THEN slot[c]
                                     ELSE IF c \in ToSet(body) THEN c ELSE Error
      /\ DOMAIN slot' = Call
  BY <1>1 DEF Route
<1>5. \A c \in Call : c \in ToSet(chunk) => slot[c] = NoAnswer /\ Flying(c) /\ ~Flying(c)'
  BY <1>2 DEF OnePlaceEach
<1>6. \A c \in Call : c \notin ToSet(chunk) => (Flying(c) <=> Flying(c)')
  BY <1>2
<1>7. TypeOK'
  BY <1>2, <1>4 DEF TypeOK
<1>8. FlagIsTheDriver'
  BY <1>2 DEF FlagIsTheDriver, TypeOK
<1>9. OnePlaceEach'
  <2>1. \A c \in Call : pc'[c] = pc[c] \/ (pc[c] = "lead" /\ pc'[c] \in {"await", "dropped"})
    BY <1>2 DEF TypeOK
  <2>2. \A c \in Call : slot'[c] = slot[c] \/ slot'[c] \in {Error, Closed}
                            \/ (slot'[c] = c /\ Flying(c))
    BY <1>4, <1>5
  <2>3. \A c \in Call : Flying(c) => (slot'[c] = slot[c] <=> Flying(c)')
    BY <1>4, <1>5, <1>6, TransportAssumption
  <2>4. \A c \in Call : ~Flying(c) => slot'[c] = slot[c]
    BY <1>4, <1>5
  <2>5. flights' \in SUBSET flights
    BY <1>2
  <2> QED BY <1>2, <2>1, <2>2, <2>3, <2>4, <2>5, LandingKeepsPlaces
<1> QED BY <1>7, <1>8, <1>9

(* Dropping the leader lands every chunk with an error. *)
LEMMA DropLeaderKeeps ==
    ASSUME TransportInv, NEW l \in Call, DropLeader(l) PROVE TransportInv'
<1> USE DEF TransportInv, Leading, Parked, Flying
<1>1. /\ Leading(l) /\ pc' = [pc EXCEPT ![l] = "dropped"] /\ leader' = FALSE
      /\ flights' = {} /\ UNCHANGED <<queue, posted, result>>
      /\ slot' = [c \in Call |-> IF Flying(c) THEN Closed ELSE slot[c]]
  BY DEF DropLeader
<1>2. TypeOK'
  BY <1>1 DEF TypeOK
<1>3. FlagIsTheDriver'
  BY <1>1 DEF FlagIsTheDriver, TypeOK
<1>4. OnePlaceEach'
  <2>1. \A c \in Call : pc'[c] = pc[c] \/ (pc[c] = "lead" /\ pc'[c] \in {"await", "dropped"})
    BY <1>1 DEF TypeOK
  <2>2. \A c \in Call : slot'[c] = IF Flying(c) THEN Closed ELSE slot[c]
    BY <1>1
  <2>3. \A c \in Call : Flying(c) => slot[c] = NoAnswer /\ ~Flying(c)'
    BY <1>1 DEF OnePlaceEach
  <2>4. \A c \in Call : Flying(c) => (slot'[c] = slot[c] <=> Flying(c)')
    BY <2>2, <2>3, TransportAssumption
  <2>5. flights' \in SUBSET flights
    BY <1>1
  <2> QED BY <1>1, <2>1, <2>2, <2>4, <2>5, LandingKeepsPlaces
<1> QED BY <1>2, <1>3, <1>4

(* The invariant holds of every behaviour. *)
LEMMA TransportInvInvariant == Spec => []TransportInv
<1>1. Init => TransportInv
  <2> SUFFICES ASSUME Init PROVE TransportInv
    OBVIOUS
  <2>1. ToSet(queue) = {} /\ IsInjective(queue) /\ queue \in Seq(Call)
    BY DEF Init, ToSet, IsInjective
  <2> QED BY <2>1, TransportAssumption
          DEF Init, TransportInv, TypeOK, FlagIsTheDriver, OnePlaceEach, Leading, Parked, Flying
<1>2. TransportInv /\ [Next]_vars => TransportInv'
  <2> SUFFICES ASSUME TransportInv, [Next]_vars PROVE TransportInv'
    OBVIOUS
  <2> USE DEF TransportInv, Leading, Parked, Flying
  <2>1. ASSUME NEW c \in Call, Reject(c) \/ Return(c) \/ DropWaiting(c) PROVE TransportInv'
    <3>1. /\ UNCHANGED <<queue, leader, flights, slot, posted>>
          /\ pc[c] \in {"idle", "await"} /\ pc' = [pc EXCEPT ![c] = pc'[c]]
          /\ pc'[c] \in {"done", "dropped"} /\ DOMAIN result' = Call
      BY <2>1 DEF Reject, Return, DropWaiting, TypeOK
    <3>2. TypeOK'
      BY <3>1 DEF TypeOK
    <3>3. FlagIsTheDriver'
      BY <3>1 DEF FlagIsTheDriver, TypeOK
    <3>4. OnePlaceEach'
      BY <3>1 DEF OnePlaceEach, TypeOK
    <3> QED BY <3>2, <3>3, <3>4
  <2>2. ASSUME NEW c \in Call, Progress(c) PROVE TransportInv'
    BY <2>1, <2>2, BeginKeeps, TickKeeps, AnswerKeeps DEF Progress
  <2>3. ASSUME NEW c \in Call, DropLeader(c) PROVE TransportInv'
    BY <2>3, DropLeaderKeeps
  <2>4. CASE Quiet \/ UNCHANGED vars
    BY <2>4 DEF Quiet, vars, TypeOK, FlagIsTheDriver, OnePlaceEach
  <2> QED BY <2>1, <2>2, <2>3, <2>4 DEF Next
<1> QED BY <1>1, <1>2, PTL DEF Spec

(* The tick loop has one driver while the flag is up, whoever was dropped,  *)
(* and a call that waits is parked or in exactly one chunk.                 *)
THEOREM DriverIsUnique == Spec => []OneDriver
<1>1. TransportInv => OneDriver
  <2> SUFFICES ASSUME TransportInv PROVE OneDriver
    OBVIOUS
  <2> USE DEF TransportInv, Leading, Parked, Flying
  <2> DEFINE drivers == {c \in Call : Leading(c)}
  <2>1. Cardinality(drivers) = IF leader THEN 1 ELSE 0
    <3>1. CASE leader
      <4>1. PICK c \in Call : drivers = {c}
        BY <3>1 DEF FlagIsTheDriver
      <4> QED BY <3>1, <4>1, FS_Singleton
    <3>2. CASE ~leader
      <4>1. drivers = {}
        BY <3>2 DEF FlagIsTheDriver
      <4> QED BY <3>2, <4>1, FS_EmptySet
    <3> QED BY <3>1, <3>2
  <2>2. \A c \in Call : pc[c] \in {"lead", "await"} /\ slot[c] = NoAnswer =>
          (c \in ToSet(queue)) # (\E f \in flights : c \in ToSet(f))
    BY DEF OnePlaceEach
  <2> QED BY <2>1, <2>2 DEF OneDriver, FlagIsTheDriver, OnePlaceEach
<1> QED BY <1>1, TransportInvInvariant, PTL
-----------------------------------------------------------------------------
(* The refinement.  A step of the transport is a step of the port: a tick   *)
(* posts, and an answer, or a leader's end, is nobody's business yet.       *)
Stage == [c \in Call |-> IF pc[c] \in {"lead", "await"} THEN "open" ELSE pc[c]]

(* Every poll, drop, post and answer is a step of the port, or none.        *)
LEMMA StepKeepsThePort == TransportInv /\ [Next]_vars => [Port!Next]_Port!vars
<1> SUFFICES ASSUME TransportInv, [Next]_vars PROVE [Port!Next]_Port!vars
  OBVIOUS
<1> USE DEF TransportInv, Leading, Parked, Flying
<1>1. ASSUME UNCHANGED <<posted, result>>,
             \A c \in Call : pc'[c] = pc[c] \/ {pc[c], pc'[c]} \subseteq {"lead", "await"}
      PROVE  UNCHANGED Port!vars
  <2>1. Stage' = Stage
    BY <1>1 DEF Stage
  <2> QED BY <1>1, <2>1 DEF Port!vars, Stage
<1>2. ASSUME NEW c \in Call, Reject(c) PROVE Port!Next
  <2>1. Stage' = [Stage EXCEPT ![c] = "done"] /\ Stage[c] = "idle"
    BY <1>2 DEF Reject, Stage, TypeOK
  <2>2. result' = [result EXCEPT ![c] = Error] /\ UNCHANGED posted
    BY <1>2 DEF Reject
  <2>3. Port!Return(c)
    BY <2>1, <2>2 DEF Port!Return, Stage
  <2> QED BY <2>3 DEF Port!Next
<1>3. ASSUME NEW c \in Call, Begin(c) PROVE Port!Next
  <2>1. Stage' = [Stage EXCEPT ![c] = "open"] /\ Stage[c] = "idle"
    BY <1>3 DEF Begin, Stage, TypeOK
  <2>2. Port!Begin(c)
    BY <1>3, <2>1 DEF Begin, Port!Begin, Stage
  <2> QED BY <2>2 DEF Port!Next
<1>4. ASSUME NEW l \in Call, Tick(l) PROVE Port!Next
  <2> DEFINE n == IF Len(queue) < ChunkSize THEN Len(queue) ELSE ChunkSize
             front == ToSet(SubSeq(queue, 1, n))
  <2>1. posted' = posted \cup front /\ queue # <<>> /\ UNCHANGED <<pc, result>>
    BY <1>4 DEF Tick
  <2>2. n \in 1 .. Len(queue)
    <3>1. Len(queue) \in Nat \ {0}
      BY <2>1, EmptySeq DEF TypeOK
    <3> QED BY <3>1, ChunkSizePositive
  <2> HIDE DEF n
  <2>3. front # {} /\ front \subseteq ToSet(queue)
    BY <2>2, DrainingSome DEF TypeOK
  <2> HIDE DEF front
  <2>4. front \subseteq Call
    BY <2>3 DEF TypeOK, ToSet
  <2>5. front \cap posted = {} /\ \A c \in front : pc[c] # "idle"
    BY <2>3, <2>4 DEF OnePlaceEach
  <2>6. \A c \in front : Stage[c] # "idle"
    BY <2>4, <2>5 DEF Stage
  <2>7. Port!Post(front)
    BY <2>1, <2>3, <2>5, <2>6 DEF Port!Post, Stage
  <2> QED BY <2>4, <2>7 DEF Port!Next
<1>5. ASSUME NEW c \in Call, Return(c) PROVE Port!Next
  <2>1. Stage' = [Stage EXCEPT ![c] = "done"] /\ Stage[c] = "open"
    BY <1>5 DEF Return, Stage, TypeOK
  <2>2. \/ result' = [result EXCEPT ![c] = Error]
        \/ result' = [result EXCEPT ![c] = c] /\ c \in posted
    BY <1>5 DEF Return, TypeOK, OnePlaceEach
  <2>3. UNCHANGED posted
    BY <1>5 DEF Return
  <2>4. Port!Return(c)
    BY <2>1, <2>2, <2>3 DEF Port!Return, Stage
  <2> QED BY <2>4 DEF Port!Next
<1>6. ASSUME NEW c \in Call, DropWaiting(c) \/ DropLeader(c) PROVE Port!Next
  <2>1. Stage' = [Stage EXCEPT ![c] = "dropped"] /\ Stage[c] = "open"
    BY <1>6 DEF DropWaiting, DropLeader, Stage, TypeOK
  <2>2. Port!Drop(c)
    BY <1>6, <2>1 DEF DropWaiting, DropLeader, Port!Drop, Stage
  <2> QED BY <2>2 DEF Port!Next
<1>7. ASSUME NEW l \in Call, NEW chunk \in flights, Answer(l, chunk) PROVE UNCHANGED Port!vars
  BY <1>1, <1>7 DEF Answer, TypeOK
<1>8. CASE Quiet \/ UNCHANGED vars
  BY <1>1, <1>8 DEF Quiet, vars
<1> QED BY <1>2, <1>3, <1>4, <1>5, <1>6, <1>7, <1>8 DEF Next, Progress

(* Batching is invisible: the transport keeps the promise of one POST per   *)
(* call, and no call gets another call's response.                          *)
THEOREM Refinement == Spec => Implements
<1>1. Init => Port!Init
  <2> SUFFICES ASSUME Init PROVE Port!Init
    OBVIOUS
  <2>1. Stage = [c \in Call |-> "idle"]
    BY DEF Init, Stage
  <2> QED BY <2>1 DEF Init, Port!Init, Stage
<1> QED BY <1>1, StepKeepsThePort, TransportInvInvariant, PTL DEF Spec, Implements, Port!Spec
=============================================================================
