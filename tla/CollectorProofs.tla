-------------------------- MODULE CollectorProofs --------------------------
(***************************************************************************)
(* Proofs about the collector.                                             *)
(*                                                                         *)
(* Ingest, for every set of sensors, every sequence number and every       *)
(* number of messages: nothing received goes uncounted, a sensor moves no  *)
(* tracker entry but its own, and missing_events covers exactly the holes  *)
(* that no replay has filled.                                              *)
(*                                                                         *)
(* EventStore, further down, for every number of collectors, every stream  *)
(* of events and every number of puts and failures: the advisory lock      *)
(* guards the schema, an acknowledged event is stored completely, and the  *)
(* session row depends on the events stored and not on their order.        *)
(***************************************************************************)
EXTENDS Ingest, EventStore, FiniteSetTheorems, TLAPS

Rejections == {"rejected_identity", "rejected_decode", "rejected_other"}

StatsType ==
  [received : Nat, stored : Nat, rejected_identity : Nat, rejected_decode : Nat,
   rejected_other : Nat, gaps : Nat, replays : Nat, missing_events : Nat]

Typed ==
  /\ last \in [Nodes -> 0..MaxSeq]
  /\ first \in [Nodes -> 0..MaxSeq]
  /\ stats \in StatsType
  /\ pending \in {{}} \cup {{e} : e \in Events}
  /\ heard \subseteq Events

\* The tracker sees what the sensors said in their own names, and its entry for a
\* node lies between two of the node's own events, the first and the highest.
TrackerTrue ==
  /\ seen = heard
  /\ \A n \in Nodes :
       /\ (first[n] = 0) = (last[n] = 0)
       /\ first[n] <= last[n]

\* Finitely many numbers are missing.
HolesCounted == IsFiniteSet(Holes) /\ HolesRecorded

IInv == Typed /\ Conservation /\ IdentityIsolated /\ TrackerTrue /\ HolesCounted
-----------------------------------------------------------------------------
(* What handle makes of a message before the tracker sees it *)

\* normalize lets through exactly what a sensor says in its own name (ingest.rs
\* handle, normalize.rs normalize).
LEMMA RejectionExact ==
  ASSUME NEW msg \in Messages
  PROVE  /\ Rejection(msg) = "none" =>
              /\ msg.node_id \in Nodes /\ msg.seq \in 1..MaxSeq
              /\ Genuine(msg) = {<<msg.node_id, msg.seq>>}
         /\ Rejection(msg) # "none" => Rejection(msg) \in Rejections /\ Genuine(msg) = {}
<1>1. /\ msg.subject \in Nodes \cup {NoNode} /\ msg.node_id \in Nodes \cup {NoNode}
      /\ msg.decodable \in BOOLEAN /\ msg.wellFormed \in BOOLEAN /\ msg.seq \in 0..MaxSeq
  BY DEF Messages
<1>2. CASE msg.subject = NoNode \/ ~msg.decodable
  BY <1>2 DEF Rejection, Rejections, Genuine
<1>3. CASE msg.subject # NoNode /\ msg.decodable
  <2>1. CASE msg.node_id = NoNode
    <3>1. Normalize(msg) = "MissingNodeId"
      BY <1>3, <2>1 DEF Normalize
    <3>. QED
      BY <1>3, <2>1, <3>1 DEF Rejection, Rejections, Genuine
  <2>2. CASE msg.node_id # NoNode /\ msg.node_id # msg.subject
    <3>1. Normalize(msg) = "IdentityMismatch"
      BY <2>2 DEF Normalize
    <3>. QED
      BY <1>3, <2>2, <3>1 DEF Rejection, Rejections, Genuine
  <2>3. CASE msg.node_id = msg.subject /\ msg.seq = 0
    <3>1. Normalize(msg) = "MissingSeq"
      BY <1>3, <2>3 DEF Normalize
    <3>. QED
      BY <1>3, <2>3, <3>1 DEF Rejection, Rejections, Genuine
  <2>4. CASE msg.node_id = msg.subject /\ msg.seq # 0 /\ ~msg.wellFormed
    <3>1. Normalize(msg) = "Malformed"
      BY <1>3, <2>4 DEF Normalize
    <3>. QED
      BY <1>3, <2>4, <3>1 DEF Rejection, Rejections, Genuine
  <2>5. CASE msg.node_id = msg.subject /\ msg.seq # 0 /\ msg.wellFormed
    <3>1. Normalize(msg) = "Ok"
      BY <1>3, <2>5 DEF Normalize
    <3>2. Rejection(msg) = "none"
      BY <1>3, <3>1 DEF Rejection
    <3>3. Genuine(msg) = {<<msg.node_id, msg.seq>>}
      BY <1>3, <2>5 DEF Genuine
    <3>. QED
      BY <1>1, <1>3, <2>5, <3>2, <3>3, IngestAssumption DEF IngestAssumption
  <2>. QED
    BY <1>1, <1>3, <2>1, <2>2, <2>3, <2>4, <2>5
<1>. QED
  BY <1>1, <1>2, <1>3

\* The tracker never goes back, and never passes over the number it is given
\* (ingest.rs SeqTracker::observe).
LEMMA TrackerForward ==
  ASSUME NEW l \in Nat, NEW s \in Nat, s # 0
  PROVE  /\ Advance(l, s) = IF s <= l THEN l ELSE s
         /\ Observe(l, s) = IF l = 0 THEN "FirstSeen"
                            ELSE IF s <= l THEN "Replay"
                            ELSE IF s = l + 1 THEN "InOrder" ELSE "Gap"
         /\ Missing(l, s) = IF l # 0 /\ s > l + 1 THEN s - l - 1 ELSE 0
         /\ Missing(l, s) \in Nat
<1>1. Observe(l, s) = IF l = 0 THEN "FirstSeen"
                      ELSE IF s <= l THEN "Replay"
                      ELSE IF s = l + 1 THEN "InOrder" ELSE "Gap"
  BY DEF Observe
<1>. QED
  BY <1>1 DEF Advance, Missing

\* The numbers strictly between two others, as events of one node.
Between(n, a, b) == {<<n, i>> : i \in (a + 1)..(b - 1)}

\* There are b - a - 1 of them.
LEMMA BetweenCounted ==
  ASSUME NEW n, NEW a \in Nat, NEW b \in Nat, a < b
  PROVE  IsFiniteSet(Between(n, a, b)) /\ Cardinality(Between(n, a, b)) = b - a - 1
<1>. DEFINE I == (a + 1)..(b - 1)
            f == [i \in I |-> <<n, i>>]
<1>1. IsFiniteSet(I) /\ Cardinality(I) = b - a - 1
  BY FS_Interval
<1>2. f \in Bijection(I, Between(n, a, b))
  <2>1. f \in [I -> Between(n, a, b)]
    BY DEF Between
  <2>2. \A i, j \in I : f[i] = f[j] => i = j
    OBVIOUS
  <2>3. \A e \in Between(n, a, b) : \E i \in I : f[i] = e
    BY DEF Between
  <2>. QED
    BY <2>1, <2>2, <2>3 DEF Bijection, Injection, Surjection, IsInjective
<1>3. ExistsBijection(I, Between(n, a, b))
  BY <1>2 DEF ExistsBijection
<1>. QED
  BY <1>1, <1>3, FS_Bijection
-----------------------------------------------------------------------------
(* What each step does to the holes *)

\* A step that leaves first, last and seen alone.
LEMMA HolesStay ==
  ASSUME HolesCounted, UNCHANGED <<first, last, seen>>,
         stats'.missing_events = stats.missing_events, stats'.replays = stats.replays
  PROVE  HolesCounted'
<1>1. Holes' = Holes
  BY DEF Holes
<1>. QED
  BY <1>1 DEF HolesCounted, HolesRecorded

\* An accepted event: a first or next number leaves the holes alone, a gap adds as
\* many as it reports missing, a replay fills at most one (ingest.rs handle).
LEMMA HolesAccepted ==
  ASSUME Typed, IdentityIsolated, TrackerTrue, HolesCounted,
         NEW msg \in Messages, Accept(msg)
  PROVE  HolesCounted'
<1>. DEFINE n == msg.node_id
            s == msg.seq
            l == last[n]
<1>1. n \in Nodes /\ s \in 1..MaxSeq /\ s \in Nat /\ s # 0 /\ l \in Nat
  BY RejectionExact, IngestAssumption DEF Accept, Typed, StatsType, IngestAssumption
<1>2. /\ \A m \in Nodes \ {n} : last'[m] = last[m] /\ first'[m] = first[m]
      /\ seen' = seen \cup {<<n, s>>}
      /\ last'[n] = IF s <= l THEN l ELSE s
      /\ first'[n] = IF l = 0 THEN s ELSE first[n]
  BY <1>1, TrackerForward DEF Accept, Typed, StatsType
<1>3. /\ stats'.missing_events = stats.missing_events + Missing(l, s)
      /\ stats'.replays = IF Observe(l, s) = "Replay" THEN stats.replays + 1 ELSE stats.replays
      /\ stats.missing_events \in Nat /\ stats.replays \in Nat
  BY DEF Accept, Typed, StatsType
<1>4. /\ \A e \in seen : e \in Events /\ (e[1] = n => e[2] <= l)
      /\ l # 0 => <<n, l>> \in seen
      /\ (first[n] = 0) = (l = 0) /\ first[n] <= l /\ first[n] \in Nat
  BY <1>1 DEF IdentityIsolated, TrackerTrue, Typed, StatsType
<1>5. IsFiniteSet(Holes) /\ Cardinality(Holes) \in Nat
  BY FS_CardinalityType DEF HolesCounted
<1>6. \A e \in Events : e = <<e[1], e[2]>> /\ e[1] \in Nodes /\ e[2] \in 1..MaxSeq
  BY DEF Events
<1>7. CASE l = 0 \/ s = l + 1
  <2>1. ASSUME NEW e \in Events PROVE (e \in Holes') = (e \in Holes)
    <3>1. CASE e[1] # n
      BY <1>1, <1>2, <1>6, <3>1 DEF Holes
    <3>2. CASE e[1] = n
      BY <1>1, <1>2, <1>4, <1>6, <1>7, <3>2 DEF Holes
    <3>. QED
      BY <3>1, <3>2
  <2>2. Holes' = Holes
    BY <2>1 DEF Holes
  <2>3. Missing(l, s) = 0 /\ Observe(l, s) # "Replay"
    BY <1>1, <1>7, TrackerForward
  <2>4. stats'.missing_events = stats.missing_events /\ stats'.replays = stats.replays
    BY <1>3, <2>3
  <2>. QED
    BY <2>2, <2>4 DEF HolesCounted, HolesRecorded
<1>8. CASE l # 0 /\ s > l + 1
  <2>. DEFINE B == Between(n, l, s)
  <2>1. B \subseteq Events
    <3>1. \A i \in (l + 1)..(s - 1) : i \in 1..MaxSeq
      BY <1>1, IngestAssumption DEF IngestAssumption
    <3>2. \A i \in (l + 1)..(s - 1) : <<n, i>> \in Events
      BY <1>1, <3>1 DEF Events
    <3>. QED
      BY <3>2 DEF Between
  <2>2. ASSUME NEW e \in Events PROVE (e \in Holes') = (e \in Holes \cup B)
    <3>1. CASE e[1] # n
      BY <1>1, <1>2, <1>6, <3>1 DEF Holes, Between
    <3>2. CASE e[1] = n /\ e[2] <= l
      <4>1. e \notin B
        BY <1>1, <1>6, <3>2 DEF Between
      <4>2. e # <<n, s>>
        BY <1>1, <1>8, <3>2
      <4>. QED
        BY <1>1, <1>2, <1>4, <1>6, <1>8, <3>2, <4>1, <4>2 DEF Holes
    <3>3. CASE e[1] = n /\ e[2] > l
      <4>1. (e \in B) = (e[2] < s)
        BY <1>1, <1>6, <3>3 DEF Between
      <4>2. e \notin Holes
        BY <1>1, <1>6, <3>3 DEF Holes
      <4>3. e \notin seen
        BY <1>1, <1>4, <1>6, <3>3
      <4>4. e[2] # s => e # <<n, s>>
        BY <1>6
      <4>. QED
        BY <1>1, <1>2, <1>4, <1>6, <1>8, <3>3, <4>1, <4>2, <4>3, <4>4 DEF Holes
    <3>. QED
      BY <1>1, <1>6, <3>1, <3>2, <3>3
  <2>3. Holes' = Holes \cup B
    BY <2>1, <2>2 DEF Holes
  <2>4. Holes \cap B = {}
    BY <1>1, <1>6 DEF Holes, Between
  <2>5. IsFiniteSet(B) /\ Cardinality(B) = s - l - 1
    BY <1>1, <1>8, BetweenCounted
  <2>6. IsFiniteSet(Holes') /\ Cardinality(Holes') = Cardinality(Holes) + (s - l - 1)
    <3>1. /\ IsFiniteSet(Holes \cup B)
          /\ Cardinality(Holes \cup B)
               = Cardinality(Holes) + Cardinality(B) - Cardinality(Holes \cap B)
      BY <1>5, <2>5, FS_Union
    <3>2. Cardinality(Holes \cap B) = 0
      BY <2>4, FS_EmptySet
    <3>. QED
      BY <1>1, <1>5, <2>3, <2>5, <3>1, <3>2
  <2>7. Missing(l, s) = s - l - 1 /\ Observe(l, s) # "Replay"
    <3>1. ~(s <= l) /\ s # l + 1
      BY <1>1, <1>8
    <3>. QED
      BY <1>1, <1>8, <3>1, TrackerForward
  <2>. QED
    BY <1>1, <1>3, <1>5, <2>6, <2>7 DEF HolesCounted, HolesRecorded
<1>9. CASE l # 0 /\ s <= l
  <2>1. first' = first /\ last' = last
    BY <1>1, <1>9, TrackerForward DEF Accept, Typed, StatsType
  <2>2. Holes' = Holes \ {<<n, s>>}
    BY <1>2, <2>1 DEF Holes
  <2>3. /\ IsFiniteSet(Holes')
        /\ Cardinality(Holes') <= Cardinality(Holes)
        /\ Cardinality(Holes) <= Cardinality(Holes') + 1
        /\ Cardinality(Holes') \in Nat
    <3>1. /\ IsFiniteSet(Holes \ {<<n, s>>})
          /\ Cardinality(Holes \ {<<n, s>>}) =
               IF <<n, s>> \in Holes THEN Cardinality(Holes) - 1 ELSE Cardinality(Holes)
      BY <1>5, FS_RemoveElement
    <3>2. Cardinality(Holes') \in Nat
      BY <2>2, <3>1, FS_CardinalityType
    <3>. QED
      BY <1>5, <2>2, <3>1, <3>2
  <2>4. Missing(l, s) = 0 /\ Observe(l, s) = "Replay"
    BY <1>1, <1>9, TrackerForward
  <2>5. stats'.missing_events = stats.missing_events /\ stats'.replays = stats.replays + 1
    BY <1>3, <2>4
  <2>. QED
    BY <1>3, <1>5, <2>3, <2>5 DEF HolesCounted, HolesRecorded
<1>. QED
  BY <1>1, <1>7, <1>8, <1>9
-----------------------------------------------------------------------------
(* IInv is inductive *)

\* Init, and so also a restart, establishes it.
LEMMA FreshState ==
  ASSUME Init
  PROVE  IInv
<1>1. Typed
  BY IngestAssumption DEF Init, Typed, StatsType, NoStats, IngestAssumption
<1>2. Conservation
  BY FS_EmptySet DEF Init, Conservation, NoStats
<1>3. IdentityIsolated /\ TrackerTrue
  BY DEF Init, IdentityIsolated, TrackerTrue
<1>4. Holes = {}
  BY DEF Init, Holes, Events
<1>5. HolesCounted
  BY <1>4, FS_EmptySet DEF Init, HolesCounted, HolesRecorded, NoStats
<1>. QED
  BY <1>1, <1>2, <1>3, <1>5 DEF IInv

\* handle returns early (ingest.rs handle).
LEMMA RejectKeeps ==
  ASSUME IInv, NEW msg \in Messages, Reject(msg)
  PROVE  IInv'
<1>1. Rejection(msg) \in Rejections /\ Genuine(msg) = {}
  BY RejectionExact DEF Reject
<1>2. UNCHANGED <<last, first, pending, heard, seen>>
  BY <1>1 DEF Reject
<1>3. /\ Typed'
      /\ Conservation'
      /\ stats'.missing_events = stats.missing_events /\ stats'.replays = stats.replays
  <2>1. pending = {} /\ Cardinality(pending) = 0 /\ pending' = pending
    BY FS_EmptySet DEF Reject
  <2>2. stats' \in StatsType
    <3>1. stats \in StatsType
      BY DEF IInv, Typed
    <3>. DEFINE one == [stats EXCEPT !.received = @ + 1]
    <3>2. one \in StatsType
      BY <3>1 DEF StatsType
    <3>3. stats' = [one EXCEPT ![Rejection(msg)] = @ + 1]
      BY <1>1 DEF Reject, Rejections
    <3>. HIDE DEF one
    <3>. QED
      BY <1>1, <3>2, <3>3 DEF StatsType, Rejections
  <2>3. /\ stats'.received = stats.received + 1
        /\ stats'.stored = stats.stored
        /\ stats'.missing_events = stats.missing_events /\ stats'.replays = stats.replays
    BY <1>1 DEF Reject, IInv, Typed, StatsType, Rejections
  <2>4. stats'.rejected_identity + stats'.rejected_decode + stats'.rejected_other
        = stats.rejected_identity + stats.rejected_decode + stats.rejected_other + 1
    BY <1>1 DEF Reject, IInv, Typed, StatsType, Rejections
  <2>5. Conservation'
    <3>1. stats \in StatsType /\ Conservation
      BY DEF IInv, Typed
    <3>2. Cardinality(pending) = 0 /\ Cardinality(pending') = 0
      BY <2>1
    <3>. QED
      BY <2>2, <2>3, <2>4, <3>1, <3>2 DEF Conservation, StatsType
  <2>. QED
    BY <1>2, <2>2, <2>3, <2>5 DEF IInv, Typed, StatsType
<1>4. IdentityIsolated' /\ TrackerTrue'
  BY <1>2 DEF IInv, IdentityIsolated, TrackerTrue
<1>5. HolesCounted'
  BY <1>2, <1>3, HolesStay DEF IInv
<1>. QED
  BY <1>3, <1>4, <1>5 DEF IInv

\* handle up to put_event (ingest.rs handle).
LEMMA AcceptKeeps ==
  ASSUME IInv, NEW msg \in Messages, Accept(msg)
  PROVE  IInv'
<1>. DEFINE n == msg.node_id
            s == msg.seq
            l == last[n]
<1>. USE DEF IInv
<1>1. /\ n \in Nodes /\ s \in 1..MaxSeq /\ s \in Nat /\ s # 0 /\ l \in Nat
      /\ Genuine(msg) = {<<n, s>>}
  BY RejectionExact, IngestAssumption DEF Accept, Typed, StatsType, IngestAssumption
<1>2. last' = [last EXCEPT ![n] = IF s <= l THEN l ELSE s]
  BY <1>1, TrackerForward DEF Accept
<1>3. first' = IF l = 0 THEN [first EXCEPT ![n] = s] ELSE first
  BY <1>1, TrackerForward DEF Accept
<1>4. /\ heard' = heard \cup {<<n, s>>} /\ seen' = seen \cup {<<n, s>>}
      /\ pending' = {<<n, s>>} /\ pending = {}
      /\ <<n, s>> \in Events
  BY <1>1 DEF Accept, Events
<1>5. Typed'
  <2>1. last' \in [Nodes -> 0..MaxSeq] /\ first' \in [Nodes -> 0..MaxSeq]
    BY <1>1, <1>2, <1>3 DEF Typed, StatsType
  <2>2. Missing(l, s) \in Nat
    BY <1>1, TrackerForward
  <2>3. stats' \in StatsType
    <3>. DEFINE g == IF Observe(l, s) = "Gap" THEN 1 ELSE 0
                r == IF Observe(l, s) = "Replay" THEN 1 ELSE 0
                k == Missing(l, s)
    <3>1. stats' = [stats EXCEPT !.received = @ + 1, !.gaps = @ + g,
                                 !.missing_events = @ + k, !.replays = @ + r]
      BY DEF Accept
    <3>2. g \in Nat /\ r \in Nat /\ k \in Nat
      BY <2>2
    <3>. HIDE DEF g, r, k
    <3>. DEFINE one == [stats EXCEPT !.received = @ + 1]
                two == [one EXCEPT !.gaps = @ + g]
                three == [two EXCEPT !.missing_events = @ + k]
    <3>3. one \in StatsType
      BY DEF Typed, StatsType
    <3>. HIDE DEF one
    <3>4. two \in StatsType
      BY <3>2, <3>3 DEF StatsType
    <3>. HIDE DEF two
    <3>5. three \in StatsType
      BY <3>2, <3>4 DEF StatsType
    <3>6. stats' = [three EXCEPT !.replays = @ + r]
      BY <3>1 DEF one, two
    <3>. HIDE DEF three
    <3>. QED
      BY <3>2, <3>5, <3>6 DEF StatsType
  <2>. QED
    BY <1>4, <2>1, <2>3 DEF Typed, StatsType
<1>6. Conservation'
  <2>1. Cardinality(pending) = 0 /\ Cardinality(pending') = 1
    BY <1>4, FS_EmptySet, FS_Singleton
  <2>2. /\ stats'.received = stats.received + 1
        /\ stats'.stored = stats.stored
        /\ stats'.rejected_identity = stats.rejected_identity
        /\ stats'.rejected_decode = stats.rejected_decode
        /\ stats'.rejected_other = stats.rejected_other
    BY DEF Accept, Typed, StatsType
  <2>. QED
    BY <2>1, <2>2 DEF Conservation, Typed, StatsType
<1>7. IdentityIsolated'
  <2>1. \A m \in Nodes : last'[m] # 0 => <<m, last'[m]>> \in heard'
    BY <1>1, <1>2, <1>4 DEF IdentityIsolated, Typed, StatsType
  <2>2. ASSUME NEW m \in Nodes, NEW e \in heard', e[1] = m PROVE e[2] <= last'[m]
    <3>1. \A e2 \in heard : e2[1] = m => e2[2] <= last[m]
      BY DEF IdentityIsolated
    <3>2. \A e2 \in heard : e2[2] \in Nat
      BY DEF Typed, StatsType, Events
    <3>3. last[m] \in Nat /\ last'[m] \in Nat /\ last[m] <= last'[m]
      BY <1>1, <1>2 DEF Typed, StatsType
    <3>4. CASE e \in heard
      BY <2>2, <3>1, <3>2, <3>3, <3>4
    <3>5. CASE e = <<n, s>>
      BY <1>1, <1>2, <2>2, <3>5 DEF Typed, StatsType
    <3>. QED
      BY <1>4, <3>4, <3>5
  <2>3. pending' \subseteq heard'
    BY <1>4
  <2>. QED
    BY <2>1, <2>2, <2>3 DEF IdentityIsolated
<1>8. TrackerTrue'
  BY <1>1, <1>2, <1>3, <1>4 DEF TrackerTrue, Typed, StatsType
<1>9. HolesCounted'
  BY HolesAccepted
<1>. QED
  BY <1>5, <1>6, <1>7, <1>8, <1>9

\* put_event returns, with Ok or with an error (ingest.rs handle).
LEMMA StoredKeeps ==
  ASSUME IInv, StoreOk \/ StoreFails
  PROVE  IInv'
<1>1. UNCHANGED <<last, first, heard, seen>> /\ pending' = {}
  BY DEF StoreOk, StoreFails
<1>2. Cardinality(pending) = 1 /\ Cardinality(pending') = 0
  BY <1>1, FS_EmptySet, FS_Singleton DEF IInv, Typed, StatsType, StoreOk, StoreFails
<1>3. /\ Typed'
      /\ Conservation'
      /\ stats'.missing_events = stats.missing_events /\ stats'.replays = stats.replays
  <2>1. CASE StoreOk
    BY <1>1, <1>2, <2>1 DEF StoreOk, IInv, Typed, StatsType, Conservation
  <2>2. CASE StoreFails
    BY <1>1, <1>2, <2>2 DEF StoreFails, IInv, Typed, StatsType, Conservation
  <2>. QED
    BY <2>1, <2>2
<1>4. IdentityIsolated' /\ TrackerTrue'
  BY <1>1 DEF IInv, IdentityIsolated, TrackerTrue
<1>5. HolesCounted'
  BY <1>1, <1>3, HolesStay DEF IInv
<1>. QED
  BY <1>3, <1>4, <1>5 DEF IInv

\* Every step keeps it.
LEMMA IInvInductive == Spec => []IInv
<1>1. Init => IInv
  BY FreshState
<1>2. Init' => IInv'
  BY <1>1, PTL
<1>3. IInv /\ [Next]_vars => IInv'
  <2>. SUFFICES ASSUME IInv, [Next]_vars PROVE IInv'
    OBVIOUS
  <2>1. ASSUME NEW msg \in Messages, Reject(msg) PROVE IInv'
    BY <2>1, RejectKeeps
  <2>2. ASSUME NEW msg \in Messages, Accept(msg) PROVE IInv'
    BY <2>2, AcceptKeeps
  <2>3. CASE StoreOk \/ StoreFails
    BY <2>3, StoredKeeps
  <2>4. CASE Restart
    BY <1>2, <2>4 DEF Restart, Init
  <2>5. CASE UNCHANGED vars
    BY <2>5 DEF vars, IInv, Typed, StatsType, Conservation, IdentityIsolated, TrackerTrue,
                HolesCounted, HolesRecorded, Holes
  <2>. QED
    BY <2>1, <2>2, <2>3, <2>4, <2>5 DEF Next
<1>. QED
  BY <1>1, <1>3, PTL DEF Spec
-----------------------------------------------------------------------------
(* Nothing the collector receives goes uncounted, whatever it receives and whether the
   store takes it or not (ingest.rs handle, IngestStats). *)
THEOREM NothingUncounted == Spec => []Conservation
<1>1. IInv => Conservation
  BY DEF IInv
<1>. QED
  BY <1>1, IInvInductive, PTL

(* A sensor moves no tracker entry and gets no event stored under another's name, for
   any set of sensors and any messages they send (ingest.rs handle, normalize.rs). *)
THEOREM NobodySpeaksForAnother == Spec => []IdentityIsolated
<1>1. IInv => IdentityIsolated
  BY DEF IInv
<1>. QED
  BY <1>1, IInvInductive, PTL

(* missing_events is at least the number of events that are missing, and exceeds it by
   no more than the number of replays, for any order of arrival (ingest.rs
   SeqTracker::observe, handle). *)
THEOREM LossIsRecorded == Spec => []HolesRecorded
<1>1. IInv => HolesRecorded
  BY DEF IInv, HolesCounted
<1>. QED
  BY <1>1, IInvInductive, PTL
-----------------------------------------------------------------------------
(***************************************************************************)
(* The durable store.                                                      *)
(***************************************************************************)
Critical == {"check", "create", "unlock", "unlockFailed"}
Storing == {"session", "event", "detail", "tee"}
Points == {"boot", "idle"} \cup Critical \cup Storing

StoreTyped ==
  /\ pc \in [Collectors -> Points]
  /\ cur \in [Collectors -> Seqs \cup {0}]
  /\ stamp \in [Collectors -> Nat]
  /\ lock \subseteq Collectors
  /\ schema \in BOOLEAN /\ clash \in BOOLEAN
  /\ sawNone \in [Collectors -> BOOLEAN]
  /\ session \in [present : BOOLEAN, started : Nat, ended : Nat, peer : BOOLEAN]
  /\ rows \subseteq Seqs /\ upserts \subseteq Seqs /\ okd \subseteq Seqs
  /\ detail \in [Seqs -> Nat] /\ lines \in [Seqs -> Nat]
  /\ clock \in Nat /\ fails \in Nat

\* Whoever is inside the migration is the one holder of the advisory lock.
LockExact == \A c \in Collectors : pc[c] \in Critical => lock = {c}

\* What CREATE TABLE IF NOT EXISTS found is still true when it creates the table.
LookupFresh == \A c \in Collectors : pc[c] = "create" /\ sawNone[c] => ~schema

\* How much of the event in hand is in the database at each statement of put_event.
PutProgress ==
  \A c \in Collectors :
    LET s == cur[c] IN
    /\ pc[c] \in Storing => s \in Seqs
    /\ pc[c] = "session" => stamp[c] # 0
    /\ pc[c] \in {"event", "detail", "tee"} /\ InSession(s) => s \in upserts
    /\ pc[c] \in {"detail", "tee"} => s \in rows
    /\ pc[c] = "detail" => HasDetail(s)
    /\ pc[c] = "tee" /\ HasDetail(s) => detail[s] >= 1

StoreInv ==
  /\ StoreTyped /\ LockExact /\ LookupFresh /\ PutProgress
  /\ SchemaCreatedOnce /\ OkMeansStored /\ SessionReflectsEvents
-----------------------------------------------------------------------------
(* Every statement of store.rs keeps the types, the sessions row included. *)
LEMMA TypedInit == StoreInit => StoreTyped
<1>. SUFFICES ASSUME StoreInit PROVE StoreTyped
  OBVIOUS
<1>1. pc \in [Collectors -> Points]
  BY DEF StoreInit, Points
<1>2. sawNone \in [Collectors -> BOOLEAN]
  BY DEF StoreInit
<1>3. session \in [present : BOOLEAN, started : Nat, ended : Nat, peer : BOOLEAN]
  BY DEF StoreInit
<1>4. detail \in [Seqs -> Nat] /\ lines \in [Seqs -> Nat]
  BY DEF StoreInit
<1>. QED
  BY <1>1, <1>2, <1>3, <1>4 DEF StoreInit, StoreTyped

\* What upsert_session writes is a sessions row (store.rs upsert_session).
LEMMA UpsertedType ==
  ASSUME StoreTyped, NEW s \in Seqs, NEW t \in Nat
  PROVE  /\ Upserted(s, t) \in [present : BOOLEAN, started : Nat, ended : Nat, peer : BOOLEAN]
         /\ Upserted(s, t).present
         /\ Upserted(s, t).peer = (session.peer \/ Kind[s] = "session_start")
         /\ Upserted(s, t).ended = IF Kind[s] = "session_end" THEN t ELSE session.ended
<1>1. CASE Kind[s] = "session_start"
  BY <1>1 DEF StoreTyped, Upserted
<1>2. CASE Kind[s] = "session_end"
  BY <1>2 DEF StoreTyped, Upserted
<1>3. CASE Kind[s] \notin {"session_start", "session_end"}
  BY <1>3 DEF StoreTyped, Upserted
<1>. QED
  BY <1>1, <1>2, <1>3
(* The steps of one collector *)

Acts(c) ==
  \/ Lock(c) \/ CheckTables(c) \/ CreateTables(c) \/ MigrateFails(c) \/ Unlock(c)
  \/ (\E s \in Seqs : Begin(c, s))
  \/ UpsertSession(c) \/ InsertEvent(c) \/ InsertDetail(c) \/ Tee(c)
  \/ PutFails(c) \/ Dies(c)

\* A step of the system is one collector's step.
LEMMA NextIsActs == StoreNext => \E c \in Collectors : Acts(c)
  BY DEF StoreNext, Migrate, Put, Acts

\* Every statement keeps the types.
LEMMA TypedStep ==
  ASSUME StoreTyped, PutProgress, NEW c \in Collectors, Acts(c)
  PROVE  StoreTyped'
<1>. USE DEF StoreTyped, Points, Goto, tables, migration
<1>1. CASE Lock(c)
  BY <1>1 DEF Lock, Critical
<1>2. CASE CheckTables(c)
  <2>1. sawNone' \in [Collectors -> BOOLEAN]
    BY <1>2, Zenon DEF CheckTables
  <2>. QED
    BY <1>2, <2>1 DEF CheckTables, Critical
<1>3. CASE CreateTables(c)
  <2>1. clash' \in BOOLEAN
    BY <1>3 DEF CreateTables
  <2>. QED
    BY <1>3, <2>1 DEF CreateTables, Critical
<1>4. CASE MigrateFails(c)
  BY <1>4 DEF MigrateFails, Fail, Critical
<1>5. CASE Unlock(c)
  BY <1>5 DEF Unlock
<1>6. ASSUME NEW s \in Seqs, Begin(c, s) PROVE StoreTyped'
  BY <1>6 DEF Begin, Storing
<1>7. CASE UpsertSession(c)
  <2>1. cur[c] \in Seqs /\ stamp[c] \in Nat
    BY <1>7 DEF UpsertSession, PutProgress, Storing
  <2>2. session' \in [present : BOOLEAN, started : Nat, ended : Nat, peer : BOOLEAN]
    BY <1>7, <2>1, UpsertedType DEF UpsertSession
  <2>. QED
    BY <1>7, <2>1, <2>2 DEF UpsertSession, Storing
<1>8. CASE InsertEvent(c)
  BY <1>8 DEF InsertEvent, PutProgress, Storing
<1>9. CASE InsertDetail(c)
  BY <1>9 DEF InsertDetail, PutProgress, Storing
<1>10. CASE Tee(c)
  BY <1>10 DEF Tee, PutProgress, Storing, Fail
<1>11. CASE PutFails(c)
  BY <1>11 DEF PutFails, Fail
<1>12. CASE Dies(c)
  BY <1>12 DEF Dies, Fail
<1>. QED
  BY <1>1, <1>2, <1>3, <1>4, <1>5, <1>6, <1>7, <1>8, <1>9, <1>10, <1>11, <1>12 DEF Acts

\* migrate: the lock has one holder, so what the holder looked up stays true until it
\* creates the table (store.rs migrate).
LEMMA MigrationStep ==
  ASSUME StoreTyped, LockExact, LookupFresh, SchemaCreatedOnce, NEW c \in Collectors, Acts(c)
  PROVE  LockExact' /\ LookupFresh' /\ SchemaCreatedOnce'
<1>. USE DEF StoreTyped, Points, Critical, Goto, LockExact, LookupFresh, SchemaCreatedOnce,
             migration
<1>1. CASE Lock(c)
  BY <1>1 DEF Lock
<1>2. CASE CheckTables(c)
  BY <1>2 DEF CheckTables
<1>3. CASE CreateTables(c)
  <2>1. ~(sawNone[c] /\ schema)
    BY <1>3 DEF CreateTables
  <2>2. \A d \in Collectors : pc'[d] = "create" => d # c /\ pc[d] = "create"
    BY <1>3 DEF CreateTables
  <2>3. \A d \in Collectors : pc'[d] # "create"
    BY <1>3, <2>2 DEF CreateTables
  <2>4. ~clash' /\ schema'
    BY <1>3, <2>1 DEF CreateTables
  <2>. QED
    BY <1>3, <2>3, <2>4 DEF CreateTables
<1>4. CASE MigrateFails(c)
  BY <1>4 DEF MigrateFails
<1>5. CASE Unlock(c)
  BY <1>5 DEF Unlock
<1>6. ASSUME NEW s \in Seqs, Begin(c, s)
      PROVE  LockExact' /\ LookupFresh' /\ SchemaCreatedOnce'
  BY <1>6 DEF Begin
<1>7. CASE UpsertSession(c)
  BY <1>7 DEF UpsertSession
<1>8. CASE InsertEvent(c)
  BY <1>8 DEF InsertEvent
<1>9. CASE InsertDetail(c)
  BY <1>9 DEF InsertDetail
<1>10. CASE Tee(c)
  BY <1>10 DEF Tee
<1>11. CASE PutFails(c)
  BY <1>11 DEF PutFails
<1>12. CASE Dies(c)
  BY <1>12 DEF Dies
<1>. QED
  BY <1>1, <1>2, <1>3, <1>4, <1>5, <1>6, <1>7, <1>8, <1>9, <1>10, <1>11, <1>12 DEF Acts

\* A step of the migration, or a failure: nothing in the tables changes and no
\* collector goes further into put_event.
LEMMA TablesStay ==
  ASSUME StoreTyped, PutProgress, OkMeansStored, SessionReflectsEvents, NEW c \in Collectors,
         UNCHANGED <<cur, stamp, tables, upserts, okd>>,
         NEW l \in Points \ Storing, pc' = [pc EXCEPT ![c] = l]
  PROVE  PutProgress' /\ OkMeansStored' /\ SessionReflectsEvents'
<1>1. \A d \in Collectors : pc'[d] = pc[d] \/ pc'[d] \notin Storing
  BY DEF StoreTyped
<1>2. PutProgress'
  BY <1>1 DEF PutProgress, Storing, tables
<1>. QED
  BY <1>2 DEF OkMeansStored, SessionReflectsEvents, tables

\* put_event: each statement establishes what the next one relies on, and the
\* collectors interleaved with it only add to the tables (store.rs put_event).
LEMMA PutStep ==
  ASSUME StoreTyped, PutProgress, OkMeansStored, SessionReflectsEvents,
         NEW c \in Collectors, Acts(c)
  PROVE  PutProgress' /\ OkMeansStored' /\ SessionReflectsEvents'
<1>1. CASE Lock(c) \/ CheckTables(c) \/ CreateTables(c) \/ MigrateFails(c) \/ Unlock(c)
  <2>1. UNCHANGED <<cur, stamp, tables, upserts, okd>>
    BY <1>1 DEF Lock, CheckTables, CreateTables, MigrateFails, Unlock, tables
  <2>2. PICK l \in Points \ Storing : pc' = [pc EXCEPT ![c] = l]
    BY <1>1 DEF Lock, CheckTables, CreateTables, MigrateFails, Unlock, Goto, Points,
                Storing, Critical
  <2>. QED
    BY <2>1, <2>2, TablesStay
<1>2. CASE PutFails(c) \/ Dies(c)
  <2>1. UNCHANGED <<cur, stamp, tables, upserts, okd>>
    BY <1>2 DEF PutFails, Dies, tables
  <2>2. PICK l \in Points \ Storing : pc' = [pc EXCEPT ![c] = l]
    BY <1>2 DEF PutFails, Dies, Goto, Points, Storing, Critical
  <2>. QED
    BY <2>1, <2>2, TablesStay
<1>3. ASSUME NEW s \in Seqs, Begin(c, s)
      PROVE  PutProgress' /\ OkMeansStored' /\ SessionReflectsEvents'
  <2>1. UNCHANGED <<session, rows, detail, upserts, okd>>
    BY <1>3 DEF Begin, tables
  <2>2. /\ cur'[c] = s /\ stamp'[c] # 0
        /\ pc'[c] = IF InSession(s) THEN "session" ELSE "event"
    BY <1>3 DEF Begin, Goto, StoreTyped
  <2>3. \A d \in Collectors \ {c} : pc'[d] = pc[d] /\ cur'[d] = cur[d] /\ stamp'[d] = stamp[d]
    BY <1>3 DEF Begin, Goto, StoreTyped
  <2>4. PutProgress'
    BY <2>1, <2>2, <2>3 DEF PutProgress, Storing
  <2>. QED
    BY <2>1, <2>4 DEF OkMeansStored, SessionReflectsEvents
<1>4. CASE UpsertSession(c)
  <2>. DEFINE s == cur[c]
  <2>1. s \in Seqs /\ stamp[c] \in Nat /\ stamp[c] # 0 /\ pc[c] = "session"
    BY <1>4 DEF UpsertSession, PutProgress, Storing, StoreTyped
  <2>2. /\ session'.present
        /\ session'.peer = (session.peer \/ Kind[s] = "session_start")
        /\ session'.ended = IF Kind[s] = "session_end" THEN stamp[c] ELSE session.ended
    BY <1>4, <2>1, UpsertedType DEF UpsertSession
  <2>3. /\ upserts' = upserts \cup {s}
        /\ UNCHANGED <<cur, stamp, rows, detail, okd>>
    BY <1>4 DEF UpsertSession
  <2>4. /\ pc'[c] = "event"
        /\ \A d \in Collectors \ {c} : pc'[d] = pc[d]
    BY <1>4 DEF UpsertSession, Goto, StoreTyped
  <2>5. PutProgress'
    BY <2>1, <2>3, <2>4 DEF PutProgress, Storing
  <2>6. OkMeansStored'
    BY <2>2, <2>3 DEF OkMeansStored
  <2>7. SessionReflectsEvents'
    <3>1. session'.peer = \E e \in upserts' : Kind[e] = "session_start"
      BY <2>2, <2>3 DEF SessionReflectsEvents
    <3>2. (session'.ended # 0) = \E e \in upserts' : Kind[e] = "session_end"
      BY <2>1, <2>2, <2>3 DEF SessionReflectsEvents
    <3>3. session'.present = (upserts' # {})
      BY <2>2, <2>3 DEF SessionReflectsEvents
    <3>. QED
      BY <3>1, <3>2, <3>3 DEF SessionReflectsEvents
  <2>. QED
    BY <2>5, <2>6, <2>7
<1>5. CASE InsertEvent(c)
  <2>1. cur[c] \in Seqs /\ pc[c] = "event"
    BY <1>5 DEF InsertEvent, PutProgress, Storing
  <2>2. /\ rows' = rows \cup {cur[c]}
        /\ UNCHANGED <<cur, stamp, session, detail, upserts, okd>>
    BY <1>5 DEF InsertEvent
  <2>3. /\ pc'[c] = IF HasDetail(cur[c]) THEN "detail" ELSE "tee"
        /\ \A d \in Collectors \ {c} : pc'[d] = pc[d]
    BY <1>5 DEF InsertEvent, Goto, StoreTyped
  <2>4. PutProgress'
    BY <2>1, <2>2, <2>3 DEF PutProgress, Storing
  <2>. QED
    BY <2>2, <2>4 DEF OkMeansStored, SessionReflectsEvents
<1>6. CASE InsertDetail(c)
  <2>1. cur[c] \in Seqs /\ pc[c] = "detail"
    BY <1>6 DEF InsertDetail, PutProgress, Storing
  <2>2. UNCHANGED <<cur, stamp, session, rows, upserts, okd>>
    BY <1>6 DEF InsertDetail
  <2>3. /\ detail'[cur[c]] >= 1
        /\ \A e \in Seqs : detail'[e] >= detail[e] /\ detail[e] \in Nat /\ detail'[e] \in Nat
    BY <1>6, <2>1 DEF InsertDetail, StoreTyped
  <2>4. /\ pc'[c] = "tee"
        /\ \A d \in Collectors \ {c} : pc'[d] = pc[d]
    BY <1>6 DEF InsertDetail, Goto, StoreTyped
  <2>5. PutProgress'
    BY <2>1, <2>2, <2>3, <2>4 DEF PutProgress, Storing
  <2>6. OkMeansStored'
    BY <2>2, <2>3 DEF OkMeansStored, StoreTyped
  <2>. QED
    BY <2>2, <2>5, <2>6 DEF SessionReflectsEvents
<1>7. CASE Tee(c)
  <2>1. cur[c] \in Seqs /\ pc[c] = "tee"
    BY <1>7 DEF Tee, PutProgress, Storing
  <2>2. /\ okd' = okd \cup {cur[c]}
        /\ UNCHANGED <<cur, stamp, session, rows, detail, upserts>>
    BY <1>7 DEF Tee
  <2>3. /\ pc'[c] = "idle"
        /\ \A d \in Collectors \ {c} : pc'[d] = pc[d]
    BY <1>7 DEF Tee, Goto, StoreTyped
  <2>4. PutProgress'
    BY <2>2, <2>3 DEF PutProgress, Storing
  <2>5. /\ cur[c] \in rows
        /\ InSession(cur[c]) => session.present
        /\ HasDetail(cur[c]) => detail[cur[c]] >= 1
    BY <2>1 DEF PutProgress, SessionReflectsEvents
  <2>6. OkMeansStored'
    BY <2>2, <2>5 DEF OkMeansStored
  <2>. QED
    BY <2>2, <2>4, <2>6 DEF SessionReflectsEvents
<1>. QED
  BY <1>1, <1>2, <1>3, <1>4, <1>5, <1>6, <1>7 DEF Acts

\* StoreInv is inductive.
LEMMA StoreInductive == StoreSpec => []StoreInv
<1>1. StoreInit => StoreInv
  <2>. SUFFICES ASSUME StoreInit PROVE StoreInv
    OBVIOUS
  <2>1. StoreTyped
    BY TypedInit
  <2>2. \A c \in Collectors : pc[c] = "boot"
    BY DEF StoreInit
  <2>3. LockExact /\ LookupFresh /\ SchemaCreatedOnce
    BY <2>2 DEF StoreInit, LockExact, LookupFresh, SchemaCreatedOnce, Critical
  <2>4. PutProgress
    BY <2>2 DEF PutProgress, Storing
  <2>5. OkMeansStored
    BY DEF StoreInit, OkMeansStored
  <2>6. SessionReflectsEvents
    BY DEF StoreInit, SessionReflectsEvents
  <2>. QED
    BY <2>1, <2>3, <2>4, <2>5, <2>6 DEF StoreInv
<1>2. StoreInv /\ [StoreNext]_storeVars => StoreInv'
  <2>. SUFFICES ASSUME StoreInv, [StoreNext]_storeVars PROVE StoreInv'
    OBVIOUS
  <2>1. CASE StoreNext
    <3>1. PICK c \in Collectors : Acts(c)
      BY <2>1, NextIsActs
    <3>. QED
      BY <3>1, TypedStep, MigrationStep, PutStep DEF StoreInv
  <2>2. CASE UNCHANGED storeVars
    <3>1. StoreTyped'
      BY <2>2 DEF StoreInv, storeVars, tables, migration, StoreTyped
    <3>2. LockExact' /\ LookupFresh' /\ SchemaCreatedOnce'
      BY <2>2 DEF StoreInv, storeVars, migration, LockExact, LookupFresh, SchemaCreatedOnce
    <3>3. PutProgress' /\ OkMeansStored' /\ SessionReflectsEvents'
      BY <2>2 DEF StoreInv, storeVars, tables, PutProgress, OkMeansStored, SessionReflectsEvents
    <3>. QED
      BY <3>1, <3>2, <3>3 DEF StoreInv
  <2>. QED
    BY <2>1, <2>2
<1>. QED
  BY <1>1, <1>2, PTL DEF StoreSpec
-----------------------------------------------------------------------------
(* The advisory lock of migrate does its work for any number of collectors that start,
   fail, die and start again: no CREATE TABLE clashes, and no event is stored before
   the tables exist (store.rs migrate). *)
THEOREM SchemaSafe == StoreSpec => []SchemaCreatedOnce
<1>1. StoreInv => SchemaCreatedOnce
  BY DEF StoreInv
<1>. QED
  BY <1>1, StoreInductive, PTL

(* An event for which some put_event returned Ok has its event row, its session row and
   its credentials or artifacts row, whichever statements failed before and whatever the
   other collectors were doing (store.rs put_event). *)
THEOREM OkIsComplete == StoreSpec => []OkMeansStored
<1>1. StoreInv => OkMeansStored
  BY DEF StoreInv
<1>. QED
  BY <1>1, StoreInductive, PTL

(* The sessions row says the peer is known exactly if the start was stored, the end
   exactly if the end was, in whatever order and by whichever collectors
   (store.rs upsert_session). *)
THEOREM SessionRowExact == StoreSpec => []SessionReflectsEvents
<1>1. StoreInv => SessionReflectsEvents
  BY DEF StoreInv
<1>. QED
  BY <1>1, StoreInductive, PTL
=============================================================================
