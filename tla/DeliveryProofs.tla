--------------------------- MODULE DeliveryProofs ---------------------------
(***************************************************************************)
(* Proofs about Delivery for every number of writers, of faults and of     *)
(* connections, every batch size and every capacity of the subscription.   *)
(***************************************************************************)
EXTENDS Delivery, SequenceTheorems, FiniteSetTheorems, TLAPS

SP == INSTANCE SpoolProofs

(***************************************************************************)
(* What the operations of a FIFO queue keep and drop.  A queue is a        *)
(* sequence; Elems is the set of what it holds.                            *)
(***************************************************************************)
Elems(s) == {s[i] : i \in DOMAIN s}

\* A queue over a set is a queue over every larger set.
LEMMA FifoGrows ==
  ASSUME NEW A, NEW B, A \subseteq B, NEW s \in Seq(A)
  PROVE  s \in Seq(B)
  BY SeqMonotonic

\* The elements of a queue are of its type.
LEMMA FifoElems ==
  ASSUME NEW A, NEW s \in Seq(A)
  PROVE  Elems(s) \subseteq A /\ Len(s) \in Nat /\ DOMAIN s = 1..Len(s)
  BY LenProperties DEF Elems

\* The empty queue has any type and holds nothing.
LEMMA FifoEmpty ==
  ASSUME NEW A
  PROVE  <<>> \in Seq(A) /\ Len(<<>>) = 0 /\ Elems(<<>>) = {}
  BY EmptySeq DEF Elems

\* Append adds exactly its argument.
LEMMA FifoAppend ==
  ASSUME NEW A, NEW s \in Seq(A), NEW e \in A
  PROVE  /\ Append(s, e) \in Seq(A)
         /\ Len(Append(s, e)) = Len(s) + 1
         /\ Elems(Append(s, e)) = Elems(s) \cup {e}
<1> DEFINE t == Append(s, e)
<1>1. Len(s) \in Nat /\ DOMAIN s = 1..Len(s)
  BY LenProperties
<1>2. t \in Seq(A) /\ Len(t) = Len(s) + 1
  OBVIOUS
<1>3. DOMAIN t = 1..(Len(s) + 1)
  BY <1>2, LenProperties
<1>4. \A i \in 1..Len(s) : t[i] = s[i]
  BY <1>1
<1>5. t[Len(s) + 1] = e
  BY <1>1
<1>6. Elems(s) \cup {e} \subseteq Elems(t)
  BY <1>1, <1>3, <1>4, <1>5 DEF Elems
<1>7. ASSUME NEW i \in 1..(Len(s) + 1) PROVE t[i] \in Elems(s) \cup {e}
  <2>1. CASE i = Len(s) + 1
    BY <1>5, <2>1
  <2>2. CASE i # Len(s) + 1
    <3>1. i \in 1..Len(s)
      BY <1>1, <2>2
    <3>. QED
      BY <1>1, <1>4, <3>1 DEF Elems
  <2>. QED
    BY <2>1, <2>2
<1>8. Elems(t) \subseteq Elems(s) \cup {e}
  BY <1>3, <1>7 DEF Elems
<1>. QED
  BY <1>2, <1>6, <1>8

\* Dropping the first k elements loses exactly them.
LEMMA FifoRest ==
  ASSUME NEW A, NEW s \in Seq(A), NEW k \in 0..Len(s)
  PROVE  /\ SubSeq(s, k + 1, Len(s)) \in Seq(A)
         /\ {s[i] : i \in 1..k} \subseteq A
         /\ Elems(s) = {s[i] : i \in 1..k} \cup Elems(SubSeq(s, k + 1, Len(s)))
<1> DEFINE r == SubSeq(s, k + 1, Len(s))
<1>1. Len(s) \in Nat /\ DOMAIN s = 1..Len(s) /\ \A i \in 1..Len(s) : s[i] \in A
  BY LenProperties
<1>2. \A i \in (k + 1)..Len(s) : s[i] \in A
  BY <1>1
<1>3. /\ r \in Seq(A)
      /\ Len(r) = IF k + 1 <= Len(s) THEN Len(s) - (k + 1) + 1 ELSE 0
      /\ \A i \in 1..(Len(s) - (k + 1) + 1) : r[i] = s[(k + 1) + i - 1]
  BY <1>1, <1>2, SubSeqProperties
<1> HIDE DEF r
<1>4. DOMAIN r = 1..(Len(s) - k) /\ \A i \in 1..(Len(s) - k) : r[i] = s[k + i]
  <2>n. \A n \in Nat : k \in 0..n =>
           /\ n - (k + 1) + 1 = n - k
           /\ (IF k + 1 <= n THEN n - (k + 1) + 1 ELSE 0) = n - k
    OBVIOUS
  <2>1. Len(r) = Len(s) - k /\ Len(s) - (k + 1) + 1 = Len(s) - k
    BY <1>1, <1>3, <2>n
  <2>2. \A i \in 1..(Len(s) - k) : (k + 1) + i - 1 = k + i
    BY <1>1
  <2>. QED
    BY <1>3, <2>1, <2>2, LenProperties
<1>5. ASSUME NEW i \in 1..Len(s), i \notin 1..k PROVE s[i] \in Elems(r)
  <2>1. i - k \in 1..(Len(s) - k) /\ k + (i - k) = i
    BY <1>1, <1>5
  <2>2. r[i - k] = s[i]
    BY <1>4, <2>1
  <2>. QED
    BY <1>4, <2>1, <2>2 DEF Elems
<1>6. Elems(r) \subseteq Elems(s)
  <2>1. \A i \in 1..(Len(s) - k) : k + i \in 1..Len(s)
    BY <1>1
  <2>. QED
    BY <1>1, <1>4, <2>1 DEF Elems
<1>7. {s[i] : i \in 1..k} \subseteq Elems(s) /\ Elems(s) \subseteq A
  BY <1>1 DEF Elems
<1>8. Elems(s) \subseteq {s[i] : i \in 1..k} \cup Elems(r)
  BY <1>1, <1>5 DEF Elems
<1>9. Elems(s) = {s[i] : i \in 1..k} \cup Elems(r) /\ {s[i] : i \in 1..k} \subseteq A
  BY <1>6, <1>7, <1>8
<1>. QED
  BY <1>3, <1>9 DEF r

\* Tail loses exactly the head.
LEMMA FifoTail ==
  ASSUME NEW A, NEW s \in Seq(A), s # <<>>
  PROVE  /\ Head(s) \in A
         /\ Tail(s) \in Seq(A)
         /\ Len(Tail(s)) = Len(s) - 1
         /\ Elems(s) = {Head(s)} \cup Elems(Tail(s))
<1>1. Len(s) \in Nat \ {0}
  BY EmptySeq
<1>2. 1 \in 0..Len(s) /\ {s[i] : i \in 1..1} = {s[1]} /\ 1 + 1 = 2
  BY <1>1
<1>3. Tail(s) = SubSeq(s, 1 + 1, Len(s))
  BY <1>2, TailIsSubSeq
<1>4. Head(s) = s[1]
  BY <1>1
<1>5. Elems(s) = {s[i] : i \in 1..1} \cup Elems(SubSeq(s, 1 + 1, Len(s)))
  BY <1>2, FifoRest
<1>. QED
  BY <1>2, <1>3, <1>4, <1>5, HeadTailProperties
-----------------------------------------------------------------------------
(***************************************************************************)
(* The publisher, the broker and the collector use the spool only through  *)
(* its operations, so what was proved of the spool holds in the whole      *)
(* pipeline.                                                               *)
(***************************************************************************)

\* Every step of the pipeline is a step of the spool or leaves it alone.
LEMMA NextIsSpoolStep == [Next]_vars => [S!Next]_(S!spoolVars)
<1> SUFFICES ASSUME [Next]_vars PROVE [S!Next]_(S!spoolVars)
  OBVIOUS
<1> USE DEF S!spoolVars, S!disk, S!history, S!Next, spool
<1>1. CASE UNCHANGED vars
  BY <1>1 DEF vars
<1>2. ASSUME NEW w \in Writers, Write(w) \/ WriteFails(w) PROVE S!Next
  BY <1>2 DEF Write, WriteFails
<1>3. CASE PeekBatch \/ AckBatch \/ DrainFails \/ SensorRestarts
  BY <1>3 DEF PeekBatch, AckBatch, DrainFails, SensorRestarts
<1>4. CASE Connect \/ PeekNothing \/ Publish \/ FlushOk
  BY <1>4 DEF Connect, PeekNothing, Publish, FlushOk
<1>5. ASSUME NEW c \in Conns, LinkDown(c) \/ LinkUp(c) \/ Route(c)
      PROVE UNCHANGED S!spoolVars
  BY <1>5 DEF LinkDown, LinkUp, Route
<1>6. CASE Handle \/ CollectorStops \/ Subscribe
  BY <1>6 DEF Handle, CollectorStops, Subscribe
<1>. QED
  BY <1>1, <1>2, <1>3, <1>4, <1>5, <1>6 DEF Next, Drain

\* The pipeline implements the spool's own specification: no caller disturbs it.
THEOREM DeliveryImplementsSpool == Spec => S!Spec
<1>1. Init => S!Init
  BY DEF Init
<1>. QED
  BY <1>1, NextIsSpoolStep, PTL DEF Spec, S!Spec

\* The same for the instance that carries the spool's theorems, whose symbols are
\* copies of S's.
LEMMA SpoolSpecHolds == Spec => SP!Spec
<1>1. Init => SP!Init
  BY DEF Init, S!Init, SP!Init
<1>2. [Next]_vars => [SP!Next]_(SP!spoolVars)
  BY NextIsSpoolStep
  DEF S!Next, SP!Next, S!spoolVars, SP!spoolVars, S!disk, SP!disk, S!history, SP!history,
      S!NextSeq, SP!NextSeq, S!Put, SP!Put, S!PutFails, SP!PutFails, S!Peek, SP!Peek,
      S!Ack, SP!Ack, S!Unpeek, SP!Unpeek, S!Reopen, SP!Reopen, S!Grow, SP!Grow,
      S!Overflow, SP!Overflow, S!FirstKeys, SP!FirstKeys, S!InFlight, SP!InFlight,
      S!Cardinality, SP!Cardinality
<1>. QED
  BY <1>1, <1>2, PTL DEF Spec, SP!Spec

\* The pipeline's assumptions on its constants include the spool's.
LEMMA SpoolAssumed == SP!SpoolAssumption
  BY DeliverySpoolAssumption
  DEF S!SpoolAssumption, SP!SpoolAssumption, S!IsFiniteSet, SP!IsFiniteSet

\* In the whole pipeline the spool's state is well typed.
LEMMA SpoolStaysTyped == Spec => []S!TypeOK
<1>1. SP!TypeOK => S!TypeOK
  BY DEF S!TypeOK, SP!TypeOK
<1>2. SP!Spec => []SP!TypeOK
  BY SpoolAssumed, SP!SpoolTyped, PTL
<1>. QED
  BY <1>1, <1>2, SpoolSpecHolds, PTL

\* In the whole pipeline every number the spool handed out has exactly one fate,
\* whatever the publisher, the broker and the collector do.
THEOREM DeliveryAccounted == Spec => []S!Accounted
<1>1. SP!Accounted => S!Accounted
  BY DEF S!Accounted, SP!Accounted, S!ReservedApart, SP!ReservedApart, S!InFlight, SP!InFlight
<1>2. SP!Spec => []SP!Accounted
  BY SpoolAssumed, SP!SpoolAccounted, PTL
<1>. QED
  BY <1>1, <1>2, SpoolSpecHolds, PTL
-----------------------------------------------------------------------------
(***************************************************************************)
(* Type correctness.  The batch under way is emptied exactly when it has   *)
(* all been published, and a drain past connect has a connection: both are *)
(* needed for the types to be inductive.                                   *)
(***************************************************************************)
Control ==
  /\ pc # "publish" => todo = {}
  /\ pc # "idle" => conn # 0

\* Numbers are only ever handed out: seq never goes back.
LEMMA SeqNeverBack ==
  ASSUME S!TypeOK, [S!Next]_(S!spoolVars)
  PROVE  seq \in Nat /\ (seq' = seq \/ seq' = seq + 1)
  BY DeliverySpoolAssumption
  DEF S!SpoolAssumption, S!TypeOK, S!Next, S!spoolVars, S!disk, S!history, S!NextSeq, S!Put,
      S!PutFails, S!Peek, S!Ack, S!Unpeek, S!Reopen

\* The environment's faults stay within their bound.
LEMMA FaultTyped ==
  ASSUME TypeOK, Fault \/ faults' = faults
  PROVE  faults' \in 0..MaxFaults
<1>1. faults \in 0..MaxFaults
  BY DEF TypeOK
<1>. QED
  BY <1>1, DeliveryAssumption DEF Fault

\* What drain publishes has a number, and it publishes on a connection (nats.go:138-151).
LEMMA BatchTyped ==
  ASSUME TypeOK, Control
  PROVE  todo \subseteq 1..seq /\ (pc # "idle" => conn \in Conns)
<1>1. todo \subseteq batch /\ S!TypeOK
  BY DEF TypeOK
<1>2. batch \subseteq 1..seq
  BY <1>1 DEF S!TypeOK
<1>3. conn \in 0..(MaxFaults + 1) /\ (pc # "idle" => conn # 0)
  BY DEF TypeOK, Control
<1>4. pc # "idle" => conn \in 1..(MaxFaults + 1)
  BY <1>3, DeliveryAssumption
<1>. QED
  BY <1>1, <1>2, <1>4 DEF Conns

\* The tracker's entry is a number it was given, and the count only grows
\* (ingest.rs:74-95).
LEMMA VerdictTyped ==
  ASSUME NEW n \in Nat, NEW l \in 0..n, NEW s \in 1..n
  PROVE  Advance(l, s) \in 0..n /\ Missing(l, s) \in Nat
  BY DEF Advance, Missing, Observe

\* A sensor that has just started holds no connection and no batch (nats.go:49-63).
LEMMA InitTyped == Init /\ S!TypeOK => TypeOK /\ Control
<1> SUFFICES ASSUME Init, S!TypeOK PROVE TypeOK /\ Control
  OBVIOUS
<1>1. seq \in Nat
  BY DEF Init, S!Init
<1>2. wire \in [Conns -> Seq(1..seq)] /\ inbox \in Seq(1..seq) /\ Len(inbox) = 0
  BY DEF Init
<1>3. link \in [Conns -> {"new", "up", "down", "dead"}]
  BY DEF Init
<1>. QED
  BY <1>1, <1>2, <1>3, DeliveryAssumption DEF Init, TypeOK, Control

\* Every step keeps the types; a new number only widens them.
LEMMA NextTyped ==
  ASSUME TypeOK, Control, S!TypeOK', [Next]_vars
  PROVE  TypeOK' /\ Control'
<1> USE DeliveryAssumption
<1>n. seq \in Nat /\ (seq' = seq \/ seq' = seq + 1)
  BY NextIsSpoolStep, SeqNeverBack DEF TypeOK
<1>1. CASE UNCHANGED vars
  BY <1>1, <1>n DEF vars, TypeOK, Control, Conns, spool, node, net, collector, ghosts
<1>2. ASSUME NEW w \in Writers, Write(w) PROVE TypeOK' /\ Control'
  <2>1. 1..seq \subseteq 1..seq' /\ 0..seq \subseteq 0..seq'
    BY <1>n
  <2>2. inbox \in Seq(1..seq') /\ wire \in [Conns -> Seq(1..seq')]
    BY <2>1, FifoGrows DEF TypeOK
  <2>3. overtaken' \subseteq 1..seq'
    BY <1>2, <2>1 DEF Write, TypeOK, S!TypeOK, S!Put, S!NextSeq
  <2>4. batch' = batch
    BY <1>2 DEF Write, S!Put, S!NextSeq
  <2>. QED
    BY <1>2, <2>1, <2>2, <2>3, <2>4 DEF Write, TypeOK, Control, node, net, collector
<1>3. ASSUME NEW w \in Writers, WriteFails(w) PROVE TypeOK' /\ Control'
  <2>1. batch' = batch /\ seq' = seq
    BY <1>3 DEF WriteFails, S!PutFails, S!disk
  <2>2. faults' \in 0..MaxFaults
    BY <1>3, FaultTyped DEF WriteFails
  <2>. QED
    BY <1>3, <2>1, <2>2 DEF WriteFails, TypeOK, Control, node, net, collector, ghosts
<1>4. CASE Connect
  <2>1. conn \in 0..(MaxFaults + 1) /\ link \in [Conns -> {"new", "up", "down", "dead"}]
    BY DEF TypeOK
  <2>2. /\ conn' \in 0..(MaxFaults + 1) /\ conn' # 0
        /\ link' \in [Conns -> {"new", "up", "down", "dead"}]
    BY <1>4, <2>1 DEF Connect, Connected, Conns
  <2>3. /\ pc' = "peek" /\ pc = "idle"
        /\ UNCHANGED <<seq, batch, todo, wire, collector, faults, ghosts>>
    BY <1>4 DEF Connect, spool
  <2>. QED
    BY <2>2, <2>3 DEF TypeOK, Control, collector, ghosts
<1>5. CASE PeekBatch
  <2>1. seq' = seq
    BY <1>5 DEF PeekBatch, S!Peek, S!disk
  <2>. QED
    BY <1>5, <2>1 DEF PeekBatch, TypeOK, Control, net, collector, ghosts
<1>6. CASE PeekNothing \/ FlushOk
  BY <1>6 DEF PeekNothing, FlushOk, TypeOK, Control, spool, net, collector, ghosts
<1>7. CASE Publish
  <2>1. PICK s \in todo : /\ wire' = [wire EXCEPT ![conn] = Append(@, s)]
                          /\ todo' = todo \ {s}
    BY <1>7 DEF Publish
  <2>2. s \in 1..seq /\ conn \in Conns
    <3>1. pc = "publish"
      BY <1>7 DEF Publish
    <3>. QED
      BY <2>1, <3>1, BatchTyped
  <2>3. wire' \in [Conns -> Seq(1..seq)]
    BY <2>1, <2>2 DEF TypeOK
  <2>. QED
    BY <1>7, <2>1, <2>3 DEF Publish, TypeOK, Control, spool, collector, ghosts
<1>8. CASE AckBatch
  <2>1. seq' = seq /\ todo = {}
    BY <1>8 DEF AckBatch, S!Ack, Control
  <2>. QED
    BY <1>8, <2>1 DEF AckBatch, TypeOK, Control, net, collector, ghosts
<1>9. CASE DrainFails
  <2>1. seq' = seq
    BY <1>9 DEF DrainFails, S!Unpeek, S!disk
  <2>2. faults' \in 0..MaxFaults
    BY <1>9, FaultTyped DEF DrainFails
  <2>. QED
    BY <1>9, <2>1, <2>2 DEF DrainFails, TypeOK, Control, net, collector, ghosts
<1>10. CASE SensorRestarts
  <2>1. seq' = seq
    BY <1>10 DEF SensorRestarts, S!Reopen, S!disk
  <2>2. PICK keep \in SUBSET {c \in Conns : link[c] \in {"up", "dead"}} :
          /\ wire' = [c \in Conns |-> IF c \in keep THEN wire[c] ELSE <<>>]
          /\ cut' = cut \cup InTransit(Conns \ keep)
    BY <1>10 DEF SensorRestarts
  <2>3. wire' \in [Conns -> Seq(1..seq)]
    BY <2>2, FifoEmpty DEF TypeOK
  <2>4. InTransit(Conns \ keep) \subseteq 1..seq
    <3>1. ASSUME NEW c \in Conns PROVE Elems(wire[c]) \subseteq 1..seq
      BY FifoElems DEF TypeOK
    <3>. QED
      BY <3>1 DEF InTransit, Elems
  <2>5. link' \in [Conns -> {"new", "up", "down", "dead"}]
    BY <1>10 DEF SensorRestarts
  <2>6. /\ pc' = "idle" /\ todo' = {} /\ conn' = 0 /\ faults' \in 0..MaxFaults
        /\ UNCHANGED <<subscribed, inbox, last, missing, stored>>
    BY <1>10, FaultTyped DEF SensorRestarts, collector
  <2>7. \A g \in {received', observed', cut', missed', spilt', misjudged', overtaken'} :
          g \subseteq 1..seq
    <3>1. \A g \in {received, observed, cut, missed, spilt, misjudged, overtaken} : g \subseteq 1..seq
      BY DEF TypeOK
    <3>2. UNCHANGED <<received, observed, missed, spilt, misjudged, overtaken>>
      BY <1>10 DEF SensorRestarts
    <3>. QED
      BY <2>2, <2>4, <3>1, <3>2
  <2>. QED
    BY <2>1, <2>3, <2>5, <2>6, <2>7 DEF TypeOK, Control
<1>11. ASSUME NEW c \in Conns, LinkDown(c) PROVE TypeOK' /\ Control'
  <2>1. PICK k \in 0..Len(wire[c]) :
          /\ cut' = cut \cup {wire[c][i] : i \in 1..k}
          /\ wire' = [wire EXCEPT ![c] = SubSeq(@, k + 1, Len(@))]
    BY <1>11 DEF LinkDown
  <2>2. wire[c] \in Seq(1..seq)
    BY DEF TypeOK
  <2>3. SubSeq(wire[c], k + 1, Len(wire[c])) \in Seq(1..seq) /\ {wire[c][i] : i \in 1..k} \subseteq 1..seq
    BY <2>2, FifoRest
  <2>4. wire' \in [Conns -> Seq(1..seq)]
    BY <2>1, <2>3 DEF TypeOK
  <2>5. cut' \subseteq 1..seq
    BY <2>1, <2>3 DEF TypeOK
  <2>6. link' \in [Conns -> {"new", "up", "down", "dead"}] /\ faults' \in 0..MaxFaults
    BY <1>11, FaultTyped DEF LinkDown, TypeOK
  <2>7. UNCHANGED <<seq, batch, node, conn, collector, received, observed, missed, spilt,
                    misjudged, overtaken>>
    BY <1>11 DEF LinkDown, spool
  <2>8. \A g \in {received', observed', cut', missed', spilt', misjudged', overtaken'} :
          g \subseteq 1..seq
    BY <2>5, <2>7 DEF TypeOK
  <2>. QED
    BY <2>4, <2>6, <2>7, <2>8 DEF TypeOK, Control, node, collector
<1>12. ASSUME NEW c \in Conns, LinkUp(c) PROVE TypeOK' /\ Control'
  BY <1>12 DEF LinkUp, TypeOK, Control, spool, node, collector, ghosts
<1>13. ASSUME NEW c \in Conns, Route(c) PROVE TypeOK' /\ Control'
  <2>1. wire[c] \in Seq(1..seq) /\ wire[c] # <<>>
    BY <1>13 DEF Route, TypeOK
  <2>2. Head(wire[c]) \in 1..seq /\ Tail(wire[c]) \in Seq(1..seq)
    BY <2>1, FifoTail
  <2>3. wire' \in [Conns -> Seq(1..seq)]
    BY <1>13, <2>2 DEF Route, TypeOK
  <2>4. inbox' \in Seq(1..seq) /\ Len(inbox') <= InboxCap
    <3>1. inbox \in Seq(1..seq) /\ Len(inbox) \in Nat /\ Len(inbox) <= InboxCap
      BY FifoElems DEF TypeOK
    <3>2. CASE inbox' = inbox
      BY <3>1, <3>2
    <3>3. CASE Len(inbox) < InboxCap /\ inbox' = Append(inbox, Head(wire[c]))
      <4>1. inbox' \in Seq(1..seq) /\ Len(inbox') = Len(inbox) + 1
        BY <2>2, <3>1, <3>3, FifoAppend
      <4>. QED
        BY <3>1, <3>3, <4>1
    <3>. QED
      BY <1>13, <3>2, <3>3 DEF Route
  <2>5. received' \subseteq 1..seq /\ missed' \subseteq 1..seq
    BY <1>13, <2>2 DEF Route, TypeOK
  <2>6. UNCHANGED <<seq, batch, node, conn, link, subscribed, last, missing, stored, faults,
                    observed, cut, spilt, misjudged, overtaken>>
    BY <1>13 DEF Route, spool
  <2>. QED
    BY <2>3, <2>4, <2>5, <2>6 DEF TypeOK, Control, node
<1>14. CASE Handle
  <2>1. inbox \in Seq(1..seq) /\ inbox # <<>>
    BY <1>14 DEF Handle, TypeOK
  <2>2. Head(inbox) \in 1..seq /\ Tail(inbox) \in Seq(1..seq) /\ Len(Tail(inbox)) <= InboxCap
    <3>1. Len(inbox) \in Nat /\ Len(inbox) <= InboxCap /\ Len(Tail(inbox)) = Len(inbox) - 1
      BY <2>1, FifoElems, FifoTail DEF TypeOK
    <3>2. Head(inbox) \in 1..seq /\ Tail(inbox) \in Seq(1..seq)
      BY <2>1, FifoTail
    <3>3. Len(Tail(inbox)) <= InboxCap
      BY <3>1
    <3>. QED
      BY <3>2, <3>3
  <2>3. last \in 0..seq /\ missing \in Nat
    BY DEF TypeOK
  <2>4. last' \in 0..seq /\ missing' \in Nat
    <3> DEFINE s == Head(inbox)
    <3>1. last' = Advance(last, s) /\ missing' = missing + Missing(last, s)
      BY <1>14 DEF Handle
    <3>2. s \in 1..seq
      BY <2>2
    <3> HIDE DEF s
    <3>3. Advance(last, s) \in 0..seq /\ Missing(last, s) \in Nat
      BY <1>n, <2>3, <3>2, VerdictTyped
    <3>. QED
      BY <2>3, <3>1, <3>3
  <2>5. /\ seq' = seq /\ batch' = batch /\ pc' = pc /\ todo' = todo
        /\ conn' = conn /\ link' = link /\ wire' = wire /\ subscribed' = subscribed
        /\ inbox' = Tail(inbox)
    BY <1>14 DEF Handle, spool, node, net
  <2>6. faults' \in 0..MaxFaults /\ stored' \in SUBSET (1..seq)
    <3>1. stored \subseteq 1..seq
      BY DEF TypeOK
    <3>. QED
      BY <1>14, <2>2, <3>1, FaultTyped DEF Handle
  <2>7. \A g \in {received', observed', cut', missed', spilt', misjudged', overtaken'} :
          g \subseteq 1..seq
    BY <1>14, <2>2 DEF Handle, TypeOK
  <2>. QED
    BY <2>2, <2>4, <2>5, <2>6, <2>7 DEF TypeOK, Control
<1>15. CASE CollectorStops
  <2>1. Queued \subseteq 1..seq /\ <<>> \in Seq(1..seq) /\ Len(<<>>) <= InboxCap
    <3>1. Elems(inbox) \subseteq 1..seq
      BY FifoElems DEF TypeOK
    <3>. QED
      BY <3>1, FifoEmpty DEF Queued, Elems
  <2>2. inbox' \in Seq(1..seq) /\ Len(inbox') <= InboxCap
    BY <1>15, <2>1 DEF CollectorStops
  <2>3. /\ seq' = seq /\ batch' = batch /\ pc' = pc /\ todo' = todo
        /\ conn' = conn /\ link' = link /\ wire' = wire /\ stored' = stored
    BY <1>15 DEF CollectorStops, spool, node, net
  <2>4. last' \in 0..seq /\ missing' \in Nat /\ subscribed' \in BOOLEAN /\ faults' \in 0..MaxFaults
    <3>1. last' = 0 /\ missing' = 0 /\ subscribed' = FALSE /\ Fault
      BY <1>15 DEF CollectorStops
    <3>2. faults' \in 0..MaxFaults
      BY <3>1, FaultTyped
    <3>3. last' \in 0..seq /\ missing' \in Nat
      BY <3>1, <1>n
    <3>. QED
      BY <3>1, <3>2, <3>3
  <2>5. \A g \in {received', observed', cut', missed', spilt', misjudged', overtaken'} :
          g \subseteq 1..seq
    BY <1>15, <2>1 DEF CollectorStops, TypeOK
  <2>. QED
    BY <2>2, <2>3, <2>4, <2>5 DEF TypeOK, Control
<1>16. CASE Subscribe
  BY <1>16 DEF Subscribe, TypeOK, Control, spool, node, net, ghosts
<1>. QED
  BY <1>1, <1>2, <1>3, <1>4, <1>5, <1>6, <1>7, <1>8, <1>9, <1>10, <1>11, <1>12, <1>13,
     <1>14, <1>15, <1>16 DEF Next, Drain

\* The publisher's, the network's and the collector's state is well typed.
THEOREM DeliveryTyped == Spec => []TypeOK
  BY SpoolStaysTyped, InitTyped, NextTyped, PTL DEF Spec

\* Types and control points together, for the proofs below.
LEMMA DeliveryControlled == Spec => [](TypeOK /\ Control)
  BY SpoolStaysTyped, InitTyped, NextTyped, PTL DEF Spec
-----------------------------------------------------------------------------
(***************************************************************************)
(* Flush before ack.  A record of the batch that has been given to Publish *)
(* is on the current connection, or past it; once the flush has succeeded  *)
(* it is past it; so only such records are deleted.  And what is past the  *)
(* connection is stored, queued or lost in a known way.                    *)
(***************************************************************************)
OnWire == Elems(wire[conn])

FlushedFirst ==
  /\ acked \subseteq received \cup cut
  /\ received \subseteq stored \cup Queued \cup missed \cup spilt
  /\ pc = "publish" => batch \ todo \subseteq received \cup cut \cup OnWire
  /\ pc = "flush" => batch \subseteq received \cup cut \cup OnWire
  /\ pc = "ack" => batch \subseteq received \cup cut

\* What flushing first maintains implies that every loss has a cause.
LEMMA FlushedFirstSuffices == FlushedFirst => EveryLossHasACause
  BY DEF FlushedFirst, EveryLossHasACause

\* Nothing has been deleted, published or received at the start.
LEMMA InitFlushedFirst == Init => FlushedFirst
  BY DEF Init, S!Init, FlushedFirst

\* A message given to Publish, or routed to the collector, is in the queue.
LEMMA QueueAppend ==
  ASSUME NEW n, NEW q \in Seq(1..n), NEW e \in 1..n
  PROVE  Elems(Append(q, e)) = Elems(q) \cup {e}
<1> DEFINE A == 1..n
<1>1. q \in Seq(A) /\ e \in A
  OBVIOUS
<1> HIDE DEF A
<1>. QED
  BY <1>1, FifoAppend

\* Every step of drain, of the network and of the collector keeps the batch on the
\* way until the flush has shown that it is past the connection (nats.go:147-166).
LEMMA NextFlushedFirst ==
  ASSUME TypeOK, Control, FlushedFirst, [Next]_vars
  PROVE  FlushedFirst'
<1> USE DEF FlushedFirst
<1>w. ASSUME NEW c \in Conns PROVE wire[c] \in Seq(1..seq)
  BY DEF TypeOK
<1>a. ASSUME NEW q \in Seq(1..seq), NEW e \in 1..seq
      PROVE  Elems(Append(q, e)) = Elems(q) \cup {e}
  BY QueueAppend
<1>1. CASE UNCHANGED vars
  BY <1>1 DEF vars, spool, node, net, collector, ghosts, OnWire, Queued
<1>2. ASSUME NEW w \in Writers, Write(w) \/ WriteFails(w) PROVE FlushedFirst'
  <2>1. UNCHANGED <<batch, acked, node, net, collector, received, cut, missed, spilt>>
    BY <1>2 DEF Write, WriteFails, S!NextSeq, S!Put, S!PutFails, S!history, ghosts
  <2>. QED
    BY <2>1 DEF node, net, collector, OnWire, Queued
<1>3. CASE Connect \/ PeekNothing
  BY <1>3 DEF Connect, PeekNothing, spool, collector, ghosts, Queued
<1>4. CASE PeekBatch
  <2>1. UNCHANGED <<acked, collector, received, cut, missed, spilt>> /\ todo' = batch'
        /\ pc' = "publish"
    BY <1>4 DEF PeekBatch, S!Peek, S!history, ghosts
  <2>. QED
    BY <2>1 DEF collector, Queued
<1>5. CASE Publish
  <2>1. PICK s \in todo : /\ wire' = [wire EXCEPT ![conn] = Append(@, s)]
                          /\ todo' = todo \ {s}
    BY <1>5 DEF Publish
  <2>2. /\ pc = "publish" /\ pc' \in {"publish", "flush"} /\ (pc' = "flush" => todo' = {})
        /\ UNCHANGED <<batch, acked, conn, collector, received, cut, missed, spilt>>
    BY <1>5 DEF Publish, spool, ghosts
  <2>3. s \in 1..seq /\ conn \in Conns
    BY <2>1, <2>2, BatchTyped
  <2>4. wire'[conn] = Append(wire[conn], s)
    BY <2>1, <2>3 DEF TypeOK
  <2>5. OnWire' = OnWire \cup {s}
    <3>1. wire[conn] \in Seq(1..seq)
      BY <1>w, <2>3
    <3>2. Elems(Append(wire[conn], s)) = Elems(wire[conn]) \cup {s}
      BY <1>a, <2>3, <3>1
    <3>. QED
      BY <2>2, <2>4, <3>2 DEF OnWire
  <2>6. batch' \ todo' \subseteq received' \cup cut' \cup OnWire'
    BY <2>1, <2>2, <2>5
  <2>. QED
    BY <2>2, <2>6 DEF collector, Queued
<1>6. CASE FlushOk
  <2>1. pc = "flush" /\ pc' = "ack" /\ wire[conn] = <<>>
        /\ UNCHANGED <<batch, acked, collector, received, cut, missed, spilt>>
    BY <1>6 DEF FlushOk, spool, ghosts
  <2>2. OnWire = {}
    BY <2>1, FifoEmpty DEF OnWire
  <2>. QED
    BY <2>1, <2>2 DEF collector, Queued
<1>7. CASE AckBatch
  <2>1. /\ pc = "ack" /\ pc' \in {"idle", "peek"} /\ acked' = acked \cup (events \cap batch)
        /\ UNCHANGED <<collector, received, cut, missed, spilt>>
    BY <1>7 DEF AckBatch, S!Ack, ghosts
  <2>. QED
    BY <2>1 DEF collector, Queued
<1>8. CASE DrainFails
  <2>1. pc' = "idle" /\ UNCHANGED <<acked, collector, received, cut, missed, spilt>>
    BY <1>8 DEF DrainFails, S!Unpeek, S!history, ghosts
  <2>. QED
    BY <2>1 DEF collector, Queued
<1>9. CASE SensorRestarts
  <2>1. pc' = "idle" /\ cut \subseteq cut'
        /\ UNCHANGED <<acked, collector, received, missed, spilt>>
    BY <1>9 DEF SensorRestarts, S!Reopen
  <2>. QED
    BY <2>1 DEF collector, Queued
<1>10. ASSUME NEW c \in Conns, LinkDown(c) PROVE FlushedFirst'
  <2>1. PICK k \in 0..Len(wire[c]) :
          /\ cut' = cut \cup {wire[c][i] : i \in 1..k}
          /\ wire' = [wire EXCEPT ![c] = SubSeq(@, k + 1, Len(@))]
    BY <1>10 DEF LinkDown
  <2>2. UNCHANGED <<batch, acked, node, conn, collector, received, missed, spilt>>
    BY <1>10 DEF LinkDown, spool
  <2>3. Elems(wire[c]) = {wire[c][i] : i \in 1..k} \cup Elems(SubSeq(wire[c], k + 1, Len(wire[c])))
    BY <1>w, FifoRest
  <2>4. cut \cup OnWire \subseteq cut' \cup OnWire'
    <3>1. CASE c = conn
      <4>1. wire'[conn] = SubSeq(wire[c], k + 1, Len(wire[c]))
        BY <2>1, <3>1 DEF TypeOK
      <4>. QED
        BY <2>1, <2>2, <2>3, <3>1, <4>1 DEF OnWire
    <3>2. CASE c # conn
      <4>1. wire'[conn] = wire[conn]
        BY <2>1, <3>2 DEF TypeOK
      <4>. QED
        BY <2>1, <2>2, <4>1 DEF OnWire
    <3>. QED
      BY <3>1, <3>2
  <2>5. cut \subseteq cut'
    BY <2>1
  <2>. QED
    BY <2>2, <2>4, <2>5 DEF node, collector, Queued
<1>11. ASSUME NEW c \in Conns, LinkUp(c) PROVE FlushedFirst'
  BY <1>11 DEF LinkUp, spool, node, collector, ghosts, OnWire, Queued
<1>12. ASSUME NEW c \in Conns, Route(c) PROVE FlushedFirst'
  <2>1. /\ wire[c] # <<>> /\ wire' = [wire EXCEPT ![c] = Tail(@)]
        /\ received' = received \cup {Head(wire[c])}
        /\ UNCHANGED <<batch, acked, node, conn, cut, stored, spilt>>
    BY <1>12 DEF Route, spool
  <2>2. Elems(wire[c]) = {Head(wire[c])} \cup Elems(Tail(wire[c])) /\ Head(wire[c]) \in 1..seq
    BY <1>w, <2>1, FifoTail
  <2>3. received \cup OnWire \subseteq received' \cup OnWire'
    <3>1. CASE c = conn
      <4>1. wire'[conn] = Tail(wire[c])
        BY <2>1, <3>1 DEF TypeOK
      <4>. QED
        BY <2>1, <2>2, <3>1, <4>1 DEF OnWire
    <3>2. CASE c # conn
      <4>1. wire'[conn] = wire[conn]
        BY <2>1, <3>2 DEF TypeOK
      <4>. QED
        BY <2>1, <4>1 DEF OnWire
    <3>. QED
      BY <3>1, <3>2
  <2>4. Queued \cup missed \cup {Head(wire[c])} \subseteq Queued' \cup missed'
    <3>1. CASE inbox' = Append(inbox, Head(wire[c])) /\ missed' = missed
      <4>1. inbox \in Seq(1..seq)
        BY DEF TypeOK
      <4>2. Elems(inbox') = Elems(inbox) \cup {Head(wire[c])}
        <5>1. Elems(Append(inbox, Head(wire[c]))) = Elems(inbox) \cup {Head(wire[c])}
          BY <1>a, <2>2, <4>1
        <5>. QED
          BY <3>1, <5>1
      <4>. QED
        BY <3>1, <4>2 DEF Elems, Queued
    <3>2. CASE inbox' = inbox /\ missed' = missed \cup {Head(wire[c])}
      BY <3>2 DEF Queued
    <3>. QED
      BY <1>12, <3>1, <3>2 DEF Route
  <2>5. received' \subseteq stored' \cup Queued' \cup missed' \cup spilt'
    BY <2>1, <2>4
  <2>. QED
    BY <2>1, <2>3, <2>5 DEF node
<1>13. CASE Handle
  <2>1. inbox \in Seq(1..seq) /\ inbox # <<>> /\ inbox' = Tail(inbox)
    BY <1>13 DEF Handle, TypeOK
  <2>2. UNCHANGED <<batch, acked, node, net, received, cut, missed>>
    BY <1>13 DEF Handle, spool
  <2>3. stored \cup spilt \cup {Head(inbox)} \subseteq stored' \cup spilt'
    BY <1>13 DEF Handle
  <2>4. Elems(inbox) = {Head(inbox)} \cup Elems(inbox')
    BY <2>1, FifoTail
  <2>5. Queued \subseteq Queued' \cup {Head(inbox)}
    BY <2>4 DEF Queued, Elems
  <2>6. received' \subseteq stored' \cup Queued' \cup missed' \cup spilt'
    BY <2>2, <2>3, <2>5
  <2>. QED
    BY <2>2, <2>6 DEF node, net, OnWire
<1>14. CASE CollectorStops
  <2>1. /\ spilt' = spilt \cup Queued
        /\ UNCHANGED <<batch, acked, node, net, stored, received, cut, missed>>
    BY <1>14 DEF CollectorStops, spool
  <2>. QED
    BY <2>1 DEF node, net, OnWire
<1>15. CASE Subscribe
  BY <1>15 DEF Subscribe, spool, node, net, ghosts, OnWire, Queued
<1>. QED
  BY <1>1, <1>2, <1>3, <1>4, <1>5, <1>6, <1>7, <1>8, <1>9, <1>10, <1>11, <1>12, <1>13,
     <1>14, <1>15 DEF Next, Drain

\* nats.go:153 "Flush before acking": for any number of writers, connections and
\* faults, a record deleted from the spool was lost only in one of the known ways.
THEOREM DeliveryLosesNothingSilently == Spec => []EveryLossHasACause
  BY DeliveryControlled, InitFlushedFirst, NextFlushedFirst, FlushedFirstSuffices, PTL
  DEF Spec
-----------------------------------------------------------------------------
(***************************************************************************)
(* The verdicts of the sequence tracker while nothing fails.  Records move *)
(* through the pipeline in one file: pending, batch, connection, inbox,    *)
(* tracker.  One that is overtaken in it by a higher number was overtaken  *)
(* before it was stored in the spool.                                      *)
(***************************************************************************)

\* Everything in A goes before everything in B; a number that is passed by a higher
\* one is in O.
Ahead(A, B, O) == \A a \in A, b \in B : a > b => b \in O
Sorted(q, O) == \A i, j \in DOMAIN q : i < j /\ q[i] > q[j] => q[j] \in O

Sent == observed \cup Queued \cup InTransit(Conns)

OneFile ==
  /\ Sent \cup batch \subseteq events \cup acked \cup evicted
  /\ conn # 0 => link[conn] = "up"
  /\ \A c \in Conns : c # conn => wire[c] = <<>>
  /\ Sorted(inbox, overtaken) /\ \A c \in Conns : Sorted(wire[c], overtaken)
  /\ Ahead(observed, Queued, overtaken)
  /\ Ahead(observed \cup Queued, InTransit(Conns), overtaken)
  /\ Ahead(Sent, todo, overtaken)
  /\ Ahead(Sent \cup batch, events \ batch, overtaken)

NothingLost == cut = {} /\ spilt = {} /\ abandoned = {} /\ observed = stored

\* The tracker's entry is the highest number it was given.
TrackerTrue ==
  /\ (last = 0) = (observed = {})
  /\ last # 0 => last \in observed
  /\ \A s \in observed : s <= last

GapsCounted == misjudged \subseteq overtaken /\ (overtaken = {} => missing = Cardinality(Skipped))

\* drain holds a batch only while it publishes it.
BatchHeld == pc \in {"idle", "peek"} => batch = {}

Calm == /\ BatchHeld /\ TrackerTrue
        /\ faults = 0 => OneFile /\ NothingLost /\ GapsCounted

\* A queue stays sorted when the last of the file joins it.
LEMMA SortedAppend ==
  ASSUME NEW n \in Nat, NEW q \in Seq(1..n), NEW e \in 1..n, NEW O,
         Sorted(q, O), Ahead(Elems(q), {e}, O)
  PROVE  Sorted(Append(q, e), O)
<1> DEFINE t == Append(q, e)
<1>1. /\ Len(q) \in Nat /\ DOMAIN q = 1..Len(q) /\ DOMAIN t = 1..(Len(q) + 1)
      /\ t[Len(q) + 1] = e /\ \A i \in 1..Len(q) : t[i] = q[i]
  OBVIOUS
<1> HIDE DEF t
<1>2. ASSUME NEW i \in DOMAIN t, NEW j \in DOMAIN t, i < j, t[i] > t[j] PROVE t[j] \in O
  <2>1. i \in 1..Len(q) /\ t[i] = q[i]
    BY <1>1, <1>2
  <2>2. CASE j \in 1..Len(q)
    BY <1>1, <1>2, <2>1, <2>2 DEF Sorted
  <2>3. CASE j = Len(q) + 1
    BY <1>1, <1>2, <2>1, <2>3 DEF Ahead, Elems
  <2>. QED
    BY <1>1, <2>2, <2>3
<1>. QED
  BY <1>2 DEF Sorted, t

\* What is left of a sorted queue is sorted, and the head goes before it.
LEMMA SortedTail ==
  ASSUME NEW n \in Nat, NEW q \in Seq(1..n), q # <<>>, NEW O, Sorted(q, O)
  PROVE  Sorted(Tail(q), O) /\ Ahead({Head(q)}, Elems(Tail(q)), O)
<1> DEFINE t == Tail(q)
<1>1. /\ Len(q) \in Nat \ {0} /\ DOMAIN q = 1..Len(q) /\ DOMAIN t = 1..(Len(q) - 1)
      /\ Head(q) = q[1] /\ \A i \in 1..(Len(q) - 1) : t[i] = q[i + 1]
  BY EmptySeq
<1> HIDE DEF t
<1>2. \A i \in DOMAIN t : i \in Int /\ i + 1 \in DOMAIN q /\ 1 < i + 1 /\ t[i] = q[i + 1]
  BY <1>1
<1>3. Sorted(t, O)
  <2> SUFFICES ASSUME NEW i \in DOMAIN t, NEW j \in DOMAIN t, i < j, t[i] > t[j]
               PROVE  t[j] \in O
    BY DEF Sorted
  <2>1. i + 1 < j + 1
    BY <1>2
  <2>. QED
    BY <1>2, <2>1 DEF Sorted
<1>4. Ahead({Head(q)}, Elems(t), O)
  <2> SUFFICES ASSUME NEW i \in DOMAIN t, Head(q) > t[i] PROVE t[i] \in O
    BY DEF Ahead, Elems
  <2>1. 1 \in DOMAIN q
    BY <1>1
  <2>. QED
    BY <1>1, <1>2, <2>1 DEF Sorted
<1>. QED
  BY <1>3, <1>4 DEF t

\* What is in transit, connection by connection; with one connection in use it is
\* what that one holds.
LEMMA TransitElems ==
  /\ InTransit(Conns) = UNION {Elems(wire[c]) : c \in Conns}
  /\ Queued = Elems(inbox)
  BY DEF InTransit, Queued, Elems

\* A session goroutine's two transactions: a record that is stored behind a higher one
\* is marked as overtaken (spool.go Append).
LEMMA CalmWrite ==
  ASSUME TypeOK, Control, Calm, NEW w \in Writers, Write(w)
  PROVE  Calm'
<1>1. UNCHANGED <<batch, acked, node, net, collector, faults, received, observed, cut, missed,
                  spilt, misjudged, abandoned>>
  BY DEF Write, S!NextSeq, S!Put, S!history
<1>2. Sent' = Sent /\ Queued' = Queued /\ InTransit(Conns)' = InTransit(Conns) /\ Skipped' = Skipped
  BY <1>1 DEF Sent, Queued, InTransit, Skipped, net, collector, Conns
<1>3. BatchHeld' /\ TrackerTrue'
  BY <1>1 DEF Calm, BatchHeld, TrackerTrue, node, collector
<1>4. ASSUME faults' = 0 PROVE OneFile' /\ NothingLost' /\ GapsCounted'
  <2>0. OneFile /\ NothingLost /\ GapsCounted
    BY <1>1, <1>4 DEF Calm
  <2>1. overtaken \subseteq overtaken'
    BY DEF Write
  <2>2. NothingLost' /\ GapsCounted'
    BY <1>1, <1>2, <2>0, <2>1 DEF NothingLost, GapsCounted, collector
  <2>3. /\ events \cup acked \cup evicted \subseteq events' \cup acked' \cup evicted'
        /\ Ahead(Sent \cup batch, events' \ batch, overtaken')
    <3>1. CASE S!NextSeq(w) /\ UNCHANGED overtaken
      <4>1. events' = events /\ evicted' = evicted
        BY <3>1 DEF S!NextSeq, S!history
      <4>. QED
        BY <1>1, <2>0, <3>1, <4>1 DEF OneFile
    <3>2. CASE S!Put(w)
      <4>1. /\ events' \subseteq events \cup {reserved[w]}
            /\ events \subseteq events' \cup evicted' /\ evicted \subseteq evicted'
        BY <3>2 DEF S!Put, S!Overflow
      <4>2. (\E s \in events \cup acked \cup evicted : s > reserved[w])
              => reserved[w] \in overtaken'
        <5>1. reserved[w] # 0
          BY <3>2 DEF S!Put
        <5>2. ~S!NextSeq(w)
          BY <5>1 DEF S!NextSeq
        <5>. QED
          BY <5>2 DEF Write
      <4>3. ASSUME NEW a \in Sent \cup batch, NEW b \in events' \ batch, a > b
            PROVE  b \in overtaken'
        <5>1. CASE b \in events
          BY <2>0, <2>1, <4>3, <5>1 DEF OneFile, Ahead
        <5>2. CASE b = reserved[w]
          BY <2>0, <4>2, <4>3, <5>2 DEF OneFile
        <5>. QED
          BY <4>1, <5>1, <5>2
      <4>4. Ahead(Sent \cup batch, events' \ batch, overtaken')
        BY <4>3 DEF Ahead
      <4>. QED
        BY <1>1, <4>1, <4>4
    <3>. QED
      BY <3>1, <3>2 DEF Write
  <2>4. /\ Sorted(inbox, overtaken') /\ \A c \in Conns : Sorted(wire[c], overtaken')
        /\ Ahead(observed, Queued, overtaken')
        /\ Ahead(observed \cup Queued, InTransit(Conns), overtaken')
        /\ Ahead(Sent, todo, overtaken')
    BY <2>0, <2>1 DEF OneFile, Ahead, Sorted
  <2>5. inbox' = inbox /\ wire' = wire /\ link' = link /\ conn' = conn /\ todo' = todo
        /\ batch' = batch /\ observed' = observed
    BY <1>1 DEF node, net, collector
  <2>6. OneFile'
    BY <1>2, <2>0, <2>3, <2>4, <2>5 DEF OneFile, Conns
  <2>. QED
    BY <2>2, <2>6
<1>. QED
  BY <1>3, <1>4 DEF Calm

\* A failure ends the claim; the batch and the tracker's entry stay consistent
\* (nats.go:147-166, ingest.rs:193-214).
LEMMA CalmFault ==
  ASSUME TypeOK, Control, Calm, Fault, BatchHeld', TrackerTrue'
  PROVE  Calm'
<1>1. faults' # 0
  BY DeliveryAssumption DEF TypeOK, Fault
<1>. QED
  BY <1>1 DEF Calm

\* Steps that move no record: waking up, an empty spool, a flush that returns, a link
\* that is restored, a subscription that is renewed.
LEMMA CalmStill ==
  ASSUME TypeOK, Control, Calm,
         UNCHANGED <<spool, todo, wire, inbox, last, missing, stored, faults, ghosts>>,
         BatchHeld', (faults = 0 /\ OneFile) => OneFile'
  PROVE  Calm'
<1>1. Skipped' = Skipped
  BY DEF Skipped, ghosts
<1>. QED
  BY <1>1 DEF Calm, TrackerTrue, NothingLost, GapsCounted, spool, ghosts

\* connect reuses a connection that is up; while nothing fails there is never another
\* (nats.go:74-107).
LEMMA CalmConnect == ASSUME TypeOK, Control, Calm, Connect PROVE Calm'
<1>1. /\ UNCHANGED <<spool, todo, wire, inbox, last, missing, stored, faults, ghosts>>
      /\ pc = "idle" /\ pc' = "peek"
  BY DEF Connect, collector
<1>2. BatchHeld'
  BY <1>1 DEF Calm, BatchHeld, spool
<1>3. ASSUME OneFile PROVE OneFile'
  <2>1. Sent' = Sent /\ Queued' = Queued /\ InTransit(Conns)' = InTransit(Conns)
    BY <1>1 DEF Sent, Queued, InTransit, ghosts, Conns
  <2>2. (conn' # 0 => link'[conn'] = "up") /\ \A c \in Conns : c # conn' => wire[c] = <<>>
    <3>1. CASE Connected
      BY <1>3, <3>1 DEF Connect, OneFile
    <3>2. CASE ~Connected
      <4>1. conn = 0
        BY <1>3, <3>2 DEF OneFile, Connected
      <4>2. \A c \in Conns : c # 0
        BY DeliveryAssumption DEF Conns
      <4>3. PICK c \in Conns : conn' = c /\ link' = [link EXCEPT ![c] = "up"]
        BY <3>2 DEF Connect
      <4>4. link'[conn'] = "up"
        BY <4>3 DEF TypeOK
      <4>. QED
        BY <1>3, <4>1, <4>2, <4>4 DEF OneFile
    <3>. QED
      BY <3>1, <3>2
  <2>3. /\ events' = events /\ batch' = batch /\ acked' = acked /\ evicted' = evicted
        /\ todo' = todo /\ wire' = wire /\ inbox' = inbox /\ overtaken' = overtaken
        /\ observed' = observed
    BY <1>1 DEF spool, ghosts
  <2>. QED
    BY <1>3, <2>1, <2>2, <2>3 DEF OneFile, Conns
<1>. QED
  BY <1>1, <1>2, <1>3, CalmStill

\* The other steps that move no record.
LEMMA CalmElsewhere ==
  ASSUME TypeOK, Control, Calm,
         PeekNothing \/ FlushOk \/ Subscribe \/ (\E c \in Conns : LinkUp(c)) \/ UNCHANGED vars
  PROVE  Calm'
<1>1. /\ UNCHANGED <<spool, todo, wire, inbox, last, missing, stored, faults, ghosts>>
      /\ conn' = conn
  BY DEF PeekNothing, FlushOk, Subscribe, LinkUp, vars, net, node, collector
<1>2. BatchHeld'
  BY <1>1 DEF Calm, BatchHeld, PeekNothing, FlushOk, Subscribe, LinkUp, vars, node, spool
<1>3. ASSUME OneFile PROVE OneFile'
  <2>1. Sent' = Sent /\ Queued' = Queued /\ InTransit(Conns)' = InTransit(Conns)
    BY <1>1 DEF Sent, Queued, InTransit, ghosts, Conns
  <2>2. conn' # 0 => link'[conn'] = "up"
    <3>1. CASE \E c \in Conns : LinkUp(c)
      <4>1. PICK c \in Conns : link' = [link EXCEPT ![c] = "up"]
        BY <3>1 DEF LinkUp
      <4>2. conn # 0 => conn \in Conns
        BY DeliveryAssumption DEF TypeOK, Conns
      <4>. QED
        BY <1>1, <1>3, <4>1, <4>2 DEF OneFile, TypeOK
    <3>2. CASE link' = link
      BY <1>1, <1>3, <3>2 DEF OneFile
    <3>. QED
      BY <3>1, <3>2 DEF PeekNothing, FlushOk, Subscribe, vars, net
  <2>3. /\ events' = events /\ batch' = batch /\ acked' = acked /\ evicted' = evicted
        /\ todo' = todo /\ wire' = wire /\ inbox' = inbox /\ overtaken' = overtaken
        /\ observed' = observed
    BY <1>1 DEF spool, ghosts
  <2>. QED
    BY <1>1, <1>3, <2>1, <2>2, <2>3 DEF OneFile, Conns
<1>. QED
  BY <1>1, <1>2, <1>3, CalmStill

\* Peek takes the lowest keys, so the batch goes before what stays in the bucket
\* (spool.go:144-157).
LEMMA CalmPeekBatch == ASSUME TypeOK, Control, Calm, PeekBatch PROVE Calm'
<1>1. /\ UNCHANGED <<events, acked, evicted, abandoned, net, collector, faults, ghosts>>
      /\ batch = {} /\ todo' = batch' /\ pc' = "publish"
      /\ batch' = S!FirstKeys(events, BatchSize)
  BY DEF PeekBatch, S!Peek, S!disk, S!history
<1>2. Sent' = Sent /\ Queued' = Queued /\ InTransit(Conns)' = InTransit(Conns) /\ Skipped' = Skipped
  BY <1>1 DEF Sent, Queued, InTransit, Skipped, net, collector, Conns, ghosts
<1>3. BatchHeld' /\ TrackerTrue'
  BY <1>1 DEF Calm, BatchHeld, TrackerTrue, collector, ghosts
<1>4. batch' \subseteq events /\ \A b \in batch', p \in events : p < b => p \in batch'
  <2>1. SP!TypeOK
    BY DEF TypeOK, S!TypeOK, SP!TypeOK
  <2>2. batch' = SP!FirstKeys(events, BatchSize)
    BY <1>1 DEF S!FirstKeys, SP!FirstKeys, S!Cardinality, SP!Cardinality
  <2>3. batch' \subseteq events
    BY <2>2 DEF SP!FirstKeys
  <2>. QED
    BY <2>1, <2>2, <2>3, SpoolAssumed, SP!FirstKeysDownward
<1>5. ASSUME faults' = 0 PROVE OneFile' /\ NothingLost' /\ GapsCounted'
  <2>1. OneFile /\ NothingLost /\ GapsCounted
    BY <1>1, <1>5 DEF Calm
  <2>2. Ahead(Sent, batch', overtaken)
    BY <1>1, <1>4, <2>1 DEF OneFile, Ahead
  <2>3. Ahead(Sent \cup batch', events \ batch', overtaken)
    <3>1. \A a \in batch', b \in events \ batch' : ~(a > b)
      <4>1. \A a \in events : a \in Int
        BY DEF TypeOK, S!TypeOK
      <4>. QED
        BY <1>4, <4>1
    <3>. QED
      BY <1>1, <2>1, <3>1 DEF OneFile, Ahead
  <2>4. Sent \cup batch' \subseteq events \cup acked \cup evicted
    BY <1>4, <2>1 DEF OneFile
  <2>5. OneFile'
    BY <1>1, <1>2, <2>1, <2>2, <2>3, <2>4 DEF OneFile, Conns, net, collector, ghosts
  <2>. QED
    BY <1>1, <1>2, <2>1, <2>5 DEF NothingLost, GapsCounted, collector, ghosts
<1>. QED
  BY <1>3, <1>5 DEF Calm

\* Ack removes the batch, which is no longer waited for.
LEMMA CalmAckBatch == ASSUME TypeOK, Control, Calm, AckBatch PROVE Calm'
<1>1. /\ UNCHANGED <<evicted, abandoned, todo, net, collector, faults, ghosts>>
      /\ batch' = {} /\ events' = events \ batch /\ acked' = acked \cup (events \cap batch)
  BY DEF AckBatch, S!Ack
<1>2. Sent' = Sent /\ Queued' = Queued /\ InTransit(Conns)' = InTransit(Conns) /\ Skipped' = Skipped
  BY <1>1 DEF Sent, Queued, InTransit, Skipped, net, collector, Conns, ghosts
<1>3. BatchHeld' /\ TrackerTrue'
  BY <1>1 DEF Calm, BatchHeld, TrackerTrue, collector, ghosts
<1>4. ASSUME faults' = 0 PROVE OneFile' /\ NothingLost' /\ GapsCounted'
  <2>1. OneFile /\ NothingLost /\ GapsCounted
    BY <1>1, <1>4 DEF Calm
  <2>2. events' \ batch' = events \ batch
        /\ events' \cup acked' \cup evicted' = events \cup acked \cup evicted
    BY <1>1
  <2>3. Ahead(Sent \cup batch', events' \ batch', overtaken)
    BY <1>1, <2>1, <2>2 DEF OneFile, Ahead
  <2>4. Sent \cup batch' \subseteq events' \cup acked' \cup evicted'
    BY <1>1, <2>1, <2>2 DEF OneFile
  <2>5. OneFile'
    BY <1>1, <1>2, <2>1, <2>3, <2>4 DEF OneFile, Conns, net, collector, ghosts
  <2>. QED
    BY <1>1, <1>2, <2>1, <2>5 DEF NothingLost, GapsCounted, collector, ghosts
<1>. QED
  BY <1>3, <1>4 DEF Calm

\* While one connection is in use, what is in transit is what that one holds.
LEMMA OneConnection ==
  ASSUME NEW c \in Conns, \A d \in Conns : d # c => wire[d] = <<>>
  PROVE  InTransit(Conns) = Elems(wire[c])
<1>1. \A d \in Conns : d # c => Elems(wire[d]) = {}
  BY FifoEmpty
<1>. QED
  BY <1>1, TransitElems

\* Publish takes the lowest record of the batch that is left (nats.go:147-151).
LEMMA CalmPublish == ASSUME TypeOK, Control, Calm, Publish PROVE Calm'
<1>1. PICK s \in todo : /\ \A t \in todo : s <= t
                        /\ wire' = [wire EXCEPT ![conn] = Append(@, s)]
                        /\ todo' = todo \ {s}
  BY DEF Publish
<1>2. /\ pc = "publish" /\ pc' \in {"publish", "flush"}
      /\ UNCHANGED <<spool, conn, link, collector, faults, ghosts>>
  BY DEF Publish
<1>3. s \in 1..seq /\ conn \in Conns /\ todo \subseteq 1..seq /\ seq \in Nat
  <2>1. seq \in Nat
    BY DEF TypeOK, S!TypeOK
  <2>. QED
    BY <1>1, <1>2, <2>1, BatchTyped
<1>4. BatchHeld' /\ TrackerTrue'
  BY <1>2 DEF Calm, BatchHeld, TrackerTrue, collector, ghosts
<1>5. ASSUME faults' = 0 PROVE OneFile' /\ NothingLost' /\ GapsCounted'
  <2>1. OneFile /\ NothingLost /\ GapsCounted
    BY <1>2, <1>5 DEF Calm
  <2>2. wire[conn] \in Seq(1..seq) /\ wire'[conn] = Append(wire[conn], s)
        /\ \A d \in Conns : d # conn => wire'[d] = wire[d]
    BY <1>1, <1>3 DEF TypeOK
  <2>3. \A d \in Conns : d # conn => wire[d] = <<>> /\ wire'[d] = <<>>
    BY <2>1, <2>2 DEF OneFile
  <2>4. InTransit(Conns) = Elems(wire[conn])
    BY <1>3, <2>3, OneConnection
  <2>5. InTransit(Conns)' = Elems(wire'[conn])
    <3>1. \A d \in Conns : d # conn => Elems(wire'[d]) = {}
      BY <2>3, FifoEmpty
    <3>2. InTransit(Conns)' = UNION {Elems(wire'[d]) : d \in Conns}
      BY DEF InTransit, Elems, Conns
    <3>. QED
      BY <1>3, <3>1, <3>2
  <2>6. Elems(wire'[conn]) = Elems(wire[conn]) \cup {s}
    <3>1. Elems(Append(wire[conn], s)) = Elems(wire[conn]) \cup {s}
      BY <1>3, <2>2, QueueAppend
    <3>. QED
      BY <2>2, <3>1
  <2>7. InTransit(Conns)' = InTransit(Conns) \cup {s}
    BY <2>4, <2>5, <2>6
  <2>8. Queued' = Queued /\ Sent' = Sent \cup {s}
    BY <1>2, <2>7 DEF Queued, Sent, collector, ghosts
  <2>9. /\ Ahead(observed \cup Queued, InTransit(Conns) \cup {s}, overtaken)
        /\ Ahead(InTransit(Conns), {s}, overtaken)
    BY <1>1, <2>1 DEF OneFile, Ahead, Sent
  <2>10. Ahead(Sent \cup {s}, todo \ {s}, overtaken)
    <3>1. \A t \in todo : ~(s > t)
      BY <1>1, <1>3
    <3>. QED
      BY <2>1, <3>1 DEF OneFile, Ahead
  <2>11. s \in batch
    BY <1>1 DEF TypeOK
  <2>12. \A d \in Conns : Sorted(wire'[d], overtaken)
    <3>1. Sorted(Append(wire[conn], s), overtaken)
      <4>1. Sorted(wire[conn], overtaken)
        BY <1>3, <2>1 DEF OneFile
      <4>2. Ahead(Elems(wire[conn]), {s}, overtaken)
        BY <2>4, <2>9
      <4>. QED
        BY <1>3, <2>2, <4>1, <4>2, SortedAppend
    <3>. QED
      BY <2>1, <2>2, <3>1 DEF OneFile
  <2>13. /\ events' = events /\ batch' = batch /\ acked' = acked /\ evicted' = evicted
         /\ abandoned' = abandoned /\ inbox' = inbox /\ last' = last /\ stored' = stored
         /\ missing' = missing /\ conn' = conn /\ link' = link /\ Conns' = Conns
         /\ UNCHANGED <<observed, overtaken, misjudged, cut, spilt>>
    BY <1>2 DEF spool, collector, ghosts, Conns
  <2>14. Ahead(Sent' \cup batch, events \ batch, overtaken)
         /\ Sent' \cup batch \subseteq events \cup acked \cup evicted
    BY <2>1, <2>8, <2>11 DEF OneFile, Ahead
  <2>15. OneFile'
    BY <1>1, <2>1, <2>3, <2>7, <2>8, <2>9, <2>10, <2>12, <2>13, <2>14 DEF OneFile
  <2>16. Skipped' = Skipped
    BY <2>13 DEF Skipped
  <2>. QED
    BY <2>1, <2>13, <2>15, <2>16 DEF NothingLost, GapsCounted
<1>. QED
  BY <1>4, <1>5 DEF Calm

\* The broker passes the head of the connection on, or drops it: the file is kept.
LEMMA CalmRoute == ASSUME TypeOK, Control, Calm, NEW c \in Conns, Route(c) PROVE Calm'
<1> DEFINE h == Head(wire[c])
<1>1. /\ wire[c] # <<>> /\ wire' = [wire EXCEPT ![c] = Tail(@)]
      /\ UNCHANGED <<spool, node, conn, link, last, missing, stored, faults, observed, cut, spilt,
                     misjudged, overtaken>>
      /\ inbox' = Append(inbox, h) \/ inbox' = inbox
  BY DEF Route
<1>2. wire[c] \in Seq(1..seq) /\ inbox \in Seq(1..seq) /\ seq \in Nat
  BY DEF TypeOK, S!TypeOK
<1>3. h \in 1..seq /\ Elems(wire[c]) = {h} \cup Elems(Tail(wire[c]))
  BY <1>1, <1>2, FifoTail
<1>4. \/ inbox' = inbox /\ Queued' = Queued
      \/ inbox' = Append(inbox, h) /\ Queued' = Queued \cup {h}
  <2>1. Elems(Append(inbox, h)) = Elems(inbox) \cup {h}
    BY <1>2, <1>3, QueueAppend
  <2>2. Queued = Elems(inbox) /\ Queued' = Elems(inbox')
    BY DEF Queued, Elems
  <2>3. CASE inbox' = inbox
    <3>1. Queued' = Queued
      BY <2>3 DEF Queued
    <3>. QED
      BY <2>3, <3>1
  <2>4. CASE inbox' = Append(inbox, h)
    BY <2>1, <2>2, <2>4
  <2>. QED
    BY <1>1, <2>3, <2>4
<1> HIDE DEF h
<1>5. BatchHeld' /\ TrackerTrue'
  BY <1>1 DEF Calm, BatchHeld, TrackerTrue, node, spool
<1>6. ASSUME faults' = 0 PROVE OneFile' /\ NothingLost' /\ GapsCounted'
  <2>1. OneFile /\ NothingLost /\ GapsCounted
    BY <1>1, <1>6 DEF Calm
  <2>2. wire'[c] = Tail(wire[c]) /\ \A d \in Conns : d # c => wire'[d] = wire[d]
    BY <1>1 DEF TypeOK
  <2>3. conn = c /\ \A d \in Conns : d # c => wire[d] = <<>> /\ wire'[d] = <<>>
    BY <1>1, <2>1, <2>2 DEF OneFile
  <2>4. InTransit(Conns) = Elems(wire[c])
    BY <2>3, OneConnection
  <2>5. InTransit(Conns)' = Elems(wire'[c])
    <3>1. \A d \in Conns : d # c => Elems(wire'[d]) = {}
      BY <2>3, FifoEmpty
    <3>2. InTransit(Conns)' = UNION {Elems(wire'[d]) : d \in Conns}
      BY DEF InTransit, Elems, Conns
    <3>. QED
      BY <3>1, <3>2
  <2>6. InTransit(Conns) = {h} \cup InTransit(Conns)'
    BY <1>3, <2>2, <2>4, <2>5
  <2>7. Sorted(wire[c], overtaken) /\ Sorted(inbox, overtaken)
    BY <2>1 DEF OneFile
  <2>8. Sorted(Tail(wire[c]), overtaken) /\ Ahead({h}, Elems(Tail(wire[c])), overtaken)
    BY <1>1, <1>2, <2>7, SortedTail DEF h
  <2>9. \A d \in Conns : Sorted(wire'[d], overtaken)
    BY <2>1, <2>2, <2>8 DEF OneFile
  <2>10. Ahead(observed \cup Queued', InTransit(Conns)', overtaken)
    <3>1. Ahead(observed \cup Queued, InTransit(Conns), overtaken)
      BY <2>1 DEF OneFile
    <3>2. Ahead({h}, InTransit(Conns)', overtaken)
      BY <2>2, <2>5, <2>8
    <3>. QED
      BY <1>4, <2>6, <3>1, <3>2 DEF Ahead
  <2>11. Ahead(observed \cup Queued, {h}, overtaken)
    BY <2>1, <2>6 DEF OneFile, Ahead
  <2>12. Ahead(observed, Queued', overtaken)
    BY <1>4, <2>1, <2>11 DEF OneFile, Ahead
  <2>13. Sorted(inbox', overtaken)
    <3>1. Ahead(Elems(inbox), {h}, overtaken)
      BY <2>11, TransitElems DEF Ahead
    <3>2. Sorted(Append(inbox, h), overtaken)
      BY <1>2, <1>3, <2>7, <3>1, SortedAppend
    <3>. QED
      BY <1>4, <2>7, <3>2
  <2>14. /\ events' = events /\ batch' = batch /\ acked' = acked /\ evicted' = evicted
         /\ abandoned' = abandoned /\ last' = last /\ stored' = stored /\ todo' = todo
         /\ missing' = missing /\ conn' = conn /\ link' = link /\ Conns' = Conns
         /\ UNCHANGED <<observed, overtaken, misjudged, cut, spilt>>
    BY <1>1 DEF spool, node, Conns
  <2>15. Sent' \subseteq Sent
    BY <1>4, <2>6, <2>14 DEF Sent
  <2>16. /\ Ahead(Sent' \cup batch, events \ batch, overtaken) /\ Ahead(Sent', todo, overtaken)
         /\ Sent' \cup batch \subseteq events \cup acked \cup evicted
    BY <2>1, <2>15 DEF OneFile, Ahead
  <2>17. OneFile'
    BY <2>1, <2>3, <2>9, <2>10, <2>12, <2>13, <2>14, <2>16 DEF OneFile
  <2>18. Skipped' = Skipped
    BY <2>14 DEF Skipped
  <2>. QED
    BY <2>1, <2>14, <2>17, <2>18 DEF NothingLost, GapsCounted
<1>. QED
  BY <1>5, <1>6 DEF Calm

\* The numbers below l that a tracker given the set A skipped.
SkippedBy(l, A) == {s \in 1..l : s \notin A /\ \E t \in A : t < s}

\* A number above the entry skips exactly the ones in between: what Missing adds
\* (ingest.rs:74-95).
LEMMA GapAdds ==
  ASSUME NEW l \in Nat, NEW A, A \subseteq 1..l, l \in A, NEW h \in Nat, h > l
  PROVE  Cardinality(SkippedBy(h, A \cup {h})) = Cardinality(SkippedBy(l, A)) + (h - l - 1)
<1> DEFINE G == (l + 1)..(h - 1)
           K == SkippedBy(l, A)
<1>1. SkippedBy(h, A \cup {h}) = K \cup G
  <2>1. ASSUME NEW s \in 1..h PROVE s \in SkippedBy(h, A \cup {h}) <=> s \in K \cup G
    <3>1. CASE s <= l
      <4>1. s \notin G /\ s # h /\ ~(h < s) /\ s \in 1..l
        BY <3>1
      <4>. QED
        BY <4>1 DEF SkippedBy
    <3>2. CASE s > l /\ s < h
      <4>1. s \in G /\ s \notin A /\ s # h /\ l < s
        BY <3>2
      <4>. QED
        BY <4>1 DEF SkippedBy
    <3>3. CASE s = h
      <4>1. s \notin G /\ s \notin K
        BY <3>3 DEF SkippedBy
      <4>. QED
        BY <3>3, <4>1 DEF SkippedBy
    <3>. QED
      BY <3>1, <3>2, <3>3
  <2>2. K \subseteq 1..h /\ G \subseteq 1..h /\ SkippedBy(h, A \cup {h}) \subseteq 1..h
    BY DEF SkippedBy
  <2>. QED
    BY <2>1, <2>2
<1>2. K \cap G = {}
  BY DEF SkippedBy
<1>3. IsFiniteSet(K) /\ Cardinality(K) \in Nat
  <2>1. IsFiniteSet(1..l) /\ K \subseteq 1..l
    BY FS_Interval DEF SkippedBy
  <2>. QED
    BY <2>1, FS_Subset, FS_CardinalityType
<1>4. IsFiniteSet(G) /\ Cardinality(G) = h - l - 1
  <2>1. l + 1 \in Int /\ h - 1 \in Int
    OBVIOUS
  <2>2. IsFiniteSet(G) /\ Cardinality(G) = IF l + 1 > h - 1 THEN 0 ELSE (h - 1) - (l + 1) + 1
    BY <2>1, FS_Interval
  <2>. QED
    BY <2>2
<1> HIDE DEF G, K
<1>5. Cardinality(K \cup G) = Cardinality(K) + Cardinality(G) - Cardinality(K \cap G)
  BY <1>3, <1>4, FS_Union
<1>6. Cardinality(K \cap G) = 0
  BY <1>2, FS_EmptySet
<1>7. Cardinality(K \cup G) = Cardinality(K) + (h - l - 1)
  BY <1>3, <1>4, <1>5, <1>6
<1>. QED
  BY <1>1, <1>7 DEF K

\* The tracker's verdict on the head of the file: a replay is a number that was seen,
\* or one that was overtaken; a gap is what was skipped (ingest.rs:74-95, :193-214).
LEMMA CalmHandle == ASSUME TypeOK, Control, Calm, Handle PROVE Calm'
<1> DEFINE h == Head(inbox)
<1>1. /\ inbox # <<>> /\ inbox' = Tail(inbox)
      /\ last' = Advance(last, h) /\ missing' = missing + Missing(last, h)
      /\ misjudged' = IF Observe(last, h) = "Replay" /\ h \notin observed
                      THEN misjudged \cup {h} ELSE misjudged
      /\ observed' = observed \cup {h}
      /\ \/ stored' = stored \cup {h} /\ UNCHANGED <<spilt, faults>>
         \/ Fault
      /\ UNCHANGED <<spool, node, net, subscribed, received, cut, missed, overtaken>>
  BY DEF Handle
<1>2. inbox \in Seq(1..seq) /\ seq \in Nat /\ last \in 0..seq /\ observed \subseteq 1..seq
      /\ missing \in Nat
  BY DEF TypeOK, S!TypeOK
<1>3. h \in 1..seq /\ Elems(inbox) = {h} \cup Elems(Tail(inbox))
  BY <1>1, <1>2, FifoTail
<1>4. Queued = {h} \cup Queued' /\ Queued' = Elems(Tail(inbox))
  BY <1>1, <1>3 DEF Queued, Elems
<1>t. Sorted(inbox, overtaken) =>
        Sorted(Tail(inbox), overtaken) /\ Ahead({h}, Elems(Tail(inbox)), overtaken)
  BY <1>1, <1>2, SortedTail
<1> HIDE DEF h
<1>5. BatchHeld'
  BY <1>1 DEF Calm, BatchHeld, node, spool
<1>6. TrackerTrue
  BY DEF Calm
<1>7. \/ last = 0 /\ last' = h /\ missing' = missing /\ Observe(last, h) # "Replay"
      \/ /\ last # 0 /\ h <= last /\ last' = last /\ missing' = missing
         /\ Observe(last, h) = "Replay"
      \/ /\ last # 0 /\ h > last /\ last' = h /\ missing' = missing + (h - last - 1)
         /\ Observe(last, h) # "Replay"
  <2>1. CASE last = 0
    BY <1>1, <1>2, <2>1 DEF Advance, Missing, Observe
  <2>2. CASE last # 0 /\ h <= last
    <3>1. Observe(last, h) = "Replay"
      BY <1>2, <1>3, <2>2 DEF Observe
    <3>. QED
      BY <1>1, <1>2, <2>2, <3>1 DEF Advance, Missing
  <2>3. CASE last # 0 /\ h = last + 1
    <3>1. Observe(last, h) = "InOrder"
      BY <1>2, <1>3, <2>3 DEF Observe
    <3>. QED
      BY <1>1, <1>2, <1>3, <2>3, <3>1 DEF Advance, Missing
  <2>4. CASE last # 0 /\ h > last + 1
    <3>1. Observe(last, h) = "Gap"
      BY <1>2, <1>3, <2>4 DEF Observe
    <3>. QED
      BY <1>1, <1>2, <1>3, <2>4, <3>1 DEF Advance, Missing
  <2>. QED
    BY <1>2, <1>3, <2>1, <2>2, <2>3, <2>4
<1>8. TrackerTrue'
  <2>1. last' # 0 /\ last' \in observed'
    BY <1>1, <1>2, <1>3, <1>6, <1>7 DEF TrackerTrue
  <2>2. \A s \in observed' : s <= last'
    <3>1. \A s \in observed : s \in 1..seq /\ s <= last
      BY <1>2, <1>6 DEF TrackerTrue
    <3>2. last <= last' /\ h <= last' /\ last' \in 0..seq
      BY <1>2, <1>3, <1>7
    <3>3. \A s \in observed : s <= last'
      BY <1>2, <3>1, <3>2
    <3>. QED
      BY <1>1, <3>2, <3>3
  <2>3. observed' # {}
    BY <1>1
  <2>. QED
    BY <2>1, <2>2, <2>3 DEF TrackerTrue
<1>9. ASSUME faults' = 0 PROVE OneFile' /\ NothingLost' /\ GapsCounted'
  <2>0. stored' = stored \cup {h} /\ UNCHANGED <<spilt, faults>>
    <3>1. ~Fault
      BY <1>9, DeliveryAssumption DEF Fault, TypeOK
    <3>. QED
      BY <1>1, <3>1
  <2>1. OneFile /\ NothingLost /\ GapsCounted
    BY <1>9, <2>0 DEF Calm
  <2>2. /\ events' = events /\ batch' = batch /\ acked' = acked /\ evicted' = evicted
        /\ abandoned' = abandoned /\ todo' = todo /\ wire' = wire
        /\ conn' = conn /\ link' = link /\ Conns' = Conns
        /\ UNCHANGED <<overtaken, cut, spilt>>
    BY <1>1, <2>0 DEF spool, node, net, Conns
  <2>3. InTransit(Conns)' = InTransit(Conns)
    BY <2>2 DEF InTransit
  <2>4. observed' \cup Queued' = observed \cup Queued /\ Sent' = Sent
    BY <1>1, <1>4, <2>3 DEF Sent
  <2>5. Sorted(inbox', overtaken)
    BY <1>1, <1>t, <2>1 DEF OneFile
  <2>6. Ahead(observed', Queued', overtaken)
    <3>1. Ahead({h}, Queued', overtaken)
      BY <1>t, <1>4, <2>1 DEF OneFile
    <3>. QED
      BY <1>1, <1>4, <2>1, <3>1 DEF OneFile, Ahead
  <2>7. OneFile'
    BY <2>1, <2>2, <2>3, <2>4, <2>5, <2>6 DEF OneFile
  <2>8. NothingLost'
    BY <1>1, <2>0, <2>1, <2>2 DEF NothingLost
  <2>9. last # 0 /\ h <= last /\ h \notin observed => h \in overtaken
    <3>1. Ahead(observed, Queued, overtaken) /\ h \in Queued
      BY <1>4, <2>1 DEF OneFile
    <3> SUFFICES ASSUME last # 0, h <= last, h \notin observed PROVE h \in overtaken
      OBVIOUS
    <3>2. last \in observed /\ last > h
      BY <1>2, <1>3, <1>6 DEF TrackerTrue
    <3>. QED
      BY <3>1, <3>2 DEF Ahead
  <2>10. misjudged' \subseteq overtaken
    BY <1>1, <1>7, <2>1, <2>9 DEF GapsCounted
  <2>11. ASSUME overtaken = {} PROVE missing' = Cardinality(Skipped')
    <3>s. Skipped = SkippedBy(last, observed) /\ Skipped' = SkippedBy(last', observed')
      BY DEF Skipped, SkippedBy
    <3>m. missing = Cardinality(Skipped)
      BY <2>1, <2>11 DEF GapsCounted
    <3>1. CASE last = 0
      <4>1. observed = {} /\ observed' = {h} /\ last' = h
        BY <1>1, <1>6, <1>7, <1>3, <3>1 DEF TrackerTrue
      <4>2. SkippedBy(h, {h}) = {} /\ SkippedBy(last, {}) = {}
        BY <1>3 DEF SkippedBy
      <4>. QED
        BY <1>7, <1>3, <3>1, <3>s, <3>m, <4>1, <4>2
    <3>2. CASE last # 0 /\ h <= last
      <4>1. observed' = observed
        BY <1>1, <2>9, <2>11, <3>2
      <4>2. last' = last /\ missing' = missing
        BY <1>2, <1>3, <1>7, <3>2
      <4>. QED
        BY <3>s, <3>m, <4>1, <4>2
    <3>3. CASE last # 0 /\ h > last
      <4>1. last \in observed /\ observed \subseteq 1..last /\ last \in Nat /\ h \in Nat
        BY <1>2, <1>3, <1>6, <3>3 DEF TrackerTrue
      <4>2. Cardinality(SkippedBy(h, observed \cup {h}))
              = Cardinality(SkippedBy(last, observed)) + (h - last - 1)
        BY <1>2, <1>3, <3>3, <4>1, GapAdds
      <4>3. last' = h /\ missing' = missing + (h - last - 1)
        BY <1>2, <1>3, <1>7, <3>3
      <4>. QED
        BY <1>1, <3>s, <3>m, <4>2, <4>3
    <3>. QED
      BY <1>2, <1>3, <3>1, <3>2, <3>3
  <2>12. GapsCounted'
    BY <2>2, <2>10, <2>11 DEF GapsCounted
  <2>. QED
    BY <2>7, <2>8, <2>12
<1>. QED
  BY <1>5, <1>8, <1>9 DEF Calm

\* The failures: a write, a drain, a restart of the sensor, a link, the collector.
LEMMA CalmFailures ==
  ASSUME TypeOK, Control, Calm,
         \/ \E w \in Writers : WriteFails(w)
         \/ DrainFails \/ SensorRestarts \/ CollectorStops
         \/ \E c \in Conns : LinkDown(c)
  PROVE  Calm'
<1>1. Fault
  BY DEF WriteFails, DrainFails, SensorRestarts, CollectorStops, LinkDown
<1>2. BatchHeld /\ TrackerTrue
  BY DEF Calm
<1>3. BatchHeld'
  BY <1>2 DEF BatchHeld, WriteFails, DrainFails, SensorRestarts, CollectorStops, LinkDown,
     S!PutFails, S!Unpeek, S!Reopen, node, spool
<1>4. TrackerTrue'
  <2>1. CASE CollectorStops
    BY <2>1 DEF CollectorStops, TrackerTrue
  <2>2. CASE UNCHANGED <<last, observed>>
    BY <1>2, <2>2 DEF TrackerTrue
  <2>. QED
    BY <2>1, <2>2 DEF WriteFails, DrainFails, SensorRestarts, LinkDown, collector, ghosts
<1>. QED
  BY <1>1, <1>3, <1>4, CalmFault

\* At the start the file is empty.
LEMMA InitCalm == Init => Calm
<1> SUFFICES ASSUME Init PROVE Calm
  OBVIOUS
<1>1. /\ events = {} /\ batch = {} /\ acked = {} /\ evicted = {} /\ abandoned = {} /\ todo = {}
      /\ conn = 0 /\ inbox = <<>> /\ last = 0 /\ missing = 0 /\ stored = {} /\ observed = {}
      /\ cut = {} /\ spilt = {} /\ misjudged = {} /\ overtaken = {}
      /\ \A c \in Conns : wire[c] = <<>>
  BY DEF Init, S!Init
<1>2. DOMAIN inbox = {} /\ \A c \in Conns : DOMAIN wire[c] = {}
  BY <1>1
<1>3. Queued = {} /\ InTransit(Conns) = {} /\ Sent = {}
  BY <1>1, <1>2 DEF Queued, InTransit, Sent
<1>4. Sorted(inbox, overtaken) /\ \A c \in Conns : Sorted(wire[c], overtaken)
  BY <1>2 DEF Sorted
<1>5. OneFile
  BY <1>1, <1>3, <1>4 DEF OneFile, Ahead
<1>6. Skipped = {} /\ Cardinality({}) = 0
  BY <1>1, FS_EmptySet DEF Skipped
<1>. QED
  BY <1>1, <1>5, <1>6 DEF Calm, BatchHeld, TrackerTrue, NothingLost, GapsCounted

\* Every step keeps the file in order and the tracker's count exact.
LEMMA NextCalm == ASSUME TypeOK, Control, Calm, [Next]_vars PROVE Calm'
<1>1. ASSUME NEW w \in Writers, Write(w) PROVE Calm'
  BY <1>1, CalmWrite
<1>2. ASSUME NEW c \in Conns, Route(c) PROVE Calm'
  BY <1>2, CalmRoute
<1>3. CASE Connect
  BY <1>3, CalmConnect
<1>4. CASE PeekBatch
  BY <1>4, CalmPeekBatch
<1>5. CASE Publish
  BY <1>5, CalmPublish
<1>6. CASE AckBatch
  BY <1>6, CalmAckBatch
<1>7. CASE Handle
  BY <1>7, CalmHandle
<1>8. CASE \/ \E w \in Writers : WriteFails(w)
           \/ DrainFails \/ SensorRestarts \/ CollectorStops
           \/ \E c \in Conns : LinkDown(c)
  BY <1>8, CalmFailures
<1>9. CASE PeekNothing \/ FlushOk \/ Subscribe \/ (\E c \in Conns : LinkUp(c)) \/ UNCHANGED vars
  BY <1>9, CalmElsewhere
<1>. QED
  BY <1>1, <1>2, <1>3, <1>4, <1>5, <1>6, <1>7, <1>8, <1>9 DEF Next, Drain

\* A number that was skipped and never overtaken did not reach the tracker, and is not
\* on its way to it: it was turned away, evicted, or is being appended now.
LEMMA SkippedHasACause ==
  ASSUME TypeOK, Control, FlushedFirst, S!Accounted, Calm, faults = 0, overtaken = {}
  PROVE  Skipped \subseteq missed \cup evicted \cup {reserved[w] : w \in Writers}
<1> SUFFICES ASSUME NEW s \in Skipped
             PROVE  s \in missed \cup evicted \cup {reserved[w] : w \in Writers}
  OBVIOUS
<1>1. OneFile /\ NothingLost /\ TrackerTrue /\ BatchHeld
  BY DEF Calm
<1>2. s \in 1..last /\ s \notin observed /\ last \in 0..seq /\ seq \in Nat
  BY DEF Skipped, TypeOK, S!TypeOK
<1>3. last \in observed /\ last > s
  BY <1>1, <1>2 DEF TrackerTrue
<1>4. s \in 1..seq
  BY <1>2
<1>5. s \notin Queued /\ s \notin InTransit(Conns) /\ s \notin todo /\ s \notin events \ batch
  BY <1>1, <1>3 DEF OneFile, Ahead, Sent
<1>6. s \in received \cup cut => s \in missed
  BY <1>1, <1>2, <1>5 DEF FlushedFirst, NothingLost
<1>7. s \in events => s \in missed
  <2> SUFFICES ASSUME s \in batch PROVE s \in missed
    BY <1>5
  <2>1. pc \in {"publish", "flush", "ack"}
    BY <1>1 DEF BatchHeld, TypeOK
  <2>2. OnWire \subseteq InTransit(Conns)
    <3>1. conn \in Conns
      BY <2>1, BatchTyped
    <3>. QED
      BY <3>1, TransitElems DEF OnWire
  <2>3. s \in received \cup cut
    BY <1>5, <2>1, <2>2 DEF FlushedFirst
  <2>. QED
    BY <1>6, <2>3
<1>8. s \in acked => s \in missed
  BY <1>6 DEF FlushedFirst
<1>9. s \in events \cup S!InFlight \cup acked \cup evicted
  BY <1>1, <1>4 DEF S!Accounted, NothingLost
<1>. QED
  BY <1>7, <1>8, <1>9 DEF S!InFlight

\* What flushing first, the spool's accounts and the file maintain is what the
\* tracker's verdicts claim.
LEMMA CalmSuffices ==
  ASSUME TypeOK, Control, FlushedFirst, S!Accounted, Calm
  PROVE  VerdictsExact
  BY SkippedHasACause DEF VerdictsExact, Calm, GapsCounted

\* The records published first stay ahead of the ack, for the theorem below.
LEMMA DeliveryFlushesFirst == Spec => []FlushedFirst
  BY DeliveryControlled, InitFlushedFirst, NextFlushedFirst, PTL DEF Spec

\* While nothing fails the file is in order, for the theorem below.
LEMMA DeliveryCalm == Spec => []Calm
  BY DeliveryControlled, InitCalm, NextCalm, PTL DEF Spec

\* ingest.rs:49 "Gaps mean events were lost; repeats mean a replay": for any number of
\* session goroutines, any batch size and any inbox, as long as nothing fails, a fresh
\* number is called a replay only if it was overtaken inside the spool, and unless that
\* happened missing_events is exactly the number of events the tracker never got.
THEOREM DeliveryVerdictsExact == Spec => []VerdictsExact
  BY DeliveryControlled, DeliveryFlushesFirst, DeliveryAccounted, DeliveryCalm, CalmSuffices, PTL
=============================================================================
