---------------------------- MODULE SpoolProofs ----------------------------
(***************************************************************************)
(* Proofs about Spool for every number of writers, every bound and every   *)
(* way the file grows.                                                     *)
(***************************************************************************)
EXTENDS Spool, FiniteSetTheorems, TLAPS

(***************************************************************************)
(* Type correctness: see TypeOK.                                           *)
(***************************************************************************)

\* The eviction loop deletes only pending records (spool.go:115-126).
LEMMA OverflowPending == Overflow \subseteq events
  BY DEF Overflow

\* A transaction leaves the recorded file size within its bound.
LEMMA GrowType ==
  ASSUME size \in 0..MaxBytes, Grow
  PROVE  size' \in 0..MaxBytes
  BY SpoolAssumption DEF Grow

\* The pending set is finite, so the eviction loop ends and its count is a
\* natural number.
LEMMA OverflowCount ==
  ASSUME TypeOK
  PROVE  IsFiniteSet(Overflow) /\ Cardinality(Overflow) \in Nat
<1>1. seq \in Int /\ 1 \in Int
  BY SpoolAssumption DEF TypeOK
<1>2. IsFiniteSet(1..seq)
  BY <1>1, FS_Interval
<1>3. Overflow \in SUBSET (1..seq)
  BY DEF TypeOK, Overflow
<1>. QED
  BY <1>2, <1>3, FS_Subset, FS_CardinalityType

\* Reserved numbers are numbers that were handed out.
LEMMA InFlightType ==
  ASSUME TypeOK
  PROVE  InFlight \in SUBSET (1..seq)
  BY SpoolAssumption DEF TypeOK, InFlight

\* A spool that has just been created is well typed (spool.go Open).
LEMMA InitTypeOK == Init => TypeOK
  BY SpoolAssumption DEF Init, TypeOK

\* Every operation of the spool keeps its state well typed.
LEMMA NextTypeOK == TypeOK /\ [Next]_spoolVars => TypeOK'
<1> SUFFICES ASSUME TypeOK, [Next]_spoolVars PROVE TypeOK'
  OBVIOUS
<1> USE SpoolAssumption
<1>1. ASSUME NEW w \in Writers, NextSeq(w) PROVE TypeOK'
  <2>1. size' \in 0..MaxBytes
    BY <1>1, GrowType DEF NextSeq, TypeOK
  <2>2. reserved' \in [Writers -> 0..seq']
    BY <1>1 DEF NextSeq, TypeOK
  <2>. QED
    BY <1>1, <2>1, <2>2 DEF NextSeq, TypeOK, history
<1>2. ASSUME NEW w \in Writers, Put(w) PROVE TypeOK'
  <2>1. size' \in 0..MaxBytes
    BY <1>2, GrowType DEF Put, TypeOK
  <2>2. dropped' \in Nat
    BY <1>2, OverflowCount DEF Put, TypeOK
  <2>3. reserved' \in [Writers -> 0..seq']
    BY <1>2 DEF Put, TypeOK
  <2>4. reserved[w] \in 1..seq
    BY <1>2 DEF Put, TypeOK
  <2>. QED
    BY <1>2, <2>1, <2>2, <2>3, <2>4, OverflowPending DEF Put, TypeOK
<1>3. ASSUME NEW w \in Writers, PutFails(w) PROVE TypeOK'
  <2>1. dropped' \in Nat
    BY <1>3, OverflowCount DEF PutFails, TypeOK
  <2>2. reserved' \in [Writers -> 0..seq'] /\ reserved[w] \in 1..seq
    BY <1>3 DEF PutFails, TypeOK, disk
  <2>. QED
    BY <1>3, <2>1, <2>2 DEF PutFails, TypeOK, disk
<1>4. CASE Peek
  BY <1>4 DEF Peek, TypeOK, FirstKeys, disk, history
<1>5. CASE Ack
  <2>1. size' \in 0..MaxBytes
    BY <1>5, GrowType DEF Ack, TypeOK
  <2>. QED
    BY <1>5, <2>1 DEF Ack, TypeOK
<1>6. CASE Unpeek
  BY <1>6 DEF Unpeek, TypeOK, disk, history
<1>7. CASE Reopen
  <2>1. seq' = seq /\ events' = events /\ size' = size
    BY <1>7 DEF Reopen, disk
  <2>2. reserved' \in [Writers -> 0..seq']
    BY <1>7, <2>1 DEF Reopen, TypeOK
  <2>3. abandoned' \in SUBSET (1..seq')
    BY <1>7, <2>1, InFlightType DEF Reopen, TypeOK
  <2>. QED
    BY <1>7, <2>1, <2>2, <2>3 DEF Reopen, TypeOK
<1>8. CASE UNCHANGED spoolVars
  BY <1>8 DEF spoolVars, TypeOK, disk, history
<1>. QED
  BY <1>1, <1>2, <1>3, <1>4, <1>5, <1>6, <1>7, <1>8 DEF Next

\* Every reachable state of the spool is well typed.
THEOREM SpoolTyped == Spec => []TypeOK
  BY InitTypeOK, NextTypeOK, PTL DEF Spec
-----------------------------------------------------------------------------
(***************************************************************************)
(* One fate per number: see Accounted, which is inductive given TypeOK.    *)
(***************************************************************************)

\* A reservation adds the new number to those in flight.
LEMMA InFlightNextSeq ==
  ASSUME TypeOK, NEW w \in Writers, NextSeq(w)
  PROVE  InFlight' = InFlight \cup {seq + 1}
<1>1. /\ \A v \in Writers : reserved'[v] = IF v = w THEN seq + 1 ELSE reserved[v]
      /\ reserved[w] = 0 /\ seq + 1 # 0 /\ seq \in Nat
  BY SpoolAssumption DEF NextSeq, TypeOK
<1>. QED
  BY <1>1 DEF InFlight

\* The end of an Append, whether it stored or not, takes exactly its own number
\* out of those in flight: nobody else holds it.
LEMMA InFlightDone ==
  ASSUME TypeOK, ReservedApart, NEW w \in Writers, reserved[w] # 0,
         reserved' = [reserved EXCEPT ![w] = 0]
  PROVE  /\ InFlight' = InFlight \ {reserved[w]}
         /\ reserved[w] \in InFlight
         /\ ReservedApart'
<1>1. \A v \in Writers : reserved'[v] = IF v = w THEN 0 ELSE reserved[v]
  BY DEF TypeOK
<1>2. \A v \in Writers : v # w => reserved[v] # reserved[w]
  BY DEF ReservedApart
<1>3. InFlight' = InFlight \ {reserved[w]} /\ reserved[w] \in InFlight
  BY <1>1, <1>2 DEF InFlight
<1>4. ReservedApart'
  BY <1>1 DEF ReservedApart
<1>. QED
  BY <1>3, <1>4

\* No number has been handed out, so none is unaccounted for.
LEMMA InitAccounted == Init => Accounted
<1> SUFFICES ASSUME Init PROVE Accounted
  OBVIOUS
<1>1. InFlight = {}
  BY DEF Init, InFlight
<1>2. 1..seq = {}
  BY DEF Init
<1>. QED
  BY <1>1, <1>2 DEF Init, Accounted, ReservedApart

\* No operation gives a number a second fate or forgets one: one step per operation,
\* each moving one set of numbers from one fate to the next.
LEMMA NextAccounted ==
  TypeOK /\ Accounted /\ [Next]_spoolVars => Accounted'
<1> SUFFICES ASSUME TypeOK, Accounted, [Next]_spoolVars PROVE Accounted'
  OBVIOUS
<1> USE SpoolAssumption
<1>1. ASSUME NEW w \in Writers, NextSeq(w) PROVE Accounted'
  <2>1. InFlight' = InFlight \cup {seq + 1}
    BY <1>1, InFlightNextSeq
  <2>2. seq' = seq + 1 /\ seq \in Nat /\ 1..(seq + 1) = (1..seq) \cup {seq + 1}
    BY <1>1 DEF NextSeq, TypeOK
  <2>3. seq + 1 \notin 1..seq
    BY <2>2
  <2>4. ReservedApart'
    <3>1. \A v \in Writers :
            /\ reserved'[v] = IF v = w THEN seq + 1 ELSE reserved[v]
            /\ reserved[v] # seq + 1
      BY <1>1, <2>2 DEF NextSeq, TypeOK
    <3>. QED
      BY <3>1 DEF ReservedApart, Accounted
  <2>5. /\ events' = events /\ acked' = acked /\ evicted' = evicted
        /\ abandoned' = abandoned /\ batch' = batch
    BY <1>1 DEF NextSeq, history
  <2>. QED
    BY <2>1, <2>2, <2>3, <2>4, <2>5, InFlightType DEF Accounted, TypeOK
<1>2. ASSUME NEW w \in Writers, Put(w) PROVE Accounted'
  <2>1. /\ InFlight' = InFlight \ {reserved[w]}
        /\ reserved[w] \in InFlight
        /\ ReservedApart'
    BY <1>2, InFlightDone DEF Put, Accounted
  <2>. QED
    BY <1>2, <2>1, OverflowPending DEF Put, Accounted
<1>3. ASSUME NEW w \in Writers, PutFails(w) PROVE Accounted'
  <2>1. /\ InFlight' = InFlight \ {reserved[w]}
        /\ reserved[w] \in InFlight
        /\ ReservedApart'
    BY <1>3, InFlightDone DEF PutFails, Accounted
  <2>. QED
    BY <1>3, <2>1 DEF PutFails, Accounted, disk
<1>4. CASE Peek
  BY <1>4 DEF Peek, FirstKeys, Accounted, ReservedApart, InFlight, disk, history
<1>5. CASE Ack
  BY <1>5 DEF Ack, Accounted, ReservedApart, InFlight
<1>6. CASE Unpeek
  BY <1>6 DEF Unpeek, Accounted, ReservedApart, InFlight, disk, history
<1>7. CASE Reopen
  <2>1. InFlight' = {} /\ ReservedApart'
    BY <1>7 DEF Reopen, InFlight, ReservedApart
  <2>. QED
    BY <1>7, <2>1 DEF Reopen, Accounted, disk
<1>8. CASE UNCHANGED spoolVars
  BY <1>8 DEF spoolVars, Accounted, ReservedApart, InFlight, disk, history
<1>. QED
  BY <1>1, <1>2, <1>3, <1>4, <1>5, <1>6, <1>7, <1>8 DEF Next

\* Every number handed out has exactly one fate, in every reachable state.
THEOREM SpoolAccounted == Spec => []Accounted
<1>1. Init => TypeOK /\ Accounted
  BY InitTypeOK, InitAccounted
<1>2. TypeOK /\ Accounted /\ [Next]_spoolVars => (TypeOK /\ Accounted)'
  BY NextTypeOK, NextAccounted
<1>. QED
  BY <1>1, <1>2, PTL DEF Spec
-----------------------------------------------------------------------------
(***************************************************************************)
(* No silent eviction within one process life: see DropsCounted.           *)
(***************************************************************************)

\* The records evicted since Open are finitely many.
LEMMA FreshCount ==
  ASSUME TypeOK
  PROVE  IsFiniteSet(fresh) /\ Cardinality(fresh) \in Nat
<1>1. IsFiniteSet(1..seq)
  BY FS_Interval, SpoolAssumption DEF TypeOK
<1>2. fresh \in SUBSET (1..seq)
  BY DEF TypeOK
<1>. QED
  BY <1>1, <1>2, FS_Subset, FS_CardinalityType

\* Append adds to the counter what its loop evicts, and Open starts it over.
LEMMA NextDropsCounted ==
  TypeOK /\ DropsCounted /\ [Next]_spoolVars => DropsCounted'
<1> SUFFICES ASSUME TypeOK, DropsCounted, [Next]_spoolVars PROVE DropsCounted'
  OBVIOUS
<1>0. dropped \in Nat
  BY DEF TypeOK
<1>1. ASSUME NEW w \in Writers, Put(w) PROVE DropsCounted'
  <2>1. Cardinality(fresh \cup Overflow) =
          Cardinality(fresh) + Cardinality(Overflow) - Cardinality(fresh \cap Overflow)
    BY FreshCount, OverflowCount, FS_Union
  <2>2. Cardinality(fresh \cap Overflow) \in Nat
    <3>1. IsFiniteSet(fresh \cap Overflow)
      BY FreshCount, FS_Intersection
    <3>. QED
      BY <3>1, FS_CardinalityType
  <2>3. fresh' = fresh \cup Overflow /\ dropped' = dropped + Cardinality(Overflow)
    BY <1>1 DEF Put
  <2>4. Cardinality(fresh') <= dropped'
    BY <1>0, <2>1, <2>2, <2>3, FreshCount, OverflowCount DEF DropsCounted
  <2>. QED
    BY <2>4 DEF DropsCounted
<1>2. ASSUME NEW w \in Writers, PutFails(w) PROVE DropsCounted'
  <2>1. fresh' = fresh /\ \E n \in Nat : dropped' = dropped + n
    BY <1>2, OverflowCount DEF PutFails
  <2>2. Cardinality(fresh') <= dropped'
    BY <1>0, <2>1, FreshCount DEF DropsCounted
  <2>. QED
    BY <2>2 DEF DropsCounted
<1>3. CASE Reopen
  <2>1. fresh' = {} /\ dropped' = 0
    BY <1>3 DEF Reopen
  <2>. QED
    BY <2>1, FS_EmptySet DEF DropsCounted
<1>4. ASSUME fresh' = fresh, dropped' = dropped PROVE DropsCounted'
  BY <1>4 DEF DropsCounted
<1>5. ASSUME NEW w \in Writers, NextSeq(w) PROVE DropsCounted'
  BY <1>4, <1>5 DEF NextSeq, history
<1>6. CASE Peek \/ Ack \/ Unpeek \/ UNCHANGED spoolVars
  BY <1>4, <1>6 DEF Peek, Ack, Unpeek, spoolVars, history
<1>. QED
  BY <1>1, <1>2, <1>3, <1>5, <1>6 DEF Next

\* While the process lives, the drop counter covers every eviction.
THEOREM SpoolDropsCounted == Spec => []DropsCounted
<1>1. Init => DropsCounted
  BY FS_EmptySet DEF Init, DropsCounted
<1>. QED
  BY <1>1, InitTypeOK, NextTypeOK, NextDropsCounted, PTL DEF Spec
-----------------------------------------------------------------------------
(***************************************************************************)
(* Refinement: the spool implements RecordFate.                            *)
(***************************************************************************)

Inv == TypeOK /\ Accounted

\* With one fate per number, the CASE of FateOf can be read in any order.
LEMMA FateSets ==
  ASSUME Inv, NEW s \in 1..MaxSeq
  PROVE  /\ s \in acked <=> FateOf(s) = "acked"
         /\ s \in evicted <=> FateOf(s) = "evicted"
         /\ s \in abandoned <=> FateOf(s) = "abandoned"
         /\ s \in events \cap batch <=> FateOf(s) = "offered"
         /\ s \in events \ batch <=> FateOf(s) = "pending"
         /\ s \in InFlight <=> FateOf(s) = "reserved"
         /\ s \notin 1..seq <=> FateOf(s) = "free"
  BY DEF Inv, Accounted, FateOf

\* The abstract sets of numbers with a given fate, read off the spool.
LEMMA FateWith ==
  ASSUME Inv
  PROVE  /\ Fate!With("offered") = events \cap batch
         /\ Fate!With("pending") = events \ batch
         /\ Fate!With("reserved") = InFlight
         /\ Fate!With("free") = (1..MaxSeq) \ (1..seq)
<1>1. 1..seq \subseteq 1..MaxSeq
  BY SpoolAssumption DEF Inv, TypeOK
<1>2. events \subseteq 1..seq /\ InFlight \subseteq 1..seq
  BY InFlightType DEF Inv, TypeOK
<1>. QED
  BY <1>1, <1>2, FateSets DEF Fate!With, Fate!Numbers

\* Peek returns an initial segment of the bucket: everything older than a peeked
\* record is peeked as well.
LEMMA FirstKeysDownward ==
  ASSUME TypeOK
  PROVE  \A b \in FirstKeys(events, BatchSize), p \in events :
           p < b => p \in FirstKeys(events, BatchSize)
<1> SUFFICES ASSUME NEW b \in FirstKeys(events, BatchSize), NEW p \in events, p < b
             PROVE  p \in FirstKeys(events, BatchSize)
  OBVIOUS
<1> DEFINE P == {t \in events : t < p}
           B == {t \in events : t < b}
<1>1. events \subseteq 1..seq /\ seq \in Nat
  BY SpoolAssumption DEF TypeOK
<1>2. b \in 1..seq /\ p \in 1..seq /\ \A t \in events : t \in 1..seq
  BY <1>1 DEF FirstKeys
<1>3. P \in SUBSET B
  <2> SUFFICES ASSUME NEW t \in events, t < p PROVE t < b
    OBVIOUS
  <2>1. t \in Int /\ p \in Int /\ b \in Int
    BY <1>1, <1>2
  <2>. QED
    BY <2>1
<1>4. IsFiniteSet(B)
  <2>1. IsFiniteSet(1..seq)
    BY <1>1, FS_Interval
  <2>2. B \in SUBSET (1..seq)
    BY <1>1
  <2>. QED
    BY <2>1, <2>2, FS_Subset
<1>5. Cardinality(P) <= Cardinality(B) /\ IsFiniteSet(P)
  BY <1>3, <1>4, FS_Subset
<1>6. Cardinality(P) \in Nat /\ Cardinality(B) \in Nat
  BY <1>4, <1>5, FS_CardinalityType
<1>7. Cardinality(B) < BatchSize
  BY DEF FirstKeys
<1>8. Cardinality(P) < BatchSize
  BY <1>5, <1>6, <1>7, SpoolAssumption
<1>. QED
  BY <1>8 DEF FirstKeys

\* The empty spool maps to the abstract start.
LEMMA InitFate == Init => Fate!Init
<1> SUFFICES ASSUME Init PROVE Fate!Init
  OBVIOUS
<1>1. InFlight = {}
  BY DEF Init, InFlight
<1>. QED
  BY <1>1 DEF Init, Fate!Init, Fate!Numbers, FateOf

\* Every operation of the spool is one abstract step, or none.
LEMMA NextFate ==
  ASSUME Inv, Inv', [Next]_spoolVars
  PROVE  [Fate!Next]_([s \in 1..MaxSeq |-> FateOf(s)])
<1> DEFINE f == [s \in 1..MaxSeq |-> FateOf(s)]
<1> USE SpoolAssumption
<1>0. seq \in Nat /\ 1..seq \subseteq 1..MaxSeq
  BY DEF Inv, TypeOK
<1>1. ASSUME NEW w \in Writers, NextSeq(w) PROVE Fate!Reserve
  <2>1. /\ InFlight' = InFlight \cup {seq + 1} /\ seq' = seq + 1
        /\ events' = events /\ batch' = batch /\ acked' = acked
        /\ evicted' = evicted /\ abandoned' = abandoned /\ seq < MaxSeq
    BY <1>1, InFlightNextSeq DEF NextSeq, history, Inv
  <2>2. seq + 1 \in Fate!With("free") /\ \A t \in Fate!With("free") : seq + 1 <= t
    BY <1>0, <2>1, FateWith DEF Inv
  <2>3. ASSUME NEW s \in 1..MaxSeq
        PROVE  FateOf(s)' = IF s \in {seq + 1} THEN "reserved" ELSE FateOf(s)
    <3>1. CASE s = seq + 1
      BY <3>1, <2>1, FateSets DEF FateOf
    <3>2. CASE s # seq + 1
      BY <3>2, <2>1 DEF FateOf
    <3>. QED
      BY <3>1, <3>2
  <2>4. Fate!Move({seq + 1}, "reserved")
    BY <2>3 DEF Fate!Move, Fate!Numbers
  <2>. QED
    BY <2>2, <2>4 DEF Fate!Reserve
<1>2. ASSUME NEW w \in Writers, Put(w) PROVE Fate!Store
  <2>1. /\ InFlight' = InFlight \ {reserved[w]} /\ reserved[w] \in InFlight
        /\ events' = (events \ Overflow) \cup {reserved[w]} /\ batch' = batch
        /\ evicted' = evicted \cup Overflow /\ acked' = acked
        /\ abandoned' = abandoned
    BY <1>2, InFlightDone DEF Put, Inv, Accounted
  <2>2. /\ reserved[w] \in Fate!With("reserved")
        /\ Overflow \in SUBSET (Fate!With("pending") \cup Fate!With("offered"))
    BY <2>1, FateWith, OverflowPending
  <2>3. reserved[w] \notin batch
    BY <2>1, <1>2 DEF Put, Inv, TypeOK, Accounted
  <2>4. ASSUME NEW s \in 1..MaxSeq
        PROVE  FateOf(s)' = IF s = reserved[w] THEN "pending"
                            ELSE IF s \in Overflow THEN "evicted" ELSE FateOf(s)
    <3>1. CASE s = reserved[w]
      BY <3>1, <2>1, <2>3, OverflowPending DEF FateOf, Inv, Accounted
    <3>2. CASE s # reserved[w] /\ s \in Overflow
      BY <3>2, <2>1, OverflowPending DEF FateOf, Inv, Accounted
    <3>3. CASE s # reserved[w] /\ s \notin Overflow
      BY <3>3, <2>1 DEF FateOf
    <3>. QED
      BY <3>1, <3>2, <3>3
  <2>5. f' = [t \in Fate!Numbers |->
                IF t = reserved[w] THEN "pending"
                ELSE IF t \in Overflow THEN "evicted" ELSE f[t]]
    BY <2>4 DEF Fate!Numbers
  <2>. QED
    BY <2>2, <2>5 DEF Fate!Store
<1>3. ASSUME NEW w \in Writers, PutFails(w) PROVE Fate!GiveUp
  <2>1. /\ InFlight' = InFlight \ {reserved[w]} /\ reserved[w] \in InFlight
        /\ events' = events /\ batch' = batch /\ evicted' = evicted
        /\ acked' = acked /\ abandoned' = abandoned \cup {reserved[w]}
    BY <1>3, InFlightDone DEF PutFails, Inv, Accounted, disk
  <2>2. ASSUME NEW s \in 1..MaxSeq
        PROVE  FateOf(s)' = IF s \in {reserved[w]} THEN "abandoned" ELSE FateOf(s)
    <3>1. CASE s = reserved[w]
      BY <3>1, <2>1 DEF FateOf, Inv, Accounted
    <3>2. CASE s # reserved[w]
      BY <3>2, <2>1 DEF FateOf
    <3>. QED
      BY <3>1, <3>2
  <2>3. Fate!Move({reserved[w]}, "abandoned")
    BY <2>2 DEF Fate!Move, Fate!Numbers
  <2>. QED
    BY <2>1, <2>3, FateWith DEF Fate!GiveUp
<1>4. CASE Peek
  <2> DEFINE B == FirstKeys(events, BatchSize)
  <2>1. /\ InFlight' = InFlight /\ events' = events /\ batch = {} /\ batch' = B
        /\ evicted' = evicted /\ acked' = acked /\ abandoned' = abandoned
    BY <1>4 DEF Peek, InFlight, disk, history
  <2>2. B \subseteq events
    BY DEF FirstKeys
  <2>3. \A b \in B, p \in events : p < b => p \in B
    BY FirstKeysDownward DEF Inv
  <2>4. ASSUME NEW s \in 1..MaxSeq
        PROVE  FateOf(s)' = IF s \in B THEN "offered" ELSE FateOf(s)
    <3>1. CASE s \in B
      BY <3>1, <2>1, <2>2 DEF FateOf, Inv, Accounted
    <3>2. CASE s \notin B
      BY <3>2, <2>1 DEF FateOf
    <3>. QED
      BY <3>1, <3>2
  <2>5. Fate!Move(B, "offered")
    BY <2>4 DEF Fate!Move, Fate!Numbers
  <2>6. /\ Fate!With("offered") = {}
        /\ B \in SUBSET Fate!With("pending")
        /\ \A b \in B, p \in Fate!With("pending") : p < b => p \in B
    BY <2>1, <2>2, <2>3, FateWith
  <2>7. Fate!Offer
    BY <2>5, <2>6 DEF Fate!Offer
  <2>. QED
    BY <2>7 DEF Fate!Next
<1>5. CASE Ack
  <2>1. /\ InFlight' = InFlight /\ events' = events \ batch /\ batch' = {}
        /\ acked' = acked \cup (events \cap batch)
        /\ evicted' = evicted /\ abandoned' = abandoned
    BY <1>5 DEF Ack, InFlight
  <2>2. ASSUME NEW s \in 1..MaxSeq
        PROVE  FateOf(s)' = IF s \in events \cap batch THEN "acked" ELSE FateOf(s)
    <3>1. CASE s \in events \cap batch
      <4>1. s \in acked'
        BY <3>1, <2>1
      <4>2. FateOf(s)' = "acked"
        BY <4>1 DEF FateOf, Inv, Accounted
      <4>. QED
        BY <3>1, <4>2
    <3>2. CASE s \notin events \cap batch
      <4>1. /\ s \in acked' <=> s \in acked
            /\ s \in events' \cap batch' <=> s \in events \cap batch
            /\ s \in events' \ batch' <=> s \in events \ batch
        BY <3>2, <2>1
      <4>. QED
        BY <3>2, <4>1, <2>1 DEF FateOf
    <3>. QED
      BY <3>1, <3>2
  <2>3. Fate!Settle
    BY <2>2, FateWith DEF Fate!Move, Fate!Numbers, Fate!Settle
  <2>. QED
    BY <2>3 DEF Fate!Next
<1>6. CASE Unpeek
  <2>1. /\ InFlight' = InFlight /\ events' = events /\ batch' = {}
        /\ acked' = acked /\ evicted' = evicted /\ abandoned' = abandoned
    BY <1>6 DEF Unpeek, InFlight, disk, history
  <2>2. ASSUME NEW s \in 1..MaxSeq
        PROVE  FateOf(s)' = IF s \in events \cap batch THEN "pending" ELSE FateOf(s)
    <3>1. CASE s \in events \cap batch
      BY <3>1, <2>1 DEF FateOf, Inv, Accounted
    <3>2. CASE s \notin events \cap batch
      BY <3>2, <2>1 DEF FateOf
    <3>. QED
      BY <3>1, <3>2
  <2>3. Fate!Withdraw
    BY <2>2, FateWith DEF Fate!Move, Fate!Numbers, Fate!Withdraw
  <2>. QED
    BY <2>3 DEF Fate!Next
<1>7. CASE Reopen
  <2>1. /\ InFlight' = {} /\ events' = events /\ batch' = {} /\ acked' = acked
        /\ evicted' = evicted /\ abandoned' = abandoned \cup InFlight
    BY <1>7 DEF Reopen, InFlight, disk
  <2>2. ASSUME NEW s \in 1..MaxSeq
        PROVE  FateOf(s)' = IF s \in events \cap batch THEN "pending"
                            ELSE IF s \in InFlight THEN "abandoned" ELSE FateOf(s)
    <3>1. CASE s \in events \cap batch
      BY <3>1, <2>1 DEF FateOf, Inv, Accounted
    <3>2. CASE s \in InFlight
      BY <3>2, <2>1 DEF FateOf, Inv, Accounted
    <3>3. CASE s \notin events \cap batch /\ s \notin InFlight
      BY <3>3, <2>1 DEF FateOf
    <3>. QED
      BY <3>1, <3>2, <3>3 DEF Inv, Accounted
  <2>3. Fate!Crash
    BY <2>2, FateWith DEF Fate!Numbers, Fate!Crash
  <2>. QED
    BY <2>3 DEF Fate!Next
<1>8. CASE UNCHANGED spoolVars
  <2>1. f' = f
    BY <1>8 DEF spoolVars, FateOf, InFlight, disk, history
  <2>. QED
    BY <2>1
<1>. QED
  BY <1>1, <1>2, <1>3, <1>4, <1>5, <1>6, <1>7, <1>8 DEF Next, Fate!Next

\* The spool implements the abstract life cycle of its records.
THEOREM SpoolImplementsRecordFate == Spec => ImplementsRecordFate
<1>1. Spec => []Inv
  BY SpoolTyped, SpoolAccounted, PTL DEF Inv
<1>2. Inv /\ Inv' /\ [Next]_spoolVars
        => [Fate!Next]_([s \in 1..MaxSeq |-> FateOf(s)])
  BY NextFate
<1>. QED
  BY <1>1, <1>2, InitFate, PTL DEF Spec, ImplementsRecordFate, Fate!Spec
=============================================================================
