-------------------------- MODULE LiveIndexProofs --------------------------
(***************************************************************************)
(* Proofs about LiveIndex for every set of events, however large, and all  *)
(* capacities of the index.                                                *)
(***************************************************************************)
EXTENDS LiveIndex, SequenceTheorems, FiniteSetTheorems, TLAPS

View == [src : Vals \cup {NoVal}, started : Nat, ended : Nat, login : Vals \cup {NoVal},
         commands : Nat, auths : Nat, artifacts : Nat, requests : Nat,
         urls : SUBSET Vals, attacks : SUBSET Vals, profiled : BOOLEAN]

Elems(q) == {q[i] : i \in DOMAIN q}

Typed ==
  /\ total_events \in Nat
  /\ order \in Seq(Sids)
  /\ DOMAIN since = DOMAIN sessions
  /\ DOMAIN events = DOMAIN sessions
  /\ \A s \in DOMAIN sessions :
       sessions[s] \in View /\ since[s] \in Seq(Events) /\ events[s] \in Seq(Events)

\* The views in creation order, and none from the future.
Rising(q) == \A i, j \in DOMAIN q : i < j => sessions[q[i]].started < sessions[q[j]].started
Dated == \A s \in DOMAIN sessions : sessions[s].started <= total_events

Ordered == Len(order) <= MAX_SESSIONS /\ DOMAIN sessions = Elems(order) /\ Rising(order) /\ Dated

\* A view says what the events h of its session say.
Says(v, h) ==
  /\ v.commands = Number(h, {"command"})
  /\ v.auths = Number(h, {"auth", "login"})
  /\ v.artifacts = Number(h, {"artifact"}) /\ v.urls = Values(h, "artifact")
  /\ v.requests = Number(h, {"request"})
  /\ v.attacks = Values(h, "request") \ {NoVal}
  /\ (v.ended # 0) <=> (Number(h, {"end"}) > 0)
  /\ v.src # NoVal => v.src \in Values(h, "start")

\* The events kept are the first of the session's, up to the cap.
Kept(ev, h) ==
  /\ Len(ev) \in 1..MAX_EVENTS_PER_SESSION /\ Len(ev) <= Len(h)
  /\ \A i \in 1..Len(ev) : ev[i] = h[i]
  /\ Len(ev) < Len(h) => Len(ev) = MAX_EVENTS_PER_SESSION

IInv == /\ Typed /\ Ordered
        /\ \A s \in DOMAIN sessions : Says(sessions[s], since[s]) /\ Kept(events[s], since[s])
-----------------------------------------------------------------------------
(***************************************************************************)
(* A view and its session's events.                                        *)
(***************************************************************************)

\* One more event of a kind that is counted is one more.
LEMMA NumberAppend ==
  ASSUME NEW h \in Seq(Events), NEW e \in Events, NEW K
  PROVE  /\ Number(h, K) \in Nat
         /\ Number(Append(h, e), K) = Number(h, K) + (IF e.kind \in K THEN 1 ELSE 0)
<1> DEFINE t == Append(h, e)
           n == Len(h)
           A == {i \in DOMAIN h : h[i].kind \in K}
           B == {i \in DOMAIN t : t[i].kind \in K}
<1>1. /\ n \in Nat /\ DOMAIN h = 1..n /\ DOMAIN t = 1..(n + 1)
      /\ t[n + 1] = e /\ \A i \in 1..n : t[i] = h[i]
  OBVIOUS
<1>2. IsFiniteSet(A)
  <2>1. IsFiniteSet(1..n)
    BY <1>1, FS_Interval
  <2>. QED
    BY <1>1, <2>1, FS_Subset
<1>3. Cardinality(A) \in Nat /\ n + 1 \notin A
  BY <1>1, <1>2, FS_CardinalityType
<1> HIDE DEF t
<1>4. B = A \cup (IF e.kind \in K THEN {n + 1} ELSE {})
  <2>1. \A i \in 1..(n + 1) : i \in 1..n \/ i = n + 1
    BY <1>1
  <2>2. 1..n \subseteq 1..(n + 1) /\ n + 1 \in 1..(n + 1) /\ n + 1 \notin 1..n
    BY <1>1
  <2>. QED
    BY <1>1, <2>1, <2>2
<1>5. Cardinality(A \cup {n + 1}) = Cardinality(A) + 1
  BY <1>2, <1>3, FS_AddElement
<1>6. Number(h, K) = Cardinality(A) /\ Number(t, K) = Cardinality(B)
  BY DEF Number
<1> HIDE DEF A, B, n
<1>7. CASE e.kind \in K
  BY <1>3, <1>4, <1>5, <1>6, <1>7 DEF t
<1>8. CASE e.kind \notin K
  <2>1. B = A
    BY <1>4, <1>8
  <2>. QED
    BY <1>3, <1>6, <1>8, <2>1 DEF t
<1>. QED
  BY <1>7, <1>8

\* And its value is one of the values seen.
LEMMA ValuesAppend ==
  ASSUME NEW h \in Seq(Events), NEW e \in Events, NEW k
  PROVE  Values(Append(h, e), k) = Values(h, k) \cup (IF e.kind = k THEN {e.val} ELSE {})
<1> DEFINE t == Append(h, e)
           n == Len(h)
<1>1. /\ n \in Nat /\ DOMAIN h = 1..n /\ DOMAIN t = 1..(n + 1)
      /\ t[n + 1] = e /\ \A i \in 1..n : t[i] = h[i]
  OBVIOUS
<1>2. /\ \A i \in 1..(n + 1) : i \in 1..n \/ i = n + 1
      /\ 1..n \subseteq 1..(n + 1) /\ n + 1 \in 1..(n + 1)
  BY <1>1
<1> HIDE DEF t, n
<1>3. ASSUME NEW x PROVE x \in Values(t, k) <=> x \in Values(h, k) \/ (e.kind = k /\ x = e.val)
  <2>1. x \in Values(t, k) <=> \E i \in 1..(n + 1) : t[i].kind = k /\ x = t[i].val
    BY <1>1 DEF Values
  <2>2. x \in Values(h, k) <=> \E i \in 1..n : h[i].kind = k /\ x = h[i].val
    BY <1>1 DEF Values
  <2>. QED
    BY <1>1, <1>2, <2>1, <2>2
<1>. QED
  BY <1>3 DEF t

\* Nothing has been said at the start.
LEMMA NothingYet ==
  ASSUME NEW K
  PROVE  Number(<< >>, K) = 0 /\ Values(<< >>, K) = {}
  BY FS_EmptySet DEF Number, Values

\* Every kind of event is one arm of Fold (index.rs:241-307).
Kinds == {"start", "end", "auth", "login", "command", "artifact", "request"}

\* Fold keeps a view a view, dated when it was created; what it does to each field it
\* touches.
LEMMA FoldFields ==
  ASSUME NEW v \in View, NEW e \in Events, total_events \in Nat
  PROVE  /\ Fold(v, e) \in View /\ Fold(v, e).started = v.started
         /\ Fold(v, e).commands = v.commands + (IF e.kind \in {"command"} THEN 1 ELSE 0)
         /\ Fold(v, e).auths = v.auths + (IF e.kind \in {"auth", "login"} THEN 1 ELSE 0)
         /\ Fold(v, e).artifacts = v.artifacts + (IF e.kind \in {"artifact"} THEN 1 ELSE 0)
         /\ Fold(v, e).urls = v.urls \cup (IF e.kind = "artifact" THEN {e.val} ELSE {})
         /\ Fold(v, e).requests = v.requests + (IF e.kind \in {"request"} THEN 1 ELSE 0)
         /\ Fold(v, e).attacks = v.attacks \cup ((IF e.kind = "request" THEN {e.val} ELSE {}) \ {NoVal})
         /\ Fold(v, e).ended = IF e.kind \in {"end"} THEN total_events + 1 ELSE v.ended
         /\ Fold(v, e).src = IF e.kind = "start" THEN e.val ELSE v.src
<1>1. e.val \in Vals /\ total_events + 1 \in Nat
  BY DEF Vals
<1>2. CASE e.kind = "start"
  BY <1>1, <1>2 DEF Fold, View
<1>3. CASE e.kind = "end"
  BY <1>1, <1>3 DEF Fold, View
<1>4. CASE e.kind = "auth"
  BY <1>1, <1>4 DEF Fold, View
<1>5. CASE e.kind = "login"
  <2> DEFINE w == [v EXCEPT !.auths = @ + 1]
  <2>1. Fold(v, e) = [w EXCEPT !.login = e.val]
    BY <1>5 DEF Fold
  <2>2. /\ w \in View /\ w.auths = v.auths + 1
        /\ w.src = v.src /\ w.started = v.started /\ w.ended = v.ended /\ w.login = v.login /\ w.commands = v.commands
        /\ w.artifacts = v.artifacts /\ w.requests = v.requests /\ w.urls = v.urls /\ w.attacks = v.attacks
    BY DEF View
  <2> HIDE DEF w
  <2>3. [w EXCEPT !.login = e.val] \in View
    BY <1>1, <2>2 DEF View
  <2>. QED
    BY <1>5, <2>1, <2>2, <2>3 DEF View
<1>6. CASE e.kind = "command"
  BY <1>1, <1>6 DEF Fold, View
<1>7. CASE e.kind = "artifact"
  <2> DEFINE w == [v EXCEPT !.artifacts = @ + 1]
  <2>1. Fold(v, e) = [w EXCEPT !.urls = @ \cup {e.val}]
    BY <1>7 DEF Fold
  <2>2. /\ w \in View /\ w.artifacts = v.artifacts + 1
        /\ w.src = v.src /\ w.started = v.started /\ w.ended = v.ended /\ w.login = v.login /\ w.commands = v.commands
        /\ w.auths = v.auths /\ w.requests = v.requests /\ w.urls = v.urls /\ w.attacks = v.attacks
    BY DEF View
  <2> HIDE DEF w
  <2>3. [w EXCEPT !.urls = @ \cup {e.val}] \in View
    BY <1>1, <2>2 DEF View
  <2>. QED
    BY <1>7, <2>1, <2>2, <2>3 DEF View
<1>8. CASE e.kind = "request"
  <2> DEFINE w == [v EXCEPT !.requests = @ + 1]
  <2>1. Fold(v, e) = [w EXCEPT !.attacks = @ \cup ({e.val} \ {NoVal})]
    BY <1>8 DEF Fold
  <2>2. /\ w \in View /\ w.requests = v.requests + 1
        /\ w.src = v.src /\ w.started = v.started /\ w.ended = v.ended /\ w.login = v.login /\ w.commands = v.commands
        /\ w.auths = v.auths /\ w.artifacts = v.artifacts /\ w.urls = v.urls /\ w.attacks = v.attacks
    BY DEF View
  <2> HIDE DEF w
  <2>3. [w EXCEPT !.attacks = @ \cup ({e.val} \ {NoVal})] \in View
    BY <1>1, <2>2 DEF View
  <2>. QED
    BY <1>8, <2>1, <2>2, <2>3 DEF View
<1>9. CASE e.kind \notin Kinds
  BY <1>1, <1>9 DEF Fold, Kinds, View
<1>. QED
  BY <1>2, <1>3, <1>4, <1>5, <1>6, <1>7, <1>8, <1>9 DEF Kinds

\* A view that says what its events say still does after one more (index.rs:219).
LEMMA FoldSays ==
  ASSUME NEW v \in View, NEW h \in Seq(Events), NEW e \in Events, total_events \in Nat,
         Says(v, h)
  PROVE  Says(Fold(v, e), Append(h, e))
<1> DEFINE w == Fold(v, e)
           t == Append(h, e)
<1>1. /\ w.commands = v.commands + (IF e.kind \in {"command"} THEN 1 ELSE 0)
      /\ w.auths = v.auths + (IF e.kind \in {"auth", "login"} THEN 1 ELSE 0)
      /\ w.artifacts = v.artifacts + (IF e.kind \in {"artifact"} THEN 1 ELSE 0)
      /\ w.urls = v.urls \cup (IF e.kind = "artifact" THEN {e.val} ELSE {})
      /\ w.requests = v.requests + (IF e.kind \in {"request"} THEN 1 ELSE 0)
      /\ w.attacks = v.attacks \cup ((IF e.kind = "request" THEN {e.val} ELSE {}) \ {NoVal})
      /\ w.ended = IF e.kind \in {"end"} THEN total_events + 1 ELSE v.ended
      /\ w.src = IF e.kind = "start" THEN e.val ELSE v.src
  BY FoldFields
<1>2. \A K : /\ Number(h, K) \in Nat
             /\ Number(t, K) = Number(h, K) + (IF e.kind \in K THEN 1 ELSE 0)
  BY NumberAppend
<1>3. \A k : Values(t, k) = Values(h, k) \cup (IF e.kind = k THEN {e.val} ELSE {})
  BY ValuesAppend
<1> HIDE DEF w, t
<1>4. w.commands = Number(t, {"command"}) /\ w.auths = Number(t, {"auth", "login"})
      /\ w.artifacts = Number(t, {"artifact"}) /\ w.requests = Number(t, {"request"})
  BY <1>1, <1>2 DEF Says
<1>5. w.urls = Values(t, "artifact") /\ w.attacks = Values(t, "request") \ {NoVal}
  BY <1>1, <1>3 DEF Says
<1>6. w.src # NoVal => w.src \in Values(t, "start")
  BY <1>1, <1>3 DEF Says
<1>7. (w.ended # 0) <=> (Number(t, {"end"}) > 0)
  <2>1. CASE e.kind \in {"end"}
    BY <1>1, <1>2, <2>1
  <2>2. CASE e.kind \notin {"end"}
    <3>1. w.ended = v.ended /\ Number(t, {"end"}) = Number(h, {"end"})
      BY <1>1, <1>2, <2>2
    <3>. QED
      BY <3>1 DEF Says
  <2>. QED
    BY <2>1, <2>2
<1>8. Says(w, t)
  BY <1>4, <1>5, <1>6, <1>7 DEF Says
<1>. QED
  BY <1>8 DEF w, t

\* A new view says nothing, like a session of which nothing was heard.
LEMMA NewViewSays ==
  ASSUME total_events \in Nat
  PROVE  NewView \in View /\ Says(NewView, << >>) /\ NewView.started = total_events + 1
<1>1. NewView \in View /\ NewView.started = total_events + 1
  BY DEF NewView, View
<1>2. /\ NewView.commands = 0 /\ NewView.auths = 0 /\ NewView.artifacts = 0
      /\ NewView.requests = 0 /\ NewView.urls = {} /\ NewView.attacks = {}
      /\ NewView.ended = 0 /\ NewView.src = NoVal
  BY DEF NewView
<1>. QED
  BY <1>1, <1>2, NothingYet DEF Says

\* The cap keeps the first events: below it all of them are kept, at it no more are
\* (index.rs:309-312).
LEMMA KeptAppend ==
  ASSUME NEW h \in Seq(Events), NEW ev \in Seq(Events), NEW e \in Events, Kept(ev, h)
  PROVE  /\ Len(ev) < MAX_EVENTS_PER_SESSION => Kept(Append(ev, e), Append(h, e))
         /\ ~(Len(ev) < MAX_EVENTS_PER_SESSION) => Kept(ev, Append(h, e))
<1> DEFINE t == Append(h, e)
           u == Append(ev, e)
<1>1. /\ Len(h) \in Nat /\ Len(t) = Len(h) + 1 /\ t[Len(h) + 1] = e
      /\ \A i \in 1..Len(h) : t[i] = h[i]
  OBVIOUS
<1>2. /\ Len(ev) \in Nat /\ Len(u) = Len(ev) + 1 /\ u[Len(ev) + 1] = e
      /\ \A i \in 1..Len(ev) : u[i] = ev[i]
  OBVIOUS
<1> HIDE DEF t, u
<1>3. ASSUME Len(ev) < MAX_EVENTS_PER_SESSION PROVE Kept(u, t)
  <2>1. Len(ev) = Len(h)
    BY <1>1, <1>2, <1>3, IndexAssumption DEF Kept
  <2>2. ASSUME NEW i \in 1..Len(u) PROVE u[i] = t[i]
    <3>1. CASE i \in 1..Len(ev)
      BY <1>1, <1>2, <2>1, <3>1 DEF Kept
    <3>2. CASE i = Len(ev) + 1
      BY <1>1, <1>2, <2>1, <3>2
    <3>. QED
      BY <1>2, <2>2, <3>1, <3>2
  <2>3. Len(u) \in 1..MAX_EVENTS_PER_SESSION /\ Len(u) = Len(t)
    BY <1>1, <1>2, <1>3, <2>1, IndexAssumption
  <2>. QED
    BY <1>1, <2>2, <2>3 DEF Kept
<1>4. ASSUME ~(Len(ev) < MAX_EVENTS_PER_SESSION) PROVE Kept(ev, t)
  <2>1. Len(ev) = MAX_EVENTS_PER_SESSION /\ Len(ev) <= Len(h)
    BY <1>2, <1>4, IndexAssumption DEF Kept
  <2>2. \A i \in 1..Len(ev) : i \in 1..Len(h)
    BY <1>1, <1>2, <2>1
  <2>3. Len(ev) <= Len(t) /\ Len(ev) \in 1..MAX_EVENTS_PER_SESSION
    BY <1>1, <1>2, <2>1 DEF Kept
  <2>4. \A i \in 1..Len(ev) : ev[i] = t[i]
    BY <1>1, <2>2 DEF Kept
  <2>. QED
    BY <2>1, <2>3, <2>4 DEF Kept
<1>. QED
  BY <1>3, <1>4 DEF t, u

\* The first event of a session is kept.
LEMMA KeptFirst ==
  ASSUME NEW e \in Events
  PROVE  /\ <<e>> \in Seq(Events) /\ Kept(<<e>>, <<e>>) /\ Append(<< >>, e) = <<e>>
         /\ << >> \in Seq(Events)
<1>1. <<e>> \in Seq(Events) /\ << >> \in Seq(Events) /\ Append(<< >>, e) = <<e>> /\ Len(<<e>>) = 1
  OBVIOUS
<1>. QED
  BY <1>1, IndexAssumption DEF Kept
-----------------------------------------------------------------------------
(***************************************************************************)
(* The order of creation, and eviction from its front.                     *)
(***************************************************************************)

\* The order in which the others were created once there is room for e's session.
Kin(e) == IF Victims(e) = {} THEN order ELSE Tail(order)

\* Popping the front makes room for one and removes exactly the oldest session: it is
\* in the order once (index.rs:207-217).
LEMMA MakeRoom ==
  ASSUME Typed, Ordered, NEW e \in Events, ~Known(e)
  PROVE  /\ Kin(e) \in Seq(Sids) /\ Len(Kin(e)) < MAX_SESSIONS
         /\ Elems(Kin(e)) = DOMAIN sessions \ Victims(e) /\ Rising(Kin(e))
         /\ Victims(e) \subseteq DOMAIN sessions
<1>1. order \in Seq(Sids) /\ Len(order) \in Nat /\ DOMAIN order = 1..Len(order)
  BY DEF Typed
<1>2. CASE Len(order) < MAX_SESSIONS
  <2>1. Victims(e) = {}
    BY <1>1, <1>2, IndexAssumption DEF Victims
  <2>. QED
    BY <1>1, <1>2, <2>1 DEF Kin, Ordered
<1>3. CASE ~(Len(order) < MAX_SESSIONS)
  <2> DEFINE t == Tail(order)
             n == Len(order)
  <2>1. n = MAX_SESSIONS /\ n \in Nat \ {0} /\ Victims(e) = {Head(order)}
    <3>0. n <= MAX_SESSIONS /\ n \in Nat /\ ~(n < MAX_SESSIONS)
      BY <1>1, <1>3 DEF Ordered
    <3> HIDE DEF n
    <3>1. n = MAX_SESSIONS /\ n \in Nat \ {0}
      BY <3>0, IndexAssumption
    <3> USE DEF n
    <3>2. Len(order) >= MAX_SESSIONS
      BY <3>1
    <3>. QED
      BY <3>1, <3>2 DEF Victims
  <2>2. /\ t \in Seq(Sids) /\ Len(t) = n - 1 /\ DOMAIN t = 1..(n - 1)
        /\ Head(order) = order[1] /\ \A i \in 1..(n - 1) : t[i] = order[i + 1]
    BY <1>1, <2>1
  <2>3. Kin(e) = t
    BY <2>1 DEF Kin
  <2> HIDE DEF t, n
  <2>4. 1 \in DOMAIN order /\ Head(order) \in DOMAIN sessions
    BY <1>1, <2>1, <2>2 DEF Ordered, Elems, n
  <2>5. \A i \in DOMAIN t : i \in Int /\ i + 1 \in DOMAIN order /\ 1 < i + 1 /\ t[i] = order[i + 1]
    BY <1>1, <2>1, <2>2 DEF n
  <2>6. \A i \in DOMAIN t : t[i] # order[1]
    <3> SUFFICES ASSUME NEW i \in DOMAIN t, t[i] = order[1] PROVE FALSE
      OBVIOUS
    <3>1. sessions[order[1]].started < sessions[order[i + 1]].started
      BY <2>4, <2>5 DEF Ordered, Rising
    <3>2. sessions[order[1]].started \in Nat
      <4>1. sessions[order[1]] \in View
        BY <2>2, <2>4 DEF Typed
      <4>. QED
        BY <4>1 DEF View
    <3>. QED
      BY <2>5, <3>1, <3>2
  <2>7. Elems(t) = DOMAIN sessions \ {Head(order)}
    <3>1. ASSUME NEW i \in DOMAIN order, order[i] # order[1] PROVE order[i] \in Elems(t)
      <4>1. i - 1 \in DOMAIN t /\ (i - 1) + 1 = i
        BY <1>1, <2>1, <2>2, <3>1 DEF n
      <4>. QED
        BY <2>5, <4>1 DEF Elems
    <3>2. Elems(t) \subseteq Elems(order)
      BY <2>5 DEF Elems
    <3>3. order[1] \notin Elems(t)
      BY <2>6 DEF Elems
    <3>4. DOMAIN sessions = {order[i] : i \in DOMAIN order}
      BY DEF Ordered, Elems
    <3>5. DOMAIN sessions \ {order[1]} \subseteq Elems(t)
      BY <3>1, <3>4
    <3>6. Elems(t) \subseteq DOMAIN sessions
      BY <3>2 DEF Ordered
    <3>. QED
      BY <2>2, <3>3, <3>5, <3>6
  <2>8. Rising(t)
    <3> SUFFICES ASSUME NEW i \in DOMAIN t, NEW j \in DOMAIN t, i < j
                 PROVE  sessions[t[i]].started < sessions[t[j]].started
      BY DEF Rising
    <3>1. i + 1 < j + 1
      BY <2>5
    <3>. QED
      BY <2>5, <3>1 DEF Ordered, Rising
  <2>. QED
    BY <2>1, <2>2, <2>3, <2>4, <2>7, <2>8, IndexAssumption DEF n
<1>. QED
  BY <1>2, <1>3

\* Folding an event in: the structures stay in step, the view it belongs to says one
\* event more, and no other view changes.
LEMMA IngestInductive ==
  ASSUME IInv, NEW e \in Events, Ingest(e)
  PROVE  IInv'
<1> DEFINE R == Retained(e)
           old == IF Known(e) THEN sessions[e.sid] ELSE NewView
           heard == IF Known(e) THEN since[e.sid] ELSE << >>
<1>0. /\ e.sid # NoSession /\ total_events' = total_events + 1
      /\ sessions' = [s \in R |-> IF s # e.sid THEN sessions[s] ELSE Fold(old, e)]
      /\ order' = OrderAfter(e) /\ events' = EventsAfter(e)
      /\ since' = [s \in R |-> IF s # e.sid THEN since[s]
                               ELSE IF Known(e) THEN Append(since[s], e) ELSE <<e>>]
  BY DEF Ingest, ViewAfter
<1>1. Typed /\ Ordered /\ total_events \in Nat /\ e.sid \in Sids
  BY <1>0 DEF IInv, Typed, Sids
<1>2. DOMAIN sessions' = R /\ DOMAIN events' = R /\ DOMAIN since' = R
  BY <1>0 DEF EventsAfter
<1>3. e.sid \in R /\ R \ {e.sid} = (DOMAIN sessions \ Victims(e)) \ {e.sid}
  <2>1. e.sid \notin Victims(e)
    <3>1. CASE Known(e)
      BY <3>1 DEF Victims
    <3>2. CASE ~Known(e)
      BY <1>1, <3>2, MakeRoom DEF Known
    <3>. QED
      BY <3>1, <3>2
  <2>. QED
    BY <2>1 DEF Retained
<1>4. \A s \in R : s # e.sid => s \in DOMAIN sessions
  BY <1>3
<1>5. ASSUME NEW s \in R, s # e.sid
      PROVE  sessions'[s] = sessions[s] /\ since'[s] = since[s] /\ events'[s] = events[s]
  BY <1>0, <1>5 DEF EventsAfter
<1>6. /\ old \in View /\ heard \in Seq(Events) /\ Says(old, heard)
      /\ ~Known(e) => old.started = total_events + 1
      /\ Known(e) => old.started <= total_events
  <2>1. CASE Known(e)
    BY <1>1, <2>1 DEF IInv, Typed, Ordered, Dated, Known
  <2>2. CASE ~Known(e)
    <3>1. old = NewView /\ heard = << >>
      BY <2>2
    <3>. QED
      BY <1>1, <2>2, <3>1, NewViewSays, KeptFirst
  <2>. QED
    BY <2>1, <2>2
<1>7. sessions'[e.sid] = Fold(old, e) /\ since'[e.sid] = Append(heard, e)
  <2>1. Append(<< >>, e) = <<e>>
    BY KeptFirst
  <2>. QED
    BY <1>0, <1>3, <2>1
<1> HIDE DEF old, heard, R
<1>8. /\ Fold(old, e) \in View /\ Fold(old, e).started = old.started
      /\ Says(Fold(old, e), Append(heard, e))
  BY <1>1, <1>6, FoldFields, FoldSays
<1>9. Append(heard, e) \in Seq(Events) /\ events'[e.sid] \in Seq(Events)
      /\ Kept(events'[e.sid], Append(heard, e))
  <2>1. CASE Known(e)
    <3>1. heard = since[e.sid] /\ events[e.sid] \in Seq(Events) /\ Kept(events[e.sid], heard)
      BY <2>1 DEF IInv, Typed, Known, heard
    <3>2. events'[e.sid] = IF Len(events[e.sid]) < MAX_EVENTS_PER_SESSION
                           THEN Append(events[e.sid], e) ELSE events[e.sid]
      BY <1>0, <1>3, <2>1 DEF EventsAfter, R
    <3>3. Append(events[e.sid], e) \in Seq(Events) /\ Append(heard, e) \in Seq(Events)
      BY <1>6, <3>1
    <3>. QED
      BY <1>6, <3>1, <3>2, <3>3, KeptAppend
  <2>2. CASE ~Known(e)
    <3>1. events'[e.sid] = <<e>> /\ heard = << >>
      BY <1>0, <1>3, <2>2 DEF EventsAfter, R, heard
    <3>. QED
      BY <3>1, KeptFirst
  <2>. QED
    BY <2>1, <2>2
<1>10. \A s \in R : /\ sessions'[s] \in View /\ since'[s] \in Seq(Events)
                    /\ events'[s] \in Seq(Events)
                    /\ Says(sessions'[s], since'[s]) /\ Kept(events'[s], since'[s])
  <2> SUFFICES ASSUME NEW s \in R
               PROVE  /\ sessions'[s] \in View /\ since'[s] \in Seq(Events)
                      /\ events'[s] \in Seq(Events)
                      /\ Says(sessions'[s], since'[s]) /\ Kept(events'[s], since'[s])
    OBVIOUS
  <2>1. CASE s = e.sid
    BY <1>7, <1>8, <1>9, <2>1
  <2>2. CASE s # e.sid
    BY <1>4, <1>5, <2>2 DEF IInv, Typed
  <2>. QED
    BY <2>1, <2>2
<1>11. Dated'
  <2>1. \A s \in DOMAIN sessions : sessions[s].started \in Nat /\ sessions[s].started <= total_events
    BY <1>1 DEF Typed, Ordered, Dated, View
  <2>2. old.started \in Nat /\ old.started <= total_events + 1
    BY <1>1, <1>6 DEF View
  <2>3. ASSUME NEW s \in R PROVE sessions'[s].started <= total_events + 1
    <3>1. CASE s = e.sid
      BY <1>7, <1>8, <2>2, <3>1
    <3>2. CASE s # e.sid
      BY <1>1, <1>4, <1>5, <2>1, <3>2
    <3>. QED
      BY <3>1, <3>2
  <2>. QED
    BY <1>0, <1>2, <2>3 DEF Dated
<1>12. order' \in Seq(Sids) /\ Len(order') <= MAX_SESSIONS /\ R = Elems(order') /\ Rising(order)'
  <2>1. CASE Known(e)
    <3>1. order' = order /\ R = DOMAIN sessions
      BY <1>0, <2>1 DEF OrderAfter, R, Retained, Victims, Known
    <3>2. \A s \in R : sessions'[s].started = sessions[s].started
      BY <1>5, <1>7, <1>8, <2>1 DEF old
    <3>3. \A i \in DOMAIN order : order[i] \in R
      BY <1>1, <3>1 DEF Ordered, Elems
    <3>4. Rising(order)'
      BY <1>1, <3>1, <3>2, <3>3 DEF Ordered, Rising
    <3>. QED
      BY <1>1, <3>1, <3>4 DEF Ordered, Typed
  <2>2. CASE ~Known(e)
    <3> DEFINE q == Kin(e)
               t == Append(q, e.sid)
               n == Len(q)
    <3>1. /\ q \in Seq(Sids) /\ Len(q) < MAX_SESSIONS /\ Rising(q)
          /\ Elems(q) = DOMAIN sessions \ Victims(e)
      BY <1>1, <2>2, MakeRoom
    <3>2. order' = t
      BY <1>0, <2>2 DEF OrderAfter, Kin
    <3>3. R = Elems(q) \cup {e.sid} /\ e.sid \notin Elems(q)
      BY <1>3, <2>2, <3>1 DEF Known
    <3> HIDE DEF q
    <3>4. /\ n \in Nat /\ t \in Seq(Sids) /\ Len(t) = n + 1 /\ DOMAIN t = 1..(n + 1)
          /\ DOMAIN q = 1..n /\ t[n + 1] = e.sid /\ \A i \in 1..n : t[i] = q[i]
      BY <1>1, <3>1
    <3> HIDE DEF t, n
    <3>5. /\ \A i \in 1..(n + 1) : i \in 1..n \/ i = n + 1
          /\ 1..n \subseteq 1..(n + 1) /\ n + 1 \in 1..(n + 1)
      BY <3>4
    <3>6. Elems(t) = Elems(q) \cup {e.sid}
      <4>1. ASSUME NEW x PROVE x \in Elems(t) <=> x \in Elems(q) \cup {e.sid}
        BY <3>4, <3>5 DEF Elems
      <4>. QED
        BY <4>1
    <3>7. Len(t) <= MAX_SESSIONS
      BY <3>1, <3>4, IndexAssumption DEF n
    <3>8. ASSUME NEW i \in DOMAIN t, NEW j \in DOMAIN t, i < j
          PROVE  sessions'[t[i]].started < sessions'[t[j]].started
      <4>1. i \in 1..n /\ t[i] = q[i] /\ q[i] \in Elems(q)
        BY <3>4, <3>8 DEF Elems
      <4>2. q[i] \in R /\ q[i] # e.sid
        BY <3>3, <4>1
      <4>3. sessions'[t[i]] = sessions[q[i]] /\ q[i] \in DOMAIN sessions
        BY <1>4, <1>5, <4>1, <4>2
      <4>4. CASE j \in 1..n
        <5>1. q[j] \in R /\ q[j] # e.sid /\ t[j] = q[j]
          BY <3>3, <3>4, <4>4 DEF Elems
        <5>2. sessions'[t[j]] = sessions[q[j]]
          BY <1>5, <5>1
        <5>. QED
          BY <3>1, <3>4, <3>8, <4>1, <4>3, <4>4, <5>2 DEF Rising
      <4>5. CASE j = n + 1
        <5>1. sessions'[t[j]].started = total_events + 1
          BY <1>6, <1>7, <1>8, <2>2, <3>4, <4>5
        <5>2. sessions[q[i]].started \in Nat /\ sessions[q[i]].started <= total_events
          BY <1>1, <4>3 DEF Typed, Ordered, Dated, View
        <5>. QED
          BY <1>1, <4>3, <5>1, <5>2
      <4>. QED
        BY <3>4, <3>5, <4>4, <4>5
    <3>9. Rising(order)'
      BY <3>2, <3>8 DEF Rising
    <3>. QED
      BY <3>2, <3>3, <3>4, <3>6, <3>7, <3>9
  <2>. QED
    BY <2>1, <2>2
<1>13. total_events' \in Nat
  BY <1>0, <1>1
<1>. QED
  BY <1>1, <1>2, <1>10, <1>11, <1>12, <1>13 DEF IInv, Typed, Ordered
-----------------------------------------------------------------------------
(***************************************************************************)
(* The index is in step, its views are accurate, and so is its IOC feed.   *)
(***************************************************************************)

\* The index starts empty (index.rs:125-145).
LEMMA InitInductive == Init => IInv
<1> SUFFICES ASSUME Init PROVE IInv
  OBVIOUS
<1>1. /\ DOMAIN sessions = {} /\ DOMAIN events = {} /\ DOMAIN since = {} /\ DOMAIN order = {}
      /\ order = << >> /\ total_events = 0
  BY DEF Init
<1>2. order \in Seq(Sids) /\ Len(order) = 0
  BY <1>1
<1>3. Elems(order) = {}
  BY <1>1 DEF Elems
<1>. QED
  BY <1>1, <1>2, <1>3, IndexAssumption DEF IInv, Typed, Ordered, Rising, Dated

\* An event without a session touches none (index.rs:152-176).
LEMMA NodeTelemetryInductive ==
  ASSUME IInv, NEW e \in Events, NodeTelemetry(e)
  PROVE  IInv'
<1>1. total_events' = total_events + 1 /\ UNCHANGED <<sessions, order, events, since>>
  BY DEF NodeTelemetry
<1>2. Dated'
  <2>1. \A s \in DOMAIN sessions : sessions[s].started \in Nat /\ sessions[s].started <= total_events
    BY DEF IInv, Typed, Ordered, Dated, View
  <2>2. total_events \in Nat
    BY DEF IInv, Typed
  <2>. QED
    BY <1>1, <2>1, <2>2 DEF Dated
<1>3. Rising(order)'
  BY <1>1 DEF IInv, Ordered, Rising
<1>. QED
  BY <1>1, <1>2, <1>3 DEF IInv, Typed, Ordered

\* A profile marks views and counts nothing (index.rs:402-411).
LEMMA ApplyProfileInductive ==
  ASSUME IInv, NEW named, ApplyProfile(named)
  PROVE  IInv'
<1>1. /\ UNCHANGED <<order, events, total_events, since>>
      /\ sessions' = [s \in DOMAIN sessions |-> [sessions[s] EXCEPT !.profiled = @ \/ s \in named]]
  BY DEF ApplyProfile
<1>2. DOMAIN sessions' = DOMAIN sessions
  BY <1>1
<1>3. ASSUME NEW s \in DOMAIN sessions
      PROVE  /\ sessions'[s] \in View /\ sessions'[s].started = sessions[s].started
             /\ Says(sessions'[s], since[s])
  <2> DEFINE v == sessions[s]
             p == v.profiled \/ s \in named
             w == [v EXCEPT !.profiled = p]
  <2>1. v \in View /\ Says(v, since[s])
    BY DEF IInv, Typed
  <2>2. sessions'[s] = w
    BY <1>1
  <2>3. p \in BOOLEAN
    OBVIOUS
  <2> HIDE DEF v, p
  <2>4. /\ w \in View /\ w.started = v.started /\ w.commands = v.commands /\ w.auths = v.auths
        /\ w.artifacts = v.artifacts /\ w.urls = v.urls /\ w.requests = v.requests
        /\ w.attacks = v.attacks /\ w.ended = v.ended /\ w.src = v.src
    BY <2>1, <2>3 DEF View
  <2> HIDE DEF w
  <2>5. Says(w, since[s])
    BY <2>1, <2>4 DEF Says
  <2>. QED
    BY <2>2, <2>4, <2>5 DEF v
<1>4. Dated' /\ Rising(order)'
  <2>1. \A i \in DOMAIN order : order[i] \in DOMAIN sessions
    BY DEF IInv, Ordered, Elems
  <2>2. Dated'
    BY <1>1, <1>2, <1>3 DEF IInv, Ordered, Dated
  <2>3. Rising(order)'
    BY <1>1, <1>3, <2>1 DEF IInv, Ordered, Rising
  <2>. QED
    BY <2>2, <2>3
<1>5. Typed'
  BY <1>1, <1>2, <1>3 DEF IInv, Typed
<1>6. Ordered'
  BY <1>1, <1>2, <1>4 DEF IInv, Ordered
<1>. QED
  BY <1>1, <1>2, <1>3, <1>5, <1>6 DEF IInv

\* The invariant holds of every state of the index.
LEMMA IndexInductive == Spec => []IInv
<1>1. IInv /\ [Next]_vars => IInv'
  <2> SUFFICES ASSUME IInv, [Next]_vars PROVE IInv'
    OBVIOUS
  <2>1. CASE UNCHANGED vars
    BY <2>1 DEF vars, IInv, Typed, Ordered, Rising, Dated
  <2>2. ASSUME NEW e \in Events, Ingest(e) PROVE IInv'
    BY <2>2, IngestInductive
  <2>3. ASSUME NEW e \in Events, NodeTelemetry(e) PROVE IInv'
    BY <2>3, NodeTelemetryInductive
  <2>4. ASSUME NEW named \in SUBSET Sids, ApplyProfile(named) PROVE IInv'
    BY <2>4, ApplyProfileInductive
  <2>. QED
    BY <2>1, <2>2, <2>3, <2>4 DEF Next
<1>. QED
  BY <1>1, InitInductive, PTL DEF Spec

\* index.rs: sessions, order and events stay in step through every eviction and
\* re-creation, however many sessions, events and deliveries there are.
THEOREM IndexInStep == Spec => []InStep
<1>1. IInv => InStep
  BY DEF IInv, Typed, Ordered, Rising, Elems, Kept, InStep
<1>. QED
  BY <1>1, IndexInductive, PTL

\* The kept events are a beginning of the session's.
LEMMA KeptIsPrefix ==
  ASSUME NEW h \in Seq(Events), NEW ev \in Seq(Events), Kept(ev, h)
  PROVE  ev = SubSeq(h, 1, Len(ev))
<1> DEFINE p == SubSeq(h, 1, Len(ev))
<1>1. Len(ev) \in Nat /\ Len(h) \in Nat /\ Len(ev) <= Len(h) /\ 1 <= Len(ev)
  BY IndexAssumption DEF Kept
<1>2. \A i \in 1..Len(ev) : h[i] \in Events
  BY <1>1
<1>3. p \in Seq(Events) /\ Len(p) = Len(ev) /\ \A i \in 1..Len(ev) : p[i] = h[i]
  <2>1. /\ p \in Seq(Events)
        /\ Len(p) = IF 1 <= Len(ev) THEN Len(ev) - 1 + 1 ELSE 0
        /\ \A i \in 1..(Len(ev) - 1 + 1) : p[i] = h[1 + i - 1]
    BY <1>1, <1>2, SubSeqProperties
  <2>2. Len(ev) - 1 + 1 = Len(ev) /\ \A i \in 1..Len(ev) : 1 + i - 1 = i
    BY <1>1
  <2> HIDE DEF p
  <2>. QED
    BY <1>1, <2>1, <2>2
<1> HIDE DEF p
<1>4. \A i \in 1..Len(ev) : ev[i] = p[i]
  BY <1>3 DEF Kept
<1>5. ev = p
  BY <1>3, <1>4, SeqEqual
<1>. QED
  BY <1>5 DEF p

\* index.rs:219 "a session that hits the per-session event cap still has accurate
\* counters": a view counts all the events of its session since it was created, and
\* what is kept of them is their beginning.
THEOREM IndexViewsAccurate == Spec => []ViewsAccurate
<1>1. ASSUME IInv PROVE ViewsAccurate
  <2> SUFFICES ASSUME NEW s \in DOMAIN sessions
               PROVE  /\ Says(sessions[s], since[s])
                      /\ events[s] = SubSeq(since[s], 1, Len(events[s]))
                      /\ Len(events[s]) < Len(since[s]) => Len(events[s]) = MAX_EVENTS_PER_SESSION
    <3>1. ASSUME NEW v, NEW h PROVE Says(v, h) => ((v.ended # 0) = (Number(h, {"end"}) > 0))
      BY DEF Says
    <3>. QED
      BY <3>1 DEF ViewsAccurate, Says
  <2>1. /\ since[s] \in Seq(Events) /\ events[s] \in Seq(Events)
        /\ Says(sessions[s], since[s]) /\ Kept(events[s], since[s])
    BY <1>1 DEF IInv, Typed
  <2>. QED
    BY <2>1, KeptIsPrefix DEF Kept
<1>. QED
  BY <1>1, IndexInductive, PTL

\* More kinds are not fewer events.
LEMMA NumberGrows ==
  ASSUME NEW h \in Seq(Events), NEW K, NEW L, K \subseteq L, Number(h, K) > 0
  PROVE  Number(h, L) > 0
<1> DEFINE A == {i \in DOMAIN h : h[i].kind \in K}
           B == {i \in DOMAIN h : h[i].kind \in L}
<1>1. A \subseteq B
  OBVIOUS
<1>2. IsFiniteSet(B)
  <2>1. DOMAIN h = 1..Len(h) /\ Len(h) \in Nat
    OBVIOUS
  <2>2. IsFiniteSet(1..Len(h)) /\ B \subseteq 1..Len(h)
    BY <2>1, FS_Interval
  <2>. QED
    BY <2>2, FS_Subset
<1> HIDE DEF A, B
<1>3. Cardinality(A) \in Nat /\ Cardinality(B) \in Nat /\ Cardinality(A) <= Cardinality(B)
  BY <1>1, <1>2, FS_Subset, FS_CardinalityType
<1>4. Number(h, K) = Cardinality(A) /\ Number(h, L) = Cardinality(B)
  BY DEF Number, A, B
<1>. QED
  BY <1>3, <1>4

\* api.rs:175 "Only sources that did something beyond spraying are published": every
\* address in the IOC feed is that of a session that ran a command, fetched an artifact
\* or sent an attack, whatever was evicted meanwhile.
THEOREM IndexFeedJustified == Spec => []FeedJustified
<1>1. ASSUME IInv PROVE FeedJustified
  <2> SUFFICES ASSUME NEW ip \in SourceIocs \ {NoVal}
               PROVE  \E s \in DOMAIN sessions :
                        /\ ip \in Values(since[s], "start")
                        /\ \/ Number(since[s], {"command", "artifact"}) > 0
                           \/ Values(since[s], "request") \ {NoVal} # {}
    BY DEF FeedJustified
  <2>1. PICK s \in DOMAIN sessions :
          /\ ip = sessions[s].src
          /\ sessions[s].commands > 0 \/ sessions[s].artifacts > 0 \/ sessions[s].attacks # {}
    BY DEF SourceIocs
  <2>2. since[s] \in Seq(Events) /\ Says(sessions[s], since[s])
    BY <1>1 DEF IInv, Typed
  <2>3. ip \in Values(since[s], "start")
    BY <2>1, <2>2 DEF Says
  <2>4. CASE sessions[s].commands > 0
    <3>1. Number(since[s], {"command"}) > 0 /\ {"command"} \subseteq {"command", "artifact"}
      BY <2>2, <2>4 DEF Says
    <3>2. Number(since[s], {"command", "artifact"}) > 0
      BY <2>2, <3>1, NumberGrows
    <3>. QED
      BY <2>3, <3>2
  <2>5. CASE sessions[s].artifacts > 0
    <3>1. Number(since[s], {"artifact"}) > 0 /\ {"artifact"} \subseteq {"command", "artifact"}
      BY <2>2, <2>5 DEF Says
    <3>2. Number(since[s], {"command", "artifact"}) > 0
      BY <2>2, <3>1, NumberGrows
    <3>. QED
      BY <2>3, <3>2
  <2>6. CASE sessions[s].attacks # {}
    BY <2>2, <2>3, <2>6 DEF Says
  <2>. QED
    BY <2>1, <2>4, <2>5, <2>6
<1>. QED
  BY <1>1, IndexInductive, PTL
=============================================================================
