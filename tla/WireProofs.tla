----------------------------- MODULE WireProofs -----------------------------
(***************************************************************************)
(* Proofs about the parsers that read what a client sends, however the     *)
(* network cuts it: the RDP listener, for any number of connections and    *)
(* sources, any requests and a shutdown at any point; telnetConn.Read with *)
(* its callers, the login prompts and Shell.readLine, for any keyboard,    *)
(* any segments and an end of the connection anywhere; and shell.Parse on  *)
(* every line those hand to it.                                            *)
(***************************************************************************)
EXTENDS Rdp, CommandLine, SequenceTheorems, FiniteSetTheorems, WellFoundedInduction, TLAPS

\* A set of numbers has a least one: the induction the loops of the parser need.
LEMMA NatMin ==
  ASSUME NEW T, T \subseteq Nat, T # {}
  PROVE  \E m \in T : \A k \in T : m <= k
<1>1. PICK m \in T : \A k \in T : ~(<<k, m>> \in OpToRel(<, Nat))
  BY WFMin, NatLessThanWellFounded
<1>2. \A k \in T : ~(k < m)
  BY <1>1 DEF OpToRel
<1>3. \A k \in T : m \in Nat /\ k \in Nat
  OBVIOUS
<1>. QED
  BY <1>2, <1>3

\* The symbols of a sequence made of two.
LEMMA Joined ==
  ASSUME NEW S, NEW s \in Seq(S), NEW t \in Seq(S)
  PROVE  /\ s \o t \in Seq(S) /\ Len(s) \in Nat /\ Len(t) \in Nat /\ Len(s \o t) = Len(s) + Len(t)
         /\ \A i \in 1..Len(s) : (s \o t)[i] = s[i]
         /\ \A i \in 1..Len(t) : (s \o t)[Len(s) + i] = t[i]
<1> DEFINE u == s \o t
<1>1. u \in Seq(S) /\ Len(u) = Len(s) + Len(t)
  BY ConcatProperties
<1>2. \A i \in 1..(Len(s) + Len(t)) : u[i] = IF i <= Len(s) THEN s[i] ELSE t[i - Len(s)]
  BY ConcatProperties
<1>3. Len(s) \in Nat /\ Len(t) \in Nat
  OBVIOUS
<1> HIDE DEF u
<1>4. \A i \in 1..Len(s) : u[i] = s[i]
  BY <1>2, <1>3
<1>5. ASSUME NEW i \in 1..Len(t) PROVE u[Len(s) + i] = t[i]
  <2>1. Len(s) + i \in 1..(Len(s) + Len(t)) /\ ~(Len(s) + i <= Len(s)) /\ (Len(s) + i) - Len(s) = i
    BY <1>3
  <2>. QED
    BY <1>2, <2>1
<1>. QED
  BY <1>1, <1>3, <1>4, <1>5 DEF u
-----------------------------------------------------------------------------
(* The RDP listener *)

Points == {"new", "first", "start", "connect", "second", "end", "release", "closed", "gone"}

\* The events are those of the story, as far as it is told, and no other.
Told(h, story) == Len(h) = Len(story) /\ \A i \in DOMAIN h : h[i].kind = story[i]

\* What has been recorded by the time the handler is at a point.  A connect, and the
\* client after it, may be lost, and a process that exits leaves what there was.
Stories(p) ==
  CASE p \in {"new", "first", "start"} -> { << >> }
    [] p = "connect" -> { <<"start">> }
    [] p = "second"  -> { <<"start", "connect">>, <<"start">> }
    [] p = "end"     -> { <<"start", "connect">>, <<"start", "connect", "client">>,
                          <<"start">>, <<"start", "client">> }
    [] p \in {"release", "closed"} ->
         { << >>, <<"start", "connect", "end">>, <<"start", "connect", "client", "end">>,
           <<"start", "end">>, <<"start", "client", "end">> }
    [] OTHER ->
         { << >>, <<"start">>, <<"start", "connect">>, <<"start", "connect", "client">>,
           <<"start", "connect", "end">>, <<"start", "connect", "client", "end">>,
           <<"start", "client">>, <<"start", "end">>, <<"start", "client", "end">> }

Typed ==
  /\ pc \in [Conns -> Points]
  /\ DOMAIN log = Conns
  /\ \A c \in Conns : \E S : log[c] \in Seq(S)

Scripted == \A c \in Conns : \E story \in Stories(pc[c]) : Told(log[c], story)

IInv == Typed /\ Scripted
-----------------------------------------------------------------------------
(* Records *)

\* A recorder only appends (session/recorder.go emit): what was told stays, and the new
\* event comes after it.
LEMMA AppendTells ==
  ASSUME NEW h, \E S : h \in Seq(S), NEW e
  PROVE  /\ \E S : Append(h, e) \in Seq(S)
         /\ Len(h) \in Nat /\ Len(Append(h, e)) = Len(h) + 1
         /\ DOMAIN h = 1..Len(h) /\ DOMAIN Append(h, e) = 1..(Len(h) + 1)
         /\ Append(h, e)[Len(h) + 1] = e
         /\ \A i \in 1..Len(h) : Append(h, e)[i] = h[i]
<1>1. PICK S : h \in Seq(S)
  OBVIOUS
<1>2. h \in Seq(S \cup {e}) /\ e \in S \cup {e}
  BY <1>1, SeqMonotonic
<1>. QED
  BY <1>2

\* The stories of handle, one event longer.
LEMMA NextInStory ==
  ASSUME NEW h, \E S : h \in Seq(S), NEW e
  PROVE  /\ Told(h, << >>) /\ e.kind = "start" => Told(Append(h, e), <<"start">>)
         /\ Told(h, <<"start">>) /\ e.kind = "connect"
              => Told(Append(h, e), <<"start", "connect">>)
         /\ Told(h, <<"start", "connect">>) /\ e.kind = "client"
              => Told(Append(h, e), <<"start", "connect", "client">>)
         /\ Told(h, <<"start", "connect">>) /\ e.kind = "end"
              => Told(Append(h, e), <<"start", "connect", "end">>)
         /\ Told(h, <<"start", "connect", "client">>) /\ e.kind = "end"
              => Told(Append(h, e), <<"start", "connect", "client", "end">>)
         /\ Told(h, <<"start">>) /\ e.kind = "client" => Told(Append(h, e), <<"start", "client">>)
         /\ Told(h, <<"start">>) /\ e.kind = "end" => Told(Append(h, e), <<"start", "end">>)
         /\ Told(h, <<"start", "client">>) /\ e.kind = "end"
              => Told(Append(h, e), <<"start", "client", "end">>)
<1> DEFINE t == Append(h, e)
<1>1. /\ Len(h) \in Nat /\ Len(t) = Len(h) + 1
      /\ DOMAIN h = 1..Len(h) /\ DOMAIN t = 1..(Len(h) + 1)
      /\ t[Len(h) + 1] = e /\ \A i \in 1..Len(h) : t[i] = h[i]
  BY AppendTells
<1> HIDE DEF t
<1>2. Told(h, << >>) /\ e.kind = "start" => Told(t, <<"start">>)
  BY <1>1 DEF Told
<1>3. Told(h, <<"start">>) /\ e.kind = "connect" => Told(t, <<"start", "connect">>)
  BY <1>1 DEF Told
<1>4. Told(h, <<"start", "connect">>) /\ e.kind = "client"
        => Told(t, <<"start", "connect", "client">>)
  BY <1>1 DEF Told
<1>5. Told(h, <<"start", "connect">>) /\ e.kind = "end"
        => Told(t, <<"start", "connect", "end">>)
  BY <1>1 DEF Told
<1>6. Told(h, <<"start", "connect", "client">>) /\ e.kind = "end"
        => Told(t, <<"start", "connect", "client", "end">>)
  BY <1>1 DEF Told
<1>7. Told(h, <<"start">>) /\ e.kind = "client" => Told(t, <<"start", "client">>)
  BY <1>1 DEF Told
<1>8. Told(h, <<"start">>) /\ e.kind = "end" => Told(t, <<"start", "end">>)
  BY <1>1 DEF Told
<1>9. Told(h, <<"start", "client">>) /\ e.kind = "end" => Told(t, <<"start", "client", "end">>)
  BY <1>1 DEF Told
<1>. QED
  BY <1>2, <1>3, <1>4, <1>5, <1>6, <1>7, <1>8, <1>9 DEF t
-----------------------------------------------------------------------------
(* The handler *)

\* Where a handler is decides what it has recorded; the others are not touched.
LEMMA OnlyOne ==
  ASSUME IInv, NEW c \in Conns, NEW p \in Points, NEW h, NEW story \in Stories(p),
         pc' = [pc EXCEPT ![c] = p], log' = [log EXCEPT ![c] = h],
         \E S : h \in Seq(S), Told(h, story)
  PROVE  IInv'
<1>1. pc' \in [Conns -> Points] /\ DOMAIN log' = Conns
      /\ pc'[c] = p /\ log'[c] = h
      /\ \A d \in Conns \ {c} : pc'[d] = pc[d] /\ log'[d] = log[d]
  BY DEF IInv, Typed
<1>2. \A d \in Conns : \E S : log'[d] \in Seq(S)
  BY <1>1 DEF IInv, Typed
<1>3. \A d \in Conns : \E s \in Stories(pc'[d]) : Told(log'[d], s)
  BY <1>1 DEF IInv, Scripted
<1>. QED
  BY <1>1, <1>2, <1>3 DEF IInv, Typed, Scripted

\* A step of handle that records nothing.
LEMMA Silent ==
  ASSUME IInv, NEW c \in Conns, NEW p \in Points, pc' = [pc EXCEPT ![c] = p],
         Stories(pc[c]) \subseteq Stories(p), UNCHANGED log
  PROVE  IInv'
<1>1. pc' \in [Conns -> Points] /\ pc'[c] = p /\ \A d \in Conns \ {c} : pc'[d] = pc[d]
  BY DEF IInv, Typed
<1>2. \A d \in Conns : \E s \in Stories(pc'[d]) : Told(log[d], s)
  BY <1>1 DEF IInv, Scripted
<1>. QED
  BY <1>1, <1>2 DEF IInv, Typed, Scripted

\* emit: the record is appended, or it does not marshal and is lost.
Appended(c, e) == log' = [log EXCEPT ![c] = Append(log[c], e)]
Dropped(c) == log' = [log EXCEPT ![c] = log[c]]

\* recorder.go emit, spool.go Append: a record is lost only for a text that is not valid.
LEMMA EmitOutcomes ==
  ASSUME NEW c \in Conns, NEW e, NEW texts, DOMAIN log = Conns, Emit(c, e, texts)
  PROVE  \/ Appended(c, e) /\ \A t \in texts : Valid(t)
         \/ Dropped(c) /\ ~\A t \in texts : Valid(t)
<1>1. CASE \A t \in texts : Valid(t)
  BY <1>1 DEF Emit, Appended
<1>2. CASE ~\A t \in texts : Valid(t)
  BY <1>2 DEF Emit, Dropped
<1>. QED
  BY <1>1, <1>2

\* A record without texts is not lost.
LEMMA EmitBare ==
  ASSUME NEW c \in Conns, NEW e, DOMAIN log = Conns, Emit(c, e, {})
  PROVE  Appended(c, e)
BY EmitOutcomes

\* A step of handle that records one event.
LEMMA Recorded ==
  ASSUME IInv, NEW c \in Conns, NEW p \in Points, NEW e, pc' = [pc EXCEPT ![c] = p],
         Appended(c, e),
         \/ pc[c] = "start" /\ p = "connect" /\ e.kind = "start"
         \/ pc[c] = "connect" /\ p = "second" /\ e.kind = "connect"
         \/ pc[c] = "second" /\ p = "end" /\ e.kind = "client"
         \/ pc[c] = "end" /\ p = "release" /\ e.kind = "end"
  PROVE  IInv'
<1> DEFINE h == log[c]
           t == Append(log[c], e)
<1>1. log' = [log EXCEPT ![c] = t]
  BY DEF Appended
<1>2. \E S : t \in Seq(S)
  BY AppendTells DEF IInv, Typed
<1>3. PICK old \in Stories(pc[c]) : Told(h, old)
  BY DEF IInv, Scripted
<1>4. \E S : h \in Seq(S)
  BY DEF IInv, Typed
<1> HIDE DEF h
<1>5. t = Append(h, e)
  BY DEF h
<1> HIDE DEF t
<1>6. \E story \in Stories(p) : Told(t, story)
  <2>1. CASE pc[c] = "start" /\ p = "connect" /\ e.kind = "start"
    BY <1>3, <1>4, <1>5, <2>1, NextInStory DEF Stories
  <2>2. CASE pc[c] = "connect" /\ p = "second" /\ e.kind = "connect"
    BY <1>3, <1>4, <1>5, <2>2, NextInStory DEF Stories
  <2>3. CASE pc[c] = "second" /\ p = "end" /\ e.kind = "client"
    BY <1>3, <1>4, <1>5, <2>3, NextInStory DEF Stories
  <2>4. CASE pc[c] = "end" /\ p = "release" /\ e.kind = "end"
    BY <1>3, <1>4, <1>5, <2>4, NextInStory DEF Stories
  <2>. QED
    BY <2>1, <2>2, <2>3, <2>4
<1>. QED
  BY <1>1, <1>2, <1>6, OnlyOne

\* A step of handle that loses its event.
LEMMA Unrecorded ==
  ASSUME IInv, NEW c \in Conns, NEW p \in Points, pc' = [pc EXCEPT ![c] = p],
         Dropped(c), Stories(pc[c]) \subseteq Stories(p)
  PROVE  IInv'
<1> DEFINE h == log[c]
<1>1. log' = [log EXCEPT ![c] = h]
  BY DEF Dropped
<1>2. \E S : h \in Seq(S)
  BY DEF IInv, Typed
<1>3. \E story \in Stories(p) : Told(h, story)
  BY DEF IInv, Scripted
<1> HIDE DEF h
<1>. QED
  BY <1>1, <1>2, <1>3, OnlyOne

\* The invariant holds of every state of the listener.
LEMMA RdpInductive == Spec => []IInv
<1>1. Init => IInv
  <2>1. SUFFICES ASSUME Init PROVE IInv
    OBVIOUS
  <2>2. pc \in [Conns -> Points] /\ DOMAIN log = Conns
        /\ \A c \in Conns : pc[c] = "new" /\ log[c] = << >>
    BY <2>1 DEF Init, Points
  <2>3. << >> \in Seq({}) /\ Told(<< >>, << >>)
    BY DEF Told
  <2>. QED
    BY <2>2, <2>3 DEF IInv, Typed, Scripted, Stories
<1>2. IInv /\ [Next]_vars => IInv'
  <2> SUFFICES ASSUME IInv, [Next]_vars PROVE IInv'
    OBVIOUS
  <2>1. CASE UNCHANGED vars
    BY <2>1 DEF vars, IInv, Typed, Scripted
  <2>2. ASSUME NEW c \in Conns, Accept(c) \/ Refuse(c) PROVE IInv'
    BY <2>2, Silent DEF Accept, Refuse, Step, Points, Stories
  <2>3. ASSUME NEW c \in Conns, ReadFirst(c) \/ FirstFails(c) PROVE IInv'
    BY <2>3, Silent DEF ReadFirst, FirstFails, Step, Points, Stories
  <2>4. ASSUME NEW c \in Conns, SecondFails(c) \/ Release(c) PROVE IInv'
    BY <2>4, Silent DEF SecondFails, Release, Step, Points, Stories
  <2>5. ASSUME NEW c \in Conns, SessionStart(c) PROVE IInv'
    <3>1. PICK e : e.kind = "start" /\ Emit(c, e, {})
      BY <2>5 DEF SessionStart
    <3>2. Appended(c, e)
      BY <3>1, EmitBare DEF IInv, Typed
    <3>. QED
      BY <2>5, <3>1, <3>2, Recorded DEF SessionStart, Step, Points
  <2>6. ASSUME NEW c \in Conns, Connect(c) PROVE IInv'
    <3>1. PICK e, texts : e.kind = "connect" /\ Emit(c, e, texts)
      BY <2>6 DEF Connect
    <3>2. pc[c] = "connect" /\ pc' = [pc EXCEPT ![c] = "second"]
      BY <2>6 DEF Connect, Step
    <3>3. Appended(c, e) \/ Dropped(c)
      BY <3>1, EmitOutcomes DEF IInv, Typed
    <3>4. CASE Appended(c, e)
      BY <3>1, <3>2, <3>4, Recorded DEF Points
    <3>5. CASE Dropped(c)
      BY <3>2, <3>5, Unrecorded DEF Points, Stories
    <3>. QED
      BY <3>3, <3>4, <3>5
  <2>7. ASSUME NEW c \in Conns, SessionEnd(c) PROVE IInv'
    <3>1. PICK e : e.kind = "end" /\ Emit(c, e, {})
      BY <2>7 DEF SessionEnd
    <3>2. Appended(c, e)
      BY <3>1, EmitBare DEF IInv, Typed
    <3>. QED
      BY <2>7, <3>1, <3>2, Recorded DEF SessionEnd, Step, Points
  <2>8. ASSUME NEW c \in Conns, ReadSecond(c) PROVE IInv'
    <3>1. pc[c] = "second" /\ pc' = [pc EXCEPT ![c] = "end"]
      BY <2>8 DEF ReadSecond, Step
    <3>2. UNCHANGED log \/ \E e, texts : e.kind = "client" /\ Emit(c, e, texts)
      BY <2>8 DEF ReadSecond
    <3>3. CASE UNCHANGED log
      BY <3>1, <3>3, Silent DEF Points, Stories
    <3>4. ASSUME NEW e, NEW texts, e.kind = "client", Emit(c, e, texts) PROVE IInv'
      <4>1. Appended(c, e) \/ Dropped(c)
        BY <3>4, EmitOutcomes DEF IInv, Typed
      <4>2. CASE Appended(c, e)
        BY <3>1, <3>4, <4>2, Recorded DEF Points
      <4>3. CASE Dropped(c)
        BY <3>1, <4>3, Unrecorded DEF Points, Stories
      <4>. QED
        BY <4>1, <4>2, <4>3
    <3>. QED
      BY <3>2, <3>3, <3>4
  <2>9. CASE Shutdown
    BY <2>9 DEF Shutdown, IInv, Typed, Scripted
  <2>10. CASE Exit
    <3>1. pc' = [c \in Conns |-> "gone"] /\ UNCHANGED log
      BY <2>10 DEF Exit
    <3>2. \A c \in Conns : Stories(pc[c]) \subseteq Stories("gone")
      BY DEF IInv, Typed, Points, Stories
    <3>3. \A c \in Conns : \E story \in Stories(pc'[c]) : Told(log[c], story)
      BY <3>1, <3>2 DEF IInv, Scripted
    <3>. QED
      BY <3>1, <3>3 DEF IInv, Typed, Scripted, Points
  <2>. QED
    BY <2>1, <2>2, <2>3, <2>4, <2>5, <2>6, <2>7, <2>8, <2>9, <2>10 DEF Next, Recording
<1>. QED
  BY <1>1, <1>2, PTL DEF Spec
-----------------------------------------------------------------------------
(* The places of the RDP listener *)

\* Where handle is between acquire and the deferred release.
Held == {"first", "start", "connect", "second", "end", "release"}

\* The handlers of a source that hold a place.
Inside(ip) == {c \in Conns : Ip[c] = ip /\ pc[c] \in Held}

\* The count of a source is the number of its handlers, and within its limit.
PlacesOf(ip) ==
  /\ IsFiniteSet(Inside(ip)) /\ perIP[ip] = Cardinality(Inside(ip))
  /\ MaxSessionsPerIP # 0 => perIP[ip] <= MaxSessionsPerIP

\* acquire and release: as long as the process lives.
PlacesExact ==
  \/ pc = [c \in Conns |-> "gone"]
  \/ \A ip \in {Ip[c] : c \in Conns} : PlacesOf(ip)

\* Every state has a place in handle for every connection, and a count for every source.
PlacesTyped ==
  /\ pc \in [Conns -> Points]
  /\ DOMAIN perIP = {Ip[c] : c \in Conns}

\* The counts, with their types.
PlacesInv == PlacesTyped /\ PlacesExact

\* handle, elsewhere: who has a place keeps it, and who has none does not get one.
LEMMA PlacesKept ==
  ASSUME PlacesInv, NEW c \in Conns, NEW to \in Held \cup {"closed"},
         pc[c] # "gone", pc[c] \in Held <=> to \in Held,
         pc' = [pc EXCEPT ![c] = to], perIP' = perIP
  PROVE  PlacesInv'
<1>1. PlacesTyped'
  BY DEF PlacesInv, PlacesTyped, Held, Points
<1>2. \A ip : Inside(ip)' = Inside(ip)
  BY DEF PlacesInv, PlacesTyped, Held, Inside
<1>3. \A ip \in {Ip[d] : d \in Conns} : PlacesOf(ip)
  BY DEF PlacesInv, PlacesTyped, PlacesExact
<1>4. ASSUME NEW ip \in {Ip[d] : d \in Conns}
      PROVE  PlacesOf(ip)'
  <2>1. Inside(ip)' = Inside(ip)
    BY <1>2
  <2>2. PlacesOf(ip)
    BY <1>3
  <2>. QED
    BY <2>1, <2>2 DEF PlacesOf
<1>. QED
  BY <1>1, <1>4 DEF PlacesInv, PlacesExact

\* acquire: one handler more, if there is room.
LEMMA PlaceTaken ==
  ASSUME PlacesInv, NEW c \in Conns, pc[c] = "new", MayAcquire(Ip[c]),
         pc' = [pc EXCEPT ![c] = "first"], perIP' = [perIP EXCEPT ![Ip[c]] = @ + 1]
  PROVE  PlacesInv'
<1>1. PlacesTyped'
  BY DEF PlacesInv, PlacesTyped, Held, Points
<1>2. \A ip : ip # Ip[c] => Inside(ip)' = Inside(ip)
  BY DEF PlacesInv, PlacesTyped, Held, Inside
<1>3. Inside(Ip[c])' = Inside(Ip[c]) \cup {c} /\ c \notin Inside(Ip[c])
  BY DEF PlacesInv, PlacesTyped, Held, Inside
<1>4. \A ip \in {Ip[d] : d \in Conns} : PlacesOf(ip)
  BY DEF PlacesInv, PlacesTyped, PlacesExact
<1>5. ASSUME NEW ip \in {Ip[d] : d \in Conns}
      PROVE  PlacesOf(ip)'
  <2>1. PlacesOf(ip)
    BY <1>4
  <2>2. CASE ip # Ip[c]
    <3>1. Inside(ip)' = Inside(ip) /\ perIP'[ip] = perIP[ip]
      BY <1>2, <2>2 DEF PlacesInv, PlacesTyped
    <3>. QED
      BY <2>1, <3>1 DEF PlacesOf
  <2>3. CASE ip = Ip[c]
    <3>1. IsFiniteSet(Inside(ip)) /\ perIP[ip] = Cardinality(Inside(ip))
      BY <2>1 DEF PlacesOf
    <3>2. IsFiniteSet(Inside(ip)') /\ Cardinality(Inside(ip)') = Cardinality(Inside(ip)) + 1
      BY <1>3, <2>3, <3>1, FS_AddElement
    <3>3. perIP'[ip] = perIP[ip] + 1
      BY <2>3 DEF PlacesInv, PlacesTyped
    <3>4. Cardinality(Inside(ip)) \in Nat
      BY <3>1, FS_CardinalityType
    <3>5. MaxSessionsPerIP = 0 \/ perIP[ip] < MaxSessionsPerIP
      BY <2>3 DEF MayAcquire
    <3>6. MaxSessionsPerIP # 0 => perIP'[ip] <= MaxSessionsPerIP
      BY <3>1, <3>3, <3>4, <3>5, RdpAssumption
    <3>. QED
      BY <3>1, <3>2, <3>3, <3>6 DEF PlacesOf
  <2>. QED
    BY <2>2, <2>3
<1>. QED
  BY <1>1, <1>5 DEF PlacesInv, PlacesExact

\* release: one handler less, and never one that had no place.
LEMMA PlaceReturned ==
  ASSUME PlacesInv, NEW c \in Conns, pc[c] = "release",
         pc' = [pc EXCEPT ![c] = "closed"], perIP' = [perIP EXCEPT ![Ip[c]] = @ - 1]
  PROVE  PlacesInv'
<1>1. PlacesTyped'
  BY DEF PlacesInv, PlacesTyped, Held, Points
<1>2. \A ip : ip # Ip[c] => Inside(ip)' = Inside(ip)
  BY DEF PlacesInv, PlacesTyped, Held, Inside
<1>3. Inside(Ip[c])' = Inside(Ip[c]) \ {c} /\ c \in Inside(Ip[c])
  BY DEF PlacesInv, PlacesTyped, Held, Inside
<1>4. \A ip \in {Ip[d] : d \in Conns} : PlacesOf(ip)
  BY DEF PlacesInv, PlacesTyped, PlacesExact
<1>5. ASSUME NEW ip \in {Ip[d] : d \in Conns}
      PROVE  PlacesOf(ip)'
  <2>1. PlacesOf(ip)
    BY <1>4
  <2>2. CASE ip # Ip[c]
    <3>1. Inside(ip)' = Inside(ip) /\ perIP'[ip] = perIP[ip]
      BY <1>2, <2>2 DEF PlacesInv, PlacesTyped
    <3>. QED
      BY <2>1, <3>1 DEF PlacesOf
  <2>3. CASE ip = Ip[c]
    <3>1. IsFiniteSet(Inside(ip)) /\ perIP[ip] = Cardinality(Inside(ip))
      BY <2>1 DEF PlacesOf
    <3>2. IsFiniteSet(Inside(ip)') /\ Cardinality(Inside(ip)') = Cardinality(Inside(ip)) - 1
      BY <1>3, <2>3, <3>1, FS_RemoveElement
    <3>3. perIP'[ip] = perIP[ip] - 1
      BY <2>3 DEF PlacesInv, PlacesTyped
    <3>4. Cardinality(Inside(ip)) \in Nat
      BY <3>1, FS_CardinalityType
    <3>5. MaxSessionsPerIP # 0 => perIP'[ip] <= MaxSessionsPerIP
      BY <2>1, <3>1, <3>3, <3>4, RdpAssumption DEF PlacesOf
    <3>. QED
      BY <3>1, <3>2, <3>3, <3>5 DEF PlacesOf
  <2>. QED
    BY <2>2, <2>3
<1>. QED
  BY <1>1, <1>5 DEF PlacesInv, PlacesExact

\* At the start no connection has a place.
LEMMA PlacesAtFirst == Init => PlacesInv
<1> SUFFICES ASSUME Init PROVE PlacesInv
  OBVIOUS
<1>1. PlacesTyped
  BY DEF Init, PlacesTyped, Points
<1>2. ASSUME NEW ip \in {Ip[c] : c \in Conns}
      PROVE  PlacesOf(ip)
  <2>1. Inside(ip) = {}
    BY DEF Init, Held, Inside
  <2>2. perIP[ip] = 0
    BY DEF Init
  <2>3. MaxSessionsPerIP # 0 => perIP[ip] <= MaxSessionsPerIP
    BY <2>2, RdpAssumption
  <2>. QED
    BY <2>1, <2>2, <2>3, FS_EmptySet DEF PlacesOf
<1>. QED
  BY <1>1, <1>2 DEF PlacesInv, PlacesExact

\* Every step of the listener keeps the counts.
LEMMA PlacesStep == PlacesInv /\ [Next]_vars => PlacesInv'
<1> SUFFICES ASSUME PlacesInv, [Next]_vars PROVE PlacesInv'
  OBVIOUS
<1>1. ASSUME NEW c \in Conns, Accept(c) PROVE PlacesInv'
  BY <1>1, PlaceTaken DEF Accept, Step
<1>2. ASSUME NEW c \in Conns, Refuse(c) PROVE PlacesInv'
  BY <1>2, PlacesKept DEF Refuse, Step, Held
<1>3. ASSUME NEW c \in Conns, ReadFirst(c) PROVE PlacesInv'
  <2>1. PICK to \in {"release", "start"} : Step(c, "first", to) /\ perIP' = perIP
    BY <1>3 DEF ReadFirst
  <2>. QED
    BY <2>1, PlacesKept DEF Step, Held
<1>4. ASSUME NEW c \in Conns, FirstFails(c) PROVE PlacesInv'
  BY <1>4, PlacesKept DEF FirstFails, Step, Held
<1>5. ASSUME NEW c \in Conns, SessionStart(c) PROVE PlacesInv'
  BY <1>5, PlacesKept DEF SessionStart, Step, Held
<1>6. ASSUME NEW c \in Conns, Connect(c) PROVE PlacesInv'
  BY <1>6, PlacesKept DEF Connect, Step, Held
<1>7. ASSUME NEW c \in Conns, ReadSecond(c) PROVE PlacesInv'
  BY <1>7, PlacesKept DEF ReadSecond, Step, Held
<1>8. ASSUME NEW c \in Conns, SecondFails(c) PROVE PlacesInv'
  BY <1>8, PlacesKept DEF SecondFails, Step, Held
<1>9. ASSUME NEW c \in Conns, SessionEnd(c) PROVE PlacesInv'
  BY <1>9, PlacesKept DEF SessionEnd, Step, Held
<1>10. ASSUME NEW c \in Conns, Release(c) PROVE PlacesInv'
  BY <1>10, PlaceReturned DEF Release, Step
<1>11. ASSUME UNCHANGED <<pc, perIP>> PROVE PlacesInv'
  <2>1. \A ip : Inside(ip)' = Inside(ip)
    BY <1>11 DEF Inside
  <2>2. \A ip : PlacesOf(ip) => PlacesOf(ip)'
    BY <1>11, <2>1 DEF PlacesOf
  <2>. QED
    BY <1>11, <2>2 DEF PlacesInv, PlacesTyped, PlacesExact
<1>12. CASE Shutdown
  BY <1>11, <1>12 DEF Shutdown
<1>13. CASE Exit
  BY <1>13 DEF Exit, PlacesInv, PlacesTyped, Points, PlacesExact
<1>14. CASE UNCHANGED vars
  BY <1>11, <1>14 DEF vars
<1>. QED
  BY <1>1, <1>2, <1>3, <1>4, <1>5, <1>6, <1>7, <1>8, <1>9, <1>10, <1>12, <1>13, <1>14
     DEF Next, Recording

\* acquire and release of the RDP listener: as long as the process lives, the count of every
\* source is the number of its handlers between acquire and the deferred release, however
\* their connections ended, and never above the limit: no place is lost and none given twice.
THEOREM RdpPlacesExact == Spec => []PlacesExact
<1>1. PlacesInv => PlacesExact
  BY DEF PlacesInv
<1>. QED
  BY <1>1, PlacesAtFirst, PlacesStep, PTL DEF Spec
-----------------------------------------------------------------------------
(* sanitize *)
\* sanitize's loop as an equation for the text kept after each symbol.
Written(t, x) == t \o Utf8(x)
Keeps(f, s, n) ==
  f = [i \in 0..n |-> IF i = 0 THEN << >>
                      ELSE IF s[i] \in Controls THEN f[i - 1] ELSE Written(f[i - 1], s[i])]

\* The equation, symbol by symbol.
LEMMA KeepsSteps ==
  ASSUME NEW s, NEW n \in Nat, NEW f, Keeps(f, s, n)
  PROVE  /\ f[0] = << >>
         /\ \A i \in 1..n : f[i] = IF s[i] \in Controls THEN f[i - 1] ELSE Written(f[i - 1], s[i])
<1> DEFINE R == [i \in 0..n |-> IF i = 0 THEN << >>
                      ELSE IF s[i] \in Controls THEN f[i - 1] ELSE Written(f[i - 1], s[i])]
<1>1. f = R
  BY DEF Keeps
<1>2. R[0] = << >>
  OBVIOUS
<1>3. \A i \in 1..n : R[i] = IF s[i] \in Controls THEN f[i - 1] ELSE Written(f[i - 1], s[i])
  OBVIOUS
<1> HIDE DEF R
<1>. QED
  BY <1>1, <1>2, <1>3

\* The loop has a result for every text, however long.
LEMMA KeepsExists ==
  ASSUME NEW s \in Seq(Symbols)
  PROVE  \A n \in Nat : n <= Len(s) => \E f : Keeps(f, s, n)
<1> DEFINE T == {n \in Nat : n <= Len(s) /\ ~\E f : Keeps(f, s, n)}
<1>1. SUFFICES ASSUME T # {} PROVE FALSE
  OBVIOUS
<1>2. PICK n \in T : \A k \in T : n <= k
  <2>1. T \subseteq Nat
    OBVIOUS
  <2> HIDE DEF T
  <2>. QED
    BY <2>1, <1>1, NatMin
<1>3. n # 0
  <2>1. Keeps([i \in 0..0 |-> << >>], s, 0)
    BY DEF Keeps
  <2>. QED
    BY <2>1
<1>4. n \in Nat /\ n - 1 \in Nat /\ n <= Len(s)
  BY <1>2, <1>3
<1>5. \E f : Keeps(f, s, n - 1)
  BY <1>2, <1>4
<1>6. PICK f : Keeps(f, s, n - 1)
  BY <1>5
<1>7. /\ f[0] = << >>
      /\ \A i \in 1..(n - 1) : f[i] = IF s[i] \in Controls THEN f[i - 1] ELSE Written(f[i - 1], s[i])
  BY <1>4, <1>6, KeepsSteps
<1> DEFINE g == [i \in 0..n |-> IF i < n THEN f[i]
                                ELSE IF s[i] \in Controls THEN f[i - 1] ELSE Written(f[i - 1], s[i])]
           R == [i \in 0..n |-> IF i = 0 THEN << >>
                      ELSE IF s[i] \in Controls THEN g[i - 1] ELSE Written(g[i - 1], s[i])]
<1>8. \A i \in 0..n : g[i] = R[i]
  <2>1. TAKE i \in 0..n
  <2>2. i # 0 => g[i - 1] = f[i - 1]
    BY <1>4
  <2>3. g[i] = IF i < n THEN f[i]
               ELSE IF s[i] \in Controls THEN f[i - 1] ELSE Written(f[i - 1], s[i])
    BY <1>4
  <2>4. R[i] = IF i = 0 THEN << >>
               ELSE IF s[i] \in Controls THEN g[i - 1] ELSE Written(g[i - 1], s[i])
    OBVIOUS
  <2> HIDE DEF g, R
  <2>. QED
    BY <1>3, <1>4, <1>7, <2>2, <2>3, <2>4
<1>9. g = R
  BY <1>8
<1>10. Keeps(g, s, n)
  BY <1>9 DEF Keeps
<1>. QED
  BY <1>2, <1>10

\* WriteRune writes the bytes of a character that is not a control character.
LEMMA Utf8Clean ==
  ASSUME NEW x \in Symbols \ Controls
  PROVE  Utf8(x) \in Seq(((Symbols \cup {Replacement}) \ Controls) \X Nat)
<1> DEFINE r == Rune(x)
           w == Width[r]
           C == (Symbols \cup {Replacement}) \ Controls
<1>1. r \in C
  BY DEF Rune, Replacement, Controls
<1>2. w \in Nat
  BY <1>1, WidthAssumption
<1>3. Utf8(x) = [i \in 1..w |-> <<r, i>>]
  BY DEF Utf8
<1> HIDE DEF r, w, C
<1>4. [i \in 1..w |-> <<r, i>>] \in [1..w -> C \X Nat]
  BY <1>1
<1>5. [i \in 1..w |-> <<r, i>>] \in Seq(C \X Nat)
  BY <1>2, <1>4
<1>. QED
  BY <1>3, <1>5 DEF C

\* sanitize, "so a hostile cookie cannot smuggle terminal escapes into logs".
LEMMA SanitizeHarmless ==
  ASSUME NEW s \in Seq(Symbols)
  PROVE  Harmless(Sanitize(s))
<1> DEFINE n == Len(s)
           f == CHOOSE x : Keeps(x, s, n)
           C == ((Symbols \cup {Replacement}) \ Controls) \X Nat
<1>1. Sanitize(s) = Cut(f[n])
  BY DEF Sanitize, Keeps, Written
<1>2. Keeps(f, s, n)
  BY KeepsExists
<1> HIDE DEF f
<1>3. /\ f[0] = << >>
      /\ \A i \in 1..n : f[i] = IF s[i] \in Controls THEN f[i - 1] ELSE Written(f[i - 1], s[i])
  BY <1>2, KeepsSteps
<1>4. f[n] \in Seq(C)
  <2> DEFINE T == {i \in 0..n : f[i] \notin Seq(C)}
  <2>1. SUFFICES ASSUME T # {} PROVE FALSE
    OBVIOUS
  <2>2. PICK i \in T : \A k \in T : i <= k
    <3>1. T \subseteq Nat
      OBVIOUS
    <3> HIDE DEF T
    <3>. QED
      BY <3>1, <2>1, NatMin
  <2>a. << >> \in Seq(C)
    OBVIOUS
  <2>3. i # 0
    BY <2>2, <2>a, <1>3
  <2>4. i \in 1..n /\ i - 1 \in 0..n /\ s[i] \in Symbols
    BY <2>2, <2>3
  <2>5. f[i - 1] \in Seq(C)
    BY <2>2, <2>4
  <2>6. f[i] \in Seq(C)
    <3>1. f[i] = IF s[i] \in Controls THEN f[i - 1] ELSE Written(f[i - 1], s[i])
      BY <2>4, <1>3
    <3>2. s[i] \notin Controls => Utf8(s[i]) \in Seq(C)
      BY <2>4, Utf8Clean
    <3> HIDE DEF C
    <3>3. s[i] \notin Controls => Written(f[i - 1], s[i]) \in Seq(C)
      BY <2>5, <3>2, ConcatProperties DEF Written
    <3>. QED
      BY <2>5, <3>1, <3>3
  <2>. QED
    BY <2>2, <2>6
<1> HIDE DEF C
<1>5. Cut(f[n]) \in Seq(C) /\ Len(Cut(f[n])) <= MaxText
  BY <1>4, RdpAssumption DEF Cut
<1>6. \A b \in C : b[1] \notin Controls
  BY DEF C
<1>7. \A i \in DOMAIN Cut(f[n]) : Cut(f[n])[i] \in C
  BY <1>5
<1>. QED
  BY <1>1, <1>5, <1>6, <1>7 DEF Harmless
-----------------------------------------------------------------------------
(* parseConnectionRequest *)
\* The bytes of a header that the parser does not look at.
LEMMA FillerSeq ==
  ASSUME NEW n \in Nat
  PROVE  Filler(n) \in Seq(Symbols) /\ Len(Filler(n)) = n /\ \A i \in 1..n : Filler(n)[i] = "x"
<1>1. Filler(n) \in [1..n -> Symbols]
  BY DEF Filler, Symbols
<1>. QED
  BY <1>1 DEF Filler

\* The literals of the wire format are symbols.
LEMMA OneSymbol ==
  /\ <<"3">> \in Seq(Symbols) /\ <<"1">> \in Seq(Symbols)
  /\ <<"cr", "lf">> \in Seq(Symbols)
<1>1. {"3", "1", "cr", "lf"} \subseteq Symbols
  BY DEF Symbols, Controls
<1>. QED
  BY <1>1

HeaderLen(r) == IF r.tpkt THEN TpktLen + FixedLen ELSE FixedLen

\* The headers end where parseConnectionRequest says they do, with or without TPKT.
LEMMA HeaderShape ==
  ASSUME NEW r \in Requests
  PROVE  /\ Header(r) \in Seq(Symbols) /\ Len(Header(r)) = HeaderLen(r)
         /\ HeaderLen(r) \in Nat \ {0} /\ HeaderLen(r) <= MinRequest
         /\ Header(r)[1] = IF r.tpkt THEN "3" ELSE "x"
<1>1. /\ FixedLen \in Nat \ {0} /\ TpktLen \in Nat \ {0} /\ TpktLen - 1 \in Nat
      /\ MinRequest = TpktLen + FixedLen
  BY RdpAssumption
<1>2. /\ Filler(FixedLen) \in Seq(Symbols) /\ Len(Filler(FixedLen)) = FixedLen
      /\ Filler(FixedLen)[1] = "x"
  BY <1>1, FillerSeq
<1>3. /\ Filler(TpktLen - 1) \in Seq(Symbols) /\ Len(Filler(TpktLen - 1)) = TpktLen - 1
  BY <1>1, FillerSeq
<1>4. r.tpkt \in BOOLEAN
  BY RequestAssumption
<1>5. CASE r.tpkt
  <2> DEFINE a == Filler(TpktLen - 1)
             b == Filler(FixedLen)
  <2>1. Header(r) = (<<"3">> \o a) \o b /\ HeaderLen(r) = TpktLen + FixedLen
    BY <1>5 DEF Header, HeaderLen
  <2> HIDE DEF a, b
  <2>2. <<"3">> \in Seq(Symbols) /\ a \in Seq(Symbols) /\ b \in Seq(Symbols)
        /\ Len(a) = TpktLen - 1 /\ Len(b) = FixedLen
    BY <1>2, <1>3, OneSymbol DEF a, b
  <2>3. <<"3">> \o a \in Seq(Symbols) /\ Len(<<"3">> \o a) = TpktLen /\ (<<"3">> \o a)[1] = "3"
    BY <2>2, <1>1, ConcatProperties
  <2>4. /\ Header(r) \in Seq(Symbols) /\ Len(Header(r)) = TpktLen + FixedLen
        /\ Header(r)[1] = "3"
    <3> DEFINE p == <<"3">> \o a
    <3> HIDE DEF p
    <3>1. Header(r) = p \o b /\ p \in Seq(Symbols) /\ Len(p) = TpktLen /\ p[1] = "3"
      BY <2>1, <2>3 DEF p
    <3>2. p \o b \in Seq(Symbols) /\ Len(p \o b) = TpktLen + FixedLen
      BY <3>1, <2>2, ConcatProperties
    <3>3. (p \o b)[1] = p[1]
      BY <3>1, <2>2, <1>1
    <3>. QED
      BY <3>1, <3>2, <3>3
  <2>. QED
    BY <2>1, <2>4, <1>1, <1>5
<1>6. CASE ~r.tpkt
  <2>1. Header(r) = << >> \o Filler(FixedLen) /\ HeaderLen(r) = FixedLen
    BY <1>6 DEF Header, HeaderLen
  <2>2. << >> \o Filler(FixedLen) = Filler(FixedLen)
    BY <1>2
  <2>. QED
    BY <2>1, <2>2, <1>1, <1>2, <1>6
<1>. QED
  BY <1>4, <1>5, <1>6

\* The negotiation request: its type first, the protocols last, no line end inside.
LEMMA NegotiationShape ==
  ASSUME NEW r \in Requests
  PROVE  /\ Negotiation(r) \in Seq(Symbols)
         /\ r.mask = Nothing => Negotiation(r) = << >>
         /\ r.mask # Nothing => /\ Len(Negotiation(r)) = NegLen
                                /\ Negotiation(r)[1] = "1"
                                /\ <<Negotiation(r)[NegLen]>> = r.mask
                                /\ \A i \in 1..(NegLen - 1) : Negotiation(r)[i] \notin {"cr", "lf"}
<1>1. NegLen \in Nat \ {0, 1} /\ NegLen - 2 \in Nat
  BY RdpAssumption
<1>2. r.mask \in Seq(Symbols) /\ (r.mask # Nothing => Len(r.mask) = 1)
  BY RequestAssumption
<1> DEFINE a == Filler(NegLen - 2)
<1>3. a \in Seq(Symbols) /\ Len(a) = NegLen - 2 /\ \A i \in 1..(NegLen - 2) : a[i] = "x"
  BY <1>1, FillerSeq
<1>4. Negotiation(r) = IF r.mask = Nothing THEN << >> ELSE (<<"1">> \o a) \o r.mask
  BY DEF Negotiation
<1> HIDE DEF a
<1>5. /\ <<"1">> \o a \in Seq(Symbols) /\ Len(<<"1">> \o a) = NegLen - 1 /\ (<<"1">> \o a)[1] = "1"
      /\ \A i \in 1..(NegLen - 1) : (<<"1">> \o a)[i] \in {"1", "x"}
  BY <1>1, <1>3, OneSymbol
<1> DEFINE b == <<"1">> \o a
<1> HIDE DEF b
<1>6. CASE r.mask # Nothing
  <2>1. Negotiation(r) = b \o r.mask
    BY <1>4, <1>6 DEF b
  <2>2. /\ b \in Seq(Symbols) /\ Len(b) = NegLen - 1 /\ b[1] = "1"
        /\ \A i \in 1..(NegLen - 1) : b[i] \in {"1", "x"}
    BY <1>5 DEF b
  <2>3. /\ b \o r.mask \in Seq(Symbols) /\ Len(b \o r.mask) = NegLen
        /\ \A i \in 1..(NegLen - 1) : (b \o r.mask)[i] = b[i]
        /\ (b \o r.mask)[NegLen] = r.mask[1]
    <3> DEFINE k == r.mask
    <3>1. k \in Seq(Symbols) /\ Len(k) = 1
      BY <1>2, <1>6
    <3> HIDE DEF k
    <3>a. b \in Seq(Symbols) /\ Len(b) = NegLen - 1
      BY <2>2
    <3>b. /\ b \o k \in Seq(Symbols) /\ Len(b \o k) = Len(b) + Len(k)
          /\ \A i \in 1..Len(b) : (b \o k)[i] = b[i]
          /\ \A i \in 1..Len(k) : (b \o k)[Len(b) + i] = k[i]
      <4>1. b \in Seq(Symbols) /\ k \in Seq(Symbols)
        BY <3>1, <3>a
      <4>. QED
        BY <4>1, Joined
    <3>2. Len(b) + 1 = NegLen
      BY <3>a, <1>1
    <3>3. 1 \in 1..Len(k) /\ (b \o k)[Len(b) + 1] = k[1]
      BY <3>1, <3>b
    <3>4. Len(b \o k) = NegLen
      BY <3>1, <3>b, <3>2
    <3>5. /\ \A i \in 1..(NegLen - 1) : (b \o k)[i] = b[i]
          /\ (b \o k)[NegLen] = k[1]
      BY <3>a, <3>b, <3>2, <3>3
    <3>. QED
      BY <3>b, <3>4, <3>5 DEF k
  <2>4. <<r.mask[1]>> = r.mask
    <3>1. r.mask[1] \in Symbols /\ <<r.mask[1]>> \in Seq(Symbols) /\ Len(<<r.mask[1]>>) = 1
      BY <1>2, <1>6
    <3>. QED
      BY <3>1, <1>2, <1>6, SeqEqual
  <2>. QED
    BY <1>1, <1>6, <2>1, <2>2, <2>3, <2>4
<1>7. CASE r.mask = Nothing
  BY <1>4, <1>7
<1>. QED
  BY <1>6, <1>7

\* A negotiation request that did not come whole asks for nothing.
LEMMA NegRequestOf ==
  ASSUME NEW r \in Requests, NEW k \in 0..Len(Negotiation(r))
  PROVE  NegRequest(SubSeq(Negotiation(r), 1, k))
           = IF k = Len(Negotiation(r)) THEN MaskOf(r) ELSE <<"rdp">>
<1> DEFINE d == Negotiation(r)
           b == SubSeq(d, 1, k)
<1>1. /\ d \in Seq(Symbols)
      /\ r.mask = Nothing => d = << >>
      /\ r.mask # Nothing => Len(d) = NegLen /\ d[1] = "1" /\ <<d[NegLen]>> = r.mask
  BY NegotiationShape
<1>2. NegLen \in Nat \ {0, 1}
  BY RdpAssumption
<1>3. k \in 0..Len(d)
  OBVIOUS
<1> HIDE DEF d
<1>4. Len(b) = k /\ \A i \in 1..k : b[i] = d[i]
  BY <1>1, <1>3
<1> HIDE DEF b
<1>5. NegRequest(b) = IF k = Len(d) THEN MaskOf(r) ELSE <<"rdp">>
  BY <1>1, <1>2, <1>3, <1>4 DEF NegRequest, MaskOf, Nothing
<1>. QED
  BY <1>5 DEF b, d

\* The token, and the line end after it.
LEMMA TokenShape ==
  ASSUME NEW r \in Requests
  PROVE  /\ Token(r) \in Seq(Symbols)
         /\ r.token = Nothing => Token(r) = << >>
         /\ r.token # Nothing => /\ Len(r.token) \in Nat \ {0}
                                 /\ Len(Token(r)) = Len(r.token) + 2
                                 /\ \A i \in 1..Len(r.token) : Token(r)[i] = r.token[i]
                                 /\ Token(r)[Len(r.token) + 1] = "cr"
                                 /\ Token(r)[Len(r.token) + 2] = "lf"
<1>1. r.token \in Seq(Symbols)
  BY RequestAssumption
<1>2. r.token # Nothing => Len(r.token) \in Nat \ {0}
  BY <1>1 DEF Nothing
<1>3. <<"cr", "lf">> \in Seq(Symbols)
  BY OneSymbol
<1>. QED
  BY <1>1, <1>2, <1>3 DEF Token

\* What follows the headers, wherever the data ends.
LEMMA VariableOf ==
  ASSUME NEW r \in Requests, NEW n \in 1..Len(Wire(r)), n >= MinRequest
  PROVE  LET data == SubSeq(Wire(r), 1, n)
             body == IF data[1] = "3" THEN SubSeq(data, TpktLen + 1, Len(data)) ELSE data
             m == n - HeaderLen(r)
         IN /\ Len(data) = n /\ Len(body) >= FixedLen
            /\ m \in 0..Len(Token(r) \o Negotiation(r))
            /\ n = Len(Wire(r)) <=> m = Len(Token(r) \o Negotiation(r))
            /\ SubSeq(body, FixedLen + 1, Len(body)) = SubSeq(Token(r) \o Negotiation(r), 1, m)
<1> DEFINE v == Token(r) \o Negotiation(r)
           h == Header(r)
           data == SubSeq(Wire(r), 1, n)
           body == IF data[1] = "3" THEN SubSeq(data, TpktLen + 1, Len(data)) ELSE data
           m == n - HeaderLen(r)
<1>1. v \in Seq(Symbols)
  BY TokenShape, NegotiationShape
<1>2. /\ h \in Seq(Symbols) /\ Len(h) = HeaderLen(r)
      /\ HeaderLen(r) \in Nat \ {0} /\ HeaderLen(r) <= MinRequest
      /\ h[1] = IF r.tpkt THEN "3" ELSE "x"
  BY HeaderShape
<1>3. Wire(r) = h \o v
  BY DEF Wire
<1> HIDE DEF v, h
<1>4. /\ Wire(r) \in Seq(Symbols) /\ Len(Wire(r)) = HeaderLen(r) + Len(v) /\ Wire(r)[1] = h[1]
      /\ \A i \in 1..Len(v) : Wire(r)[i + HeaderLen(r)] = v[i]
  <2>1. h \o v \in Seq(Symbols) /\ Len(h \o v) = HeaderLen(r) + Len(v)
    BY <1>1, <1>2, ConcatProperties
  <2>2. (h \o v)[1] = h[1] /\ \A i \in 1..Len(v) : (h \o v)[i + HeaderLen(r)] = v[i]
    BY <1>1, <1>2
  <2>. QED
    BY <2>1, <2>2, <1>3
<1>5. /\ FixedLen \in Nat \ {0} /\ TpktLen \in Nat \ {0} /\ MinRequest = TpktLen + FixedLen
      /\ n \in Nat \ {0} /\ n <= Len(Wire(r)) /\ Len(v) \in Nat
      /\ HeaderLen(r) = IF r.tpkt THEN TpktLen + FixedLen ELSE FixedLen
  BY RdpAssumption, <1>1, <1>4 DEF HeaderLen
<1>6. m \in 0..Len(v) /\ (n = Len(Wire(r)) <=> m = Len(v))
  BY <1>2, <1>4, <1>5
<1>7. /\ data \in Seq(Symbols) /\ Len(data) = n /\ data[1] = h[1]
      /\ \A i \in 1..m : data[i + HeaderLen(r)] = v[i]
  BY <1>2, <1>4, <1>5
<1> HIDE DEF data
<1> DEFINE t == IF r.tpkt THEN TpktLen ELSE 0
<1>8. /\ body \in Seq(Symbols) /\ Len(body) = n - t
      /\ \A i \in 1..m : body[i + FixedLen] = v[i]
  <2>1. CASE r.tpkt
    <3>1. body = SubSeq(data, TpktLen + 1, n)
      BY <1>2, <1>7, <2>1
    <3> HIDE DEF body
    <3>2. /\ body \in Seq(Symbols) /\ Len(body) = n - TpktLen
          /\ \A i \in 1..(n - TpktLen) : body[i] = data[i + TpktLen]
      BY <3>1, <1>5, <1>7
    <3>3. \A i \in 1..m : body[i + FixedLen] = v[i]
      BY <3>2, <1>5, <1>7, <2>1
    <3>. QED
      BY <3>2, <3>3, <2>1
  <2>2. CASE ~r.tpkt
    <3>1. body = data
      BY <1>2, <1>7, <2>2
    <3>. QED
      BY <3>1, <1>5, <1>7, <2>2
  <2>. QED
    BY <2>1, <2>2
<1> HIDE DEF body
<1>9. n - t = FixedLen + m /\ m \in Nat
  BY <1>5, <1>6
<1> HIDE DEF t, m
<1> DEFINE a == SubSeq(body, FixedLen + 1, Len(body))
           b == SubSeq(v, 1, m)
<1>10. a \in Seq(Symbols) /\ Len(a) = m /\ \A i \in 1..m : a[i] = v[i]
  BY <1>5, <1>8, <1>9
<1>11. b \in Seq(Symbols) /\ Len(b) = m /\ \A i \in 1..m : b[i] = v[i]
  BY <1>1, <1>6
<1>12. a = b
  <2> HIDE DEF a, b
  <2>. QED
    BY <1>10, <1>11, SeqEqual
<1>13. Len(body) >= FixedLen
  BY <1>5, <1>8, <1>9
<1>. QED
  BY <1>6, <1>7, <1>12, <1>13 DEF v, data, body, m

\* indexCRLF finds the end of the token's line and no other.
LEMMA LineEndOf ==
  ASSUME NEW r \in Requests, NEW m \in 0..Len(Token(r) \o Negotiation(r))
  PROVE  LineEnd(SubSeq(Token(r) \o Negotiation(r), 1, m))
           = IF r.token # Nothing /\ m >= Len(r.token) + 2 THEN Len(r.token) + 1 ELSE 0
<1> DEFINE k == Token(r)
           g == Negotiation(r)
           v == k \o g
           b == SubSeq(v, 1, m)
           ends == {i \in 1..(Len(b) - 1) : b[i] = "cr" /\ b[i + 1] = "lf"}
<1>1. k \in Seq(Symbols) /\ g \in Seq(Symbols)
  BY TokenShape, NegotiationShape
<1>2. m \in 0..Len(v)
  OBVIOUS
<1> HIDE DEF k, g
<1>3. /\ v \in Seq(Symbols) /\ Len(v) = Len(k) + Len(g)
      /\ \A i \in 1..Len(k) : v[i] = k[i]
      /\ \A i \in 1..Len(g) : v[Len(k) + i] = g[i]
  BY <1>1, Joined
<1> HIDE DEF v
<1>4. Len(b) = m /\ \A i \in 1..m : b[i] = v[i]
  BY <1>2, <1>3
<1> HIDE DEF b
<1>5. LineEnd(b) = IF ends = {} THEN 0 ELSE CHOOSE i \in ends : \A j \in ends : i <= j
  BY DEF LineEnd
<1>6. Len(k) \in Nat /\ Len(g) \in Nat /\ m \in Nat /\ m <= Len(k) + Len(g)
  BY <1>1, <1>2, <1>3
<1>7. \A i \in 1..(Len(g) - 1) : g[i] # "cr"
  BY NegotiationShape DEF g
<1>8. CASE r.token = Nothing
  <2>1. Len(k) = 0
    BY <1>8, TokenShape DEF k
  <2>2. ends = {}
    BY <1>3, <1>4, <1>6, <1>7, <2>1
  <2>. QED
    BY <1>5, <1>8, <2>2 DEF b, v, k, g
<1>9. CASE r.token # Nothing
  <2> DEFINE T == Len(r.token)
  <2>1. /\ T \in Nat \ {0} /\ Len(k) = T + 2 /\ \A i \in 1..T : k[i] = r.token[i]
        /\ k[T + 1] = "cr" /\ k[T + 2] = "lf"
    BY <1>9, TokenShape DEF k
  <2>2. \A i \in 1..(T - 1) : ~(r.token[i] = "cr" /\ r.token[i + 1] = "lf")
    BY <1>9, RequestAssumption
  <2> HIDE DEF T
  <2>3. \A i \in 1..T : ~(k[i] = "cr" /\ k[i + 1] = "lf")
    <3>1. TAKE i \in 1..T
    <3>2. CASE i = T
      BY <3>2, <2>1
    <3>3. CASE i # T
      <4>1. i \in 1..(T - 1) /\ i + 1 \in 1..T
        BY <3>3, <2>1
      <4>. QED
        BY <4>1, <2>1, <2>2
    <3>. QED
      BY <3>2, <3>3
  <2>4. \A i \in ends : i > T
    <3>1. SUFFICES ASSUME NEW i \in ends, i <= T PROVE FALSE
      BY <1>4, <1>6, <2>1
    <3>2. i \in 1..(m - 1) /\ b[i] = "cr" /\ b[i + 1] = "lf"
      BY <3>1, <1>4
    <3>3. i \in 1..Len(k) /\ i + 1 \in 1..Len(k) /\ i \in 1..m /\ i + 1 \in 1..m /\ i \in 1..T
      BY <3>1, <3>2, <2>1, <1>6
    <3>4. b[i] = k[i] /\ b[i + 1] = k[i + 1]
      BY <3>3, <1>3, <1>4
    <3>. QED
      BY <3>2, <3>3, <3>4, <2>3
  <2>5. CASE m >= T + 2
    <3>1. T + 1 \in ends
      <4>1. /\ T + 1 \in 1..(m - 1) /\ T + 1 \in 1..m /\ T + 2 \in 1..m
            /\ T + 1 \in 1..Len(k) /\ T + 2 \in 1..Len(k)
        BY <2>1, <2>5, <1>6
      <4>2. b[T + 1] = "cr" /\ b[T + 2] = "lf" /\ T + 2 = (T + 1) + 1
        BY <4>1, <2>1, <1>3, <1>4
      <4>. QED
        BY <4>1, <4>2, <1>4
    <3>2. \A i \in ends : i \in Nat
      BY <1>4, <1>6
    <3> HIDE DEF ends
    <3>3. \A i \in ends : T + 1 <= i
      BY <3>2, <2>4, <2>1
    <3>4. (CHOOSE i \in ends : \A j \in ends : i <= j) = T + 1
      BY <3>1, <3>2, <3>3, <2>1
    <3>. QED
      BY <1>5, <1>9, <2>5, <3>1, <3>4 DEF T, b, v, k, g
  <2>6. CASE ~(m >= T + 2)
    <3>1. ends = {}
      BY <2>1, <2>4, <2>6, <1>4, <1>6
    <3>. QED
      BY <1>5, <1>9, <2>6, <3>1 DEF T, b, v, k, g
  <2>. QED
    BY <2>5, <2>6
<1>. QED
  BY <1>8, <1>9

\* parseConnectionRequest, wherever the data ends.
LEMMA ParsesFaithfully ==
  ASSUME NEW r \in Requests, NEW n \in 1..Len(Wire(r))
  PROVE  Faithful(ParseConnectionRequest(SubSeq(Wire(r), 1, n)), r, SubSeq(Wire(r), 1, n))
<1> DEFINE data == SubSeq(Wire(r), 1, n)
           p == ParseConnectionRequest(data)
           T == Len(r.token)
           v == Token(r) \o Negotiation(r)
<1>1. r.token \in Seq(Symbols) /\ r.mask \in Seq(Symbols)
      /\ (r.token # Nothing => r.token[1] \in {"cookie", "3"} /\ TpktLen <= T + 2)
  BY RequestAssumption
<1>2. /\ Token(r) \in Seq(Symbols) /\ Negotiation(r) \in Seq(Symbols) /\ Header(r) \in Seq(Symbols)
  BY TokenShape, NegotiationShape, HeaderShape
<1>3. /\ v \in Seq(Symbols) /\ Len(v) = Len(Token(r)) + Len(Negotiation(r))
      /\ \A i \in 1..Len(Token(r)) : v[i] = Token(r)[i]
      /\ \A i \in 1..Len(Negotiation(r)) : v[Len(Token(r)) + i] = Negotiation(r)[i]
  BY <1>2, Joined
<1>4. Wire(r) \in Seq(Symbols) /\ Len(Wire(r)) = HeaderLen(r) + Len(v)
  BY <1>2, <1>3, Joined, HeaderShape DEF Wire
<1>5. data \in Seq(Symbols) /\ Len(data) = n /\ (data = Wire(r) => n = Len(Wire(r)))
  BY <1>4
<1>a. /\ Len(data) >= Len(Header(r)) + Len(Token(r)) <=> n >= HeaderLen(r) + Len(Token(r))
      /\ HeaderLen(r) \in Nat /\ Len(Token(r)) \in Nat
  BY <1>2, <1>5, HeaderShape
<1>6. /\ Harmless(Nothing) /\ Harmless(Sanitize(r.token))
      /\ r.token # Nothing => Harmless(Sanitize(Tail(r.token)))
  <2>1. r.token # Nothing => Tail(r.token) \in Seq(Symbols)
    BY <1>1 DEF Nothing
  <2>2. Harmless(Nothing)
    BY RdpAssumption DEF Harmless, Nothing
  <2>. QED
    BY <1>1, <2>1, <2>2, SanitizeHarmless
<1>7. CASE n < MinRequest
  <2>1. p = [cookie |-> Nothing, routing |-> Nothing, mask |-> <<"rdp">>]
    BY <1>5, <1>7 DEF ParseConnectionRequest
  <2>2. ASSUME data = Wire(r) PROVE r.token = Nothing /\ r.mask = Nothing
    <3>1. n = HeaderLen(r) + Len(v) /\ Len(v) < TpktLen /\ HeaderLen(r) \in Nat /\ Len(v) \in Nat
      BY <2>2, <1>3, <1>4, <1>5, <1>7, HeaderShape, RdpAssumption DEF HeaderLen
    <3>2. r.token # Nothing => Len(Token(r)) = T + 2
      BY TokenShape
    <3>3. r.mask # Nothing => Len(Negotiation(r)) = NegLen
      BY NegotiationShape
    <3>4. Len(Token(r)) \in Nat /\ Len(Negotiation(r)) \in Nat
      BY <1>2
    <3>. QED
      BY <3>1, <3>2, <3>3, <3>4, <1>1, <1>3, RdpAssumption
  <2>a. ASSUME n >= HeaderLen(r) + Len(Token(r)) PROVE r.token = Nothing
    <3>1. r.token # Nothing => Len(Token(r)) = T + 2
      BY TokenShape
    <3>2. HeaderLen(r) >= FixedLen
      BY RdpAssumption DEF HeaderLen
    <3> HIDE DEF T
    <3>. QED
      BY <2>a, <3>1, <3>2, <1>1, <1>7, <1>a, RdpAssumption
  <2> HIDE DEF data, p
  <2>3. p.cookie = Nothing /\ p.routing = Nothing /\ p.mask = <<"rdp">>
    BY <2>1
  <2>4. Faithful(p, r, data)
    BY <2>2, <2>a, <2>3, <1>6, <1>a DEF Faithful, CookieOf, RoutingOf, MaskOf
  <2>. QED
    BY <2>4 DEF p, data
<1>8. CASE n >= MinRequest
  <2> DEFINE m == n - HeaderLen(r)
             w == SubSeq(v, 1, m)
             e == LineEnd(w)
             text == SubSeq(w, 1, e - 1)
             is(b) == text # << >> /\ text[1] = b
  <2>1. /\ m \in 0..Len(v) /\ (n = Len(Wire(r)) <=> m = Len(v))
        /\ p = IF e = 0 THEN [cookie |-> Nothing, routing |-> Nothing, mask |-> NegRequest(w)]
               ELSE [cookie |-> IF is("cookie") THEN Sanitize(Tail(text)) ELSE Nothing,
                     routing |-> IF is("3") THEN Sanitize(text) ELSE Nothing,
                     mask |-> NegRequest(SubSeq(w, e + 2, Len(w)))]
    <3> DEFINE body == IF data[1] = "3" THEN SubSeq(data, TpktLen + 1, Len(data)) ELSE data
               x == SubSeq(body, FixedLen + 1, Len(body))
    <3>1. /\ Len(data) = n /\ Len(body) >= FixedLen
          /\ m \in 0..Len(v) /\ (n = Len(Wire(r)) <=> m = Len(v))
          /\ x = w
      BY <1>8, VariableOf
    <3>2. ~(Len(data) < MinRequest) /\ ~(Len(body) < FixedLen)
      <4>1. Len(body) \in Nat
        BY <1>5, RdpAssumption
      <4>. QED
        BY <4>1, <3>1, <1>8, RdpAssumption
    <3> DEFINE l == SubSeq(x, 1, LineEnd(x) - 1)
    <3>3. p = IF Len(data) < MinRequest \/ Len(body) < FixedLen
                THEN [cookie |-> Nothing, routing |-> Nothing, mask |-> <<"rdp">>]
              ELSE IF LineEnd(x) = 0 THEN [cookie |-> Nothing, routing |-> Nothing, mask |-> NegRequest(x)]
              ELSE [cookie |-> IF l # << >> /\ l[1] = "cookie" THEN Sanitize(Tail(l)) ELSE Nothing,
                    routing |-> IF l # << >> /\ l[1] = "3" THEN Sanitize(l) ELSE Nothing,
                    mask |-> NegRequest(SubSeq(x, LineEnd(x) + 2, Len(x)))]
      BY DEF ParseConnectionRequest
    <3> HIDE DEF body, data, p, m
    <3>4. p = IF LineEnd(x) = 0 THEN [cookie |-> Nothing, routing |-> Nothing, mask |-> NegRequest(x)]
              ELSE [cookie |-> IF l # << >> /\ l[1] = "cookie" THEN Sanitize(Tail(l)) ELSE Nothing,
                    routing |-> IF l # << >> /\ l[1] = "3" THEN Sanitize(l) ELSE Nothing,
                    mask |-> NegRequest(SubSeq(x, LineEnd(x) + 2, Len(x)))]
      BY <3>2, <3>3
    <3> HIDE DEF x
    <3>. QED
      BY <3>1, <3>4
  <2>2. e = IF r.token # Nothing /\ m >= T + 2 THEN T + 1 ELSE 0
    BY <2>1, LineEndOf
  <2>3. w \in Seq(Symbols) /\ Len(w) = m /\ m \in Nat /\ \A i \in 1..m : w[i] = v[i]
    BY <2>1, <1>3
  <2> HIDE DEF m, e, T, v
  <2>4. e = LineEnd(w)
    BY DEF e
  <2>5. CASE r.token # Nothing /\ m >= T + 2
    <3>1. T \in Nat \ {0} /\ Len(Token(r)) = T + 2 /\ \A i \in 1..T : Token(r)[i] = r.token[i]
      BY <2>5, TokenShape DEF T
    <3>2. e = T + 1
      BY <2>2, <2>5
    <3> HIDE DEF w
    <3>3. text = r.token
      <4>1. text \in Seq(Symbols) /\ Len(text) = T /\ \A i \in 1..T : text[i] = w[i]
        BY <2>3, <2>5, <3>1, <3>2
      <4>2. \A i \in 1..T : w[i] = r.token[i]
        BY <2>3, <2>5, <3>1, <1>3
      <4> HIDE DEF text
      <4>3. Len(r.token) = T
        BY DEF T
      <4>. QED
        BY <4>1, <4>2, <4>3, <1>1, SeqEqual
    <3> DEFINE k == m - (T + 2)
               a == SubSeq(w, T + 3, m)
               b == SubSeq(Negotiation(r), 1, k)
    <3>4. /\ k \in 0..Len(Negotiation(r)) /\ Len(Negotiation(r)) \in Nat
          /\ m = Len(v) <=> k = Len(Negotiation(r))
      BY <2>1, <2>3, <2>5, <3>1, <1>2, <1>3
    <3>5. a = b
      <4>1. a \in Seq(Symbols) /\ Len(a) = k /\ \A i \in 1..k : a[i] = w[T + 2 + i]
        BY <2>3, <2>5, <3>1
      <4>2. b \in Seq(Symbols) /\ Len(b) = k /\ \A i \in 1..k : b[i] = Negotiation(r)[i]
        BY <3>4, <1>2
      <4>3. \A i \in 1..k : w[T + 2 + i] = Negotiation(r)[i]
        <5>1. TAKE i \in 1..k
        <5>2. T + 2 + i \in 1..m /\ i \in 1..Len(Negotiation(r))
          BY <2>3, <2>5, <3>1, <3>4
        <5>. QED
          BY <5>2, <2>3, <3>1, <1>3
      <4> HIDE DEF a, b
      <4>. QED
        BY <4>1, <4>2, <4>3, SeqEqual
    <3>6. SubSeq(w, e + 2, Len(w)) = a
      BY <2>3, <3>1, <3>2
    <3> HIDE DEF a, k
    <3>7. NegRequest(b) = IF k = Len(Negotiation(r)) THEN MaskOf(r) ELSE <<"rdp">>
      BY <3>4, NegRequestOf
    <3> HIDE DEF b
    <3>8. p = [cookie |-> IF is("cookie") THEN Sanitize(Tail(text)) ELSE Nothing,
               routing |-> IF is("3") THEN Sanitize(text) ELSE Nothing,
               mask |-> NegRequest(SubSeq(w, e + 2, Len(w)))]
      <4> HIDE DEF p, text
      <4>1. e # 0
        BY <3>1, <3>2
      <4>. QED
        BY <2>1, <4>1
    <3> HIDE DEF p, text
    <3>9. /\ p.cookie = CookieOf(r) /\ p.routing = RoutingOf(r)
          /\ p.mask = IF m = Len(v) THEN MaskOf(r) ELSE <<"rdp">>
      <4>1. p.mask = IF m = Len(v) THEN MaskOf(r) ELSE <<"rdp">>
        <5>1. p.mask = NegRequest(a)
          BY <3>6, <3>8
        <5>. QED
          BY <5>1, <3>4, <3>5, <3>7
      <4>2. p.cookie = CookieOf(r)
        <5>1. p.cookie = IF is("cookie") THEN Sanitize(Tail(text)) ELSE Nothing
          BY <3>8
        <5>. QED
          BY <5>1, <3>3, <2>5 DEF CookieOf, Nothing
      <4>3. p.routing = RoutingOf(r)
        <5>1. p.routing = IF is("3") THEN Sanitize(text) ELSE Nothing
          BY <3>8
        <5>. QED
          BY <5>1, <3>3, <2>5 DEF RoutingOf, Nothing
      <4>. QED
        BY <4>1, <4>2, <4>3
    <3>10. Harmless(p.cookie) /\ Harmless(p.routing)
      BY <3>9, <1>6 DEF CookieOf, RoutingOf
    <3> HIDE DEF v, data
    <3>11. Faithful(p, r, data)
      BY <3>9, <3>10, <2>1, <1>5 DEF Faithful
    <3>. QED
      BY <3>11 DEF p, data
  <2>6. CASE ~(r.token # Nothing /\ m >= T + 2)
    <3>1. e = 0
      BY <2>2, <2>6
    <3>2. p = [cookie |-> Nothing, routing |-> Nothing, mask |-> NegRequest(w)]
      BY <2>1, <2>4, <3>1
    <3> HIDE DEF p
    <3>3. p.cookie = Nothing /\ p.routing = Nothing /\ p.mask = NegRequest(w)
      BY <3>2
    <3>4. CASE r.token = Nothing
      <4>1. v = Negotiation(r)
        BY <3>4, <1>2, TokenShape, ConcatEmptySeq DEF v
      <4>2. NegRequest(w) = IF m = Len(v) THEN MaskOf(r) ELSE <<"rdp">>
        <5>1. w = SubSeq(Negotiation(r), 1, m) /\ m \in 0..Len(Negotiation(r))
          BY <2>1, <4>1
        <5>. QED
          BY <4>1, <5>1, NegRequestOf
      <4>3. CookieOf(r) = Nothing /\ RoutingOf(r) = Nothing
        BY <3>4 DEF CookieOf, RoutingOf
      <4> HIDE DEF v, data, w
      <4>4. Faithful(p, r, data)
        BY <3>3, <4>2, <4>3, <2>1, <1>5, <1>6, <1>a DEF Faithful
      <4>. QED
        BY <4>4 DEF p, data
    <3>5. CASE r.token # Nothing
      <4>1. T \in Nat \ {0} /\ Len(Token(r)) = T + 2 /\ Token(r)[1] = r.token[1]
        BY <3>5, TokenShape DEF T
      <4>2. m < T + 2 /\ m # Len(v)
        <5>1. Len(Negotiation(r)) \in Nat
          BY <1>2
        <5>. QED
          BY <2>3, <2>6, <3>5, <4>1, <5>1, <1>3
      <4> HIDE DEF w
      <4>3. NegRequest(w) = <<"rdp">>
        <5>1. NegLen \in Nat \ {0, 1}
          BY RdpAssumption
        <5>2. m > 0 => w[1] = r.token[1]
          BY <2>3, <4>1, <1>3
        <5>3. m > 0 => w[1] # "1"
          BY <3>5, <5>2, <1>1
        <5>. QED
          BY <2>3, <5>1, <5>3 DEF NegRequest
      <4>a. ~(n >= HeaderLen(r) + Len(Token(r)))
        BY <4>1, <4>2, <1>a DEF m
      <4> HIDE DEF v, data
      <4>4. Faithful(p, r, data)
        BY <3>3, <4>2, <4>3, <4>a, <2>1, <1>5, <1>6, <1>a DEF Faithful
      <4>. QED
        BY <4>4 DEF p, data
    <3>. QED
      BY <3>4, <3>5
  <2>. QED
    BY <2>5, <2>6
<1>. QED
  BY <1>5, <1>7, <1>8, RdpAssumption
-----------------------------------------------------------------------------
(* What the handlers hear and record *)

\* What a handler that has not parsed yet has heard: a beginning of what its client sends.
Beginning(a, h) == a \in Requests /\ \E n \in 1..Len(Wire(a)) : h = SubSeq(Wire(a), 1, n)
Heard(c) == Beginning(asked[c], heard[c])

\* What a handler has recorded of the request.
Accurate(e, r, data) == Faithful(e, r, data) /\ Valid(e.cookie) /\ Valid(e.routing)
Reported(c) ==
  \A i \in DOMAIN log[c] : log[c][i].kind = "connect" => Accurate(log[c][i], asked[c], heard[c])

HInv ==
  /\ asked = [c \in Conns |-> asked[c]]
  /\ heard = [c \in Conns |-> heard[c]]
  /\ log = [c \in Conns |-> log[c]]
  /\ \A c \in Conns : (pc[c] \in {"start", "connect"} => Heard(c)) /\ Reported(c)

\* A step of one handler leaves what the others heard and recorded.
LEMMA OthersReport ==
  ASSUME HInv, NEW c \in Conns, NEW a, NEW h, NEW l,
         asked' = [asked EXCEPT ![c] = a], heard' = [heard EXCEPT ![c] = h],
         log' = [log EXCEPT ![c] = l], DOMAIN log = Conns, DOMAIN pc = Conns,
         NEW p, pc' = [pc EXCEPT ![c] = p],
         p \in {"start", "connect"} => Beginning(a, h),
         \A i \in DOMAIN l : l[i].kind = "connect" => Accurate(l[i], a, h)
  PROVE  HInv'
<1>0. /\ asked' = [d \in Conns |-> asked'[d]]
      /\ heard' = [d \in Conns |-> heard'[d]]
      /\ log' = [d \in Conns |-> log'[d]]
  BY DEF HInv
<1>1. /\ pc'[c] = p /\ asked'[c] = a /\ heard'[c] = h /\ log'[c] = l
  BY DEF HInv
<1>2. ASSUME NEW d \in Conns \ {c}
      PROVE  pc'[d] = pc[d] /\ asked'[d] = asked[d] /\ heard'[d] = heard[d] /\ log'[d] = log[d]
  BY DEF HInv
<1>3. ASSUME NEW d \in Conns
      PROVE (pc'[d] \in {"start", "connect"} => Heard(d)') /\ Reported(d)'
  <2>1. CASE d = c
    BY <1>1, <2>1 DEF Heard, Reported
  <2>2. CASE d # c
    BY <1>2, <2>2 DEF Heard, Reported, HInv
  <2>. QED
    BY <2>1, <2>2
<1>. QED
  BY <1>0, <1>3 DEF HInv

\* A step that hears nothing and records at most one event, which is not a connect or is Accurate.
LEMMA OneMore ==
  ASSUME HInv, NEW c \in Conns, NEW l,
         UNCHANGED <<asked, heard>>,
         log' = [log EXCEPT ![c] = l], DOMAIN log = Conns, DOMAIN pc = Conns,
         NEW p, pc' = [pc EXCEPT ![c] = p],
         p \in {"start", "connect"} => pc[c] \in {"start", "connect"},
         \A i \in DOMAIN l : l[i].kind = "connect" => Accurate(l[i], asked[c], heard[c])
  PROVE  HInv'
<1> DEFINE a == asked[c]
           h == heard[c]
<1>1. asked' = [asked EXCEPT ![c] = a] /\ heard' = [heard EXCEPT ![c] = h]
  BY DEF HInv
<1>2. p \in {"start", "connect"} => Beginning(a, h)
  BY DEF HInv, Heard
<1>3. \A i \in DOMAIN l : l[i].kind = "connect" => Accurate(l[i], a, h)
  OBVIOUS
<1> HIDE DEF a, h
<1>. QED
  BY <1>1, <1>2, <1>3, OthersReport DEF Beginning

\* A step of handle that neither hears nor records.
LEMMA SilentReports ==
  ASSUME HInv, IInv, NEW c \in Conns,
         UNCHANGED <<asked, heard, log>>,
         NEW p, pc' = [pc EXCEPT ![c] = p],
         p \in {"start", "connect"} => pc[c] \in {"start", "connect"}
  PROVE  HInv'
<1> DEFINE l == log[c]
<1>1. log' = [log EXCEPT ![c] = l] /\ DOMAIN log = Conns /\ DOMAIN pc = Conns
  BY DEF IInv, Typed, HInv
<1>2. \A i \in DOMAIN l : l[i].kind = "connect" => Accurate(l[i], asked[c], heard[c])
  BY DEF HInv, Reported
<1> HIDE DEF l
<1>. QED
  BY <1>1, <1>2, OneMore

\* A step of handle that records one event.
LEMMA EmitReports ==
  ASSUME HInv, IInv, NEW c \in Conns,
         UNCHANGED <<asked, heard>>, NEW e, Appended(c, e),
         e.kind = "connect" => Accurate(e, asked[c], heard[c]),
         NEW p, pc' = [pc EXCEPT ![c] = p],
         p \in {"start", "connect"} => pc[c] \in {"start", "connect"}
  PROVE  HInv'
<1> DEFINE l == Append(log[c], e)
<1>1. log' = [log EXCEPT ![c] = l] /\ DOMAIN log = Conns /\ DOMAIN pc = Conns
  BY DEF IInv, Typed, Appended
<1>2. Reported(c)
  BY DEF HInv
<1>3. \E S : log[c] \in Seq(S)
  BY DEF IInv, Typed
<1>4. /\ Len(log[c]) \in Nat /\ DOMAIN log[c] = 1..Len(log[c]) /\ DOMAIN l = 1..(Len(log[c]) + 1)
      /\ l[Len(log[c]) + 1] = e /\ \A i \in 1..Len(log[c]) : l[i] = log[c][i]
  BY <1>3, AppendTells
<1> HIDE DEF l
<1>5. ASSUME NEW i \in DOMAIN l, l[i].kind = "connect" PROVE Accurate(l[i], asked[c], heard[c])
  <2>1. CASE i = Len(log[c]) + 1
    BY <1>4, <1>5, <2>1
  <2>2. CASE i # Len(log[c]) + 1
    <3>1. i \in 1..Len(log[c])
      BY <1>4, <2>2
    <3>. QED
      BY <1>2, <1>4, <1>5, <3>1 DEF Reported
  <2>. QED
    BY <2>1, <2>2
<1>. QED
  BY <1>1, <1>5, OneMore

\* A step of handle that loses its event.
LEMMA LossReports ==
  ASSUME HInv, IInv, NEW c \in Conns,
         UNCHANGED <<asked, heard>>, Dropped(c),
         NEW p, pc' = [pc EXCEPT ![c] = p],
         p \in {"start", "connect"} => pc[c] \in {"start", "connect"}
  PROVE  HInv'
<1>1. UNCHANGED log
  BY DEF Dropped, HInv
<1>. QED
  BY <1>1, SilentReports

\* The invariant holds of every state of the listener.
LEMMA RdpHears == Spec => []HInv
<1>1. Init => HInv
  BY DEF Init, HInv, Reported
<1>2. IInv /\ HInv /\ [Next]_vars => HInv'
  <2> SUFFICES ASSUME IInv, HInv, [Next]_vars PROVE HInv'
    OBVIOUS
  <2>1. CASE UNCHANGED vars
    BY <2>1 DEF vars, HInv, Heard, Reported
  <2>2. ASSUME NEW c \in Conns, Accept(c) \/ Refuse(c) \/ FirstFails(c) PROVE HInv'
    BY <2>2, SilentReports DEF Accept, Refuse, FirstFails, Step
  <2>3. ASSUME NEW c \in Conns, SecondFails(c) \/ Release(c) PROVE HInv'
    BY <2>3, SilentReports DEF SecondFails, Release, Step
  <2>4. ASSUME NEW c \in Conns, ReadFirst(c) PROVE HInv'
    <3>1. PICK r \in Requests : \E n \in 1..Len(Wire(r)) :
            /\ pc[c] = "first" /\ pc' = [pc EXCEPT ![c] = IF n < MinRead THEN "release" ELSE "start"]
            /\ asked' = [asked EXCEPT ![c] = r]
            /\ heard' = [heard EXCEPT ![c] = SubSeq(Wire(r), 1, n)]
            /\ UNCHANGED log
      BY <2>4 DEF ReadFirst, Step
    <3>a. PICK n \in 1..Len(Wire(r)) :
            /\ pc[c] = "first" /\ pc' = [pc EXCEPT ![c] = IF n < MinRead THEN "release" ELSE "start"]
            /\ asked' = [asked EXCEPT ![c] = r]
            /\ heard' = [heard EXCEPT ![c] = SubSeq(Wire(r), 1, n)]
            /\ UNCHANGED log
      BY <3>1
    <3>2. log' = [log EXCEPT ![c] = log[c]] /\ DOMAIN log = Conns /\ DOMAIN pc = Conns
      BY <3>a DEF IInv, Typed, HInv
    <3>3. DOMAIN log[c] = {}
      <4>1. Told(log[c], << >>)
        BY <3>a DEF IInv, Scripted, Stories
      <4>2. PICK S : log[c] \in Seq(S)
        BY DEF IInv, Typed
      <4>. QED
        BY <4>1, <4>2 DEF Told
    <3> DEFINE h == SubSeq(Wire(r), 1, n)
               q == IF n < MinRead THEN "release" ELSE "start"
               l == log[c]
    <3>b. asked' = [asked EXCEPT ![c] = r] /\ DOMAIN log = Conns /\ DOMAIN pc = Conns
      BY <3>a, <3>2
    <3>4. heard' = [heard EXCEPT ![c] = h] /\ pc' = [pc EXCEPT ![c] = q] /\ log' = [log EXCEPT ![c] = l]
      BY <3>a, <3>2
    <3>5. Beginning(r, h)
      BY DEF Beginning
    <3>6. \A i \in DOMAIN l : l[i].kind = "connect" => Accurate(l[i], r, h)
      BY <3>3
    <3> HIDE DEF h, q, l
    <3>. QED
      BY <3>b, <3>4, <3>5, <3>6, OthersReport
  <2>5. ASSUME NEW c \in Conns, SessionStart(c) PROVE HInv'
    <3>1. PICK e : e.kind = "start" /\ Emit(c, e, {})
      BY <2>5 DEF SessionStart
    <3>2. Appended(c, e)
      BY <3>1, EmitBare DEF IInv, Typed
    <3>. QED
      BY <2>5, <3>1, <3>2, EmitReports DEF SessionStart, Step
  <2>6. ASSUME NEW c \in Conns, Connect(c) PROVE HInv'
    <3> DEFINE cr == ParseConnectionRequest(heard[c])
               e == [kind |-> "connect", cookie |-> cr.cookie, routing |-> cr.routing, mask |-> cr.mask]
               texts == {cr.cookie, cr.routing}
    <3>1. pc[c] = "connect" /\ pc' = [pc EXCEPT ![c] = "second"] /\ UNCHANGED <<asked, heard>>
      BY <2>6 DEF Connect, Step
    <3>a. Emit(c, e, texts)
      BY <2>6 DEF Connect
    <3>2. Heard(c)
      BY <3>1 DEF HInv
    <3>3. Faithful(cr, asked[c], heard[c])
      BY <3>2, ParsesFaithfully DEF Heard, Beginning
    <3> HIDE DEF cr
    <3>4. Faithful(e, asked[c], heard[c])
      BY <3>3 DEF Faithful
    <3>5. (\A t \in texts : Valid(t)) => Valid(e.cookie) /\ Valid(e.routing)
      OBVIOUS
    <3> HIDE DEF e, texts
    <3>6. \/ Appended(c, e) /\ \A t \in texts : Valid(t)
          \/ Dropped(c)
      BY <3>a, EmitOutcomes DEF IInv, Typed
    <3>7. CASE Appended(c, e) /\ \A t \in texts : Valid(t)
      <4>1. Accurate(e, asked[c], heard[c])
        BY <3>4, <3>5, <3>7 DEF Accurate
      <4>. QED
        BY <3>1, <3>7, <4>1, EmitReports
    <3>8. CASE Dropped(c)
      BY <3>1, <3>8, LossReports
    <3>. QED
      BY <3>6, <3>7, <3>8
  <2>7. ASSUME NEW c \in Conns, SessionEnd(c) PROVE HInv'
    <3>1. PICK e : e.kind = "end" /\ Emit(c, e, {})
      BY <2>7 DEF SessionEnd
    <3>2. Appended(c, e)
      BY <3>1, EmitBare DEF IInv, Typed
    <3>. QED
      BY <2>7, <3>1, <3>2, EmitReports DEF SessionEnd, Step
  <2>8. ASSUME NEW c \in Conns, ReadSecond(c) PROVE HInv'
    <3>1. pc[c] = "second" /\ pc' = [pc EXCEPT ![c] = "end"] /\ UNCHANGED <<asked, heard>>
      BY <2>8 DEF ReadSecond, Step
    <3>2. UNCHANGED log \/ \E e, texts : e.kind = "client" /\ Emit(c, e, texts)
      BY <2>8 DEF ReadSecond
    <3>3. CASE UNCHANGED log
      BY <3>1, <3>3, SilentReports
    <3>4. ASSUME NEW e, NEW texts, e.kind = "client", Emit(c, e, texts) PROVE HInv'
      <4>1. Appended(c, e) \/ Dropped(c)
        BY <3>4, EmitOutcomes DEF IInv, Typed
      <4>. QED
        BY <3>1, <3>4, <4>1, EmitReports, LossReports
    <3>. QED
      BY <3>2, <3>3, <3>4
  <2>9. CASE Shutdown
    BY <2>9 DEF Shutdown, HInv, Heard, Reported
  <2>10. CASE Exit
    BY <2>10 DEF Exit, HInv, Heard, Reported
  <2>. QED
    BY <2>1, <2>2, <2>3, <2>4, <2>5, <2>6, <2>7, <2>8, <2>9, <2>10 DEF Next, Recording
<1>. QED
  BY <1>1, <1>2, RdpInductive, PTL DEF Spec

\* rdp/parse.go parseConnectionRequest and sanitize: for every request, every width of its
\* characters, every limit on what is kept and every point at which the data ends, what is
\* recorded as cookie and as routing token is what the client sent, as far as a field holds
\* it, or nothing; it is there as soon as its line has come, and it has no control
\* characters and no part of a character.
THEOREM RdpNeverHalfACookie == Spec => []NeverHalfACookie
<1>1. HInv => NeverHalfACookie
  BY DEF HInv, Reported, Accurate, NeverHalfACookie
<1>. QED
  BY <1>1, RdpHears, PTL
-----------------------------------------------------------------------------
(* The connects that are lost *)

\* The handler is past the connect, or has recorded another event, and there is none.
NoConnect(h, p) ==
  \/ Len(h) >= 2 /\ h[2].kind # "connect"
  \/ Len(h) = 1 /\ p \in {"second", "end"}

LInv == \A c \in Conns : NoConnect(log[c], pc[c]) => Lossy(asked[c])

\* A parsed request that does not marshal is one whose token is cut inside a character.
LEMMA RefusedIsLossy ==
  ASSUME NEW cr, NEW r, NEW data, Faithful(cr, r, data), ~(Valid(cr.cookie) /\ Valid(cr.routing))
  PROVE  Lossy(r)
<1>1. Valid(Nothing)
  BY DEF Valid, Nothing
<1>. QED
  BY <1>1 DEF Faithful, Lossy

\* A step of one handler leaves the others.
LEMMA OthersLose ==
  ASSUME LInv, NEW c \in Conns, NEW a, NEW l, NEW p, DOMAIN pc = Conns, DOMAIN log = Conns,
         DOMAIN asked = Conns, asked' = [asked EXCEPT ![c] = a], log' = [log EXCEPT ![c] = l],
         pc' = [pc EXCEPT ![c] = p], NoConnect(l, p) => Lossy(a)
  PROVE  LInv'
<1>1. asked'[c] = a /\ log'[c] = l /\ pc'[c] = p
  OBVIOUS
<1>2. \A d \in Conns \ {c} : asked'[d] = asked[d] /\ log'[d] = log[d] /\ pc'[d] = pc[d]
  OBVIOUS
<1>3. ASSUME NEW d \in Conns PROVE NoConnect(log'[d], pc'[d]) => Lossy(asked'[d])
  <2>1. CASE d = c
    BY <1>1, <2>1
  <2>2. CASE d # c
    BY <1>2, <2>2 DEF LInv
  <2>. QED
    BY <2>1, <2>2
<1>. QED
  BY <1>3 DEF LInv

\* A step of handle that records nothing, or loses what it records.
LEMMA SilentLoses ==
  ASSUME LInv, HInv, IInv, NEW c \in Conns, UNCHANGED asked, UNCHANGED log \/ Dropped(c),
         NEW p, pc' = [pc EXCEPT ![c] = p],
         p \in {"second", "end"} => pc[c] \in {"second", "end"} \/ Lossy(asked[c])
  PROVE  LInv'
<1> DEFINE a == asked[c]
           l == log[c]
<1>1. asked' = [asked EXCEPT ![c] = a] /\ log' = [log EXCEPT ![c] = l]
  BY DEF HInv, Dropped
<1>2. DOMAIN pc = Conns /\ DOMAIN log = Conns /\ DOMAIN asked = Conns
  BY DEF IInv, Typed, HInv
<1>3. NoConnect(l, p) => Lossy(a)
  BY DEF LInv, NoConnect
<1> HIDE DEF a, l
<1>. QED
  BY <1>1, <1>2, <1>3, OthersLose

\* A step of handle that records one event.
LEMMA RecordLoses ==
  ASSUME LInv, HInv, IInv, NEW c \in Conns, UNCHANGED asked, NEW e, Appended(c, e),
         NEW p, pc' = [pc EXCEPT ![c] = p],
         \/ pc[c] = "start" /\ p = "connect"
         \/ pc[c] = "connect" /\ e.kind = "connect"
         \/ pc[c] \in {"second", "end"}
  PROVE  LInv'
<1> DEFINE a == asked[c]
           h == log[c]
           l == Append(log[c], e)
<1>1. asked' = [asked EXCEPT ![c] = a] /\ log' = [log EXCEPT ![c] = l]
  BY DEF HInv, Appended
<1>2. DOMAIN pc = Conns /\ DOMAIN log = Conns /\ DOMAIN asked = Conns
  BY DEF IInv, Typed, HInv
<1>3. /\ Len(h) \in Nat /\ Len(l) = Len(h) + 1
      /\ l[Len(h) + 1] = e /\ \A i \in 1..Len(h) : l[i] = h[i]
  <2>1. \E S : log[c] \in Seq(S)
    BY DEF IInv, Typed
  <2>. QED
    BY <2>1, AppendTells
<1>4. PICK story \in Stories(pc[c]) : Len(h) = Len(story)
  BY DEF IInv, Scripted, Told
<1>5. NoConnect(h, pc[c]) => Lossy(a)
  BY DEF LInv
<1> HIDE DEF a, h, l
<1>6. NoConnect(l, p) => Lossy(a)
  <2>1. CASE pc[c] = "start" /\ p = "connect"
    <3>1. Len(h) = 0
      BY <2>1, <1>4 DEF Stories
    <3>. QED
      BY <2>1, <3>1, <1>3 DEF NoConnect
  <2>2. CASE pc[c] = "connect" /\ e.kind = "connect"
    <3>1. Len(h) = 1
      BY <2>2, <1>4 DEF Stories
    <3>. QED
      BY <2>2, <3>1, <1>3 DEF NoConnect
  <2>3. CASE pc[c] \in {"second", "end"}
    <3>1. Len(h) # 0
      BY <2>3, <1>4 DEF Stories
    <3>2. CASE Len(h) = 1
      BY <2>3, <3>2, <1>5 DEF NoConnect
    <3>3. CASE Len(h) # 1
      <4> DEFINE k == Len(h)
                 j == Len(l)
      <4>a. k \in Nat /\ j = k + 1 /\ k # 0 /\ k # 1
        BY <3>1, <3>3, <1>3
      <4> HIDE DEF k, j
      <4>b. k >= 2 /\ 2 \in 1..k /\ j # 1
        BY <4>a
      <4>1. Len(h) >= 2 /\ 2 \in 1..Len(h) /\ Len(l) # 1
        BY <4>b DEF k, j
      <4>2. l[2] = h[2]
        BY <4>1, <1>3
      <4>. QED
        BY <4>1, <4>2, <1>5 DEF NoConnect
    <3>. QED
      BY <3>2, <3>3
  <2>. QED
    BY <2>1, <2>2, <2>3
<1>. QED
  BY <1>1, <1>2, <1>6, OthersLose

\* A connect is missing only where a token was cut inside a character.
LEMMA RdpLoses == Spec => []LInv
<1>1. Init => LInv
  BY DEF Init, LInv, NoConnect
<1>2. IInv /\ HInv /\ LInv /\ [Next]_vars => LInv'
  <2> SUFFICES ASSUME IInv, HInv, LInv, [Next]_vars PROVE LInv'
    OBVIOUS
  <2>1. CASE UNCHANGED vars
    BY <2>1 DEF vars, LInv
  <2>2. ASSUME NEW c \in Conns, Accept(c) \/ Refuse(c) \/ FirstFails(c) PROVE LInv'
    BY <2>2, SilentLoses DEF Accept, Refuse, FirstFails, Step
  <2>3. ASSUME NEW c \in Conns, SecondFails(c) \/ Release(c) PROVE LInv'
    BY <2>3, SilentLoses DEF SecondFails, Release, Step
  <2>4. ASSUME NEW c \in Conns, ReadFirst(c) PROVE LInv'
    <3>1. PICK r, q : /\ pc[c] = "first" /\ pc' = [pc EXCEPT ![c] = q] /\ q \in {"release", "start"}
                      /\ asked' = [asked EXCEPT ![c] = r] /\ UNCHANGED log
      BY <2>4 DEF ReadFirst, Step
    <3> DEFINE l == log[c]
    <3>2. Len(l) = 0
      BY <3>1 DEF IInv, Scripted, Stories, Told
    <3>3. log' = [log EXCEPT ![c] = l] /\ DOMAIN log = Conns /\ DOMAIN pc = Conns /\ DOMAIN asked = Conns
      BY <3>1 DEF IInv, Typed, HInv
    <3> HIDE DEF l
    <3>4. ~NoConnect(l, q)
      BY <3>2 DEF NoConnect
    <3>. QED
      BY <3>1, <3>3, <3>4, OthersLose
  <2>5. ASSUME NEW c \in Conns, SessionStart(c) PROVE LInv'
    <3>1. PICK e : Emit(c, e, {})
      BY <2>5 DEF SessionStart
    <3>2. Appended(c, e)
      BY <3>1, EmitBare DEF IInv, Typed
    <3>. QED
      BY <2>5, <3>2, RecordLoses DEF SessionStart, Step
  <2>6. ASSUME NEW c \in Conns, Connect(c) PROVE LInv'
    <3> DEFINE cr == ParseConnectionRequest(heard[c])
               e == [kind |-> "connect", cookie |-> cr.cookie, routing |-> cr.routing, mask |-> cr.mask]
               texts == {cr.cookie, cr.routing}
    <3>1. pc[c] = "connect" /\ pc' = [pc EXCEPT ![c] = "second"] /\ UNCHANGED asked
      BY <2>6 DEF Connect, Step
    <3>2. Emit(c, e, texts)
      BY <2>6 DEF Connect
    <3>3. Faithful(cr, asked[c], heard[c])
      <4>1. Heard(c)
        BY <3>1 DEF HInv
      <4>. QED
        BY <4>1, ParsesFaithfully DEF Heard, Beginning
    <3> HIDE DEF cr
    <3>4. /\ e.kind = "connect"
          /\ (\A t \in texts : Valid(t)) <=> (Valid(cr.cookie) /\ Valid(cr.routing))
      OBVIOUS
    <3> HIDE DEF e, texts
    <3>5. \/ Appended(c, e)
          \/ Dropped(c) /\ ~(Valid(cr.cookie) /\ Valid(cr.routing))
      BY <3>2, <3>4, EmitOutcomes DEF IInv, Typed
    <3>6. CASE Appended(c, e)
      BY <3>1, <3>4, <3>6, RecordLoses
    <3>7. CASE Dropped(c) /\ ~(Valid(cr.cookie) /\ Valid(cr.routing))
      <4>1. Lossy(asked[c])
        BY <3>3, <3>7, RefusedIsLossy
      <4>. QED
        BY <3>1, <3>7, <4>1, SilentLoses
    <3>. QED
      BY <3>5, <3>6, <3>7
  <2>7. ASSUME NEW c \in Conns, SessionEnd(c) PROVE LInv'
    <3>1. PICK e : Emit(c, e, {})
      BY <2>7 DEF SessionEnd
    <3>2. Appended(c, e)
      BY <3>1, EmitBare DEF IInv, Typed
    <3>. QED
      BY <2>7, <3>2, RecordLoses DEF SessionEnd, Step
  <2>8. ASSUME NEW c \in Conns, ReadSecond(c) PROVE LInv'
    <3>1. pc[c] = "second" /\ pc' = [pc EXCEPT ![c] = "end"] /\ UNCHANGED asked
      BY <2>8 DEF ReadSecond, Step
    <3>2. UNCHANGED log \/ \E e, texts : Emit(c, e, texts)
      BY <2>8 DEF ReadSecond
    <3>3. CASE UNCHANGED log
      BY <3>1, <3>3, SilentLoses
    <3>4. ASSUME NEW e, NEW texts, Emit(c, e, texts) PROVE LInv'
      <4>1. Appended(c, e) \/ Dropped(c)
        BY <3>4, EmitOutcomes DEF IInv, Typed
      <4>2. CASE Appended(c, e)
        BY <3>1, <4>2, RecordLoses
      <4>3. CASE Dropped(c)
        BY <3>1, <4>3, SilentLoses
      <4>. QED
        BY <4>1, <4>2, <4>3
    <3>. QED
      BY <3>2, <3>3, <3>4
  <2>9. CASE Shutdown
    BY <2>9 DEF Shutdown, LInv
  <2>10. CASE Exit
    BY <2>10 DEF Exit, LInv, NoConnect
  <2>. QED
    BY <2>1, <2>2, <2>3, <2>4, <2>5, <2>6, <2>7, <2>8, <2>9, <2>10 DEF Next, Recording
<1>. QED
  BY <1>1, <1>2, RdpInductive, RdpHears, PTL DEF Spec

\* rdp/server.go handle: whatever the client sends, wherever the network cuts it, and
\* whenever a Read fails or the node shuts down, a connection's record is a beginning of
\* start, connect, perhaps client, end, and ends with the end once handle returned; the
\* connect is missing only if the cookie or the routing token is cut inside a character.
THEOREM RdpStoriesWhole == Spec => []StoryWhole
<1>1. ASSUME IInv, LInv, NEW c \in Conns
      PROVE  /\ \/ Tells(log[c], <<"start", "connect", "client", "end">>)
                \/ Tells(log[c], <<"start", "connect", "end">>)
                \/ /\ Tells(log[c], <<"start", "client", "end">>) \/ Tells(log[c], <<"start", "end">>)
                   /\ Lossy(asked[c])
             /\ (pc[c] \in {"release", "closed"} /\ log[c] # << >>)
                  => log[c][Len(log[c])].kind = "end"
  <2>1. PICK S : log[c] \in Seq(S)
    BY <1>1 DEF IInv, Typed
  <2>2. PICK story \in Stories(pc[c]) : Told(log[c], story)
    BY <1>1 DEF IInv, Scripted
  <2>3. /\ Len(log[c]) \in Nat /\ DOMAIN log[c] = 1..Len(log[c])
        /\ log[c] # << >> => Len(log[c]) # 0
    BY <2>1
  <2>4. story \in Stories("gone")
    BY <1>1, <2>2 DEF IInv, Typed, Points, Stories
  <2>a. Len(log[c]) >= 2 /\ log[c][2].kind # "connect" => Lossy(asked[c])
    BY <1>1 DEF LInv, NoConnect
  <2>5. \/ Tells(log[c], <<"start", "connect", "client", "end">>)
        \/ Tells(log[c], <<"start", "connect", "end">>)
        \/ /\ Tells(log[c], <<"start", "client", "end">>) \/ Tells(log[c], <<"start", "end">>)
           /\ Lossy(asked[c])
    <3>1. CASE story = <<"start", "connect", "client", "end">>
      BY <2>2, <2>3, <3>1 DEF Told, Tells
    <3>2. CASE story = <<"start", "connect", "client">>
      BY <2>2, <2>3, <3>2 DEF Told, Tells
    <3>3. CASE story = <<"start", "connect", "end">>
      BY <2>2, <2>3, <3>3 DEF Told, Tells
    <3>4. CASE story = <<"start", "connect">>
      BY <2>2, <2>3, <3>4 DEF Told, Tells
    <3>5. CASE story = <<"start">>
      BY <2>2, <2>3, <3>5 DEF Told, Tells
    <3>6. CASE story = << >>
      BY <2>2, <2>3, <3>6 DEF Told, Tells
    <3>7. CASE story = <<"start", "client", "end">>
      <4>1. Tells(log[c], <<"start", "client", "end">>)
        BY <2>2, <2>3, <3>7 DEF Told, Tells
      <4>2. Len(log[c]) >= 2 /\ log[c][2].kind # "connect"
        BY <2>2, <2>3, <3>7 DEF Told
      <4>. QED
        BY <2>a, <4>1, <4>2
    <3>8. CASE story = <<"start", "client">>
      <4>1. Tells(log[c], <<"start", "client", "end">>)
        BY <2>2, <2>3, <3>8 DEF Told, Tells
      <4>2. Len(log[c]) >= 2 /\ log[c][2].kind # "connect"
        BY <2>2, <2>3, <3>8 DEF Told
      <4>. QED
        BY <2>a, <4>1, <4>2
    <3>9. CASE story = <<"start", "end">>
      <4>1. Tells(log[c], <<"start", "end">>)
        BY <2>2, <2>3, <3>9 DEF Told, Tells
      <4>2. Len(log[c]) >= 2 /\ log[c][2].kind # "connect"
        BY <2>2, <2>3, <3>9 DEF Told
      <4>. QED
        BY <2>a, <4>1, <4>2
    <3>. QED
      BY <2>4, <3>1, <3>2, <3>3, <3>4, <3>5, <3>6, <3>7, <3>8, <3>9 DEF Stories
  <2>6. ASSUME pc[c] \in {"release", "closed"}, log[c] # << >>
        PROVE  log[c][Len(log[c])].kind = "end"
    <3>1. story \in { << >>, <<"start", "connect", "end">>, <<"start", "connect", "client", "end">>,
                       <<"start", "end">>, <<"start", "client", "end">> }
      BY <2>6 DEF Stories
    <3>2. CASE story = << >>
      BY <2>2, <2>3, <2>6, <3>2 DEF Told
    <3>3. CASE story = <<"start", "connect", "end">>
      BY <2>2, <2>3, <3>3 DEF Told
    <3>4. CASE story = <<"start", "connect", "client", "end">>
      BY <2>2, <2>3, <3>4 DEF Told
    <3>5. CASE story = <<"start", "end">>
      BY <2>2, <2>3, <3>5 DEF Told
    <3>6. CASE story = <<"start", "client", "end">>
      BY <2>2, <2>3, <3>6 DEF Told
    <3>. QED
      BY <3>1, <3>2, <3>3, <3>4, <3>5, <3>6
  <2>. QED
    BY <2>5, <2>6
<1>2. IInv /\ LInv => StoryWhole
  BY <1>1 DEF StoryWhole
<1>. QED
  BY <1>2, RdpInductive, RdpLoses, PTL
-----------------------------------------------------------------------------
(* The payload of a telnet stream *)

Streams == Seq(Bytes)

\* The least end of a subnegotiation.
LEMMA FirstEnd ==
  ASSUME NEW s \in Streams, SubEnds(s) # {}
  PROVE  LET m == CHOOSE i \in SubEnds(s) : \A j \in SubEnds(s) : i <= j
         IN m \in SubEnds(s) /\ (\A j \in SubEnds(s) : m <= j) /\ m \in 3..(Len(s) - 1)
<1>1. SubEnds(s) \subseteq Nat /\ SubEnds(s) \subseteq 3..(Len(s) - 1)
  BY DEF SubEnds, Streams
<1>2. \E m \in SubEnds(s) : \A j \in SubEnds(s) : m <= j
  BY <1>1, NatMin
<1>. QED
  BY <1>1, <1>2

\* A unit is at least a byte of the stream, and what follows it is shorter.
LEMMA UnitBounds ==
  ASSUME NEW s \in Streams, s # << >>
  PROVE  /\ UnitLength(s) \in 1..Len(s)
         /\ RestOf(s) \in Streams /\ Len(RestOf(s)) < Len(s)
         /\ Meaning(s) \in Streams
<1>1. Len(s) \in Nat \ {0} /\ \A i \in 1..Len(s) : s[i] \in Bytes
  BY DEF Streams
<1>2. UnitLength(s) \in 1..Len(s)
  <2> DEFINE m == CHOOSE i \in SubEnds(s) : \A j \in SubEnds(s) : i <= j
             n == CASE s[1] # "iac" \/ Len(s) = 1 -> 1
                    [] s[1] = "iac" /\ Len(s) > 1 /\ s[2] = "will" -> 3
                    [] s[1] = "iac" /\ Len(s) > 1 /\ s[2] = "sb" ->
                         IF SubEnds(s) = {} THEN Len(s) ELSE m + 1
                    [] OTHER -> 2
  <2>1. UnitLength(s) = IF n > Len(s) THEN Len(s) ELSE n
    BY DEF UnitLength
  <2>2. SubEnds(s) # {} => m \in Nat
    BY FirstEnd, <1>1
  <2> HIDE DEF m
  <2>3. n \in Nat \ {0}
    BY <1>1, <2>2
  <2> HIDE DEF n
  <2>. QED
    BY <1>1, <2>1, <2>3
<1>3. RestOf(s) \in Streams /\ Len(RestOf(s)) < Len(s)
  BY <1>1, <1>2 DEF RestOf, Streams
<1>4. Meaning(s) \in Streams
  <2>1. Meaning(s) \in {<<s[1]>>, <<"iac">>, << >>}
    BY DEF Meaning
  <2>2. s[1] \in Bytes /\ "iac" \in Bytes
    BY <1>1 DEF Bytes
  <2>3. CASE Meaning(s) = <<s[1]>>
    BY <2>2, <2>3 DEF Streams
  <2>4. CASE Meaning(s) = <<"iac">>
    BY <2>2, <2>4 DEF Streams
  <2>5. CASE Meaning(s) = << >>
    BY <2>5 DEF Streams
  <2>. QED
    BY <2>1, <2>3, <2>4, <2>5
<1>. QED
  BY <1>2, <1>3, <1>4

\* The payload of the streams of at most n bytes, as a function on them.
Short(n) == {s \in Streams : Len(s) <= n}
StripBy(f, s) == IF s = << >> THEN << >> ELSE Meaning(s) \o f[RestOf(s)]
Strips(f, n) == f = [s \in Short(n) |-> StripBy(f, s)]

\* A function that strips the streams up to a length does so for each of them.
LEMMA StripsAt ==
  ASSUME NEW n \in Nat, NEW f, Strips(f, n), NEW s \in Short(n)
  PROVE  f[s] = StripBy(f, s)
<1> DEFINE g == [x \in Short(n) |-> StripBy(f, x)]
<1>1. f = g
  BY DEF Strips
<1>2. g[s] = StripBy(f, s)
  OBVIOUS
<1> HIDE DEF g
<1>. QED
  BY <1>1, <1>2

\* Two such functions agree where both are defined.
LEMMA StripsAgree ==
  ASSUME NEW n \in Nat, NEW m \in Nat, NEW f, NEW g, Strips(f, n), Strips(g, m)
  PROVE  \A s \in Short(n) \cap Short(m) : f[s] = g[s]
<1> DEFINE L == {k \in Nat : \E s \in Short(n) \cap Short(m) : Len(s) = k /\ f[s] # g[s]}
<1>0. \A s \in Streams : Len(s) \in Nat
  BY DEF Streams
<1>1. SUFFICES ASSUME L # {} PROVE FALSE
  BY <1>0 DEF Short
<1>2. PICK k \in L : \A j \in L : k <= j
  <2>1. L \subseteq Nat
    OBVIOUS
  <2> HIDE DEF L
  <2>. QED
    BY <1>1, <2>1, NatMin
<1>3. PICK s \in Short(n) \cap Short(m) : Len(s) = k /\ f[s] # g[s]
  BY <1>2
<1>4. f[s] = StripBy(f, s) /\ g[s] = StripBy(g, s)
  BY <1>3, StripsAt
<1>5. s # << >>
  BY <1>3, <1>4 DEF StripBy
<1>6. /\ RestOf(s) \in Short(n) \cap Short(m) /\ Len(RestOf(s)) < k
  <2>1. RestOf(s) \in Streams /\ Len(RestOf(s)) < Len(s)
    BY <1>3, <1>5, UnitBounds DEF Short
  <2>. QED
    BY <1>0, <1>3, <2>1 DEF Short
<1>7. f[RestOf(s)] = g[RestOf(s)]
  <2>1. Len(RestOf(s)) \in Nat
    BY <1>0, <1>6 DEF Short
  <2>. QED
    BY <1>2, <1>6, <2>1
<1>. QED
  BY <1>3, <1>4, <1>5, <1>7 DEF StripBy

\* There is one for every length.
LEMMA StripsExists == \A n \in Nat : \E f : Strips(f, n)
<1> DEFINE L == {n \in Nat : ~\E f : Strips(f, n)}
<1>0. \A s \in Streams : Len(s) \in Nat
  BY DEF Streams
<1>1. SUFFICES ASSUME L # {} PROVE FALSE
  OBVIOUS
<1>2. PICK n \in L : \A j \in L : n <= j
  <2>1. L \subseteq Nat
    OBVIOUS
  <2> HIDE DEF L
  <2>. QED
    BY <1>1, <2>1, NatMin
<1>3. n # 0
  <2> DEFINE f == [s \in Short(0) |-> << >>]
  <2>1. \A s \in Short(0) : s = << >>
    BY <1>0 DEF Short, Streams
  <2>2. \A s \in Short(0) : f[s] = StripBy(f, s)
    BY <2>1 DEF StripBy
  <2>3. f = [s \in Short(0) |-> StripBy(f, s)]
    BY <2>2
  <2>4. Strips(f, 0)
    BY <2>3 DEF Strips
  <2>. QED
    BY <1>2, <2>4
<1>4. n \in Nat /\ n - 1 \in Nat
  BY <1>2, <1>3
<1>5. PICK f : Strips(f, n - 1)
  BY <1>2, <1>4
<1> DEFINE g == [s \in Short(n) |-> StripBy(f, s)]
<1>6. ASSUME NEW s \in Short(n) PROVE g[s] = StripBy(g, s)
  <2>1. g[s] = StripBy(f, s)
    OBVIOUS
  <2>2. CASE s = << >>
    BY <2>1, <2>2 DEF StripBy
  <2>3. CASE s # << >>
    <3>1. RestOf(s) \in Short(n - 1) /\ RestOf(s) \in Short(n)
      <4>1. s \in Streams /\ Len(s) <= n
        BY DEF Short
      <4>2. RestOf(s) \in Streams /\ Len(RestOf(s)) < Len(s)
        BY <2>3, <4>1, UnitBounds
      <4>. QED
        BY <1>0, <1>4, <4>1, <4>2 DEF Short
    <3>2. g[RestOf(s)] = StripBy(f, RestOf(s))
      BY <3>1
    <3>3. f[RestOf(s)] = StripBy(f, RestOf(s))
      BY <1>4, <1>5, <3>1, StripsAt
    <3> HIDE DEF g
    <3>. QED
      BY <2>1, <3>2, <3>3 DEF StripBy
  <2>. QED
    BY <2>2, <2>3
<1>7. g = [s \in Short(n) |-> StripBy(g, s)]
  BY <1>6
<1>8. Strips(g, n)
  BY <1>7 DEF Strips
<1>. QED
  BY <1>2, <1>8

\* The payload of a stream is the meaning of its first unit and the payload of the rest:
\* the recursive definition defines something.
LEMMA StripEquation == \A s \in Streams : Strip[s] = StripBy(Strip, s)
<1> DEFINE Upto(n) == CHOOSE f : Strips(f, n)
           F == [s \in Streams |-> Upto(Len(s))[s]]
<1>0. \A s \in Streams : Len(s) \in Nat /\ s \in Short(Len(s))
  BY DEF Streams, Short
<1>1. \A n \in Nat : Strips(Upto(n), n)
  BY StripsExists
<1> HIDE DEF Upto
<1>2. ASSUME NEW s \in Streams PROVE F[s] = StripBy(F, s)
  <2>1. F[s] = StripBy(Upto(Len(s)), s)
    BY <1>0, <1>1, StripsAt
  <2>2. CASE s = << >>
    BY <2>1, <2>2 DEF StripBy
  <2>3. CASE s # << >>
    <3> DEFINE r == RestOf(s)
    <3>1. r \in Streams /\ Len(r) < Len(s) /\ Len(r) \in Nat /\ Len(s) \in Nat
      BY <2>3, <1>0, UnitBounds
    <3> HIDE DEF r
    <3>2. r \in Short(Len(r)) \cap Short(Len(s))
      BY <3>1 DEF Short
    <3>3. Upto(Len(r))[r] = Upto(Len(s))[r]
      BY <1>1, <3>1, <3>2, StripsAgree
    <3>4. F[r] = Upto(Len(r))[r]
      BY <3>1
    <3> HIDE DEF F
    <3>. QED
      BY <2>1, <2>3, <3>3, <3>4 DEF StripBy, r
  <2>. QED
    BY <2>2, <2>3
<1>3. F = [s \in Streams |-> StripBy(F, s)]
  BY <1>2
<1> HIDE DEF F
<1>4. Strip = CHOOSE f : f = [s \in Streams |-> StripBy(f, s)]
  BY DEF Strip, StripBy, Streams
<1>5. Strip = [s \in Streams |-> StripBy(Strip, s)]
  BY <1>3, <1>4
<1> DEFINE R == [s \in Streams |-> StripBy(Strip, s)]
<1>6. Strip = R
  BY <1>5
<1>7. \A s \in Streams : R[s] = StripBy(Strip, s)
  OBVIOUS
<1> HIDE DEF R
<1>. QED
  BY <1>6, <1>7

\* The payload of a stream of bytes is one.
LEMMA StripTyped == \A s \in Streams : Strip[s] \in Streams
<1> DEFINE L == {k \in Nat : \E s \in Streams : Len(s) = k /\ Strip[s] \notin Streams}
<1>0. \A s \in Streams : Len(s) \in Nat
  BY DEF Streams
<1>1. SUFFICES ASSUME L # {} PROVE FALSE
  BY <1>0
<1>2. PICK k \in L : \A j \in L : k <= j
  <2>1. L \subseteq Nat
    OBVIOUS
  <2> HIDE DEF L
  <2>. QED
    BY <1>1, <2>1, NatMin
<1>3. PICK s \in Streams : Len(s) = k /\ Strip[s] \notin Streams
  BY <1>2
<1>4. s # << >>
  <2>1. Strip[s] = StripBy(Strip, s)
    BY StripEquation
  <2>2. << >> \in Streams
    BY DEF Streams
  <2>. QED
    BY <1>3, <2>1, <2>2 DEF StripBy
<1>5. Strip[s] = Meaning(s) \o Strip[RestOf(s)]
  BY <1>4, StripEquation DEF StripBy
<1>6. RestOf(s) \in Streams /\ Len(RestOf(s)) < k /\ Meaning(s) \in Streams
  BY <1>3, <1>4, UnitBounds
<1>7. Strip[RestOf(s)] \in Streams
  BY <1>0, <1>2, <1>6
<1>8. Strip[s] \in Streams
  BY <1>5, <1>6, <1>7, ConcatProperties DEF Streams
<1>. QED
  BY <1>3, <1>8

\* The protocol's own bytes, and the short streams of them.
LEMMA Literals ==
  /\ {"iac", "will", "sb", "se", "nul"} \subseteq Bytes
  /\ << >> \in Streams
  /\ \A a \in Bytes : <<a>> \in Streams
  /\ \A a, b \in Bytes : <<a, b>> \in Streams
  /\ \A a, b, c \in Bytes : <<a, b, c>> \in Streams
  /\ \A a, b, c, d \in Bytes : <<a, b, c, d>> \in Streams
BY DEF Bytes, Streams

\* Joined, for streams.
LEMMA StreamJoined ==
  ASSUME NEW p \in Streams, NEW u \in Streams
  PROVE  /\ p \o u \in Streams /\ Len(p) \in Nat /\ Len(u) \in Nat /\ Len(p \o u) = Len(p) + Len(u)
         /\ \A i \in 1..Len(p) : (p \o u)[i] = p[i]
         /\ \A i \in 1..Len(u) : (p \o u)[Len(p) + i] = u[i]
BY Joined DEF Streams

\* What is left of a stream when its beginning is dropped.
LEMMA DropFirst ==
  ASSUME NEW p \in Streams, NEW u \in Streams
  PROVE  SubSeq(p \o u, Len(p) + 1, Len(p \o u)) = u
<1> DEFINE w == p \o u
<1>1. /\ w \in Seq(Bytes) /\ Len(p) \in Nat /\ Len(u) \in Nat /\ Len(w) = Len(p) + Len(u)
      /\ \A i \in 1..Len(u) : w[Len(p) + i] = u[i]
  BY Joined DEF Streams
<1> HIDE DEF w
<1> DEFINE v == SubSeq(w, Len(p) + 1, Len(w))
<1>2. v \in Seq(Bytes) /\ Len(v) = Len(u)
  BY <1>1
<1>3. ASSUME NEW i \in 1..Len(u) PROVE v[i] = u[i]
  <2>1. v[i] = w[Len(p) + i]
    BY <1>1
  <2>. QED
    BY <1>1, <2>1
<1> HIDE DEF v
<1>4. v = u
  BY <1>2, <1>3, SeqEqual DEF Streams
<1>. QED
  BY <1>4 DEF v, w

\* A beginning that is a unit can be stripped by itself.
LEMMA StripUnit ==
  ASSUME NEW p \in Streams, NEW u \in Streams, p # << >>, UnitLength(p \o u) = Len(p)
  PROVE  Strip[p \o u] = Meaning(p \o u) \o Strip[u]
<1> DEFINE w == p \o u
<1>1. w \in Streams /\ Len(w) = Len(p) + Len(u) /\ Len(p) \in Nat \ {0} /\ Len(u) \in Nat
  BY Joined DEF Streams
<1>2. RestOf(w) = u
  BY DropFirst DEF RestOf
<1> HIDE DEF w
<1>3. w # << >>
  BY <1>1
<1>4. Strip[w] = Meaning(w) \o Strip[u]
  BY <1>1, <1>2, <1>3, StripEquation DEF StripBy
<1>. QED
  BY <1>4 DEF w

\* A byte that is not IAC is itself, or a NUL that is dropped.
LEMMA StripOther ==
  ASSUME NEW b \in Bytes \ {"iac"}, NEW u \in Streams
  PROVE  Strip[<<b>> \o u] = IF b = "nul" THEN Strip[u] ELSE <<b>> \o Strip[u]
<1> DEFINE w == <<b>> \o u
<1>1. <<b>> \in Streams /\ Len(<<b>>) = 1 /\ <<b>> # << >> /\ <<b>>[1] = b
  BY Literals
<1>2. w \in Seq(Bytes) /\ Len(w) = 1 + Len(u) /\ Len(u) \in Nat /\ w[1] = b
  BY <1>1, Joined DEF Streams
<1> HIDE DEF w
<1>3. UnitLength(w) = 1
  BY <1>2 DEF UnitLength
<1>4. Meaning(w) = IF b = "nul" THEN << >> ELSE <<b>>
  BY <1>2 DEF Meaning
<1>5. Strip[w] = Meaning(w) \o Strip[u]
  BY <1>1, <1>3, StripUnit DEF w
<1>6. << >> \o Strip[u] = Strip[u]
  BY StripTyped, ConcatEmptySeq DEF Streams
<1>. QED
  BY <1>4, <1>5, <1>6 DEF w

\* IAC IAC is a data byte; IAC and a command are nothing.
LEMMA StripCommand ==
  ASSUME NEW b \in Bytes \ {"will", "sb"}, NEW u \in Streams
  PROVE  Strip[<<"iac", b>> \o u] = IF b = "iac" THEN <<"iac">> \o Strip[u] ELSE Strip[u]
<1> DEFINE p == <<"iac", b>>
           w == p \o u
<1>1. p \in Streams /\ Len(p) = 2 /\ p # << >> /\ p[1] = "iac" /\ p[2] = b
  BY Literals
<1> HIDE DEF p
<1>2. w \in Seq(Bytes) /\ Len(w) = 2 + Len(u) /\ Len(u) \in Nat /\ w[1] = "iac" /\ w[2] = b
  <2>1. /\ w \in Seq(Bytes) /\ Len(w) = Len(p) + Len(u) /\ Len(u) \in Nat
        /\ \A i \in 1..Len(p) : w[i] = p[i]
    BY <1>1, StreamJoined DEF Streams
  <2> HIDE DEF w
  <2>. QED
    BY <1>1, <2>1
<1> HIDE DEF w
<1>3. UnitLength(w) = 2
  BY <1>2 DEF UnitLength
<1>4. Meaning(w) = IF b = "iac" THEN <<"iac">> ELSE << >>
  BY <1>2 DEF Meaning
<1>5. Strip[w] = Meaning(w) \o Strip[u]
  BY <1>1, <1>3, StripUnit DEF w
<1>6. << >> \o Strip[u] = Strip[u]
  BY StripTyped, ConcatEmptySeq DEF Streams
<1>. QED
  BY <1>4, <1>5, <1>6 DEF w, p

\* IAC WILL (DO, WONT, DONT) and an option are nothing.
LEMMA StripOption ==
  ASSUME NEW b \in Bytes, NEW u \in Streams
  PROVE  Strip[<<"iac", "will", b>> \o u] = Strip[u]
<1> DEFINE p == <<"iac", "will", b>>
           w == p \o u
<1>1. p \in Streams /\ Len(p) = 3 /\ p # << >> /\ p[1] = "iac" /\ p[2] = "will"
  BY Literals
<1> HIDE DEF p
<1>2. w \in Seq(Bytes) /\ Len(w) = 3 + Len(u) /\ Len(u) \in Nat /\ w[1] = "iac" /\ w[2] = "will"
  <2>1. /\ w \in Seq(Bytes) /\ Len(w) = Len(p) + Len(u) /\ Len(u) \in Nat
        /\ \A i \in 1..Len(p) : w[i] = p[i]
    BY <1>1, StreamJoined DEF Streams
  <2> HIDE DEF w
  <2>. QED
    BY <1>1, <2>1
<1> HIDE DEF w
<1>3. UnitLength(w) = 3
  BY <1>2 DEF UnitLength
<1>4. Meaning(w) = << >>
  BY <1>2 DEF Meaning
<1>5. Strip[w] = Meaning(w) \o Strip[u]
  BY <1>1, <1>3, StripUnit DEF w
<1>6. << >> \o Strip[u] = Strip[u]
  BY StripTyped, ConcatEmptySeq DEF Streams
<1>. QED
  BY <1>4, <1>5, <1>6 DEF w, p

\* A subnegotiation that begins with a byte that is not IAC ends where it ends without it.
LEMMA ShiftOne ==
  ASSUME NEW s \in Streams, NEW t \in Streams, Len(s) = Len(t) + 1, Len(t) >= 2,
         s[3] # "iac", \A i \in 3..Len(t) : s[i + 1] = t[i]
  PROVE  /\ \A i \in SubEnds(t) : i + 1 \in SubEnds(s)
         /\ \A i \in SubEnds(s) : i - 1 \in SubEnds(t)
<1>0. Len(t) \in Nat /\ Len(s) \in Nat
  BY DEF Streams
<1>1. ASSUME NEW i \in 3..Len(t) PROVE Paired(s, i + 1) <=> Paired(t, i)
  <2>1. ASSUME Paired(t, i) PROVE Paired(s, i + 1)
    <3>1. PICK k \in 3..i : /\ \A j \in k..i : t[j] = "iac"
                            /\ k = 3 \/ t[k - 1] # "iac"
                            /\ (i - k) % 2 = 1
      BY <2>1 DEF Paired
    <3>2. k + 1 \in 3..(i + 1) /\ ((i + 1) - (k + 1)) % 2 = 1
      BY <3>1
    <3>3. ASSUME NEW j \in (k + 1)..(i + 1) PROVE s[j] = "iac"
      <4>1. j - 1 \in k..i /\ j - 1 \in 3..Len(t) /\ (j - 1) + 1 = j
        BY <1>0, <3>1
      <4>. QED
        BY <3>1, <4>1
    <3>4. s[(k + 1) - 1] # "iac"
      <4>1. (k + 1) - 1 = k
        BY <3>1
      <4>2. CASE k = 3
        BY <4>1, <4>2
      <4>3. CASE k # 3
        <5>1. k - 1 \in 3..Len(t) /\ (k - 1) + 1 = k
          BY <1>0, <3>1, <4>3
        <5>. QED
          BY <3>1, <4>1, <4>3, <5>1
      <4>. QED
        BY <4>2, <4>3
    <3>. QED
      BY <3>2, <3>3, <3>4 DEF Paired
  <2>2. ASSUME Paired(s, i + 1) PROVE Paired(t, i)
    <3>1. PICK k \in 3..(i + 1) : /\ \A j \in k..(i + 1) : s[j] = "iac"
                                  /\ k = 3 \/ s[k - 1] # "iac"
                                  /\ ((i + 1) - k) % 2 = 1
      BY <2>2 DEF Paired
    <3>2. k # 3
      BY <3>1
    <3>3. k - 1 \in 3..i /\ (i - (k - 1)) % 2 = 1
      <4>1. k # i + 2 /\ k - 1 \in 3..i
        BY <3>1, <3>2
      <4>2. i - (k - 1) = (i + 1) - k
        BY <3>1
      <4>. QED
        BY <3>1, <4>1, <4>2
    <3>4. ASSUME NEW j \in (k - 1)..i PROVE t[j] = "iac"
      <4>1. j + 1 \in k..(i + 1) /\ j \in 3..Len(t)
        BY <1>0, <3>1, <3>3
      <4>. QED
        BY <3>1, <4>1
    <3>5. k - 1 = 3 \/ t[(k - 1) - 1] # "iac"
      <4>1. SUFFICES ASSUME k - 1 # 3 PROVE t[(k - 1) - 1] # "iac"
        OBVIOUS
      <4>2. (k - 1) - 1 \in 3..Len(t) /\ ((k - 1) - 1) + 1 = k - 1
        BY <1>0, <3>1, <3>3, <4>1
      <4>. QED
        BY <3>1, <3>2, <4>2
    <3>. QED
      BY <3>3, <3>4, <3>5 DEF Paired
  <2>. QED
    BY <2>1, <2>2
<1>2. ASSUME NEW i \in SubEnds(t) PROVE i + 1 \in SubEnds(s)
  <2>1. i \in 3..(Len(t) - 1) /\ t[i] = "iac" /\ t[i + 1] = "se" /\ ~Paired(t, i)
    BY DEF SubEnds
  <2>2. i \in 3..Len(t) /\ i + 1 \in 3..Len(t) /\ i + 1 \in 3..(Len(s) - 1)
    BY <1>0, <2>1
  <2>. QED
    BY <1>1, <2>1, <2>2 DEF SubEnds
<1>3. ASSUME NEW i \in SubEnds(s) PROVE i - 1 \in SubEnds(t)
  <2>1. i \in 3..(Len(s) - 1) /\ s[i] = "iac" /\ s[i + 1] = "se" /\ ~Paired(s, i)
    BY DEF SubEnds
  <2>2. i # 3
    BY <2>1
  <2>3. i - 1 \in 3..(Len(t) - 1) /\ i - 1 \in 3..Len(t) /\ i \in 3..Len(t) /\ (i - 1) + 1 = i
    BY <1>0, <2>1, <2>2
  <2>. QED
    BY <1>1, <2>1, <2>3 DEF SubEnds
<1>. QED
  BY <1>2, <1>3

\* A subnegotiation that begins with IAC and a byte that is not SE, likewise.
LEMMA ShiftTwo ==
  ASSUME NEW s \in Streams, NEW t \in Streams, Len(s) = Len(t) + 2, Len(t) >= 2,
         s[3] = "iac", s[4] # "se", \A i \in 3..Len(t) : s[i + 2] = t[i]
  PROVE  /\ \A i \in SubEnds(t) : i + 2 \in SubEnds(s)
         /\ \A i \in SubEnds(s) : i - 2 \in SubEnds(t)
<1>0. Len(t) \in Nat /\ Len(s) \in Nat
  BY DEF Streams
<1>1. ASSUME NEW i \in 3..Len(t) PROVE Paired(s, i + 2) <=> Paired(t, i)
  <2>1. ASSUME Paired(t, i) PROVE Paired(s, i + 2)
    <3>1. PICK k \in 3..i : /\ \A j \in k..i : t[j] = "iac"
                            /\ k = 3 \/ t[k - 1] # "iac"
                            /\ (i - k) % 2 = 1
      BY <2>1 DEF Paired
    <3>2. ASSUME NEW j \in (k + 2)..(i + 2) PROVE s[j] = "iac"
      <4>1. j - 2 \in k..i /\ j - 2 \in 3..Len(t) /\ (j - 2) + 2 = j
        BY <1>0, <3>1
      <4>. QED
        BY <3>1, <4>1
    <3>3. CASE k = 3 /\ s[4] = "iac"
      <4>1. \A j \in 3..(i + 2) : s[j] = "iac"
        <5>1. TAKE j \in 3..(i + 2)
        <5>2. j = 3 \/ j = 4 \/ j \in (k + 2)..(i + 2)
          BY <3>3
        <5>. QED
          BY <3>2, <3>3, <5>2
      <4>2. ((i + 2) - 3) % 2 = 1 /\ 3 \in 3..(i + 2)
        BY <3>1, <3>3
      <4>. QED
        BY <4>1, <4>2 DEF Paired
    <3>4. CASE ~(k = 3 /\ s[4] = "iac")
      <4>1. s[(k + 2) - 1] # "iac"
        <5>1. CASE k = 3
          <6>1. (k + 2) - 1 = 4
            BY <5>1
          <6>. QED
            BY <3>4, <5>1, <6>1
        <5>2. CASE k # 3
          <6>1. k - 1 \in 3..Len(t) /\ (k - 1) + 2 = (k + 2) - 1
            BY <1>0, <3>1, <5>2
          <6>. QED
            BY <3>1, <5>2, <6>1
        <5>. QED
          BY <5>1, <5>2
      <4>2. k + 2 \in 3..(i + 2) /\ ((i + 2) - (k + 2)) % 2 = 1
        <5>1. (i + 2) - (k + 2) = i - k
          BY <3>1
        <5>. QED
          BY <3>1, <5>1
      <4>. QED
        BY <3>2, <4>1, <4>2 DEF Paired
    <3>. QED
      BY <3>3, <3>4
  <2>2. ASSUME Paired(s, i + 2) PROVE Paired(t, i)
    <3>1. PICK k \in 3..(i + 2) : /\ \A j \in k..(i + 2) : s[j] = "iac"
                                  /\ k = 3 \/ s[k - 1] # "iac"
                                  /\ ((i + 2) - k) % 2 = 1
      BY <2>2 DEF Paired
    <3>2. k # 4
      <4>1. SUFFICES ASSUME k = 4 PROVE FALSE
        OBVIOUS
      <4>2. s[k - 1] = s[3]
        BY <4>1
      <4>. QED
        BY <3>1, <4>1, <4>2
    <3>3. ASSUME NEW j \in 3..i, j + 2 >= k PROVE t[j] = "iac"
      <4>1. j + 2 \in k..(i + 2) /\ j \in 3..Len(t)
        BY <1>0, <3>1, <3>3
      <4>. QED
        BY <3>1, <4>1
    <3>4. CASE k = 3
      <4>1. (i - 3) % 2 = 1 /\ 3 \in 3..i
        BY <3>1, <3>4
      <4>2. \A j \in 3..i : t[j] = "iac"
        BY <3>3, <3>4
      <4>. QED
        BY <4>1, <4>2 DEF Paired
    <3>5. CASE k # 3
      <4>1. k - 2 \in 3..i /\ (i - (k - 2)) % 2 = 1
        <5>1. i - (k - 2) = (i + 2) - k /\ k \in 5..(i + 2)
          BY <3>1, <3>2, <3>5
        <5>. QED
          BY <3>1, <5>1
      <4>2. \A j \in (k - 2)..i : t[j] = "iac"
        BY <3>3, <4>1
      <4>3. k - 2 = 3 \/ t[(k - 2) - 1] # "iac"
        <5>1. SUFFICES ASSUME k - 2 # 3 PROVE t[(k - 2) - 1] # "iac"
          OBVIOUS
        <5>2. (k - 2) - 1 \in 3..Len(t) /\ ((k - 2) - 1) + 2 = k - 1
          BY <1>0, <4>1, <5>1
        <5>. QED
          BY <3>1, <3>5, <5>2
      <4>. QED
        BY <4>1, <4>2, <4>3 DEF Paired
    <3>. QED
      BY <3>4, <3>5
  <2>. QED
    BY <2>1, <2>2
<1>2. ASSUME NEW i \in SubEnds(t) PROVE i + 2 \in SubEnds(s)
  <2>1. i \in 3..(Len(t) - 1) /\ t[i] = "iac" /\ t[i + 1] = "se" /\ ~Paired(t, i)
    BY DEF SubEnds
  <2>2. i \in 3..Len(t) /\ i + 1 \in 3..Len(t) /\ i + 2 \in 3..(Len(s) - 1) /\ (i + 1) + 2 = (i + 2) + 1
    BY <1>0, <2>1
  <2>. QED
    BY <1>1, <2>1, <2>2 DEF SubEnds
<1>3. ASSUME NEW i \in SubEnds(s) PROVE i - 2 \in SubEnds(t)
  <2>1. i \in 3..(Len(s) - 1) /\ s[i] = "iac" /\ s[i + 1] = "se" /\ ~Paired(s, i)
    BY DEF SubEnds
  <2>2. i # 3
    BY <2>1
  <2>3. i # 4
    <3>1. SUFFICES ASSUME i = 4 PROVE Paired(s, i)
      BY <2>1
    <3>2. (4 - 3) % 2 = 1 /\ 3 \in 3..4
      OBVIOUS
    <3>3. \A j \in 3..4 : s[j] = "iac"
      BY <2>1, <3>1
    <3>. QED
      BY <3>1, <3>2, <3>3 DEF Paired
  <2>4. i - 2 \in 3..(Len(t) - 1) /\ i - 2 \in 3..Len(t) /\ i - 1 \in 3..Len(t)
        /\ (i - 2) + 2 = i /\ (i - 1) + 2 = i + 1 /\ (i - 2) + 1 = i - 1
    BY <1>0, <2>1, <2>2, <2>3
  <2>. QED
    BY <1>1, <2>1, <2>4 DEF SubEnds
<1>. QED
  BY <1>2, <1>3

\* The unit at the beginning of a stream that starts a subnegotiation.
LEMMA SubUnit ==
  ASSUME NEW s \in Streams, Len(s) >= 2, s[1] = "iac", s[2] = "sb"
  PROVE  /\ Meaning(s) = << >>
         /\ SubEnds(s) = {} => UnitLength(s) = Len(s)
         /\ \A m \in SubEnds(s) : (\A j \in SubEnds(s) : m <= j) => UnitLength(s) = m + 1
<1>1. Len(s) \in Nat
  BY DEF Streams
<1>2. Meaning(s) = << >>
  BY DEF Meaning
<1>3. ASSUME SubEnds(s) = {} PROVE UnitLength(s) = Len(s)
  BY <1>1, <1>3 DEF UnitLength
<1>4. ASSUME NEW m \in SubEnds(s), \A j \in SubEnds(s) : m <= j PROVE UnitLength(s) = m + 1
  <2> DEFINE c == CHOOSE i \in SubEnds(s) : \A j \in SubEnds(s) : i <= j
  <2>1. c \in SubEnds(s) /\ (\A j \in SubEnds(s) : c <= j)
    BY FirstEnd
  <2>2. UnitLength(s) = IF c + 1 > Len(s) THEN Len(s) ELSE c + 1
    BY <1>1 DEF UnitLength
  <2> HIDE DEF c
  <2>3. m \in 3..(Len(s) - 1) /\ c \in 3..(Len(s) - 1)
    BY <2>1 DEF SubEnds
  <2>4. c = m
    BY <1>4, <2>1, <2>3
  <2>. QED
    BY <1>1, <2>2, <2>3, <2>4
<1>. QED
  BY <1>2, <1>3, <1>4

\* Two subnegotiations with the same end, counted from the end of the stream, have the
\* same payload after them.
LEMMA SameAfter ==
  ASSUME NEW s \in Streams, NEW t \in Streams, NEW d \in {1, 2},
         Len(s) = Len(t) + d, Len(t) >= 2,
         s[1] = "iac", s[2] = "sb", t[1] = "iac", t[2] = "sb",
         \A i \in 3..Len(t) : s[i + d] = t[i],
         \A i \in SubEnds(t) : i + d \in SubEnds(s),
         \A i \in SubEnds(s) : i - d \in SubEnds(t)
  PROVE  Strip[s] = Strip[t]
<1>1. Len(s) \in Nat /\ Len(t) \in Nat /\ s # << >> /\ t # << >> /\ Len(s) >= 2
  BY DEF Streams
<1>2. Meaning(s) = << >> /\ Meaning(t) = << >>
  BY <1>1, SubUnit
<1>3. RestOf(s) = RestOf(t)
  <2>1. CASE SubEnds(t) = {}
    <3>1. SubEnds(s) = {}
      BY <2>1
    <3>2. UnitLength(s) = Len(s) /\ UnitLength(t) = Len(t)
      BY <1>1, <2>1, <3>1, SubUnit
    <3>3. RestOf(s) = << >> /\ RestOf(t) = << >>
      BY <1>1, <3>2 DEF RestOf, Streams
    <3>. QED
      BY <3>3
  <2>2. CASE SubEnds(t) # {}
    <3>0. SubEnds(t) \subseteq 3..(Len(t) - 1) /\ SubEnds(s) \subseteq 3..(Len(s) - 1)
      BY DEF SubEnds
    <3>1. PICK m \in SubEnds(t) : \A j \in SubEnds(t) : m <= j
      BY <2>2, FirstEnd
    <3>2. \A j \in SubEnds(s) : m + d <= j
      <4>1. TAKE j \in SubEnds(s)
      <4>2. m <= j - d /\ j \in Int /\ m \in Int
        BY <3>0, <3>1
      <4>. QED
        BY <4>2
    <3>3. UnitLength(t) = m + 1 /\ UnitLength(s) = (m + d) + 1
      BY <1>1, <3>1, <3>2, SubUnit
    <3>4. m \in 3..(Len(t) - 1)
      BY <3>0
    <3> DEFINE a == RestOf(s)
               b == RestOf(t)
    <3>5. a \in Seq(Bytes) /\ b \in Seq(Bytes) /\ Len(a) = Len(t) - (m + 1) /\ Len(b) = Len(t) - (m + 1)
      BY <1>1, <3>3, <3>4 DEF RestOf, Streams
    <3>6. ASSUME NEW i \in 1..(Len(t) - (m + 1)) PROVE a[i] = b[i]
      <4>1. a[i] = s[((m + 1) + i) + d]
        BY <1>1, <3>3, <3>4 DEF RestOf, Streams
      <4>2. b[i] = t[(m + 1) + i]
        BY <1>1, <3>3, <3>4 DEF RestOf, Streams
      <4>3. (m + 1) + i \in 3..Len(t)
        BY <1>1, <3>4
      <4>. QED
        BY <4>1, <4>2, <4>3
    <3> HIDE DEF a, b
    <3>7. a = b
      BY <3>5, <3>6, SeqEqual
    <3>. QED
      BY <3>7 DEF a, b
  <2>. QED
    BY <2>1, <2>2
<1>. QED
  BY <1>1, <1>2, <1>3, StripEquation DEF StripBy

\* A byte of a subnegotiation that is not IAC is nothing.
LEMMA StripSub ==
  ASSUME NEW b \in Bytes \ {"iac"}, NEW u \in Streams
  PROVE  Strip[<<"iac", "sb", b>> \o u] = Strip[<<"iac", "sb">> \o u]
<1> DEFINE p == <<"iac", "sb", b>>
           q == <<"iac", "sb">>
           s == p \o u
           t == q \o u
<1>1. /\ p \in Streams /\ Len(p) = 3 /\ p[1] = "iac" /\ p[2] = "sb" /\ p[3] = b
      /\ q \in Streams /\ Len(q) = 2 /\ q[1] = "iac" /\ q[2] = "sb"
  BY Literals
<1> HIDE DEF p, q
<1>2. /\ s \in Streams /\ t \in Streams /\ Len(u) \in Nat /\ Len(s) = Len(p) + Len(u) /\ Len(t) = Len(q) + Len(u)
      /\ \A i \in 1..Len(p) : s[i] = p[i]
      /\ \A i \in 1..Len(q) : t[i] = q[i]
      /\ \A i \in 1..Len(u) : s[Len(p) + i] = u[i]
      /\ \A i \in 1..Len(u) : t[Len(q) + i] = u[i]
  BY <1>1, StreamJoined
<1> HIDE DEF s, t
<1>3. /\ s[1] = "iac" /\ s[2] = "sb" /\ s[3] # "iac" /\ t[1] = "iac" /\ t[2] = "sb"
      /\ Len(s) = Len(t) + 1 /\ Len(t) >= 2
  BY <1>1, <1>2
<1>4. ASSUME NEW i \in 3..Len(t) PROVE s[i + 1] = t[i]
  <2>1. i - 2 \in 1..Len(u) /\ Len(p) + (i - 2) = i + 1 /\ Len(q) + (i - 2) = i
    BY <1>1, <1>2
  <2>2. s[Len(p) + (i - 2)] = u[i - 2] /\ t[Len(q) + (i - 2)] = u[i - 2]
    BY <1>2, <2>1
  <2>. QED
    BY <2>1, <2>2
<1>5. /\ \A i \in SubEnds(t) : i + 1 \in SubEnds(s)
      /\ \A i \in SubEnds(s) : i - 1 \in SubEnds(t)
  BY <1>2, <1>3, <1>4, ShiftOne
<1>6. Strip[s] = Strip[t]
  BY <1>2, <1>3, <1>4, <1>5, SameAfter
<1>. QED
  BY <1>6 DEF s, t, p, q

\* IAC and a byte that is not SE, in a subnegotiation, are nothing.
LEMMA StripPair ==
  ASSUME NEW b \in Bytes \ {"se"}, NEW u \in Streams
  PROVE  Strip[<<"iac", "sb", "iac", b>> \o u] = Strip[<<"iac", "sb">> \o u]
<1> DEFINE p == <<"iac", "sb", "iac", b>>
           q == <<"iac", "sb">>
           s == p \o u
           t == q \o u
<1>1. /\ p \in Streams /\ Len(p) = 4 /\ p[1] = "iac" /\ p[2] = "sb" /\ p[3] = "iac" /\ p[4] = b
      /\ q \in Streams /\ Len(q) = 2 /\ q[1] = "iac" /\ q[2] = "sb"
  BY Literals
<1> HIDE DEF p, q
<1>2. /\ s \in Streams /\ t \in Streams /\ Len(u) \in Nat /\ Len(s) = Len(p) + Len(u) /\ Len(t) = Len(q) + Len(u)
      /\ \A i \in 1..Len(p) : s[i] = p[i]
      /\ \A i \in 1..Len(q) : t[i] = q[i]
      /\ \A i \in 1..Len(u) : s[Len(p) + i] = u[i]
      /\ \A i \in 1..Len(u) : t[Len(q) + i] = u[i]
  BY <1>1, StreamJoined
<1> HIDE DEF s, t
<1>3. /\ s[1] = "iac" /\ s[2] = "sb" /\ s[3] = "iac" /\ s[4] # "se" /\ t[1] = "iac" /\ t[2] = "sb"
      /\ Len(s) = Len(t) + 2 /\ Len(t) >= 2
  BY <1>1, <1>2
<1>4. ASSUME NEW i \in 3..Len(t) PROVE s[i + 2] = t[i]
  <2>1. i - 2 \in 1..Len(u) /\ Len(p) + (i - 2) = i + 2 /\ Len(q) + (i - 2) = i
    BY <1>1, <1>2
  <2>2. s[Len(p) + (i - 2)] = u[i - 2] /\ t[Len(q) + (i - 2)] = u[i - 2]
    BY <1>2, <2>1
  <2>. QED
    BY <2>1, <2>2
<1>5. /\ \A i \in SubEnds(t) : i + 2 \in SubEnds(s)
      /\ \A i \in SubEnds(s) : i - 2 \in SubEnds(t)
  BY <1>2, <1>3, <1>4, ShiftTwo
<1>6. Strip[s] = Strip[t]
  BY <1>2, <1>3, <1>4, <1>5, SameAfter
<1>. QED
  BY <1>6 DEF s, t, p, q

\* IAC SE ends it.
LEMMA StripSubEnd ==
  ASSUME NEW u \in Streams
  PROVE  Strip[<<"iac", "sb", "iac", "se">> \o u] = Strip[u]
<1> DEFINE p == <<"iac", "sb", "iac", "se">>
           s == p \o u
<1>1. p \in Streams /\ Len(p) = 4 /\ p # << >> /\ p[1] = "iac" /\ p[2] = "sb" /\ p[3] = "iac" /\ p[4] = "se"
  BY Literals
<1> HIDE DEF p
<1>2. /\ s \in Streams /\ Len(u) \in Nat /\ Len(s) = Len(p) + Len(u)
      /\ \A i \in 1..Len(p) : s[i] = p[i]
  BY <1>1, StreamJoined
<1> HIDE DEF s
<1>3. s[1] = "iac" /\ s[2] = "sb" /\ s[3] = "iac" /\ s[4] = "se" /\ Len(s) >= 4 /\ Len(s) \in Nat
  BY <1>1, <1>2
<1>4. ~Paired(s, 3)
  <2>1. \A k \in 3..3 : (3 - k) % 2 # 1
    OBVIOUS
  <2>. QED
    BY <2>1 DEF Paired
<1>5. 3 \in SubEnds(s) /\ \A j \in SubEnds(s) : 3 <= j
  BY <1>3, <1>4 DEF SubEnds
<1>6. UnitLength(s) = 4 /\ Meaning(s) = << >>
  BY <1>2, <1>3, <1>5, SubUnit
<1>7. Strip[s] = Meaning(s) \o Strip[u]
  BY <1>1, <1>6, StripUnit DEF s
<1>8. << >> \o Strip[u] = Strip[u]
  BY StripTyped, ConcatEmptySeq DEF Streams
<1>. QED
  BY <1>6, <1>7, <1>8 DEF s, p

-----------------------------------------------------------------------------
(* telnetConn.Read *)

Phases == {"data", "cmd", "opt", "sub", "subiac"}

\* The protocol bytes that bring Read from its data to a phase.
Before(ph) ==
  CASE ph = "data" -> << >>
    [] ph = "cmd" -> <<"iac">>
    [] ph = "opt" -> <<"iac", "will">>
    [] ph = "sub" -> <<"iac", "sb">>
    [] OTHER -> <<"iac", "sb", "iac">>

\* What a byte gives the caller in a phase, and the phase after it.
Gives(ph, b) ==
  IF (ph = "data" /\ b \notin {"iac", "nul"}) \/ (ph = "cmd" /\ b = "iac") THEN <<b>> ELSE << >>

After(ph, b) ==
  CASE ph = "data" -> IF b = "iac" THEN "cmd" ELSE "data"
    [] ph = "cmd" /\ b = "iac" -> "data"
    [] OTHER -> InProtocol(ph, b)

\* A subnegotiation of three bytes cannot have ended.
LEMMA ShortHasNoEnd ==
  ASSUME NEW s \in Streams, Len(s) <= 3
  PROVE  SubEnds(s) = {}
<1>1. Len(s) \in Nat
  BY DEF Streams
<1>2. \A i \in 3..(Len(s) - 1) : FALSE
  BY <1>1
<1>. QED
  BY <1>2 DEF SubEnds

\* A protocol sequence that is not whole is no payload.
LEMMA BeforeStrips ==
  ASSUME NEW ph \in Phases
  PROVE  Before(ph) \in Streams /\ Strip[Before(ph)] = << >>
<1> DEFINE s == Before(ph)
<1>0. SUFFICES s \in Streams /\ Strip[s] = << >>
  OBVIOUS
<1>1. /\ s \in Streams /\ Len(s) \in {0, 1, 2, 3} /\ Len(s) <= 3 /\ (Len(s) = 0 => s = << >>) /\ (Len(s) > 0 => s[1] = "iac")
      /\ (Len(s) = 2 => s[2] \in {"will", "sb"}) /\ (Len(s) = 3 => s[2] = "sb")
  <2>1. CASE ph = "data"
    BY <2>1, Literals DEF Before
  <2>2. CASE ph = "cmd"
    <3>1. s = <<"iac">>
      BY <2>2 DEF Before
    <3>2. <<"iac">> \in Streams
      BY Literals
    <3> HIDE DEF s
    <3>. QED
      BY <3>1, <3>2
  <2>3. CASE ph = "opt"
    <3>1. s = <<"iac", "will">>
      BY <2>3 DEF Before
    <3>2. <<"iac", "will">> \in Streams
      BY Literals
    <3> HIDE DEF s
    <3>. QED
      BY <3>1, <3>2
  <2>4. CASE ph = "sub"
    <3>1. s = <<"iac", "sb">>
      BY <2>4 DEF Before
    <3>2. <<"iac", "sb">> \in Streams
      BY Literals
    <3> HIDE DEF s
    <3>. QED
      BY <3>1, <3>2
  <2>5. CASE ph = "subiac"
    <3>1. s = <<"iac", "sb", "iac">>
      BY <2>5 DEF Before
    <3>2. <<"iac", "sb", "iac">> \in Streams
      BY Literals
    <3> HIDE DEF s
    <3>. QED
      BY <3>1, <3>2
  <2>. QED
    BY <2>1, <2>2, <2>3, <2>4, <2>5 DEF Phases
<1> HIDE DEF s
<1>2. CASE s = << >>
  BY <1>1, <1>2, StripEquation DEF StripBy
<1>3. CASE s # << >>
  <2>1. Len(s) = 1 \/ Len(s) = 2 \/ Len(s) = 3
    BY <1>1, <1>3
  <2>2. SubEnds(s) = {}
    <3>1. Len(s) <= 3
      BY <1>1
    <3>. QED
      BY <1>1, <3>1, ShortHasNoEnd
  <2>3. UnitLength(s) = Len(s)
    <3>1. CASE Len(s) = 1
      BY <1>1, <3>1 DEF UnitLength
    <3>2. CASE Len(s) = 2
      BY <1>1, <2>2, <3>2 DEF UnitLength
    <3>3. CASE Len(s) = 3
      BY <1>1, <2>2, <3>3 DEF UnitLength
    <3>. QED
      BY <2>1, <3>1, <3>2, <3>3
  <2>4. Meaning(s) = << >>
    BY <1>1, <2>1 DEF Meaning
  <2>5. RestOf(s) = << >>
    BY <1>1, <2>1, <2>3 DEF RestOf, Streams
  <2>6. << >> \in Streams /\ Strip[<< >>] = << >>
    BY Literals, StripEquation DEF StripBy
  <2>. QED
    <3>1. Strip[s] = Meaning(s) \o Strip[RestOf(s)]
      BY <1>1, <1>3, StripEquation DEF StripBy
    <3>2. << >> \o << >> = << >>
      OBVIOUS
    <3>. QED
      BY <1>1, <2>4, <2>5, <2>6, <3>1, <3>2
<1>. QED
  BY <1>2, <1>3 DEF s

\* Read stays in one of its phases.
LEMMA AfterTyped ==
  ASSUME NEW ph \in Phases, NEW b \in Bytes
  PROVE  After(ph, b) \in Phases /\ Gives(ph, b) \in Streams
BY Literals DEF After, Gives, Phases, InProtocol

\* A byte at the end of a short stream.
LEMMA ByteAdded ==
  ASSUME NEW b \in Bytes
  PROVE  /\ << >> \o <<b>> = <<b>>
         /\ \A a \in Bytes : <<a>> \o <<b>> = <<a, b>>
         /\ \A a, c \in Bytes : <<a, c>> \o <<b>> = <<a, c, b>>
         /\ \A a, c, d \in Bytes : <<a, c, d>> \o <<b>> = <<a, c, d, b>>
<1>0. <<b>> \in Streams
  BY Literals
<1>1. << >> \o <<b>> = <<b>>
  OBVIOUS
<1>2. ASSUME NEW p \in Streams, NEW q \in Streams, Len(q) = Len(p) + 1, q[Len(p) + 1] = b,
             \A i \in 1..Len(p) : q[i] = p[i]
      PROVE  p \o <<b>> = q
  <2> DEFINE w == p \o <<b>>
  <2>1. /\ w \in Streams /\ Len(p) \in Nat /\ Len(w) = Len(p) + Len(<<b>>)
        /\ \A i \in 1..Len(p) : w[i] = p[i]
        /\ \A i \in 1..Len(<<b>>) : w[Len(p) + i] = <<b>>[i]
    BY <1>0, StreamJoined
  <2>2. Len(<<b>>) = 1 /\ <<b>>[1] = b
    OBVIOUS
  <2> HIDE DEF w
  <2>3. Len(w) = Len(q) /\ w[Len(p) + 1] = b
    BY <1>2, <2>1, <2>2
  <2>4. \A i \in 1..Len(q) : w[i] = q[i]
    <3>1. TAKE i \in 1..Len(q)
    <3>2. i \in 1..Len(p) \/ i = Len(p) + 1
      BY <1>2, <2>1
    <3>. QED
      BY <1>2, <2>1, <2>3, <3>2
  <2>5. w = q
    BY <2>1, <2>3, <2>4, SeqEqual DEF Streams
  <2>. QED
    BY <2>5 DEF w
<1>3. ASSUME NEW a \in Bytes PROVE <<a>> \o <<b>> = <<a, b>>
  <2>1. <<a>> \in Streams /\ <<a, b>> \in Streams
    BY Literals
  <2>2. /\ Len(<<a, b>>) = Len(<<a>>) + 1 /\ <<a, b>>[Len(<<a>>) + 1] = b
        /\ \A i \in 1..Len(<<a>>) : <<a, b>>[i] = <<a>>[i]
    OBVIOUS
  <2>. QED
    BY <1>2, <2>1, <2>2
<1>4. ASSUME NEW a \in Bytes, NEW c \in Bytes PROVE <<a, c>> \o <<b>> = <<a, c, b>>
  <2>1. <<a, c>> \in Streams /\ <<a, c, b>> \in Streams
    BY Literals
  <2>2. /\ Len(<<a, c, b>>) = Len(<<a, c>>) + 1 /\ <<a, c, b>>[Len(<<a, c>>) + 1] = b
        /\ \A i \in 1..Len(<<a, c>>) : <<a, c, b>>[i] = <<a, c>>[i]
    OBVIOUS
  <2>. QED
    BY <1>2, <2>1, <2>2
<1>5. ASSUME NEW a \in Bytes, NEW c \in Bytes, NEW d \in Bytes
      PROVE  <<a, c, d>> \o <<b>> = <<a, c, d, b>>
  <2>1. <<a, c, d>> \in Streams /\ <<a, c, d, b>> \in Streams
    BY Literals
  <2>2. /\ Len(<<a, c, d, b>>) = Len(<<a, c, d>>) + 1 /\ <<a, c, d, b>>[Len(<<a, c, d>>) + 1] = b
        /\ \A i \in 1..Len(<<a, c, d>>) : <<a, c, d, b>>[i] = <<a, c, d>>[i]
    OBVIOUS
  <2>. QED
    BY <1>2, <2>1, <2>2
<1>. QED
  BY <1>1, <1>3, <1>4, <1>5

\* The heart of it: what a byte means where Read is (Gives) and where it takes Read (After)
\* is what the grammar makes of it, whatever follows.
LEMMA StripByte ==
  ASSUME NEW ph \in Phases, NEW b \in Bytes, NEW u \in Streams
  PROVE  Strip[(Before(ph) \o <<b>>) \o u] = Gives(ph, b) \o Strip[Before(After(ph, b)) \o u]
<1>0. /\ << >> \o u = u /\ << >> \o <<b>> = <<b>>
      /\ \A a \in Phases : << >> \o Strip[Before(a) \o u] = Strip[Before(a) \o u]
  <2>1. << >> \o u = u
    BY ConcatEmptySeq DEF Streams
  <2>2. << >> \o <<b>> = <<b>>
    OBVIOUS
  <2>3. ASSUME NEW a \in Phases PROVE << >> \o Strip[Before(a) \o u] = Strip[Before(a) \o u]
    <3>1. Before(a) \o u \in Streams
      BY BeforeStrips, StreamJoined
    <3>2. Strip[Before(a) \o u] \in Streams
      BY <3>1, StripTyped
    <3>. QED
      BY <3>2, ConcatEmptySeq DEF Streams
  <2>. QED
    BY <2>1, <2>2, <2>3
<1>1. CASE ph = "data"
  <2>1. Before(ph) \o <<b>> = <<b>>
    BY <1>0, <1>1 DEF Before
  <2>2. CASE b = "iac"
    <3>1. After(ph, b) = "cmd" /\ Gives(ph, b) = << >> /\ Before("cmd") = <<"iac">>
      BY <1>1, <2>2 DEF After, Gives, Before
    <3>2. << >> \o Strip[Before("cmd") \o u] = Strip[Before("cmd") \o u]
      BY <1>0 DEF Phases
    <3>. QED
      BY <2>1, <2>2, <3>1, <3>2
  <2>3. CASE b # "iac"
    <3>1. After(ph, b) = "data" /\ Gives(ph, b) = (IF b = "nul" THEN << >> ELSE <<b>>) /\ Before("data") = << >>
      BY <1>1, <2>3 DEF After, Gives, Before
    <3>2. << >> \o Strip[u] = Strip[u]
      BY StripTyped, ConcatEmptySeq DEF Streams
    <3>3. Strip[<<b>> \o u] = IF b = "nul" THEN Strip[u] ELSE <<b>> \o Strip[u]
      BY <2>3, StripOther
    <3>4. Strip[Before("data") \o u] = Strip[u]
      BY <1>0, <3>1
    <3>. QED
      BY <2>1, <3>1, <3>2, <3>3, <3>4
  <2>. QED
    BY <2>2, <2>3
<1>2. CASE ph = "cmd"
  <2>1. Before(ph) \o <<b>> = <<"iac", b>>
    <3>1. Before(ph) = <<"iac">>
      BY <1>2 DEF Before
    <3>. QED
      BY <3>1, ByteAdded, Literals
  <2>2. CASE b \in {"will", "sb"}
    <3>1. After(ph, b) \in Phases /\ Gives(ph, b) = << >> /\ Before(After(ph, b)) = <<"iac", b>>
      BY <1>2, <2>2 DEF After, Gives, Before, InProtocol, Phases
    <3>. QED
      BY <1>0, <2>1, <3>1
  <2>3. CASE b \notin {"will", "sb"}
    <3>1. After(ph, b) = "data" /\ Gives(ph, b) = (IF b = "iac" THEN <<"iac">> ELSE << >>) /\ Before("data") = << >>
      BY <1>2, <2>3 DEF After, Gives, Before, InProtocol
    <3>2. << >> \o Strip[u] = Strip[u]
      BY StripTyped, ConcatEmptySeq DEF Streams
    <3>3. Strip[<<"iac", b>> \o u] = IF b = "iac" THEN <<"iac">> \o Strip[u] ELSE Strip[u]
      BY <2>3, StripCommand
    <3>4. Strip[Before("data") \o u] = Strip[u]
      BY <1>0, <3>1
    <3>. QED
      BY <2>1, <3>1, <3>2, <3>3, <3>4
  <2>. QED
    BY <2>2, <2>3
<1>3. CASE ph = "opt"
  <2>1. Before(ph) \o <<b>> = <<"iac", "will", b>>
    <3>1. Before(ph) = <<"iac", "will">>
      BY <1>3 DEF Before
    <3>. QED
      BY <3>1, ByteAdded, Literals
  <2>2. After(ph, b) = "data" /\ Gives(ph, b) = << >> /\ Before("data") = << >>
    BY <1>3 DEF After, Gives, Before, InProtocol
  <2>3. << >> \o Strip[u] = Strip[u]
    BY StripTyped, ConcatEmptySeq DEF Streams
  <2>4. Strip[Before("data") \o u] = Strip[u]
    BY <1>0, <2>2
  <2>. QED
    BY <2>1, <2>2, <2>3, <2>4, StripOption
<1>4. CASE ph = "sub"
  <2>1. Before(ph) \o <<b>> = <<"iac", "sb", b>>
    <3>1. Before(ph) = <<"iac", "sb">>
      BY <1>4 DEF Before
    <3>. QED
      BY <3>1, ByteAdded, Literals
  <2>2. CASE b = "iac"
    <3>1. After(ph, b) \in Phases /\ Gives(ph, b) = << >> /\ Before(After(ph, b)) = <<"iac", "sb", b>>
      BY <1>4, <2>2 DEF After, Gives, Before, InProtocol, Phases
    <3>. QED
      BY <1>0, <2>1, <3>1
  <2>3. CASE b # "iac"
    <3>1. After(ph, b) \in Phases /\ Gives(ph, b) = << >> /\ Before(After(ph, b)) = <<"iac", "sb">>
      BY <1>4, <2>3 DEF After, Gives, Before, InProtocol, Phases
    <3>2. Strip[<<"iac", "sb", b>> \o u] = Strip[<<"iac", "sb">> \o u]
      BY <2>3, StripSub
    <3>3. << >> \o Strip[Before(After(ph, b)) \o u] = Strip[Before(After(ph, b)) \o u]
      BY <1>0, <3>1
    <3>. QED
      BY <2>1, <3>1, <3>2, <3>3
  <2>. QED
    BY <2>2, <2>3
<1>5. CASE ph = "subiac"
  <2>1. Before(ph) \o <<b>> = <<"iac", "sb", "iac", b>>
    <3>1. Before(ph) = <<"iac", "sb", "iac">>
      BY <1>5 DEF Before
    <3>. QED
      BY <3>1, ByteAdded, Literals
  <2>2. CASE b = "se"
    <3>1. After(ph, b) = "data" /\ Gives(ph, b) = << >> /\ Before("data") = << >>
      BY <1>5, <2>2 DEF After, Gives, Before, InProtocol
    <3>2. << >> \o Strip[u] = Strip[u]
      BY StripTyped, ConcatEmptySeq DEF Streams
    <3>3. Strip[Before("data") \o u] = Strip[u]
      BY <1>0, <3>1
    <3>. QED
      BY <2>1, <2>2, <3>1, <3>2, <3>3, StripSubEnd
  <2>3. CASE b # "se"
    <3>1. After(ph, b) \in Phases /\ Gives(ph, b) = << >> /\ Before(After(ph, b)) = <<"iac", "sb">>
      BY <1>5, <2>3 DEF After, Gives, Before, InProtocol, Phases
    <3>2. Strip[<<"iac", "sb", "iac", b>> \o u] = Strip[<<"iac", "sb">> \o u]
      BY <2>3, StripPair
    <3>3. << >> \o Strip[Before(After(ph, b)) \o u] = Strip[Before(After(ph, b)) \o u]
      BY <1>0, <3>1
    <3>. QED
      BY <2>1, <3>1, <3>2, <3>3
  <2>. QED
    BY <2>2, <2>3
<1>. QED
  BY <1>1, <1>2, <1>3, <1>4, <1>5 DEF Phases

\* telnetConn, and what it holds or has returned.
ConnState == [phase : Phases, got : Streams, read : Streams, eof : BOOLEAN]
Payload(c) == c.read \o c.got

\* Joining is associative.
LEMMA StreamAssoc ==
  ASSUME NEW s \in Streams, NEW t \in Streams, NEW u \in Streams
  PROVE  (s \o t) \o u = s \o (t \o u)
BY ConcatAssociative DEF Streams

\* A Read that returns loses nothing: what it held is what it has returned.
LEMMA ReturnKeeps ==
  ASSUME NEW c \in ConnState, NEW s
  PROVE  LET d == Return(c, s).conn
         IN /\ d \in ConnState /\ d.phase = c.phase /\ d.eof = c.eof
            /\ d.got = << >> /\ d.read = Payload(c) /\ Payload(d) = Payload(c)
<1> DEFINE d == Return(c, s).conn
           h == c.read \o c.got
<1>1. c.read \in Streams /\ c.got \in Streams
  BY DEF ConnState
<1>2. h \in Streams /\ h \o << >> = h
  <2>1. h \in Streams
    BY <1>1, StreamJoined
  <2> HIDE DEF h
  <2>. QED
    BY <2>1, ConcatEmptySeq DEF Streams
<1>3. d = [c EXCEPT !.read = h, !.got = << >>]
  BY DEF Return
<1>4. << >> \in Streams
  BY Literals
<1> HIDE DEF d, h
<1>5. /\ d \in ConnState /\ d.phase = c.phase /\ d.eof = c.eof /\ d.got = << >> /\ d.read = h
  BY <1>2, <1>3, <1>4 DEF ConnState
<1>6. Payload(d) = h
  BY <1>2, <1>5 DEF Payload
<1>7. Payload(c) = h
  BY DEF Payload, h
<1>. QED
  BY <1>5, <1>6, <1>7 DEF d

\* A data byte is added to what Read holds.
LEMMA KeepAdds ==
  ASSUME NEW c \in ConnState, NEW b \in Bytes
  PROVE  LET k == [c EXCEPT !.phase = "data", !.got = Append(c.got, b)]
         IN k \in ConnState /\ k.phase = "data" /\ k.eof = c.eof /\ Payload(k) = Payload(c) \o <<b>>
<1> DEFINE k == [c EXCEPT !.phase = "data", !.got = Append(c.got, b)]
<1>1. c.read \in Streams /\ c.got \in Streams /\ <<b>> \in Streams
  BY Literals DEF ConnState
<1>2. Append(c.got, b) \in Streams /\ Append(c.got, b) = c.got \o <<b>>
  BY <1>1, AppendIsConcat, AppendProperties DEF Streams
<1>3. c.read \o (c.got \o <<b>>) = (c.read \o c.got) \o <<b>>
  BY <1>1, StreamAssoc
<1>4. k \in ConnState /\ k.phase = "data" /\ k.eof = c.eof /\ k.read = c.read /\ k.got = Append(c.got, b)
  BY <1>2 DEF ConnState, Phases
<1> HIDE DEF k
<1>5. Payload(k) = Payload(c) \o <<b>>
  BY <1>2, <1>3, <1>4 DEF Payload
<1>. QED
  BY <1>4, <1>5 DEF k

\* A protocol byte only moves Read to another phase.
LEMMA MoveKeeps ==
  ASSUME NEW c \in ConnState, NEW ph \in Phases
  PROVE  LET d == [c EXCEPT !.phase = ph]
         IN /\ d \in ConnState /\ d.phase = ph /\ d.eof = c.eof
            /\ Payload(d) = Payload(c) \o << >>
<1> DEFINE d == [c EXCEPT !.phase = ph]
<1>1. d \in ConnState /\ d.phase = ph /\ d.eof = c.eof /\ d.read = c.read /\ d.got = c.got
  BY DEF ConnState
<1>2. c.read \in Streams /\ c.got \in Streams
  BY DEF ConnState
<1>3. Payload(c) \in Streams
  BY <1>2, StreamJoined DEF Payload
<1>4. Payload(c) \o << >> = Payload(c)
  BY <1>3, ConcatEmptySeq DEF Streams
<1> HIDE DEF d
<1>5. Payload(d) = Payload(c)
  BY <1>1 DEF Payload
<1>. QED
  BY <1>1, <1>4, <1>5 DEF d

\* Read is where a byte takes it, and has it if it is payload.
Carries(c, d, b) ==
  d.phase = After(c.phase, b) /\ d.eof = c.eof /\ Payload(d) = Payload(c) \o Gives(c.phase, b)

\* One turn of the loop in telnetConn.Read does what Gives and After say; a data byte with
\* nothing after it in the buffered reader makes it return.
LEMMA ReadByteStep ==
  ASSUME NEW c \in ConnState, NEW s, NEW b \in Bytes, NEW more
  PROVE  LET d == ReadByte(c, s, b, more).conn
         IN /\ d \in ConnState /\ Carries(c, d, b)
            /\ (Drained(more) /\ c.phase = "data" /\ b \notin {"iac", "nul"}) => d.got = << >>
<1> DEFINE r == ReadByte(c, s, b, more)
           kept == [c EXCEPT !.phase = "data", !.got = Append(c.got, b)]
           full == Len(kept.got) = Room(s)
<1>0. c.phase \in Phases /\ c = [c EXCEPT !.phase = c.phase]
  BY DEF ConnState
<1>1. /\ kept \in ConnState /\ kept.phase = "data" /\ kept.eof = c.eof
      /\ Payload(kept) = Payload(c) \o <<b>>
  BY KeepAdds
<1>2. LET d == Return(kept, s).conn
      IN /\ d \in ConnState /\ d.phase = "data" /\ d.eof = c.eof /\ d.got = << >>
         /\ Payload(d) = Payload(c) \o <<b>>
  <2> HIDE DEF kept
  <2>. QED
    BY <1>1, ReturnKeeps
<1>3. CASE c.phase = "data" /\ b = "iac"
  <2>1. r.conn = [c EXCEPT !.phase = "cmd"]
    BY <1>3 DEF ReadByte
  <2>2. After(c.phase, b) = "cmd" /\ Gives(c.phase, b) = << >>
    BY <1>3 DEF After, Gives
  <2> HIDE DEF r, Carries
  <2>3. "cmd" \in Phases
    BY DEF Phases
  <2>4. /\ r.conn \in ConnState /\ r.conn.phase = "cmd" /\ r.conn.eof = c.eof
        /\ Payload(r.conn) = Payload(c) \o << >>
    BY <2>1, <2>3, MoveKeeps
  <2>. QED
    BY <1>3, <2>2, <2>4 DEF r, Carries
<1>4. CASE c.phase = "data" /\ b = "nul"
  <2>1. r.conn = c
    BY <1>4 DEF ReadByte
  <2>2. After(c.phase, b) = "data" /\ Gives(c.phase, b) = << >>
    BY <1>4 DEF After, Gives
  <2> HIDE DEF r, Carries
  <2>3. r.conn = [c EXCEPT !.phase = c.phase]
    BY <1>0, <2>1
  <2>4. /\ r.conn \in ConnState /\ r.conn.phase = c.phase /\ r.conn.eof = c.eof
        /\ Payload(r.conn) = Payload(c) \o << >>
    BY <1>0, <2>3, MoveKeeps
  <2>. QED
    BY <1>4, <2>2, <2>4 DEF r, Carries
<1>5. CASE c.phase = "data" /\ b \notin {"iac", "nul"}
  <2>1. r.conn = IF full \/ Drained(more) THEN Return(kept, s).conn ELSE kept
    BY <1>5 DEF ReadByte
  <2>2. After(c.phase, b) = "data" /\ Gives(c.phase, b) = <<b>>
    BY <1>5 DEF After, Gives
  <2>3. Drained(more) => r.conn = Return(kept, s).conn
    BY <2>1
  <2> HIDE DEF r, kept, full
  <2>4. /\ r.conn \in ConnState /\ r.conn.phase = "data" /\ r.conn.eof = c.eof
        /\ Payload(r.conn) = Payload(c) \o <<b>>
    BY <1>1, <1>2, <2>1
  <2>. QED
    BY <1>2, <1>5, <2>2, <2>3, <2>4 DEF r, Carries
<1>6. CASE c.phase = "cmd" /\ b = "iac"
  <2>1. r.conn = IF full THEN Return(kept, s).conn ELSE kept
    BY <1>6 DEF ReadByte
  <2>2. After(c.phase, b) = "data" /\ Gives(c.phase, b) = <<b>>
    BY <1>6 DEF After, Gives
  <2> HIDE DEF r, kept, full
  <2>4. /\ r.conn \in ConnState /\ r.conn.phase = "data" /\ r.conn.eof = c.eof
        /\ Payload(r.conn) = Payload(c) \o <<b>>
    BY <1>1, <1>2, <2>1
  <2>. QED
    BY <1>6, <2>2, <2>4 DEF r, Carries
<1>7. CASE c.phase # "data" /\ ~(c.phase = "cmd" /\ b = "iac")
  <2>1. r.conn = [c EXCEPT !.phase = InProtocol(c.phase, b)]
    BY <1>7 DEF ReadByte
  <2>2. After(c.phase, b) = InProtocol(c.phase, b) /\ Gives(c.phase, b) = << >>
    BY <1>7 DEF After, Gives
  <2> HIDE DEF r, Carries
  <2>3. After(c.phase, b) \in Phases
    BY <1>0, AfterTyped
  <2>4. /\ r.conn \in ConnState /\ r.conn.phase = After(c.phase, b) /\ r.conn.eof = c.eof
        /\ Payload(r.conn) = Payload(c) \o << >>
    BY <2>1, <2>2, <2>3, MoveKeeps
  <2>. QED
    BY <1>7, <2>2, <2>4 DEF r, Carries
<1>. QED
  BY <1>3, <1>4, <1>5, <1>6, <1>7

\* Read has taken t: whatever follows, the payload of the two is what Read has, and what the
\* rest means from where Read is.
Taken(t, c) == \A u \in Streams : Strip[t \o u] = Payload(c) \o Strip[Before(c.phase) \o u]

\* Of a stream that was taken, Read holds or has returned the payload.
LEMMA TakenAll ==
  ASSUME NEW c \in ConnState, NEW t \in Streams, Taken(t, c)
  PROVE  Strip[t] = Payload(c)
<1>1. << >> \in Streams /\ c.phase \in Phases /\ c.read \in Streams /\ c.got \in Streams
  BY Literals DEF ConnState
<1>2. Before(c.phase) \in Streams /\ Strip[Before(c.phase)] = << >>
  BY <1>1, BeforeStrips
<1>3. t \o << >> = t /\ Before(c.phase) \o << >> = Before(c.phase)
  BY <1>2, ConcatEmptySeq DEF Streams
<1>4. Payload(c) \in Streams
  BY <1>1, StreamJoined DEF Payload
<1>5. Payload(c) \o << >> = Payload(c)
  BY <1>4, ConcatEmptySeq DEF Streams
<1>6. Strip[t \o << >>] = Payload(c) \o Strip[Before(c.phase) \o << >>]
  BY <1>1 DEF Taken
<1>. QED
  BY <1>2, <1>3, <1>5, <1>6

\* Taking one more byte.
LEMMA TakeByte ==
  ASSUME NEW c \in ConnState, NEW d \in ConnState, NEW t \in Streams, NEW b \in Bytes, Taken(t, c),
         Carries(c, d, b)
  PROVE  Taken(t \o <<b>>, d)
<1>1. c.phase \in Phases /\ c.read \in Streams /\ c.got \in Streams /\ <<b>> \in Streams
  BY Literals DEF ConnState
<1>2. After(c.phase, b) \in Phases /\ Gives(c.phase, b) \in Streams
  BY <1>1, AfterTyped
<1>3. Before(c.phase) \in Streams /\ Before(After(c.phase, b)) \in Streams
  BY <1>1, <1>2, BeforeStrips
<1>4. Payload(c) \in Streams
  BY <1>1, StreamJoined DEF Payload
<1>6. d.phase = After(c.phase, b) /\ Payload(d) = Payload(c) \o Gives(c.phase, b)
  BY DEF Carries
<1>5. ASSUME NEW u \in Streams
      PROVE  Strip[(t \o <<b>>) \o u] = Payload(d) \o Strip[Before(d.phase) \o u]
  <2> DEFINE v == <<b>> \o u
             w == Before(After(c.phase, b)) \o u
  <2>1. v \in Streams /\ w \in Streams
    BY <1>1, <1>3, StreamJoined
  <2>2. (t \o <<b>>) \o u = t \o v
    BY <1>1, StreamAssoc
  <2>3. Before(c.phase) \o v = (Before(c.phase) \o <<b>>) \o u
    <3> DEFINE q == Before(c.phase)
               e == <<b>>
    <3>1. q \in Streams /\ e \in Streams
      BY <1>1, <1>3
    <3> HIDE DEF q, e
    <3>2. (q \o e) \o u = q \o (e \o u)
      BY <3>1, StreamAssoc
    <3>. QED
      BY <3>2 DEF q, e
  <2>4. Strip[(Before(c.phase) \o <<b>>) \o u] = Gives(c.phase, b) \o Strip[w]
    BY <1>1, StripByte
  <2> HIDE DEF v, w
  <2>5. Strip[t \o v] = Payload(c) \o Strip[Before(c.phase) \o v]
    BY <2>1 DEF Taken
  <2>6. Strip[w] \in Streams
    BY <2>1, StripTyped
  <2>7. Payload(c) \o (Gives(c.phase, b) \o Strip[w]) = (Payload(c) \o Gives(c.phase, b)) \o Strip[w]
    BY <1>2, <1>4, <2>6, StreamAssoc
  <2>8. Before(d.phase) \o u = w
    BY <1>6 DEF w
  <2>. QED
    BY <1>6, <2>2, <2>3, <2>4, <2>5, <2>7, <2>8
<1>. QED
  BY <1>5 DEF Taken

\* A turn of the loop over a segment, and the loop.
FeedBy(f, bytes, i) ==
  IF i = 0 THEN [conn |-> conn, line |-> line]
  ELSE LET p == f[i - 1]
       IN IF p.line.status # "open" THEN p
          ELSE ReadByte(p.conn, p.line, bytes[i], i < Len(bytes))
Feeds(f, bytes, n) == f = [i \in 0..n |-> FeedBy(f, bytes, i)]

\* The loop over a segment, at each of its turns.
LEMMA FeedsAt ==
  ASSUME NEW bytes, NEW n \in Nat, NEW f, Feeds(f, bytes, n)
  PROVE  \A i \in 0..n : f[i] = FeedBy(f, bytes, i)
<1> DEFINE R == [i \in 0..n |-> FeedBy(f, bytes, i)]
<1>1. f = R
  BY DEF Feeds
<1>2. \A i \in 0..n : R[i] = FeedBy(f, bytes, i)
  OBVIOUS
<1> HIDE DEF R
<1>. QED
  BY <1>1, <1>2

\* It has a result, however long the segment is.
LEMMA FeedsExists ==
  ASSUME NEW bytes
  PROVE  \A n \in Nat : \E f : Feeds(f, bytes, n)
<1> DEFINE T == {n \in Nat : ~\E f : Feeds(f, bytes, n)}
<1>1. SUFFICES ASSUME T # {} PROVE FALSE
  OBVIOUS
<1>2. PICK n \in T : \A k \in T : n <= k
  <2>1. T \subseteq Nat
    OBVIOUS
  <2> HIDE DEF T
  <2>. QED
    BY <1>1, <2>1, NatMin
<1>3. n # 0
  <2> DEFINE f == [i \in 0..0 |-> [conn |-> conn, line |-> line]]
  <2>1. \A i \in 0..0 : FeedBy(f, bytes, i) = [conn |-> conn, line |-> line]
    BY DEF FeedBy
  <2>2. f = [i \in 0..0 |-> FeedBy(f, bytes, i)]
    BY <2>1
  <2>3. Feeds(f, bytes, 0)
    BY <2>2 DEF Feeds
  <2>. QED
    BY <1>2, <2>3
<1>4. n \in Nat /\ n - 1 \in Nat
  BY <1>2, <1>3
<1>5. \E f : Feeds(f, bytes, n - 1)
  BY <1>2, <1>4
<1>6. PICK f : Feeds(f, bytes, n - 1)
  BY <1>5
<1>7. \A i \in 0..(n - 1) : f[i] = FeedBy(f, bytes, i)
  BY <1>4, <1>6, FeedsAt
<1> DEFINE g == [i \in 0..n |-> IF i < n THEN f[i] ELSE FeedBy(f, bytes, i)]
<1>8. \A i \in 0..n : g[i] = FeedBy(g, bytes, i)
  <2>1. TAKE i \in 0..n
  <2>2. g[i] = FeedBy(f, bytes, i)
    BY <1>4, <1>7
  <2>3. i # 0 => g[i - 1] = f[i - 1]
    BY <1>4
  <2> HIDE DEF g
  <2>4. FeedBy(g, bytes, i) = FeedBy(f, bytes, i)
    BY <2>3 DEF FeedBy
  <2>. QED
    BY <2>2, <2>4
<1>9. g = [i \in 0..n |-> FeedBy(g, bytes, i)]
  BY <1>8
<1>10. Feeds(g, bytes, n)
  BY <1>9 DEF Feeds
<1>. QED
  BY <1>2, <1>10

\* Feed, turn by turn.
LEMMA FeedEquation ==
  ASSUME NEW bytes, NEW n \in Nat, Len(bytes) = n
  PROVE  \E f : /\ Feed(bytes) = f[n]
                /\ f[0] = [conn |-> conn, line |-> line]
                /\ \A i \in 1..n : f[i] = IF f[i - 1].line.status # "open" THEN f[i - 1]
                                          ELSE ReadByte(f[i - 1].conn, f[i - 1].line, bytes[i], i < n)
<1> DEFINE f == CHOOSE x : Feeds(x, bytes, n)
<1>1. Feed(bytes) = f[n]
  BY DEF Feed, Feeds, FeedBy
<1>2. Feeds(f, bytes, n)
  BY FeedsExists
<1> HIDE DEF f
<1>3. \A i \in 0..n : f[i] = FeedBy(f, bytes, i)
  BY <1>2, FeedsAt
<1>4. f[0] = [conn |-> conn, line |-> line]
  BY <1>3 DEF FeedBy
<1>5. \A i \in 1..n : f[i] = IF f[i - 1].line.status # "open" THEN f[i - 1]
                             ELSE ReadByte(f[i - 1].conn, f[i - 1].line, bytes[i], i < n)
  BY <1>3 DEF FeedBy
<1>. QED
  BY <1>1, <1>4, <1>5

\* The first n bytes of a segment, one by one.
LEMMA FirstBytes ==
  ASSUME NEW bytes \in Streams, NEW t \in Streams, NEW n \in 1..Len(bytes)
  PROVE  /\ SubSeq(bytes, 1, n - 1) \in Streams /\ SubSeq(bytes, 1, n) \in Streams /\ bytes[n] \in Bytes
         /\ (t \o SubSeq(bytes, 1, n - 1)) \o <<bytes[n]>> = t \o SubSeq(bytes, 1, n)
<1> DEFINE p == SubSeq(bytes, 1, n - 1)
           q == SubSeq(bytes, 1, n)
           e == <<bytes[n]>>
<1>1. Len(bytes) \in Nat /\ n \in Nat /\ n - 1 \in Nat /\ bytes[n] \in Bytes
  BY DEF Streams
<1>2. p \in Streams /\ q \in Streams /\ Len(p) = n - 1 /\ Len(q) = n
  BY <1>1 DEF Streams
<1>3. \A i \in 1..(n - 1) : p[i] = bytes[i]
  BY <1>1 DEF Streams
<1>4. \A i \in 1..n : q[i] = bytes[i]
  BY <1>1 DEF Streams
<1>5. e \in Streams /\ Len(e) = 1 /\ e[1] = bytes[n]
  BY <1>1, Literals
<1> HIDE DEF p, q, e
<1> DEFINE w == p \o e
<1>6. /\ w \in Streams /\ Len(w) = Len(p) + Len(e)
      /\ \A i \in 1..Len(p) : w[i] = p[i]
      /\ \A i \in 1..Len(e) : w[Len(p) + i] = e[i]
  BY <1>2, <1>5, StreamJoined
<1> HIDE DEF w
<1>7. Len(w) = n /\ w[n] = bytes[n]
  <2>1. w[Len(p) + 1] = e[1] /\ Len(p) + 1 = n
    BY <1>1, <1>2, <1>5, <1>6
  <2>. QED
    BY <1>1, <1>2, <1>5, <1>6, <2>1
<1>8. \A i \in 1..n : w[i] = q[i]
  <2>1. TAKE i \in 1..n
  <2>2. i \in 1..(n - 1) \/ i = n
    BY <1>1
  <2>. QED
    BY <1>2, <1>3, <1>4, <1>6, <1>7, <2>2
<1>9. w = q
  BY <1>1, <1>2, <1>6, <1>7, <1>8, SeqEqual DEF Streams
<1>10. (t \o p) \o e = t \o w
  BY <1>2, <1>5, StreamAssoc DEF w
<1>. QED
  BY <1>1, <1>2, <1>9, <1>10 DEF p, q, e

\* Read takes one more byte of the stream.
LEMMA OneByte ==
  ASSUME NEW c \in ConnState, NEW s, NEW b \in Bytes, NEW more, NEW t \in Streams, Taken(t, c)
  PROVE  LET d == ReadByte(c, s, b, more).conn
         IN /\ d \in ConnState /\ d.eof = c.eof /\ Taken(t \o <<b>>, d)
            /\ (Drained(more) /\ b # "iac" /\ d.got # << >>) => Strip[t \o <<b>>] = Strip[t]
<1> DEFINE d == ReadByte(c, s, b, more).conn
           w == t \o <<b>>
<1>1. /\ d \in ConnState /\ Carries(c, d, b)
      /\ (Drained(more) /\ c.phase = "data" /\ b \notin {"iac", "nul"}) => d.got = << >>
  BY ReadByteStep
<1> HIDE DEF d
<1>2. Taken(w, d)
  BY <1>1, TakeByte
<1>3. <<b>> \in Streams
  BY Literals
<1>4. w \in Streams
  BY <1>3, StreamJoined
<1> HIDE DEF w
<1>5. Strip[w] = Payload(d) /\ Strip[t] = Payload(c)
  BY <1>1, <1>2, <1>4, TakenAll
<1>6. ASSUME Drained(more), b # "iac", d.got # << >> PROVE Strip[w] = Strip[t]
  <2>1. Gives(c.phase, b) = << >>
    BY <1>1, <1>6 DEF Gives
  <2>2. Strip[t] \in Streams
    BY StripTyped
  <2>3. Strip[t] \o << >> = Strip[t]
    BY <2>2, ConcatEmptySeq DEF Streams
  <2>. QED
    BY <1>1, <1>5, <2>1, <2>3 DEF Carries
<1>7. d.eof = c.eof
  BY <1>1 DEF Carries
<1>. QED
  BY <1>1, <1>2, <1>6, <1>7 DEF d, w

\* Where Read is after i bytes of a segment that follows the stream t.
Worked(t, bytes, i, r) ==
  /\ r.conn \in ConnState /\ r.conn.eof = conn.eof
  /\ \E k \in 0..i : /\ Taken(t \o SubSeq(bytes, 1, k), r.conn)
                     /\ r.line.status = "open" => k = i

\* By induction over the segment: after every turn Read has taken a beginning of it, all of
\* it as long as its caller reads.
LEMMA FeedWorks ==
  ASSUME NEW bytes \in Streams, NEW t \in Streams, NEW f, NEW n \in Nat, Len(bytes) = n,
         conn \in ConnState, Taken(t, conn),
         f[0] = [conn |-> conn, line |-> line],
         \A i \in 1..n : f[i] = IF f[i - 1].line.status # "open" THEN f[i - 1]
                                ELSE ReadByte(f[i - 1].conn, f[i - 1].line, bytes[i], i < n)
  PROVE  \A i \in 0..n : Worked(t, bytes, i, f[i])
<1> DEFINE T == {i \in 0..n : ~Worked(t, bytes, i, f[i])}
<1>1. SUFFICES ASSUME T # {} PROVE FALSE
  OBVIOUS
<1>2. PICK i \in T : \A k \in T : i <= k
  <2>1. T \subseteq Nat
    OBVIOUS
  <2> HIDE DEF T
  <2>. QED
    BY <1>1, <2>1, NatMin
<1>3. i # 0
  <2>1. SubSeq(bytes, 1, 0) = << >>
    BY DEF Streams
  <2>2. t \o << >> = t
    BY ConcatEmptySeq DEF Streams
  <2>3. Taken(t \o SubSeq(bytes, 1, 0), conn)
    BY <2>1, <2>2
  <2>4. f[0].conn = conn
    OBVIOUS
  <2>5. 0 \in 0..0
    OBVIOUS
  <2>6. Worked(t, bytes, 0, f[0])
    BY <2>3, <2>4, <2>5 DEF Worked
  <2>. QED
    BY <1>2, <2>6
<1>4. i \in 1..n /\ i - 1 \in 0..n /\ i \in Nat
  BY <1>2, <1>3
<1>5. Worked(t, bytes, i - 1, f[i - 1])
  BY <1>2, <1>4
<1> DEFINE p == f[i - 1]
<1>6. f[i] = IF p.line.status # "open" THEN p ELSE ReadByte(p.conn, p.line, bytes[i], i < n)
  BY <1>4
<1>7. PICK k \in 0..(i - 1) : /\ Taken(t \o SubSeq(bytes, 1, k), p.conn)
                              /\ p.line.status = "open" => k = i - 1
  BY <1>5 DEF Worked
<1>8. p.conn \in ConnState /\ p.conn.eof = conn.eof
  BY <1>5 DEF Worked
<1> HIDE DEF p
<1>9. CASE p.line.status # "open"
  <2>1. f[i] = p
    BY <1>6, <1>9
  <2>2. k \in 0..i
    BY <1>4
  <2>3. Worked(t, bytes, i, p)
    BY <1>7, <1>8, <1>9, <2>2 DEF Worked
  <2>. QED
    BY <1>2, <2>1, <2>3
<1>10. CASE p.line.status = "open"
  <2>1. f[i] = ReadByte(p.conn, p.line, bytes[i], i < n) /\ k = i - 1
    BY <1>6, <1>7, <1>10
  <2> DEFINE a == SubSeq(bytes, 1, i - 1)
             d == f[i].conn
  <2>2. /\ a \in Streams /\ bytes[i] \in Bytes
        /\ (t \o a) \o <<bytes[i]>> = t \o SubSeq(bytes, 1, i)
    BY <1>4, FirstBytes
  <2>3. t \o a \in Streams
    BY <2>2, StreamJoined
  <2>4. Taken(t \o a, p.conn)
    BY <1>7, <2>1
  <2> HIDE DEF a
  <2> HIDE DEF d
  <2>5. d = ReadByte(p.conn, p.line, bytes[i], i < n).conn
    BY <2>1 DEF d
  <2>6. /\ d \in ConnState /\ d.eof = p.conn.eof /\ Taken((t \o a) \o <<bytes[i]>>, d)
    <3> DEFINE c == p.conn
               l == p.line
               b == bytes[i]
               more == i < n
               ta == t \o a
    <3>1. c \in ConnState /\ b \in Bytes /\ ta \in Streams /\ Taken(ta, c)
      BY <1>8, <2>2, <2>3, <2>4
    <3>2. d = ReadByte(c, l, b, more).conn
      BY <2>5
    <3> HIDE DEF c, l, b, more, ta
    <3>3. LET x == ReadByte(c, l, b, more).conn
          IN x \in ConnState /\ x.eof = c.eof /\ Taken(ta \o <<b>>, x)
      BY <3>1, OneByte
    <3>4. d \in ConnState /\ d.eof = c.eof /\ Taken(ta \o <<b>>, d)
      BY <3>2, <3>3
    <3>. QED
      BY <3>4 DEF c, b, ta
  <2>8. Taken(t \o SubSeq(bytes, 1, i), d)
    BY <2>2, <2>6
  <2>9. i \in 0..i
    BY <1>4
  <2>10. Worked(t, bytes, i, f[i])
    BY <1>8, <2>6, <2>8, <2>9 DEF Worked, d
  <2>. QED
    BY <1>2, <2>10
<1>. QED
  BY <1>9, <1>10

\* The last byte of a stream adds nothing to its payload.
Adds(s) == s # << >> /\ Last(s) # "iac" /\ Strip[s] # Strip[Front(s)]

\* A whole segment.
LEMMA FeedTakes ==
  ASSUME NEW bytes \in Streams, NEW t \in Streams, bytes # << >>,
         conn \in ConnState, Taken(t, conn)
  PROVE  LET r == Feed(bytes)
         IN /\ Worked(t, bytes, Len(bytes), r)
            /\ (r.line.status = "open" /\ r.conn.got # << >>) => ~Adds(t \o bytes)
<1> DEFINE n == Len(bytes)
<1>1. n \in Nat /\ n \in 1..n /\ n - 1 \in Nat /\ n - 1 \in 0..n /\ n \in 0..n
  BY DEF Streams
<1>2. PICK f : /\ Feed(bytes) = f[n]
               /\ f[0] = [conn |-> conn, line |-> line]
               /\ \A i \in 1..n : f[i] = IF f[i - 1].line.status # "open" THEN f[i - 1]
                                         ELSE ReadByte(f[i - 1].conn, f[i - 1].line, bytes[i], i < n)
  BY <1>1, FeedEquation
<1>3. \A i \in 0..n : Worked(t, bytes, i, f[i])
  BY <1>1, <1>2, FeedWorks
<1>4. Worked(t, bytes, n, f[n]) /\ Worked(t, bytes, n - 1, f[n - 1])
  BY <1>1, <1>3
<1>5. ASSUME f[n].line.status = "open", f[n].conn.got # << >>, Adds(t \o bytes)
      PROVE  FALSE
  <2> DEFINE p == f[n - 1]
             a == t \o SubSeq(bytes, 1, n - 1)
             b == bytes[n]
             s == t \o bytes
  <2>1. f[n] = IF p.line.status # "open" THEN p ELSE ReadByte(p.conn, p.line, b, n < n)
    BY <1>1, <1>2
  <2>2. p.line.status = "open" /\ f[n] = ReadByte(p.conn, p.line, b, n < n)
    BY <1>5, <2>1
  <2>3. ~(n < n)
    BY <1>1
  <2>4. p.conn \in ConnState /\ Taken(a, p.conn)
    <3>1. PICK k \in 0..(n - 1) : /\ Taken(t \o SubSeq(bytes, 1, k), p.conn)
                                  /\ p.line.status = "open" => k = n - 1
      BY <1>4 DEF Worked
    <3>. QED
      BY <1>4, <2>2, <3>1 DEF Worked
  <2>5. SubSeq(bytes, 1, n) = bytes
    BY DEF Streams
  <2>6. b \in Bytes /\ a \o <<b>> = s /\ a \in Streams
    <3>1. SubSeq(bytes, 1, n - 1) \in Streams /\ b \in Bytes /\ a \o <<b>> = t \o SubSeq(bytes, 1, n)
      BY <1>1, FirstBytes
    <3>2. a \in Streams
      BY <3>1, StreamJoined
    <3>. QED
      BY <2>5, <3>1, <3>2
  <2>7. s \in Streams /\ Front(s) = a /\ Last(s) = b
    <3> DEFINE e == <<b>>
    <3>1. a \in Streams /\ e \in Streams /\ Len(e) = 1 /\ e[1] = b
      BY <2>6, Literals
    <3>a. s = a \o e
      BY <2>6
    <3> HIDE DEF a, s, e, b
    <3>b. /\ a \o e \in Streams /\ Len(a \o e) = Len(a) + Len(e) /\ Len(a) \in Nat
          /\ \A i \in 1..Len(a) : (a \o e)[i] = a[i]
          /\ \A i \in 1..Len(e) : (a \o e)[Len(a) + i] = e[i]
      BY <3>1, StreamJoined
    <3>2. /\ s \in Streams /\ Len(s) = Len(a) + Len(e) /\ Len(a) \in Nat
          /\ \A i \in 1..Len(a) : s[i] = a[i]
          /\ \A i \in 1..Len(e) : s[Len(a) + i] = e[i]
      BY <3>a, <3>b
    <3>3. Len(e) = 1 /\ e[1] = b
      BY <3>1
    <3>4. Len(s) = Len(a) + 1 /\ s[Len(a) + 1] = b
      BY <3>2, <3>3
    <3>5. Last(s) = b
      BY <3>2, <3>4 DEF Last
    <3> DEFINE g == SubSeq(s, 1, Len(s) - 1)
    <3>6. Len(s) - 1 = Len(a)
      BY <3>2, <3>4
    <3>7. g \in Seq(Bytes) /\ Len(g) = Len(a) /\ \A i \in 1..Len(a) : g[i] = s[i]
      BY <3>2, <3>4, <3>6 DEF Streams
    <3> HIDE DEF g
    <3>8. g = a
      BY <2>6, <3>2, <3>7, SeqEqual DEF Streams
    <3>. QED
      BY <3>2, <3>5, <3>8 DEF g, Front
  <2> DEFINE more == n < n
             c == p.conn
             l == p.line
             d == f[n].conn
  <2>8. d = ReadByte(c, l, b, more).conn /\ Drained(more) /\ c \in ConnState /\ Taken(a, c)
    BY <2>2, <2>3, <2>4 DEF Drained
  <2>9. b # "iac" /\ d.got # << >> /\ Strip[s] # Strip[a]
    BY <1>5, <2>7 DEF Adds
  <2> HIDE DEF a, b, s, c, l, d, more
  <2>10. Strip[a \o <<b>>] = Strip[a]
    BY <2>6, <2>8, <2>9, OneByte
  <2>. QED
    BY <2>6, <2>9, <2>10
<1>. QED
  BY <1>2, <1>4, <1>5

-----------------------------------------------------------------------------
(* The specification *)

\* All that came is what Read took and, once its caller has stopped, what it left.
Listened ==
  \E t, rest \in Streams : /\ sent = t \o rest
                           /\ Taken(t, conn)
                           /\ (line.status = "open" \/ conn.eof) => rest = << >>
TInv ==
  /\ keyboard \in Keyboards
  /\ sent \in Streams
  /\ conn \in ConnState
  /\ Listened
  /\ (conn.eof /\ conn.phase = "data") => conn.got = << >>
  /\ (Reading /\ conn.got # << >>) => ~Adds(sent)

\* While the caller reads, and when the connection has ended, all that came was taken.
LEMMA WholeTaken ==
  ASSUME TInv, line.status = "open" \/ conn.eof
  PROVE  Taken(sent, conn)
<1>1. PICK t \in Streams, rest \in Streams :
        sent = t \o rest /\ Taken(t, conn) /\ rest = << >>
  BY DEF TInv, Listened
<1>2. t \o << >> = t
  BY ConcatEmptySeq DEF Streams
<1>3. sent = t
  BY <1>1, <1>2
<1>. QED
  BY <1>1, <1>3

\* The other way round.
LEMMA ListenedAll ==
  ASSUME sent \in Streams, Taken(sent, conn)
  PROVE  Listened
<1>1. sent \o << >> = sent /\ << >> \in Streams
  BY Literals, ConcatEmptySeq DEF Streams
<1>. QED
  BY <1>1 DEF Listened

\* The invariant holds at the start;
LEMMA InitListens == TerminalInit => TInv
<1> SUFFICES ASSUME TerminalInit PROVE TInv
  OBVIOUS
<1>1. << >> \in Streams
  BY Literals
<1>2. /\ keyboard \in Keyboards /\ sent = << >>
      /\ conn = [phase |-> "data", got |-> << >>, read |-> << >>, eof |-> FALSE]
  BY DEF TerminalInit
<1>3. conn \in ConnState /\ conn.phase = "data" /\ conn.got = << >> /\ conn.read = << >> /\ ~conn.eof
  BY <1>1, <1>2 DEF ConnState, Phases
<1>4. Payload(conn) = << >> /\ Before(conn.phase) = << >>
  <2>1. << >> \o << >> = << >>
    OBVIOUS
  <2>. QED
    BY <1>3, <2>1 DEF Payload, Before
<1>5. Taken(sent, conn)
  <2>1. ASSUME NEW u \in Streams
        PROVE  Strip[sent \o u] = Payload(conn) \o Strip[Before(conn.phase) \o u]
    <3>1. << >> \o u = u
      BY ConcatEmptySeq DEF Streams
    <3>2. Strip[u] \in Streams
      BY StripTyped
    <3>3. << >> \o Strip[u] = Strip[u]
      BY <3>2, ConcatEmptySeq DEF Streams
    <3>. QED
      BY <1>2, <1>4, <3>1, <3>3
  <2>. QED
    BY <2>1 DEF Taken
<1>6. Listened
  BY <1>1, <1>2, <1>5, ListenedAll
<1>. QED
  BY <1>1, <1>2, <1>3, <1>6 DEF TInv

\* A stream is its beginning and its rest.
LEMMA CutInTwo ==
  ASSUME NEW s \in Streams, NEW k \in 0..Len(s)
  PROVE  SubSeq(s, 1, k) \o SubSeq(s, k + 1, Len(s)) = s
<1> DEFINE a == SubSeq(s, 1, k)
           b == SubSeq(s, k + 1, Len(s))
<1>1. Len(s) \in Nat /\ k \in Nat /\ k <= Len(s)
  BY DEF Streams
<1>2. a \in Streams /\ Len(a) = k /\ \A i \in 1..k : a[i] = s[i]
  BY <1>1 DEF Streams
<1>3. b \in Streams /\ Len(b) = Len(s) - k
  BY <1>1 DEF Streams
<1>4. \A i \in 1..(Len(s) - k) : b[i] = s[k + i]
  BY <1>1 DEF Streams
<1> HIDE DEF a, b
<1> DEFINE w == a \o b
<1>5. /\ w \in Streams /\ Len(w) = Len(a) + Len(b)
      /\ \A i \in 1..Len(a) : w[i] = a[i]
      /\ \A i \in 1..Len(b) : w[Len(a) + i] = b[i]
  BY <1>2, <1>3, StreamJoined
<1> HIDE DEF w
<1>6. Len(w) = Len(s)
  BY <1>1, <1>2, <1>3, <1>5
<1>7. ASSUME NEW i \in 1..Len(s) PROVE w[i] = s[i]
  <2>1. CASE i <= k
    <3>1. i \in 1..Len(a) /\ i \in 1..k
      BY <1>1, <1>2, <2>1
    <3>. QED
      BY <1>2, <1>5, <3>1
  <2>2. CASE i > k
    <3>1. i - k \in 1..(Len(s) - k) /\ k + (i - k) = i
      BY <1>1, <2>2
    <3>2. w[k + (i - k)] = b[i - k]
      BY <1>2, <1>3, <1>5, <3>1
    <3>3. b[i - k] = s[k + (i - k)]
      BY <1>4, <3>1
    <3>. QED
      BY <3>1, <3>2, <3>3
  <2>. QED
    BY <1>1, <2>1, <2>2
<1>8. w = s
  BY <1>5, <1>6, <1>7, SeqEqual DEF Streams
<1>. QED
  BY <1>8 DEF w, a, b

\* a segment keeps it,
LEMMA ArriveListens ==
  ASSUME TInv, NEW segment \in Streams, segment # << >>, Arrive(segment)
  PROVE  TInv'
<1> DEFINE r == Feed(segment)
           n == Len(segment)
<1>1. /\ Reading /\ sent' = sent \o segment /\ conn' = r.conn /\ line' = r.line /\ keyboard' = keyboard
  BY DEF Arrive
<1>2. sent \in Streams /\ conn \in ConnState /\ keyboard \in Keyboards /\ Taken(sent, conn) /\ ~conn.eof
  BY <1>1, WholeTaken DEF TInv, Reading
<1>3. /\ Worked(sent, segment, n, r)
      /\ (r.line.status = "open" /\ r.conn.got # << >>) => ~Adds(sent \o segment)
  BY <1>2, FeedTakes
<1> HIDE DEF r
<1>4. sent' \in Streams
  BY <1>1, <1>2, StreamJoined
<1>5. conn' \in ConnState /\ ~conn'.eof
  BY <1>1, <1>2, <1>3 DEF Worked
<1>6. PICK k \in 0..n : /\ Taken(sent \o SubSeq(segment, 1, k), conn')
                        /\ line'.status = "open" => k = n
  BY <1>1, <1>3 DEF Worked
<1>7. Listened'
  <2> DEFINE a == SubSeq(segment, 1, k)
             b == SubSeq(segment, k + 1, n)
             t == sent \o a
  <2>1. n \in Nat /\ k \in Nat /\ k <= n
    BY DEF Streams
  <2>2. a \in Streams /\ b \in Streams
    BY <2>1 DEF Streams
  <2>3. a \o b = segment
    BY CutInTwo
  <2>4. k = n => b = << >>
    BY <2>1 DEF Streams
  <2>5. t \in Streams /\ Taken(t, conn')
    BY <1>2, <1>6, <2>2, StreamJoined
  <2>6. sent' = t \o b
    <3> HIDE DEF a, b
    <3>1. (sent \o a) \o b = sent \o (a \o b)
      BY <1>2, <2>2, StreamAssoc
    <3>. QED
      BY <1>1, <2>3, <3>1
  <2>7. (line'.status = "open" \/ conn'.eof) => b = << >>
    BY <1>5, <1>6, <2>4
  <2> HIDE DEF t, a, b
  <2>. QED
    BY <2>2, <2>5, <2>6, <2>7 DEF Listened
<1>8. (Reading' /\ conn'.got # << >>) => ~Adds(sent')
  BY <1>1, <1>3 DEF Reading
<1>9. keyboard' \in Keyboards
  BY <1>1, <1>2
<1>10. (Reading /\ conn.got # << >> => ~Adds(sent))'
  BY <1>8
<1>. QED
  BY <1>4, <1>5, <1>7, <1>9, <1>10 DEF TInv

\* the end of the connection keeps it,
LEMMA HangUpListens ==
  ASSUME TInv, HangUp
  PROVE  TInv'
<1> DEFINE last == IF conn.phase = "data" /\ conn.got # << >> THEN Return(conn, line)
                   ELSE [conn |-> conn, line |-> line]
           c == last.conn
<1>1. /\ Reading /\ keyboard' = keyboard /\ sent' = sent
      /\ conn' = [c EXCEPT !.eof = TRUE]
  BY DEF HangUp
<1>2. sent \in Streams /\ conn \in ConnState /\ keyboard \in Keyboards /\ Taken(sent, conn)
  BY <1>1, WholeTaken DEF TInv, Reading
<1>3. c \in ConnState /\ c.phase = conn.phase /\ Payload(c) = Payload(conn) /\ (c.phase = "data" => c.got = << >>)
  <2>1. CASE conn.phase = "data" /\ conn.got # << >>
    <3>1. c = Return(conn, line).conn
      BY <2>1
    <3> HIDE DEF c
    <3>. QED
      BY <1>2, <3>1, ReturnKeeps
  <2>2. CASE ~(conn.phase = "data" /\ conn.got # << >>)
    <3>1. c = conn
      BY <2>2
    <3> HIDE DEF c
    <3>. QED
      BY <1>2, <2>2, <3>1
  <2>. QED
    BY <2>1, <2>2
<1> HIDE DEF c, last
<1>4. /\ conn' \in ConnState /\ conn'.phase = c.phase /\ conn'.got = c.got /\ conn'.read = c.read
      /\ conn'.eof = TRUE
  BY <1>1, <1>3 DEF ConnState
<1>5. Payload(conn') = Payload(conn)
  BY <1>3, <1>4 DEF Payload
<1>6. Taken(sent', conn')
  <2>1. conn'.phase = conn.phase
    BY <1>3, <1>4
  <2>. QED
    BY <1>1, <1>2, <1>5, <2>1 DEF Taken
<1>7. sent' \in Streams /\ keyboard' \in Keyboards
  BY <1>1, <1>2
<1>8. Listened'
  <2>1. sent' \o << >> = sent' /\ << >> \in Streams
    BY <1>7, Literals, ConcatEmptySeq DEF Streams
  <2>. QED
    BY <1>6, <1>7, <2>1 DEF Listened
<1>9. ~Reading'
  BY <1>4 DEF Reading
<1>10. (conn'.eof /\ conn'.phase = "data") => conn'.got = << >>
  BY <1>3, <1>4
<1>. QED
  BY <1>4, <1>7, <1>8, <1>9, <1>10 DEF TInv

\* so it always holds.
LEMMA TerminalListens == TerminalSpec => []TInv
<1>1. TInv /\ [TerminalNext]_terminalVars => TInv'
  <2> SUFFICES ASSUME TInv, [TerminalNext]_terminalVars PROVE TInv'
    OBVIOUS
  <2>1. ASSUME NEW n \in 1..MaxSegment, NEW segment \in [1..n -> keyboard.keys], Arrive(segment)
        PROVE  TInv'
    <3>1. keyboard.keys \subseteq Bytes
      BY DEF TInv, Bytes
    <3>2. n \in Nat \ {0}
      BY TerminalAssumption
    <3>3. segment \in [1..n -> Bytes]
      BY <3>1
    <3>4. segment \in Streams /\ Len(segment) = n
      BY <3>2, <3>3 DEF Streams
    <3>5. segment # << >>
      BY <3>2, <3>4
    <3>. QED
      BY <2>1, <3>4, <3>5, ArriveListens
  <2>2. CASE HangUp
    BY <2>2, HangUpListens
  <2>3. CASE UNCHANGED terminalVars
    BY <2>3 DEF terminalVars, TInv, Listened, Taken, Reading
  <2>. QED
    BY <2>1, <2>2, <2>3 DEF TerminalNext
<1>. QED
  BY <1>1, InitListens, PTL DEF TerminalSpec

\* A stream is a prefix of itself with more after it.
LEMMA PrefixOfJoined ==
  ASSUME NEW h \in Streams, NEW x \in Streams
  PROVE  IsPrefix(h, h \o x)
<1> DEFINE w == h \o x
<1>1. /\ w \in Streams /\ Len(h) \in Nat /\ Len(x) \in Nat /\ Len(w) = Len(h) + Len(x)
      /\ \A i \in 1..Len(h) : w[i] = h[i]
  BY StreamJoined
<1> HIDE DEF w
<1> DEFINE p == SubSeq(h, 1, Len(h))
           q == SubSeq(w, 1, Len(h))
<1>2. p \in Seq(Bytes) /\ Len(p) = Len(h) /\ \A i \in 1..Len(h) : p[i] = h[i]
  BY DEF Streams
<1>3. q \in Seq(Bytes) /\ Len(q) = Len(h) /\ \A i \in 1..Len(h) : q[i] = w[i]
  BY <1>1 DEF Streams
<1> HIDE DEF p, q
<1>4. p = q
  BY <1>1, <1>2, <1>3, SeqEqual
<1>5. IsPrefix(h, w)
  BY <1>1, <1>4 DEF IsPrefix, p, q
<1>. QED
  BY <1>5 DEF w

\* telnetConn.Read: the callers get the payload of what was sent and nothing else, in order,
\* wherever the network cut the stream.
THEOREM TerminalPayloadInOrder == TerminalSpec => []PayloadInOrder
<1>1. ASSUME TInv PROVE PayloadInOrder
  <2> DEFINE h == Payload(conn)
  <2>1. conn \in ConnState /\ sent \in Streams
    BY <1>1 DEF TInv
  <2>2. conn.read \in Streams /\ conn.got \in Streams /\ conn.phase \in Phases
    BY <2>1 DEF ConnState
  <2>3. h \in Streams
    BY <2>2, StreamJoined DEF Payload
  <2>4. IsPrefix(h, Strip[sent])
    <3>1. PICK t \in Streams, rest \in Streams : sent = t \o rest /\ Taken(t, conn)
      BY <1>1 DEF TInv, Listened
    <3> DEFINE w == Before(conn.phase) \o rest
    <3>2. Strip[sent] = h \o Strip[w]
      BY <3>1 DEF Taken
    <3>3. w \in Streams
      BY <2>2, BeforeStrips, StreamJoined
    <3> HIDE DEF w, h
    <3>4. Strip[w] \in Streams
      BY <3>3, StripTyped
    <3>. QED
      BY <2>3, <3>2, <3>4, PrefixOfJoined
  <2>5. (Reading \/ conn.eof) => h = Strip[sent]
    BY <1>1, <2>1, WholeTaken, TakenAll DEF Reading
  <2>6. (conn.eof /\ conn.phase = "data") => conn.read = h
    <3>1. SUFFICES ASSUME conn.eof, conn.phase = "data" PROVE conn.read = h
      OBVIOUS
    <3>2. conn.got = << >>
      BY <1>1, <3>1 DEF TInv
    <3>3. conn.read \o << >> = conn.read
      BY <2>2, ConcatEmptySeq DEF Streams
    <3>. QED
      BY <3>2, <3>3 DEF Payload
  <2>7. h = conn.read \o conn.got
    BY DEF Payload
  <2> HIDE DEF h
  <2>. QED
    BY <2>4, <2>5, <2>6, <2>7 DEF PayloadInOrder
<1>. QED
  BY <1>1, TerminalListens, PTL

\* telnetConn.Read returns "as soon as the buffered reader is drained": a data byte that
\* came last is not kept from the shell.
THEOREM TerminalNothingWithheld == TerminalSpec => []NothingWithheld
<1>1. ASSUME TInv PROVE NothingWithheld
  <2>1. SUFFICES ASSUME Reading, sent # << >>, conn.got # << >>, Last(sent) # "iac",
                        Strip[sent] = Append(Strip[Front(sent)], Last(sent))
                 PROVE  FALSE
    BY DEF NothingWithheld
  <2>2. Strip[sent] = Strip[Front(sent)]
    BY <1>1, <2>1 DEF TInv, Adds
  <2>3. sent \in Streams /\ Len(sent) \in Nat \ {0}
    BY <1>1, <2>1 DEF TInv, Streams
  <2>4. Front(sent) \in Streams /\ Last(sent) \in Bytes
    BY <2>3 DEF Front, Last, Streams
  <2> DEFINE x == Strip[Front(sent)]
             b == Last(sent)
  <2>5. x \in Seq(Bytes) /\ b \in Bytes
    BY <2>4, StripTyped DEF Streams
  <2>6. x = Append(x, b)
    BY <2>1, <2>2
  <2> HIDE DEF x, b
  <2>7. Len(Append(x, b)) = Len(x) + 1 /\ Len(x) \in Nat
    BY <2>5
  <2>. QED
    BY <2>6, <2>7
<1>. QED
  BY <1>1, TerminalListens, PTL

-----------------------------------------------------------------------------
(* Lines *)

LineOf(p, b, o, h, i, c, t) ==
  [prompts |-> p, buf |-> b, pos |-> o, history |-> h, inBytes |-> i, cut |-> c, status |-> t]
IsLine(s) ==
  s = LineOf(s.prompts, s.buf, s.pos, s.history, s.inBytes, s.cut, s.status)

\* Two terminals that show the same.
Same(s, a) ==
  /\ IsLine(s) /\ IsLine(a)
  /\ s.prompts = a.prompts /\ s.buf = a.buf /\ s.pos = a.pos /\ s.history = a.history
  /\ s.status = a.status

\* What no key of the line editor changes.
Kept(r, s) == r.cut = s.cut /\ r.prompts = s.prompts

\* A key takes something away: a line end that is not the last, an escape sequence that
\* is not whole.
Cuts(chunk, i) ==
  \/ chunk[i] = "nl" /\ i < Len(chunk)
  \/ /\ chunk[i] = "esc" /\ ~Whole(chunk, i)
     /\ i = Len(chunk) \/ (i + 1 = Len(chunk) /\ chunk[i + 1] = "[")

\* What the keys may change.
PutBuf(s, x) == [s EXCEPT !.buf = x]
PutHistory(s, x) == [s EXCEPT !.history = x]
PutPlace(s, x, y) == [s EXCEPT !.buf = x, !.pos = y]
PutAnswer(s, x, y) == [s EXCEPT !.buf = x, !.prompts = y]
PutStatus(s, x) == [s EXCEPT !.status = x]

\* Two fields at once.
LEMMA PutTwo ==
  ASSUME NEW p, NEW b, NEW o, NEW h, NEW i, NEW c, NEW t, NEW x, NEW y
  PROVE  /\ PutPlace(LineOf(p, b, o, h, i, c, t), x, y) = LineOf(p, x, y, h, i, c, t)
         /\ PutAnswer(LineOf(p, b, o, h, i, c, t), x, y) = LineOf(y, x, o, h, i, c, t)
<1>1. PutPlace(LineOf(p, b, o, h, i, c, t), x, y)
        = [[LineOf(p, b, o, h, i, c, t) EXCEPT !.buf = x] EXCEPT !.pos = y]
  BY SMT DEF PutPlace
<1>2. PutAnswer(LineOf(p, b, o, h, i, c, t), x, y)
        = [[LineOf(p, b, o, h, i, c, t) EXCEPT !.buf = x] EXCEPT !.prompts = y]
  BY SMT DEF PutAnswer
<1>3. [LineOf(p, b, o, h, i, c, t) EXCEPT !.buf = x] = LineOf(p, x, o, h, i, c, t)
  BY DEF LineOf
<1>4. [LineOf(p, x, o, h, i, c, t) EXCEPT !.pos = y] = LineOf(p, x, y, h, i, c, t)
  BY DEF LineOf
<1>5. [LineOf(p, x, o, h, i, c, t) EXCEPT !.prompts = y] = LineOf(y, x, o, h, i, c, t)
  BY DEF LineOf
<1>. QED
  BY <1>1, <1>2, <1>3, <1>4, <1>5

\* Terminals that show the same still do when the same is put in both.
LEMMA PutSame ==
  ASSUME NEW s, NEW a, Same(s, a), NEW x, NEW y
  PROVE  /\ Same(PutBuf(s, x), PutBuf(a, x)) /\ Kept(PutBuf(s, x), s)
         /\ Same(PutHistory(s, x), PutHistory(a, x)) /\ Kept(PutHistory(s, x), s)
         /\ Same(PutPlace(s, x, y), PutPlace(a, x, y)) /\ Kept(PutPlace(s, x, y), s)
         /\ Same(PutAnswer(s, x, y), PutAnswer(a, x, y)) /\ PutAnswer(s, x, y).cut = s.cut
         /\ Same(PutStatus(s, x), PutStatus(a, x)) /\ Kept(PutStatus(s, x), s)
<1>1. Same(PutBuf(s, x), PutBuf(a, x)) /\ Kept(PutBuf(s, x), s)
  BY DEF PutBuf, Same, IsLine, LineOf, Kept
<1>2. Same(PutHistory(s, x), PutHistory(a, x)) /\ Kept(PutHistory(s, x), s)
  BY DEF PutHistory, Same, IsLine, LineOf, Kept
<1>3. Same(PutPlace(s, x, y), PutPlace(a, x, y)) /\ Kept(PutPlace(s, x, y), s)
  <2>1. ASSUME NEW z, IsLine(z)
        PROVE  PutPlace(z, x, y) = LineOf(z.prompts, x, y, z.history, z.inBytes, z.cut, z.status)
    <3>1. PutPlace(LineOf(z.prompts, z.buf, z.pos, z.history, z.inBytes, z.cut, z.status), x, y)
            = LineOf(z.prompts, x, y, z.history, z.inBytes, z.cut, z.status)
      BY PutTwo
    <3>. QED
      BY <2>1, <3>1 DEF IsLine
  <2>2. /\ PutPlace(s, x, y) = LineOf(s.prompts, x, y, s.history, s.inBytes, s.cut, s.status)
        /\ PutPlace(a, x, y) = LineOf(a.prompts, x, y, a.history, a.inBytes, a.cut, a.status)
    BY <2>1 DEF Same
  <2>. QED
    BY <2>2 DEF Same, IsLine, LineOf, Kept
<1>4. Same(PutAnswer(s, x, y), PutAnswer(a, x, y)) /\ PutAnswer(s, x, y).cut = s.cut
  <2>1. ASSUME NEW z, IsLine(z)
        PROVE  PutAnswer(z, x, y) = LineOf(y, x, z.pos, z.history, z.inBytes, z.cut, z.status)
    <3>1. PutAnswer(LineOf(z.prompts, z.buf, z.pos, z.history, z.inBytes, z.cut, z.status), x, y)
            = LineOf(y, x, z.pos, z.history, z.inBytes, z.cut, z.status)
      BY PutTwo
    <3>. QED
      BY <2>1, <3>1 DEF IsLine
  <2>2. /\ PutAnswer(s, x, y) = LineOf(y, x, s.pos, s.history, s.inBytes, s.cut, s.status)
        /\ PutAnswer(a, x, y) = LineOf(y, x, a.pos, a.history, a.inBytes, a.cut, a.status)
    BY <2>1 DEF Same
  <2>. QED
    BY <2>2 DEF Same, IsLine, LineOf, Kept
<1>5. Same(PutStatus(s, x), PutStatus(a, x)) /\ Kept(PutStatus(s, x), s)
  BY DEF PutStatus, Same, IsLine, LineOf, Kept
<1>. QED
  BY <1>1, <1>2, <1>3, <1>4, <1>5

\* A new line,
LEMMA NewLineSame ==
  ASSUME NEW s, NEW a, Same(s, a)
  PROVE  Same(NewLine(s), NewLine(a)) /\ Kept(NewLine(s), s)
<1> DEFINE n == Len(s.history)
<1>1. Len(a.history) = n
  BY DEF Same
<1>2. NewLine(s) = PutPlace(s, << >>, n) /\ NewLine(a) = PutPlace(a, << >>, n)
  BY <1>1 DEF NewLine, PutPlace
<1> HIDE DEF n
<1>. QED
  BY <1>2, PutSame

\* the end of one, kept in the history or dropped as RunInteractive does,
LEMMA EndLineSame ==
  ASSUME NEW s, NEW a, Same(s, a)
  PROVE  Same(EndLine(s), EndLine(a)) /\ Kept(EndLine(s), s)
<1>1. CASE ToSet(s.buf) \subseteq {" "}
  <2>1. EndLine(s) = NewLine(s) /\ EndLine(a) = NewLine(a)
    BY <1>1 DEF EndLine, Same
  <2>. QED
    BY <2>1, NewLineSame
<1>2. CASE ~(ToSet(s.buf) \subseteq {" "})
  <2> DEFINE h == Append(s.history, s.buf)
             t == PutHistory(s, h)
             b == PutHistory(a, h)
  <2>1. s.history = a.history /\ s.buf = a.buf
    BY DEF Same
  <2>2. EndLine(s) = NewLine(t) /\ EndLine(a) = NewLine(b)
    BY <1>2, <2>1 DEF EndLine, PutHistory
  <2> HIDE DEF h
  <2>3. Same(t, b) /\ Kept(t, s)
    BY PutSame
  <2> HIDE DEF t, b
  <2>. QED
    BY <2>2, <2>3, NewLineSame DEF Kept
<1>. QED
  BY <1>1, <1>2

\* a place in the history,
LEMMA ArrowSame ==
  ASSUME NEW s, NEW a, Same(s, a), NEW key
  PROVE  Same(Arrow(s, key), Arrow(a, key)) /\ Kept(Arrow(s, key), s)
<1> DEFINE p(x) == CASE key = "A" -> IF x.pos > 0 THEN x.pos - 1 ELSE x.pos
                     [] key = "B" -> IF x.pos + 1 < Len(x.history) THEN x.pos + 1 ELSE Len(x.history)
                     [] OTHER -> x.pos
           moved(x) == (key = "A" /\ x.pos > 0) \/ key = "B"
           buf(x) == IF p(x) = Len(x.history) THEN << >> ELSE x.history[p(x) + 1]
           to(x) == PutPlace(x, buf(x), p(x))
<1>1. /\ Arrow(s, key) = IF ~moved(s) THEN s ELSE to(s)
      /\ Arrow(a, key) = IF ~moved(a) THEN a ELSE to(a)
  BY DEF Arrow, PutPlace
<1>2. p(s) = p(a) /\ (moved(s) <=> moved(a)) /\ buf(s) = buf(a)
  BY DEF Same
<1> HIDE DEF p, moved, buf
<1>3. Same(to(s), to(a)) /\ Kept(to(s), s)
  BY <1>2, PutSame
<1> HIDE DEF to
<1>. QED
  BY <1>1, <1>2, <1>3 DEF Kept

\* a key of the line editor
LEMMA PressSame ==
  ASSUME NEW s, NEW a, Same(s, a), NEW b
  PROVE  Same(Press(s, b), Press(a, b)) /\ Kept(Press(s, b), s)
<1>1. CASE b \in {"^C", "^U"}
  <2>1. Press(s, b) = [s EXCEPT !.buf = << >>] /\ Press(a, b) = [a EXCEPT !.buf = << >>]
    BY <1>1 DEF Press
  <2>. QED
    BY <2>1 DEF Same, IsLine, LineOf, Kept
<1>2. CASE b = "bs"
  <2>1. Press(s, b) = [s EXCEPT !.buf = Erase(s.buf)] /\ Press(a, b) = [a EXCEPT !.buf = Erase(a.buf)]
    BY <1>2 DEF Press
  <2>. QED
    BY <2>1 DEF Same, IsLine, LineOf, Kept
<1>3. CASE b = "^D"
  <2>1. /\ Press(s, b) = IF s.buf = << >> THEN [s EXCEPT !.status = "exit"] ELSE s
        /\ Press(a, b) = IF a.buf = << >> THEN [a EXCEPT !.status = "exit"] ELSE a
    BY <1>3 DEF Press
  <2>. QED
    BY <2>1 DEF Same, IsLine, LineOf, Kept
<1>4. CASE b \in {"nul", "tab", "esc"}
  <2>1. Press(s, b) = s /\ Press(a, b) = a
    BY <1>4 DEF Press
  <2>. QED
    BY <2>1 DEF Same, IsLine, LineOf, Kept
<1>5. CASE b \notin {"^C", "^U", "bs", "^D", "nul", "tab", "esc"}
  <2> DEFINE x == Append(s.buf, b)
  <2>1. s.buf = a.buf
    BY DEF Same
  <2>2. Press(s, b) = PutBuf(s, x) /\ Press(a, b) = PutBuf(a, x)
    BY <1>5, <2>1 DEF Press, PutBuf
  <2> HIDE DEF x
  <2>. QED
    BY <2>2, PutSame
<1>. QED
  BY <1>1, <1>2, <1>3, <1>4, <1>5

\* and a key at a login prompt do the same to terminals that show the same.
LEMMA AnswerSame ==
  ASSUME NEW s, NEW a, Same(s, a), NEW b
  PROVE  Same(Answer(s, b), Answer(a, b)) /\ Answer(s, b).cut = s.cut
<1>1. CASE b = "nl"
  <2> DEFINE y == s.prompts - 1
  <2>1. s.buf = a.buf /\ s.prompts = a.prompts
    BY DEF Same
  <2>2. /\ Answer(s, b) = IF s.buf = << >> THEN s ELSE PutAnswer(s, << >>, y)
        /\ Answer(a, b) = IF s.buf = << >> THEN a ELSE PutAnswer(a, << >>, y)
    BY <1>1, <2>1 DEF Answer, PutAnswer
  <2> HIDE DEF y
  <2>. QED
    BY <2>2, PutSame
<1>2. CASE b = "bs"
  <2>1. Answer(s, b) = [s EXCEPT !.buf = Erase(s.buf)] /\ Answer(a, b) = [a EXCEPT !.buf = Erase(a.buf)]
    BY <1>2 DEF Answer
  <2>. QED
    BY <2>1 DEF Same, IsLine, LineOf, Kept
<1>3. CASE b \in {"^C", "^D", "^U", "esc", "tab"}
  <2>1. Answer(s, b) = s /\ Answer(a, b) = a
    BY <1>3 DEF Answer
  <2>. QED
    BY <2>1 DEF Same, IsLine, LineOf, Kept
<1>4. CASE b \notin {"nl", "bs", "^C", "^D", "^U", "esc", "tab"}
  <2> DEFINE x == Append(s.buf, b)
             full == Len(s.buf) = MaxPrompt
  <2>1. s.buf = a.buf
    BY DEF Same
  <2>2. /\ Answer(s, b) = IF full THEN PutStatus(s, "limit") ELSE PutBuf(s, x)
        /\ Answer(a, b) = IF full THEN PutStatus(a, "limit") ELSE PutBuf(a, x)
    BY <1>4, <2>1 DEF Answer, PutStatus, PutBuf
  <2> HIDE DEF x, full
  <2>. QED
    BY <2>2, PutSame DEF Kept
<1>. QED
  BY <1>1, <1>2, <1>3, <1>4

PutCut(s, x) == [s EXCEPT !.cut = x]

\* That something was taken away does not show.
LEMMA CutSame ==
  ASSUME NEW s, NEW a, Same(s, a), NEW x
  PROVE  Same(PutCut(s, x), a) /\ PutCut(s, x).cut = x /\ PutCut(s, x).prompts = s.prompts
BY DEF PutCut, Same, IsLine, LineOf

\* A terminal shows the same as itself.
LEMMA SameSelf ==
  ASSUME NEW s, IsLine(s)
  PROVE  Same(s, s)
BY DEF Same

\* A turn takes something away just when it says so, and asks for no login.
LEMMA TurnCuts ==
  ASSUME NEW s, IsLine(s), NEW chunk, NEW i
  PROVE  LET r == Turn(s, chunk, i)
         IN /\ IsLine(r) /\ r.prompts = s.prompts
            /\ r.cut <=> (s.cut \/ Cuts(chunk, i))
<1>0. Same(s, s)
  BY SameSelf
<1>1. CASE chunk[i] = "nl"
  <2> DEFINE x == s.cut \/ i < Len(chunk)
             t == PutCut(s, x)
  <2>1. Turn(s, chunk, i) = EndLine(t)
    BY <1>1 DEF Turn, PutCut
  <2>2. x <=> (s.cut \/ Cuts(chunk, i))
    BY <1>1 DEF Cuts
  <2>3. Same(t, s) /\ t.cut = x /\ t.prompts = s.prompts
    BY <1>0, CutSame
  <2> HIDE DEF x, t
  <2>4. Same(t, t)
    BY <2>3 DEF Same
  <2>5. Same(EndLine(t), EndLine(t)) /\ Kept(EndLine(t), t)
    BY <2>4, EndLineSame
  <2>. QED
    BY <2>1, <2>2, <2>3, <2>5 DEF Same, Kept
<1>2. CASE chunk[i] = "esc" /\ Whole(chunk, i)
  <2>1. Turn(s, chunk, i) = Arrow(s, chunk[i + 2])
    BY <1>2 DEF Turn
  <2>2. ~Cuts(chunk, i)
    BY <1>2 DEF Cuts
  <2>3. Same(Arrow(s, chunk[i + 2]), Arrow(s, chunk[i + 2])) /\ Kept(Arrow(s, chunk[i + 2]), s)
    BY <1>0, ArrowSame
  <2>. QED
    BY <2>1, <2>2, <2>3 DEF Same, Kept
<1>3. CASE chunk[i] = "esc" /\ ~Whole(chunk, i)
  <2> DEFINE x == s.cut \/ i = Len(chunk) \/ (i + 1 = Len(chunk) /\ chunk[i + 1] = "[")
             t == PutCut(s, x)
  <2>1. Turn(s, chunk, i) = t
    BY <1>3 DEF Turn, PutCut
  <2>2. x <=> (s.cut \/ Cuts(chunk, i))
    BY <1>3 DEF Cuts
  <2>3. Same(t, s) /\ t.cut = x /\ t.prompts = s.prompts
    BY <1>0, CutSame
  <2> HIDE DEF x, t
  <2>. QED
    BY <2>1, <2>2, <2>3 DEF Same
<1>4. CASE chunk[i] # "nl" /\ chunk[i] # "esc"
  <2>1. Turn(s, chunk, i) = Press(s, chunk[i])
    BY <1>4 DEF Turn
  <2>2. ~Cuts(chunk, i)
    BY <1>4 DEF Cuts
  <2>3. Same(Press(s, chunk[i]), Press(s, chunk[i])) /\ Kept(Press(s, chunk[i]), s)
    BY <1>0, PressSame
  <2>. QED
    BY <2>1, <2>2, <2>3 DEF Same, Kept
<1>. QED
  BY <1>1, <1>2, <1>3, <1>4

\* A chunk stands in the payload after its first m bytes.
Stands(chunk, n, w, m) ==
  /\ Len(chunk) = n
  /\ \E l \in Nat : Len(w) = l /\ l >= m + n
  /\ \A k \in 1..n : w[m + k] = chunk[k]

\* A turn and a key do the same and the next turn is at the next key.
Together(s, a, chunk, i, n, w, j) ==
  LET next == j + (IF ArrowAt(a, w, j) THEN 3 ELSE 1)
  IN /\ Same(Turn(s, chunk, i), Key(a, w, j))
     /\ \/ NextTurn(chunk, i) = i + 1 /\ next = j + 1
        \/ NextTurn(chunk, i) = i + 3 /\ next = j + 3 /\ i + 2 <= n
        \/ i = n /\ next = j + 1

\* A turn that takes nothing away is the key alone, and the next turn the next key.
LEMMA TurnSame ==
  ASSUME NEW s, NEW a, Same(s, a), ~(s.prompts > 0),
         NEW chunk, NEW n \in Nat, NEW i \in 1..n, NEW w, NEW m \in Nat,
         Stands(chunk, n, w, m), ~Cuts(chunk, i)
  PROVE  Together(s, a, chunk, i, n, w, m + i)
<1>a. Len(chunk) = n /\ \A k \in 1..n : w[m + k] = chunk[k]
  BY DEF Stands
<1>b. PICK l \in Nat : Len(w) = l /\ l >= m + n
  BY DEF Stands
<1> DEFINE j == m + i
           next == j + (IF ArrowAt(a, w, j) THEN 3 ELSE 1)
<1>0. w[j] = chunk[i] /\ ~(a.prompts > 0) /\ j \in Nat /\ i \in Nat
  BY <1>a DEF Same
<1>1. CASE chunk[i] = "nl"
  <2>1. i = n
    BY <1>a, <1>1 DEF Cuts
  <2>2. ~ArrowAt(a, w, j)
    BY <1>0, <1>1 DEF ArrowAt
  <2>3. Key(a, w, j) = EndLine(a)
    BY <1>0, <1>1, <2>2 DEF Key
  <2> DEFINE x == s.cut \/ i < Len(chunk)
             t == PutCut(s, x)
  <2>4. Turn(s, chunk, i) = EndLine(t)
    BY <1>1 DEF Turn, PutCut
  <2> HIDE DEF x
  <2>5. Same(t, a)
    BY CutSame
  <2> HIDE DEF t
  <2>6. Same(EndLine(t), EndLine(a))
    BY <2>5, EndLineSame
  <2>7. next = j + 1
    BY <2>2
  <2>. QED
    BY <2>1, <2>3, <2>4, <2>6, <2>7 DEF Together
<1>2. CASE chunk[i] = "esc" /\ Whole(chunk, i)
  <2>1. i + 2 <= n /\ chunk[i + 1] = "["
    BY <1>a, <1>2 DEF Whole
  <2>2. i + 1 \in 1..n /\ i + 2 \in 1..n /\ m + (i + 1) = j + 1 /\ m + (i + 2) = j + 2 /\ j + 2 <= l
    BY <1>b, <2>1
  <2>3. w[j + 1] = "[" /\ w[j + 2] = chunk[i + 2]
    BY <1>a, <2>1, <2>2
  <2>4. ArrowAt(a, w, j)
    BY <1>b, <1>0, <1>2, <2>2, <2>3 DEF ArrowAt
  <2>5. Key(a, w, j) = Arrow(a, chunk[i + 2])
    BY <1>0, <2>3, <2>4 DEF Key
  <2>6. Turn(s, chunk, i) = Arrow(s, chunk[i + 2]) /\ NextTurn(chunk, i) = i + 3
    BY <1>2 DEF Turn, NextTurn
  <2>7. Same(Arrow(s, chunk[i + 2]), Arrow(a, chunk[i + 2]))
    BY ArrowSame
  <2>8. next = j + 3
    BY <2>4
  <2>. QED
    BY <2>1, <2>5, <2>6, <2>7, <2>8 DEF Together
<1>3. CASE chunk[i] = "esc" /\ ~Whole(chunk, i)
  <2>1. i + 1 \in 1..n /\ chunk[i + 1] # "["
    <3>1. i # n /\ ~(i + 1 = n /\ chunk[i + 1] = "[")
      BY <1>a, <1>3 DEF Cuts
    <3>2. ~(i + 2 <= n /\ chunk[i + 1] = "[")
      BY <1>a, <1>3 DEF Whole
    <3>. QED
      BY <3>1, <3>2
  <2>2. w[j + 1] # "["
    <3>1. m + (i + 1) = j + 1
      BY <1>0
    <3>. QED
      BY <1>a, <2>1, <3>1
  <2>3. ~ArrowAt(a, w, j)
    BY <2>2 DEF ArrowAt
  <2>4. Key(a, w, j) = a
    BY <1>0, <1>3, <2>3 DEF Key, Press
  <2> DEFINE x == s.cut \/ i = Len(chunk) \/ (i + 1 = Len(chunk) /\ chunk[i + 1] = "[")
             t == PutCut(s, x)
  <2>5. Turn(s, chunk, i) = t /\ NextTurn(chunk, i) = i + 1
    BY <1>3 DEF Turn, PutCut, NextTurn
  <2> HIDE DEF x
  <2>6. Same(t, a)
    BY CutSame
  <2>7. next = j + 1
    BY <2>3
  <2> HIDE DEF t
  <2>. QED
    BY <2>4, <2>5, <2>6, <2>7 DEF Together
<1>4. CASE chunk[i] # "nl" /\ chunk[i] # "esc"
  <2>1. ~ArrowAt(a, w, j)
    BY <1>0, <1>4 DEF ArrowAt
  <2>2. Key(a, w, j) = Press(a, chunk[i])
    BY <1>0, <1>4, <2>1 DEF Key
  <2>3. Turn(s, chunk, i) = Press(s, chunk[i]) /\ NextTurn(chunk, i) = i + 1
    BY <1>4 DEF Turn, NextTurn
  <2>4. Same(Press(s, chunk[i]), Press(a, chunk[i]))
    BY PressSame
  <2>5. next = j + 1
    BY <2>1
  <2>. QED
    BY <2>2, <2>3, <2>4, <2>5 DEF Together
<1>. QED
  BY <1>1, <1>2, <1>3, <1>4

\* The two loops over keys: Shell.readLine over a chunk, and the reference over the payload,
\* a key at a time (alone).
Moved(alone, p, w, i) ==
  IF alone THEN [line |-> Key(p.line, w, i), next |-> i + (IF ArrowAt(p.line, w, i) THEN 3 ELSE 1)]
  ELSE [line |-> Turn(p.line, w, i), next |-> NextTurn(w, i)]
LoopBy(f, alone, s, w, i) ==
  IF i = 0 THEN [line |-> s, next |-> 1]
  ELSE LET p == f[i - 1]
       IN IF p.next # i \/ p.line.status # "open" THEN p ELSE Moved(alone, p, w, i)
Loops(f, alone, s, w, n) == f = [i \in 0..n |-> LoopBy(f, alone, s, w, i)]
Looped(f, alone, s, w, n) ==
  /\ f[0] = [line |-> s, next |-> 1]
  /\ \A i \in 1..n : f[i] = IF f[i - 1].next # i \/ f[i - 1].line.status # "open" THEN f[i - 1]
                            ELSE Moved(alone, f[i - 1], w, i)

\* Such a loop, at each of its turns.
LEMMA LoopsAt ==
  ASSUME NEW alone, NEW s, NEW w, NEW n \in Nat, NEW f, Loops(f, alone, s, w, n)
  PROVE  \A i \in 0..n : f[i] = LoopBy(f, alone, s, w, i)
<1> DEFINE R == [i \in 0..n |-> LoopBy(f, alone, s, w, i)]
<1>1. f = R
  BY DEF Loops
<1>2. \A i \in 0..n : R[i] = LoopBy(f, alone, s, w, i)
  OBVIOUS
<1> HIDE DEF R
<1>. QED
  BY <1>1, <1>2

\* It has a result, however much there is to read.
LEMMA LoopsExists ==
  ASSUME NEW alone, NEW s, NEW w
  PROVE  \A n \in Nat : \E f : Loops(f, alone, s, w, n)
<1> DEFINE T == {n \in Nat : ~\E f : Loops(f, alone, s, w, n)}
<1>1. SUFFICES ASSUME T # {} PROVE FALSE
  OBVIOUS
<1>2. PICK n \in T : \A k \in T : n <= k
  <2>1. T \subseteq Nat
    OBVIOUS
  <2> HIDE DEF T
  <2>. QED
    BY <1>1, <2>1, NatMin
<1>3. n # 0
  <2> DEFINE f == [i \in 0..0 |-> [line |-> s, next |-> 1]]
  <2>1. \A i \in 0..0 : LoopBy(f, alone, s, w, i) = [line |-> s, next |-> 1]
    BY DEF LoopBy
  <2>2. f = [i \in 0..0 |-> LoopBy(f, alone, s, w, i)]
    BY <2>1
  <2>3. Loops(f, alone, s, w, 0)
    BY <2>2 DEF Loops
  <2>. QED
    BY <1>2, <2>3
<1>4. n \in Nat /\ n - 1 \in Nat
  BY <1>2, <1>3
<1>5. \E f : Loops(f, alone, s, w, n - 1)
  BY <1>2, <1>4
<1>6. PICK f : Loops(f, alone, s, w, n - 1)
  BY <1>5
<1>7. \A i \in 0..(n - 1) : f[i] = LoopBy(f, alone, s, w, i)
  BY <1>4, <1>6, LoopsAt
<1> DEFINE g == [i \in 0..n |-> IF i < n THEN f[i] ELSE LoopBy(f, alone, s, w, i)]
<1>8. \A i \in 0..n : g[i] = LoopBy(g, alone, s, w, i)
  <2>1. TAKE i \in 0..n
  <2>2. g[i] = LoopBy(f, alone, s, w, i)
    BY <1>4, <1>7
  <2>3. i # 0 => g[i - 1] = f[i - 1]
    BY <1>4
  <2> HIDE DEF g
  <2>4. LoopBy(g, alone, s, w, i) = LoopBy(f, alone, s, w, i)
    BY <2>3 DEF LoopBy
  <2>. QED
    BY <2>2, <2>4
<1>9. g = [i \in 0..n |-> LoopBy(g, alone, s, w, i)]
  BY <1>8
<1>10. Loops(g, alone, s, w, n)
  BY <1>9 DEF Loops
<1>. QED
  BY <1>2, <1>10

\* The loop as its first turn and its others.
LEMMA LoopsLooped ==
  ASSUME NEW alone, NEW s, NEW w, NEW n \in Nat, NEW f, Loops(f, alone, s, w, n)
  PROVE  Looped(f, alone, s, w, n)
<1>1. \A i \in 0..n : f[i] = LoopBy(f, alone, s, w, i)
  BY LoopsAt
<1>2. f[0] = [line |-> s, next |-> 1]
  BY <1>1 DEF LoopBy
<1>3. \A i \in 1..n : f[i] = IF f[i - 1].next # i \/ f[i - 1].line.status # "open" THEN f[i - 1]
                             ELSE Moved(alone, f[i - 1], w, i)
  BY <1>1 DEF LoopBy
<1>. QED
  BY <1>2, <1>3 DEF Looped

\* Shell.readLine's loop, turn by turn.
TurnsBy(f, s, chunk, i) ==
  IF i = 0 THEN [line |-> s, next |-> 1]
  ELSE LET p == f[i - 1]
       IN IF p.next # i \/ p.line.status # "open" THEN p
          ELSE [line |-> Turn(p.line, chunk, i), next |-> NextTurn(chunk, i)]
Turns(f, s, chunk, n) == f = [i \in 0..n |-> TurnsBy(f, s, chunk, i)]

\* Shell.readLine works through a chunk in such a loop,
LEMMA EditLoops ==
  ASSUME NEW s, NEW chunk, NEW n \in Nat, Len(chunk) = n
  PROVE  \E f : Edit(s, chunk) = f[n].line /\ Looped(f, FALSE, s, chunk, n)
<1> DEFINE f == CHOOSE x : Turns(x, s, chunk, n)
<1>1. Edit(s, chunk) = f[n].line
  BY DEF Edit, Turns, TurnsBy
<1>2. PICK g : Loops(g, FALSE, s, chunk, n)
  BY LoopsExists
<1>3. ASSUME NEW x PROVE \A i \in 0..n : TurnsBy(x, s, chunk, i) = LoopBy(x, FALSE, s, chunk, i)
  BY DEF TurnsBy, LoopBy, Moved
<1>4. ASSUME NEW x PROVE Turns(x, s, chunk, n) <=> Loops(x, FALSE, s, chunk, n)
  <2>1. [i \in 0..n |-> TurnsBy(x, s, chunk, i)] = [i \in 0..n |-> LoopBy(x, FALSE, s, chunk, i)]
    BY <1>3
  <2>. QED
    BY <2>1 DEF Turns, Loops
<1>5. Turns(f, s, chunk, n)
  BY <1>2, <1>4
<1> HIDE DEF f
<1>6. Looped(f, FALSE, s, chunk, n)
  BY <1>4, <1>5, LoopsLooped
<1>. QED
  BY <1>1, <1>6

\* The reference, key by key.
KeysBy(f, s, w, i) ==
  IF i = 0 THEN [line |-> s, next |-> 1]
  ELSE LET p == f[i - 1]
       IN IF p.next # i \/ p.line.status # "open" THEN p
          ELSE [line |-> Key(p.line, w, i), next |-> i + (IF ArrowAt(p.line, w, i) THEN 3 ELSE 1)]
Keys(f, s, w, n) == f = [i \in 0..n |-> KeysBy(f, s, w, i)]

\* and the reference through the payload.
LEMMA KeyByKeyLoops ==
  ASSUME NEW s, NEW w, NEW n \in Nat, Len(w) = n
  PROVE  \E f : KeyByKey(s, w) = f[n].line /\ Looped(f, TRUE, s, w, n)
<1> DEFINE f == CHOOSE x : Keys(x, s, w, n)
<1>1. KeyByKey(s, w) = f[n].line
  BY DEF KeyByKey, Keys, KeysBy
<1>2. PICK g : Loops(g, TRUE, s, w, n)
  BY LoopsExists
<1>3. ASSUME NEW x PROVE \A i \in 0..n : KeysBy(x, s, w, i) = LoopBy(x, TRUE, s, w, i)
  BY DEF KeysBy, LoopBy, Moved
<1>4. ASSUME NEW x PROVE Keys(x, s, w, n) <=> Loops(x, TRUE, s, w, n)
  <2>1. [i \in 0..n |-> KeysBy(x, s, w, i)] = [i \in 0..n |-> LoopBy(x, TRUE, s, w, i)]
    BY <1>3
  <2>. QED
    BY <2>1 DEF Keys, Loops
<1>5. Keys(f, s, w, n)
  BY <1>2, <1>4
<1> HIDE DEF f
<1>6. Looped(f, TRUE, s, w, n)
  BY <1>4, <1>5, LoopsLooped
<1>. QED
  BY <1>1, <1>6

\* What Shell.readLine never takes back: a chunk's end that took something away stays
\* noted, and no login is asked for.
Stays(s, r) == IsLine(r) /\ r.prompts = s.prompts /\ (s.cut => r.cut)

\* So it is after every turn of Shell.readLine.
LEMMA EditStays ==
  ASSUME NEW s, IsLine(s), NEW chunk, NEW n \in Nat, NEW g, Looped(g, FALSE, s, chunk, n)
  PROVE  \A i \in 0..n : Stays(s, g[i].line)
<1> DEFINE T == {i \in 0..n : ~Stays(s, g[i].line)}
<1>1. SUFFICES ASSUME T # {} PROVE FALSE
  OBVIOUS
<1>2. PICK i \in T : \A k \in T : i <= k
  <2>1. T \subseteq Nat
    OBVIOUS
  <2> HIDE DEF T
  <2>. QED
    BY <1>1, <2>1, NatMin
<1>3. i # 0
  <2>1. g[0].line = s
    BY DEF Looped
  <2>2. Stays(s, g[0].line)
    BY <2>1 DEF Stays
  <2>. QED
    BY <1>2, <2>2
<1>4. i \in 1..n /\ i - 1 \in 0..n /\ i \in Nat
  BY <1>2, <1>3
<1>5. Stays(s, g[i - 1].line)
  BY <1>2, <1>4
<1> DEFINE p == g[i - 1]
<1>6. g[i] = IF p.next # i \/ p.line.status # "open" THEN p ELSE Moved(FALSE, p, chunk, i)
  BY <1>4 DEF Looped
<1> DEFINE l == p.line
<1>7. g[i].line = l \/ g[i].line = Turn(l, chunk, i)
  BY <1>6 DEF Moved
<1> HIDE DEF p
<1>8. Stays(s, l)
  BY <1>5 DEF p
<1> HIDE DEF l
<1>9. Stays(s, Turn(l, chunk, i))
  <2>1. IsLine(l)
    BY <1>8 DEF Stays
  <2>2. /\ IsLine(Turn(l, chunk, i)) /\ Turn(l, chunk, i).prompts = l.prompts
        /\ Turn(l, chunk, i).cut <=> (l.cut \/ Cuts(chunk, i))
    BY <2>1, TurnCuts
  <2>. QED
    BY <1>8, <2>2 DEF Stays
<1>. QED
  BY <1>2, <1>7, <1>8, <1>9

\* The two loops are abreast after i keys of a chunk of n that follows m: they show the same
\* and go on at the same key, unless a chunk's end took something away.
Abreast(p, q, i, n, m) ==
  ~p.line.cut =>
    /\ Same(p.line, q.line)
    /\ p.line.status = "open" =>
         \/ \E x \in (i + 1)..(n + 1) : p.next = x /\ q.next = m + x
         \/ i = n /\ q.next = m + (n + 1)

\* A turn of either loop.
Onward(alone, p, w, i) ==
  IF p.next # i \/ p.line.status # "open" THEN p ELSE Moved(alone, p, w, i)

\* One turn of each keeps them abreast.
LEMMA AbreastStep ==
  ASSUME NEW p, NEW q, NEW n \in Nat, NEW m \in Nat, NEW i \in 1..n,
         Abreast(p, q, i - 1, n, m), IsLine(p.line), ~(p.line.prompts > 0),
         NEW chunk, NEW w, Stands(chunk, n, w, m)
  PROVE  Abreast(Onward(FALSE, p, chunk, i), Onward(TRUE, q, w, m + i), i, n, m)
<1> DEFINE a == p.line
           b == q.line
           r == Onward(FALSE, p, chunk, i)
           t == Onward(TRUE, q, w, m + i)
<1>r. r = IF p.next # i \/ p.line.status # "open" THEN p ELSE Moved(FALSE, p, chunk, i)
  BY DEF Onward
<1>t. t = IF q.next # m + i \/ q.line.status # "open" THEN q ELSE Moved(TRUE, q, w, m + i)
  BY DEF Onward
<1> HIDE DEF r, t
<1>s. SUFFICES Abreast(r, t, i, n, m)
  BY DEF r, t
<1>0. i \in Nat /\ n \in Nat /\ m + i \in Nat
  OBVIOUS
<1>1. CASE a.cut
  <2>1. /\ IsLine(Turn(a, chunk, i)) /\ Turn(a, chunk, i).prompts = a.prompts
        /\ Turn(a, chunk, i).cut <=> (a.cut \/ Cuts(chunk, i))
    <3> HIDE DEF a
    <3>1. IsLine(a)
      BY DEF a
    <3>. QED
      BY <3>1, TurnCuts
  <2>2. r.line = a \/ r.line = Turn(a, chunk, i)
    BY <1>r DEF Moved
  <2> HIDE DEF a
  <2>3. r.line.cut
    BY <1>1, <2>1, <2>2
  <2>. QED
    BY <2>3 DEF Abreast
<1>2. CASE ~a.cut /\ a.status # "open"
  <2>1. Same(a, b)
    BY <1>2 DEF Abreast
  <2>2. r = p /\ t = q
    BY <1>r, <1>t, <1>2, <2>1 DEF Same
  <2>. QED
    BY <1>2, <2>1, <2>2 DEF Abreast
<1>3. CASE ~a.cut /\ a.status = "open"
  <2>1. Same(a, b) /\ b.status = "open"
    BY <1>3 DEF Abreast, Same
  <2>2. PICK x \in ((i - 1) + 1)..(n + 1) : p.next = x /\ q.next = m + x
    BY <1>3 DEF Abreast
  <2>3. x \in Nat /\ x \in i..(n + 1)
    OBVIOUS
  <2>4. CASE x # i
    <3>a. p.next # i
      BY <2>2, <2>4
    <3>b. q.next # m + i
      BY <1>0, <2>2, <2>3, <2>4
    <3>1. r = p /\ t = q
      BY <1>r, <1>t, <3>a, <3>b
    <3>2. x \in (i + 1)..(n + 1)
      BY <2>3, <2>4
    <3>. QED
      BY <1>3, <2>1, <2>2, <3>1, <3>2 DEF Abreast
  <2>5. CASE x = i
    <3>1. r = Moved(FALSE, p, chunk, i) /\ t = Moved(TRUE, q, w, m + i)
      BY <1>r, <1>t, <1>3, <2>1, <2>2, <2>5
    <3>2. /\ r.line = Turn(a, chunk, i) /\ r.next = NextTurn(chunk, i)
          /\ t.line = Key(b, w, m + i) /\ t.next = (m + i) + (IF ArrowAt(b, w, m + i) THEN 3 ELSE 1)
      BY <3>1 DEF Moved
    <3>3. IsLine(a) /\ ~(a.prompts > 0)
      OBVIOUS
    <3> HIDE DEF a, b
    <3>4. CASE Cuts(chunk, i)
      <4>0. Turn(a, chunk, i).cut <=> (a.cut \/ Cuts(chunk, i))
        BY <3>3, TurnCuts
      <4>1. r.line.cut
        BY <3>2, <3>4, <4>0
      <4>. QED
        BY <4>1 DEF Abreast
    <3>5. CASE ~Cuts(chunk, i)
      <4>1. Together(a, b, chunk, i, n, w, m + i)
        BY <2>1, <3>3, <3>5, TurnSame
      <4>2. Same(r.line, t.line)
        BY <3>2, <4>1 DEF Together
      <4>3. \/ r.next = i + 1 /\ t.next = (m + i) + 1
            \/ r.next = i + 3 /\ t.next = (m + i) + 3 /\ i + 2 <= n
            \/ i = n /\ t.next = (m + i) + 1
        BY <3>2, <4>1 DEF Together
      <4>4. \/ \E y \in (i + 1)..(n + 1) : r.next = y /\ t.next = m + y
            \/ i = n /\ t.next = m + (n + 1)
        <5>1. CASE r.next = i + 1 /\ t.next = (m + i) + 1
          <6>1. i + 1 \in (i + 1)..(n + 1) /\ (m + i) + 1 = m + (i + 1)
            BY <1>0
          <6>. QED
            BY <5>1, <6>1
        <5>2. CASE r.next = i + 3 /\ t.next = (m + i) + 3 /\ i + 2 <= n
          <6>1. i + 3 \in (i + 1)..(n + 1) /\ (m + i) + 3 = m + (i + 3)
            BY <1>0, <5>2
          <6>. QED
            BY <5>2, <6>1
        <5>3. CASE i = n /\ t.next = (m + i) + 1
          <6>1. (m + i) + 1 = m + (n + 1)
            BY <5>3
          <6>. QED
            BY <5>3, <6>1
        <5>. QED
          BY <4>3, <5>1, <5>2, <5>3
      <4>. QED
        BY <4>2, <4>4 DEF Abreast
    <3>. QED
      BY <3>4, <3>5
  <2>. QED
    BY <2>4, <2>5
<1>. QED
  BY <1>1, <1>2, <1>3

\* By induction over the chunk.
LEMMA EditFaithful ==
  ASSUME NEW s, IsLine(s), ~(s.prompts > 0), s.status = "open",
         NEW chunk, NEW n \in Nat, NEW g, Looped(g, FALSE, s, chunk, n),
         NEW w, NEW m \in Nat, Stands(chunk, n, w, m), NEW l \in Nat, Len(w) = l,
         NEW a, NEW f, Looped(f, TRUE, a, w, l),
         ~s.cut => (Same(s, f[m].line) /\ f[m].next = m + 1)
  PROVE  \A i \in 0..n : Abreast(g[i], f[m + i], i, n, m)
<1> DEFINE T == {i \in 0..n : ~Abreast(g[i], f[m + i], i, n, m)}
<1>1. SUFFICES ASSUME T # {} PROVE FALSE
  OBVIOUS
<1>2. PICK i \in T : \A k \in T : i <= k
  <2>1. T \subseteq Nat
    OBVIOUS
  <2> HIDE DEF T
  <2>. QED
    BY <1>1, <2>1, NatMin
<1>3. i # 0
  <2>1. g[0].line = s /\ g[0].next = 1
    BY DEF Looped
  <2>2. m + 0 = m /\ 1 \in (0 + 1)..(n + 1)
    OBVIOUS
  <2>3. Abreast(g[0], f[m + 0], 0, n, m)
    BY <2>1, <2>2 DEF Abreast
  <2>. QED
    BY <1>2, <2>3
<1>4. i \in 1..n /\ i - 1 \in 0..n /\ i \in Nat /\ m + i \in 1..l /\ (m + i) - 1 = m + (i - 1)
  BY <1>2, <1>3 DEF Stands
<1>5. Abreast(g[i - 1], f[m + (i - 1)], i - 1, n, m)
  BY <1>2, <1>4
<1> DEFINE p == g[i - 1]
           q == f[m + (i - 1)]
<1>6. g[i] = Onward(FALSE, p, chunk, i)
  BY <1>4 DEF Looped, Onward
<1>7. f[m + i] = Onward(TRUE, q, w, m + i)
  <2>1. f[m + i] = IF f[(m + i) - 1].next # m + i \/ f[(m + i) - 1].line.status # "open" THEN f[(m + i) - 1]
                   ELSE Moved(TRUE, f[(m + i) - 1], w, m + i)
    BY <1>4 DEF Looped
  <2>. QED
    BY <1>4, <2>1 DEF Onward
<1>8. IsLine(p.line) /\ ~(p.line.prompts > 0)
  <2>1. Stays(s, p.line)
    BY <1>4, EditStays
  <2>. QED
    BY <2>1 DEF Stays
<1>9. Abreast(p, q, i - 1, n, m)
  BY <1>5
<1> HIDE DEF p, q
<1>10. Abreast(Onward(FALSE, p, chunk, i), Onward(TRUE, q, w, m + i), i, n, m)
  BY <1>4, <1>8, <1>9, AbreastStep
<1>. QED
  BY <1>2, <1>6, <1>7, <1>10

\* The reader of a payload that the reference goes through with f shows the same after read
\* as the reference, which is at the next key.
Level(s, read, f) ==
  /\ Same(s, f[Len(read)].line)
  /\ s.status = "open" => f[Len(read)].next = Len(read) + 1

\* Whatever follows, unless something was taken away or a limit was met.
Lined(a, read, s) ==
  (~s.cut /\ s.status # "limit") =>
    \A u \in Streams : \A f : Looped(f, TRUE, a, read \o u, Len(read \o u)) => Level(s, read, f)

\* A chunk in the payload.
LEMMA ChunkStands ==
  ASSUME NEW read \in Streams, NEW chunk \in Streams, NEW u \in Streams
  PROVE  LET w == (read \o chunk) \o u
         IN /\ Stands(chunk, Len(chunk), w, Len(read)) /\ Len(w) \in Nat
            /\ w = read \o (chunk \o u) /\ chunk \o u \in Streams
            /\ Len(read) \in Nat /\ Len(chunk) \in Nat /\ Len(read \o chunk) = Len(read) + Len(chunk)
            /\ Len(w) >= Len(read) + Len(chunk)
<1> DEFINE v == read \o chunk
           w == v \o u
           m == Len(read)
           n == Len(chunk)
<1>1. /\ v \in Streams /\ m \in Nat /\ n \in Nat /\ Len(v) = m + n
      /\ \A k \in 1..n : v[m + k] = chunk[k]
  BY StreamJoined
<1>2. w = read \o (chunk \o u)
  BY StreamAssoc
<1>3. chunk \o u \in Streams
  BY StreamJoined
<1> HIDE DEF v
<1>4. /\ w \in Streams /\ Len(v) \in Nat /\ Len(u) \in Nat /\ Len(w) = Len(v) + Len(u)
      /\ \A i \in 1..Len(v) : w[i] = v[i]
  BY <1>1, StreamJoined
<1> HIDE DEF w
<1>5. \A k \in 1..n : w[m + k] = chunk[k]
  <2>1. TAKE k \in 1..n
  <2> HIDE DEF m, n
  <2>2. m + k \in 1..Len(v)
    BY <1>1
  <2>. QED
    BY <1>1, <1>4, <2>2
<1>6. Len(w) \in Nat /\ Len(w) >= m + n
  BY <1>1, <1>4
<1>7. Stands(chunk, n, w, m)
  BY <1>5, <1>6 DEF Stands
<1>. QED
  BY <1>1, <1>2, <1>3, <1>6, <1>7 DEF v, w

\* Shell.readLine on a chunk.
LEMMA EditLined ==
  ASSUME NEW s, IsLine(s), ~(s.prompts > 0), s.status = "open", NEW a,
         NEW read \in Streams, NEW chunk \in Streams, Lined(a, read, s)
  PROVE  /\ IsLine(Edit(s, chunk)) /\ Edit(s, chunk).prompts = s.prompts
         /\ Lined(a, read \o chunk, Edit(s, chunk))
<1> DEFINE r == Edit(s, chunk)
           n == Len(chunk)
           m == Len(read)
<1>1. n \in Nat /\ m \in Nat
  BY DEF Streams
<1>2. PICK g : r = g[n].line /\ Looped(g, FALSE, s, chunk, n)
  BY <1>1, EditLoops
<1> HIDE DEF r
<1>3. Stays(s, r)
  <2>1. n \in 0..n
    BY <1>1
  <2>. QED
    BY <1>1, <1>2, <2>1, EditStays
<1>4. ASSUME ~r.cut, NEW u \in Streams,
             NEW f, Looped(f, TRUE, a, (read \o chunk) \o u, Len((read \o chunk) \o u))
      PROVE  Level(r, read \o chunk, f)
  <2> DEFINE w == (read \o chunk) \o u
             v == chunk \o u
             l == Len(w)
  <2>1. /\ Stands(chunk, n, w, m) /\ l \in Nat /\ w = read \o v /\ v \in Streams
        /\ Len(read \o chunk) = m + n
    BY ChunkStands
  <2>2. Looped(f, TRUE, a, w, l)
    BY <1>4
  <2>3. Looped(f, TRUE, a, read \o v, Len(read \o v))
    BY <2>1, <2>2
  <2>4. ~s.cut
    BY <1>3, <1>4 DEF Stays
  <2> HIDE DEF w, v
  <2>5. Level(s, read, f)
    BY <2>1, <2>3, <2>4 DEF Lined
  <2>6. Same(s, f[m].line) /\ f[m].next = m + 1
    BY <2>5 DEF Level
  <2>. HIDE DEF l, m, n
  <2>7. \A i \in 0..n : Abreast(g[i], f[m + i], i, n, m)
    <3>1. Len(w) = l
      BY DEF l
    <3>. QED
      BY <1>1, <1>2, <2>1, <2>2, <2>6, <3>1, EditFaithful
  <2>8. n \in 0..n
    BY <1>1
  <2>9. Abreast(g[n], f[m + n], n, n, m)
    BY <2>7, <2>8
  <2>10. Same(r, f[m + n].line) /\ (r.status = "open" => f[m + n].next = (m + n) + 1)
    <3>1. Same(r, f[m + n].line)
      BY <1>2, <1>4, <2>9 DEF Abreast
    <3>2. ASSUME r.status = "open" PROVE f[m + n].next = (m + n) + 1
      <4>1. \/ \E x \in (n + 1)..(n + 1) : f[m + n].next = m + x
            \/ f[m + n].next = m + (n + 1)
        BY <1>2, <1>4, <2>9, <3>2 DEF Abreast
      <4>2. f[m + n].next = m + (n + 1)
        BY <1>1, <4>1
      <4>3. m + (n + 1) = (m + n) + 1
        BY <1>1
      <4>. QED
        BY <4>2, <4>3
    <3>. QED
      BY <3>1, <3>2
  <2>. QED
    BY <2>1, <2>10 DEF Level
<1>5. Lined(a, read \o chunk, r)
  BY <1>4 DEF Lined
<1>. QED
  BY <1>3, <1>5 DEF Stays, r

\* readLine of the login, which reads a byte at a time.
LEMMA AnswerLined ==
  ASSUME NEW s, IsLine(s), s.prompts > 0, s.status = "open", NEW a,
         NEW read \in Streams, NEW chunk \in Streams, Len(chunk) = 1, Lined(a, read, s)
  PROVE  /\ IsLine(Answer(s, chunk[1]))
         /\ Lined(a, read \o chunk, Answer(s, chunk[1]))
<1> DEFINE b == chunk[1]
           r == Answer(s, b)
           m == Len(read)
<1>1. IsLine(r) /\ r.cut = s.cut
  <2>1. Same(s, s)
    BY SameSelf
  <2> HIDE DEF b
  <2>. QED
    BY <2>1, AnswerSame DEF Same
<1>2. ASSUME ~r.cut, NEW u \in Streams,
             NEW f, Looped(f, TRUE, a, (read \o chunk) \o u, Len((read \o chunk) \o u))
      PROVE  Level(r, read \o chunk, f)
  <2> DEFINE w == (read \o chunk) \o u
             v == chunk \o u
             l == Len(w)
  <2>1. /\ Stands(chunk, Len(chunk), w, m) /\ l \in Nat /\ w = read \o v /\ v \in Streams
        /\ Len(read \o chunk) = m + Len(chunk) /\ m \in Nat /\ l >= m + Len(chunk)
    BY ChunkStands
  <2>2. Looped(f, TRUE, a, w, l)
    BY <1>2
  <2>3. Looped(f, TRUE, a, read \o v, Len(read \o v))
    BY <2>1, <2>2
  <2> HIDE DEF w, v, l, r
  <2>4. ~s.cut /\ s.status # "limit"
    BY <1>1, <1>2
  <2>5. Level(s, read, f)
    BY <2>1, <2>3, <2>4 DEF Lined
  <2> DEFINE q == f[m]
             k == m + 1
  <2>6. Same(s, q.line) /\ q.next = k
    BY <2>5 DEF Level
  <2> HIDE DEF m
  <2>7. w[k] = b /\ k \in 1..l /\ k - 1 = m /\ Len(read \o chunk) = k /\ k \in Nat
    <3>1. 1 \in 1..Len(chunk)
      OBVIOUS
    <3>. QED
      BY <2>1, <3>1 DEF Stands
  <2>8. f[k] = Moved(TRUE, q, w, k)
    <3>1. f[k] = IF f[k - 1].next # k \/ f[k - 1].line.status # "open" THEN f[k - 1]
                 ELSE Moved(TRUE, f[k - 1], w, k)
      BY <2>2, <2>7 DEF Looped
    <3>2. q.line.status = "open"
      BY <2>6 DEF Same
    <3>. QED
      BY <2>6, <2>7, <3>1, <3>2
  <2> HIDE DEF k, q, b
  <2>9. q.line.prompts > 0
    BY <2>6 DEF Same
  <2>10. f[k].line = Answer(q.line, b) /\ f[k].next = k + 1
    <3>1. ~ArrowAt(q.line, w, k)
      BY <2>9 DEF ArrowAt
    <3>2. Key(q.line, w, k) = Answer(q.line, b)
      BY <2>7, <2>9 DEF Key
    <3>. QED
      BY <2>8, <3>1, <3>2 DEF Moved
  <2>11. Same(r, f[k].line)
    <3>1. Same(Answer(s, b), Answer(q.line, b))
      BY <2>6, AnswerSame
    <3>. QED
      BY <2>10, <3>1 DEF r
  <2>. QED
    BY <2>7, <2>10, <2>11 DEF Level
<1> HIDE DEF r
<1>3. Lined(a, read \o chunk, r)
  BY <1>2 DEF Lined
<1>. QED
  BY <1>1, <1>3 DEF r

\* What the shell counts does not show.
PutIn(s, x) == [s EXCEPT !.inBytes = x]

\* It may change.
LEMMA InLined ==
  ASSUME NEW s, IsLine(s), NEW a, NEW read, Lined(a, read, s), NEW x
  PROVE  LET t == PutIn(s, x)
         IN IsLine(t) /\ t.prompts = s.prompts /\ t.status = s.status /\ Lined(a, read, t)
<1> DEFINE t == PutIn(s, x)
<1>1. IsLine(t) /\ t.prompts = s.prompts /\ t.status = s.status /\ t.cut = s.cut
  BY DEF PutIn, IsLine, LineOf
<1>2. ASSUME NEW f, Level(s, read, f) PROVE Level(t, read, f)
  <2>1. t.buf = s.buf /\ t.pos = s.pos /\ t.history = s.history
    BY DEF PutIn, IsLine, LineOf
  <2> HIDE DEF t
  <2>. QED
    BY <1>1, <1>2, <2>1 DEF Level, Same
<1> HIDE DEF t
<1>3. Lined(a, read, t)
  BY <1>1, <1>2 DEF Lined
<1>. QED
  BY <1>1, <1>3 DEF t

\* What a caller makes of a Read.
LEMMA TakeLined ==
  ASSUME NEW s, IsLine(s), s.status = "open", NEW a, NEW read \in Streams, NEW chunk \in Streams,
         s.prompts > 0 => Len(chunk) = 1, Lined(a, read, s)
  PROVE  /\ IsLine(Take(s, chunk))
         /\ Lined(a, read \o chunk, Take(s, chunk))
         /\ ~(s.prompts > 0) => ~(Take(s, chunk).prompts > 0)
<1> DEFINE r == Take(s, chunk)
<1>1. CASE s.prompts > 0
  <2>1. r = Answer(s, chunk[1])
    BY <1>1 DEF Take
  <2> HIDE DEF r
  <2>2. IsLine(r) /\ Lined(a, read \o chunk, r)
    BY <1>1, <2>1, AnswerLined
  <2>. QED
    BY <1>1, <2>2 DEF r
<1>2. CASE ~(s.prompts > 0) /\ s.inBytes + Len(chunk) > MaxInput
  <2>1. r = PutStatus(s, "limit")
    BY <1>2 DEF Take, PutStatus
  <2> HIDE DEF r
  <2>2. IsLine(r) /\ r.status = "limit" /\ r.prompts = s.prompts
    BY <2>1 DEF PutStatus, IsLine, LineOf
  <2>3. Lined(a, read \o chunk, r)
    BY <2>2 DEF Lined
  <2>. QED
    BY <1>2, <2>2, <2>3 DEF r
<1>3. CASE ~(s.prompts > 0) /\ ~(s.inBytes + Len(chunk) > MaxInput)
  <2> DEFINE x == s.inBytes + Len(chunk)
             t == PutIn(s, x)
  <2>1. r = Edit(t, chunk)
    BY <1>3 DEF Take, PutIn
  <2> HIDE DEF r, x
  <2>2. IsLine(t) /\ t.prompts = s.prompts /\ t.status = s.status /\ Lined(a, read, t)
    BY InLined
  <2> HIDE DEF t
  <2>3. IsLine(Edit(t, chunk)) /\ Edit(t, chunk).prompts = t.prompts /\ Lined(a, read \o chunk, Edit(t, chunk))
    BY <1>3, <2>2, EditLined
  <2>. QED
    BY <1>3, <2>1, <2>2, <2>3 DEF r
<1>. QED
  BY <1>1, <1>2, <1>3

\* The reader of a connection is faithful so far.  A prompt takes what Read has at once.
Sound(a, c, s) ==
  /\ IsLine(s)
  /\ Lined(a, c.read, s)
  /\ s.prompts > 0 => c.got = << >>

\* A Read that returns gives its caller the next chunk of the payload.
LEMMA ReturnSound ==
  ASSUME NEW c \in ConnState, NEW s, NEW a, IsLine(s), s.status = "open", Lined(a, c.read, s),
         s.prompts > 0 => Len(c.got) = 1
  PROVE  Sound(a, Return(c, s).conn, Return(c, s).line)
<1> DEFINE d == Return(c, s).conn
           r == Return(c, s).line
<1>1. c.read \in Streams /\ c.got \in Streams
  BY DEF ConnState
<1>2. d.got = << >> /\ d.read = c.read \o c.got
  BY ReturnKeeps DEF Payload
<1>3. r = Take(s, c.got)
  BY DEF Return
<1> HIDE DEF d, r
<1> DEFINE read == c.read
           chunk == c.got
<1>4. read \in Streams /\ chunk \in Streams /\ Lined(a, read, s) /\ (s.prompts > 0 => Len(chunk) = 1)
  BY <1>1
<1> HIDE DEF read, chunk
<1>5. IsLine(Take(s, chunk)) /\ Lined(a, read \o chunk, Take(s, chunk))
  BY <1>4, TakeLined
<1>6. Sound(a, d, r)
  BY <1>2, <1>3, <1>5 DEF Sound, read, chunk
<1>. QED
  BY <1>6 DEF d, r

\* One turn of the loop in telnetConn.Read.
LEMMA ReadByteSound ==
  ASSUME NEW c \in ConnState, NEW s, NEW a, NEW b \in Bytes, NEW more, s.status = "open", Sound(a, c, s)
  PROVE  Sound(a, ReadByte(c, s, b, more).conn, ReadByte(c, s, b, more).line)
<1> DEFINE r == ReadByte(c, s, b, more)
           kept == [c EXCEPT !.phase = "data", !.got = Append(c.got, b)]
           full == Len(kept.got) = Room(s)
<1>0. IsLine(s) /\ Lined(a, c.read, s) /\ (s.prompts > 0 => c.got = << >>)
  BY DEF Sound
<1>1. kept \in ConnState /\ kept.read = c.read /\ kept.got = Append(c.got, b)
  <2>1. kept \in ConnState
    BY KeepAdds
  <2>. QED
    BY <2>1 DEF ConnState
<1>2. s.prompts > 0 => Len(kept.got) = 1 /\ full
  <2>1. ASSUME s.prompts > 0 PROVE Len(kept.got) = 1
    <3>1. kept.got = Append(<< >>, b)
      BY <1>0, <1>1, <2>1
    <3>2. << >> \in Seq(Bytes)
      OBVIOUS
    <3>3. Len(Append(<< >>, b)) = Len(<< >>) + 1
      BY <3>2, AppendProperties
    <3> HIDE DEF kept
    <3>. QED
      BY <3>1, <3>3
  <2>2. s.prompts > 0 => Room(s) = 1
    BY DEF Room
  <2>. QED
    BY <2>1, <2>2
<1> HIDE DEF kept, full
<1>3. Sound(a, Return(kept, s).conn, Return(kept, s).line)
  <2>1. Lined(a, kept.read, s)
    BY <1>0, <1>1
  <2>. QED
    BY <1>0, <1>1, <1>2, <2>1, ReturnSound
<1>4. ~full => Sound(a, kept, s)
  BY <1>0, <1>1, <1>2 DEF Sound
<1>5. ASSUME NEW ph PROVE Sound(a, [c EXCEPT !.phase = ph], s)
  <2>1. [c EXCEPT !.phase = ph].read = c.read /\ [c EXCEPT !.phase = ph].got = c.got
    BY DEF ConnState
  <2>. QED
    BY <1>0, <2>1 DEF Sound
<1>6. \/ r = Return(kept, s)
      \/ ~full /\ r.conn = kept /\ r.line = s
      \/ r.conn = c /\ r.line = s
      \/ \E ph : r.conn = [c EXCEPT !.phase = ph] /\ r.line = s
  <2>1. CASE c.phase = "data" /\ b = "iac"
    <3>1. r.conn = [c EXCEPT !.phase = "cmd"] /\ r.line = s
      BY <2>1 DEF ReadByte
    <3> HIDE DEF r
    <3>. QED
      BY <3>1
  <2>2. CASE c.phase = "data" /\ b = "nul"
    <3>1. r.conn = c /\ r.line = s
      BY <2>2 DEF ReadByte
    <3> HIDE DEF r
    <3>. QED
      BY <3>1
  <2>3. CASE c.phase = "data" /\ b \notin {"iac", "nul"}
    <3>1. r = IF full \/ Drained(more) THEN Return(kept, s) ELSE [conn |-> kept, line |-> s]
      BY <2>3 DEF ReadByte, kept, full
    <3> HIDE DEF r
    <3>. QED
      BY <3>1
  <2>4. CASE c.phase = "cmd" /\ b = "iac"
    <3>1. r = IF full THEN Return(kept, s) ELSE [conn |-> kept, line |-> s]
      BY <2>4 DEF ReadByte, kept, full
    <3> HIDE DEF r
    <3>. QED
      BY <3>1
  <2>5. CASE c.phase # "data" /\ ~(c.phase = "cmd" /\ b = "iac")
    <3>1. r.conn = [c EXCEPT !.phase = InProtocol(c.phase, b)] /\ r.line = s
      BY <2>5 DEF ReadByte
    <3> HIDE DEF r
    <3>. QED
      BY <3>1
  <2> HIDE DEF r
  <2>. QED
    BY <2>1, <2>2, <2>3, <2>4, <2>5
<1> HIDE DEF r
<1>7. Sound(a, r.conn, r.line)
  BY <1>3, <1>4, <1>5, <1>6
<1>. QED
  BY <1>7 DEF r

\* By induction over the segment.
LEMMA FeedSound ==
  ASSUME NEW bytes \in Streams, NEW t \in Streams, NEW a, conn \in ConnState, Taken(t, conn),
         Sound(a, conn, line)
  PROVE  Sound(a, Feed(bytes).conn, Feed(bytes).line)
<1> DEFINE n == Len(bytes)
<1>1. n \in Nat
  BY DEF Streams
<1>2. PICK f : /\ Feed(bytes) = f[n]
               /\ f[0] = [conn |-> conn, line |-> line]
               /\ \A i \in 1..n : f[i] = IF f[i - 1].line.status # "open" THEN f[i - 1]
                                         ELSE ReadByte(f[i - 1].conn, f[i - 1].line, bytes[i], i < n)
  BY <1>1, FeedEquation
<1>3. \A i \in 0..n : Worked(t, bytes, i, f[i])
  BY <1>1, <1>2, FeedWorks
<1>4. \A i \in 0..n : Sound(a, f[i].conn, f[i].line)
  <2> DEFINE T == {i \in 0..n : ~Sound(a, f[i].conn, f[i].line)}
  <2>1. SUFFICES ASSUME T # {} PROVE FALSE
    OBVIOUS
  <2>2. PICK i \in T : \A k \in T : i <= k
    <3>1. T \subseteq Nat
      OBVIOUS
    <3> HIDE DEF T
    <3>. QED
      BY <2>1, <3>1, NatMin
  <2>3. i # 0
    <3>1. f[0].conn = conn /\ f[0].line = line
      BY <1>2
    <3>. QED
      BY <2>2, <3>1
  <2>4. i \in 1..n /\ i - 1 \in 0..n /\ i \in Nat /\ bytes[i] \in Bytes
    BY <1>1, <2>2, <2>3 DEF Streams
  <2>5. Sound(a, f[i - 1].conn, f[i - 1].line)
    BY <2>2, <2>4
  <2>6. f[i - 1].conn \in ConnState
    BY <1>3, <2>4 DEF Worked
  <2> DEFINE p == f[i - 1]
             c == p.conn
             s == p.line
             b == bytes[i]
             more == i < n
  <2>7. f[i] = IF s.status # "open" THEN p ELSE ReadByte(c, s, b, more)
    BY <1>2, <2>4
  <2>8. Sound(a, c, s) /\ c \in ConnState /\ b \in Bytes /\ c = p.conn /\ s = p.line
    BY <2>4, <2>5, <2>6
  <2> HIDE DEF p, c, s, b, more
  <2>9. s.status = "open" => Sound(a, ReadByte(c, s, b, more).conn, ReadByte(c, s, b, more).line)
    BY <2>8, ReadByteSound
  <2>10. Sound(a, f[i].conn, f[i].line)
    BY <2>7, <2>8, <2>9
  <2>. QED
    BY <2>2, <2>10
<1>5. n \in 0..n
  BY <1>1
<1>. QED
  BY <1>2, <1>4, <1>5

\* The invariant.
KInv == Sound(Login(keyboard.prompts), conn, line)

\* The invariant holds at the start,
LEMMA InitSound == TerminalInit => KInv
<1> SUFFICES ASSUME TerminalInit PROVE KInv
  OBVIOUS
<1> DEFINE a == Login(keyboard.prompts)
<1>1. line = a /\ conn.read = << >> /\ conn.got = << >>
  BY DEF TerminalInit
<1>2. IsLine(a) /\ a.status = "open" /\ ~a.cut
  BY DEF Login, IsLine, LineOf
<1> HIDE DEF a
<1>3. ASSUME NEW w, NEW n, NEW f, Looped(f, TRUE, a, w, n)
      PROVE  Level(a, << >>, f)
  <2>1. f[0].line = a /\ f[0].next = 1
    BY <1>3 DEF Looped
  <2>2. Same(a, a)
    BY <1>2, SameSelf
  <2>3. Len(<< >>) = 0
    OBVIOUS
  <2>. QED
    BY <2>1, <2>2, <2>3 DEF Level
<1>4. Lined(a, << >>, a)
  BY <1>3 DEF Lined
<1>5. Sound(a, conn, line)
  BY <1>1, <1>2, <1>4 DEF Sound
<1>. QED
  BY <1>5 DEF KInv, a

\* a segment keeps it
LEMMA ArriveSound ==
  ASSUME TInv, KInv, NEW segment \in Streams, Arrive(segment)
  PROVE  KInv'
<1> DEFINE a == Login(keyboard.prompts)
<1>1. Reading /\ conn' = Feed(segment).conn /\ line' = Feed(segment).line /\ keyboard' = keyboard
  BY DEF Arrive
<1>2. sent \in Streams /\ conn \in ConnState /\ Taken(sent, conn)
  BY <1>1, WholeTaken DEF TInv, Reading
<1>3. Sound(a, conn, line) /\ a' = a
  BY <1>1 DEF KInv
<1> HIDE DEF a
<1>4. Sound(a, Feed(segment).conn, Feed(segment).line)
  BY <1>2, <1>3, FeedSound
<1>5. Sound(a, conn', line')
  BY <1>1, <1>4
<1>. QED
  BY <1>3, <1>5 DEF KInv, a

\* and so does the end of the connection.
LEMMA HangUpSound ==
  ASSUME TInv, KInv, HangUp
  PROVE  KInv'
<1> DEFINE a == Login(keyboard.prompts)
           last == IF conn.phase = "data" /\ conn.got # << >> THEN Return(conn, line)
                   ELSE [conn |-> conn, line |-> line]
           c == last.conn
<1>1. /\ Reading /\ keyboard' = keyboard /\ line' = last.line
      /\ conn' = [c EXCEPT !.eof = TRUE]
  BY DEF HangUp
<1>2. conn \in ConnState /\ line.status = "open"
  BY <1>1 DEF TInv, Reading
<1>3. Sound(a, conn, line) /\ a' = a
  BY <1>1 DEF KInv
<1> HIDE DEF a
<1>4. Sound(a, c, last.line) /\ c \in ConnState
  <2>1. CASE conn.phase = "data" /\ conn.got # << >>
    <3>1. last = Return(conn, line)
      BY <2>1
    <3> HIDE DEF last
    <3>2. IsLine(line) /\ Lined(a, conn.read, line) /\ ~(line.prompts > 0)
      BY <1>3, <2>1 DEF Sound
    <3>3. Sound(a, Return(conn, line).conn, Return(conn, line).line)
      BY <1>2, <3>2, ReturnSound
    <3>4. Return(conn, line).conn \in ConnState
      BY <1>2, ReturnKeeps
    <3>. QED
      BY <3>1, <3>3, <3>4
  <2>2. CASE ~(conn.phase = "data" /\ conn.got # << >>)
    <3>1. c = conn /\ last.line = line
      BY <2>2
    <3> HIDE DEF c, last
    <3>. QED
      BY <1>2, <1>3, <3>1
  <2>. QED
    BY <2>1, <2>2
<1> HIDE DEF c, last
<1>5. conn'.got = c.got /\ conn'.read = c.read
  BY <1>1, <1>4 DEF ConnState
<1>6. Sound(a, conn', line')
  BY <1>1, <1>4, <1>5 DEF Sound
<1>. QED
  BY <1>3, <1>6 DEF KInv, a

\* The invariant always holds.
LEMMA TerminalSound == TerminalSpec => []KInv
<1>1. TInv /\ KInv /\ [TerminalNext]_terminalVars => KInv'
  <2> SUFFICES ASSUME TInv, KInv, [TerminalNext]_terminalVars PROVE KInv'
    OBVIOUS
  <2>1. ASSUME NEW n \in 1..MaxSegment, NEW segment \in [1..n -> keyboard.keys], Arrive(segment)
        PROVE  KInv'
    <3>1. keyboard.keys \subseteq Bytes
      BY DEF TInv, Bytes
    <3>2. n \in Nat
      BY TerminalAssumption
    <3>3. segment \in [1..n -> Bytes]
      BY <3>1
    <3>4. segment \in Streams
      BY <3>2, <3>3 DEF Streams
    <3>. QED
      BY <2>1, <3>4, ArriveSound
  <2>2. CASE HangUp
    BY <2>2, HangUpSound
  <2>3. CASE UNCHANGED terminalVars
    <3>1. conn' = conn /\ line' = line /\ keyboard' = keyboard
      BY <2>3 DEF terminalVars
    <3>. QED
      BY <3>1 DEF KInv
  <2>. QED
    BY <2>1, <2>2, <2>3 DEF TerminalNext
<1>. QED
  BY <1>1, InitSound, TerminalListens, PTL DEF TerminalSpec

\* Login answers and command lines do not depend on how the network cut the bytes or on the
\* chunks Shell.readLine gets, unless a chunk's end took something away.
THEOREM TerminalLinesFaithful == TerminalSpec => []LinesFaithful
<1>1. ASSUME TInv, KInv PROVE LinesFaithful
  <2> DEFINE a == Login(keyboard.prompts)
             w == conn.read
             n == Len(w)
  <2>1. w \in Streams
    BY <1>1 DEF TInv, ConnState
  <2>2. n \in Nat
    BY <2>1 DEF Streams
  <2>3. Lined(a, w, line)
    BY <1>1 DEF KInv, Sound
  <2>4. w \o << >> = w /\ << >> \in Streams
    BY <2>1, Literals, ConcatEmptySeq DEF Streams
  <2>5. PICK f : KeyByKey(a, w) = f[n].line /\ Looped(f, TRUE, a, w, n)
    BY <2>2, KeyByKeyLoops
  <2>6. ASSUME ~line.cut, line.status # "limit"
        PROVE  Same(line, KeyByKey(a, w))
    <3> HIDE DEF a, w
    <3>1. Looped(f, TRUE, a, w \o << >>, Len(w \o << >>))
      BY <2>4, <2>5
    <3>2. Level(line, w, f)
      BY <2>3, <2>4, <2>6, <3>1 DEF Lined
    <3>. QED
      BY <2>5, <3>2 DEF Level
  <2> DEFINE alone == KeyByKey(a, w)
  <2>7. LinesFaithful = ((~line.cut /\ line.status # "limit") =>
          <<alone.prompts, alone.buf, alone.pos, alone.history>>
            = <<line.prompts, line.buf, line.pos, line.history>>)
    BY DEF LinesFaithful
  <2> HIDE DEF a, w, alone
  <2>8. (~line.cut /\ line.status # "limit") => Same(line, alone)
    BY <2>6 DEF alone
  <2>. QED
    BY <2>7, <2>8 DEF Same
<1>. QED
  BY <1>1, TerminalListens, TerminalSound, PTL
-----------------------------------------------------------------------------
(* The parser of node/internal/shell/parser.go on the lines of the terminal *)

\* The characters the parser knows are different ones.
LEMMA Different ==
  /\ Blank \notin {"\\", "'", "|", "&", ">", "<", Semicolon, Quote}
  /\ Semicolon \notin {"\\", "'", "|", "&", ">", "<", Quote}
  /\ Quote \notin {"\\", "'", "|", "&", ">", "<"}
BY Zenon DEF Blank, Semicolon, Quote

\* The symbols of a line, and the blank.
Chars == Bytes \cup {Blank}
Texts == Seq(Chars)

\* What tokenize holds: the token in progress and the tokens it has emitted.
Progress == [text : Texts, quoted : BOOLEAN, some : BOOLEAN]
Tokens == [text : Texts, quoted : BOOLEAN, some : {TRUE}]
Modes == {"plain", "second", "escaped", "single", "double", "doubleEscaped"}
ScanState == [mode : Modes, cur : Progress, out : Seq(Tokens)]
ScanStart == Scanner("plain", None, << >>)

\* What tokenize holds is put together from its parts.
LEMMA ScannerTyped ==
  ASSUME NEW mode \in Modes, NEW cur \in Progress, NEW out \in Seq(Tokens)
  PROVE  /\ Scanner(mode, cur, out) \in ScanState
         /\ Scanner(mode, cur, out).mode = mode /\ Scanner(mode, cur, out).cur = cur
         /\ Scanner(mode, cur, out).out = out
BY DEF Scanner, ScanState

\* It begins with no token in progress.
LEMMA NoneTyped == None \in Progress /\ ScanStart \in ScanState
<1>1. None \in Progress
  BY DEF None, Progress, Texts
<1>2. "plain" \in Modes /\ << >> \in Seq(Tokens)
  BY DEF Modes
<1>. QED
  BY <1>1, <1>2, ScannerTyped DEF ScanStart

\* An operator is a token,
LEMMA OpTyped ==
  ASSUME NEW t \in Texts
  PROVE  Op(t) \in Tokens
BY DEF Op, Tokens

\* a token in progress that gets text is one to emit,
LEMMA ExtendTyped ==
  ASSUME NEW cur \in Progress, NEW text \in Texts, NEW quote \in BOOLEAN
  PROVE  /\ Extend(cur, text, quote) \in Tokens /\ Extend(cur, text, quote) \in Progress
         /\ Extend(cur, text, quote).text = cur.text \o text
         /\ Extend(cur, text, quote).some = TRUE
<1> DEFINE t == cur.text \o text
           q == cur.quoted \/ quote
<1>1. cur.text \in Texts /\ cur.quoted \in BOOLEAN
  BY DEF Progress
<1>2. t \in Texts
  BY <1>1, ConcatProperties DEF Texts
<1>3. q \in BOOLEAN
  OBVIOUS
<1>4. Extend(cur, text, quote) = [text |-> t, quoted |-> q, some |-> TRUE]
  BY DEF Extend
<1> HIDE DEF t, q
<1>5. /\ Extend(cur, text, quote) \in Tokens /\ Extend(cur, text, quote) \in Progress
      /\ Extend(cur, text, quote).text = t /\ Extend(cur, text, quote).some = TRUE
  BY <1>2, <1>3, <1>4 DEF Tokens, Progress
<1>. QED
  BY <1>5 DEF t

\* and what is emitted are tokens.
LEMMA EmittedTyped ==
  ASSUME NEW p \in ScanState
  PROVE  Emitted(p) \in Seq(Tokens)
<1>1. p.cur \in Progress /\ p.out \in Seq(Tokens)
  BY DEF ScanState
<1>2. p.cur.some => p.cur \in Tokens
  BY <1>1 DEF Progress, Tokens
<1>. QED
  BY <1>1, <1>2 DEF Emitted

\* A symbol that is written to the token in progress,
LEMMA WriteTyped ==
  ASSUME NEW p \in ScanState, NEW mode \in Modes, NEW text \in Texts, NEW quote \in BOOLEAN
  PROVE  Write(p, mode, text, quote) \in ScanState
<1>1. p.cur \in Progress /\ p.out \in Seq(Tokens)
  BY DEF ScanState
<1> DEFINE c == Extend(p.cur, text, quote)
<1>2. c \in Progress
  BY <1>1, ExtendTyped
<1> HIDE DEF c
<1>3. Scanner(mode, c, p.out) \in ScanState
  BY <1>1, <1>2, ScannerTyped
<1>. QED
  BY <1>3 DEF Write, c

\* one that is an operator
LEMMA OperatorTyped ==
  ASSUME NEW p \in ScanState, NEW mode \in Modes, NEW op \in Texts
  PROVE  Operator(p, mode, op) \in ScanState
<1> DEFINE e == Append(Emitted(p), Op(op))
<1>1. e \in Seq(Tokens)
  BY EmittedTyped, OpTyped
<1> HIDE DEF e
<1>2. Scanner(mode, None, e) \in ScanState
  BY <1>1, NoneTyped, ScannerTyped
<1>. QED
  BY <1>2 DEF Operator, e

\* and one that only changes the mode leave tokenize with what it should hold.
LEMMA ToTyped ==
  ASSUME NEW p \in ScanState, NEW mode \in Modes
  PROVE  To(p, mode) \in ScanState
<1>1. p.cur \in Progress /\ p.out \in Seq(Tokens)
  BY DEF ScanState
<1>. QED
  BY <1>1, ScannerTyped DEF To

\* A symbol as text.
LEMMA CharTexts ==
  ASSUME NEW b \in Chars
  PROVE  <<b>> \in Texts /\ <<b, b>> \in Texts /\ << >> \in Texts /\ Len(<<b>>) = 1 /\ <<b>>[1] = b
BY DEF Texts

\* A turn of tokenize's loop.
LEMMA ScanTyped ==
  ASSUME NEW p \in ScanState, NEW s, NEW i, s[i] \in Chars
  PROVE  Scan(p, s, i) \in ScanState
<1> DEFINE b == s[i]
<1>0. b \in Chars /\ <<b>> \in Texts /\ <<b, b>> \in Texts /\ << >> \in Texts
  BY CharTexts
<1>1. Modes = {"plain", "second", "escaped", "single", "double", "doubleEscaped"}
  BY DEF Modes
<1>2. p.mode \in Modes
  BY DEF ScanState
<1>3. \A m \in Modes : \A q \in BOOLEAN :
        /\ To(p, m) \in ScanState /\ Write(p, m, <<b>>, q) \in ScanState
        /\ Write(p, m, << >>, q) \in ScanState /\ Operator(p, m, <<b>>) \in ScanState
        /\ Operator(p, m, <<b, b>>) \in ScanState
  <2> HIDE DEF b
  <2>. QED
    BY <1>0, ToTyped, WriteTyped, OperatorTyped
<1>4. Scanner("plain", None, Emitted(p)) \in ScanState
  BY <1>1, EmittedTyped, NoneTyped, ScannerTyped
<1>5. Plain(p, s, i) \in ScanState
  <2> DEFINE more == i < Len(s)
             twice == b \in {"|", "&", ">"} /\ more /\ s[i + 1] = b
  <2>1. Plain(p, s, i) = CASE b = "\\" /\ more -> To(p, "escaped")
       [] b = "'" -> Write(p, "single", << >>, TRUE)
       [] b = Quote -> Write(p, "double", << >>, TRUE)
       [] b = Blank -> Scanner("plain", None, Emitted(p))
       [] twice -> Operator(p, "second", <<b, b>>)
       [] b \in {"|", "&", ">", Semicolon, "<"} /\ ~twice -> Operator(p, "plain", <<b>>)
       [] OTHER -> Write(p, "plain", <<b>>, FALSE)
    BY DEF Plain
  <2>2. \/ Plain(p, s, i) = To(p, "escaped")
        \/ Plain(p, s, i) = Write(p, "single", << >>, TRUE)
        \/ Plain(p, s, i) = Write(p, "double", << >>, TRUE)
        \/ Plain(p, s, i) = Scanner("plain", None, Emitted(p))
        \/ Plain(p, s, i) = Operator(p, "second", <<b, b>>)
        \/ Plain(p, s, i) = Operator(p, "plain", <<b>>)
        \/ Plain(p, s, i) = Write(p, "plain", <<b>>, FALSE)
    <3> HIDE DEF more, twice, b
    <3>. QED
      BY <2>1
  <2> HIDE DEF b
  <2>. QED
    BY <1>1, <1>3, <1>4, <2>2
<1>6. \/ Scan(p, s, i) = Plain(p, s, i)
      \/ \E m \in Modes : \E q \in BOOLEAN : Scan(p, s, i) = To(p, m) \/ Scan(p, s, i) = Write(p, m, <<b>>, q)
  BY <1>1, <1>2 DEF Scan
<1> HIDE DEF b
<1>. QED
  BY <1>3, <1>5, <1>6

\* A turn looks at the symbol it is at and at the next.
LEMMA ScanLooks ==
  ASSUME NEW p, NEW s, NEW i, NEW w, NEW j, s[i] = w[j],
         i < Len(s) <=> j < Len(w), i < Len(s) => s[i + 1] = w[j + 1]
  PROVE  Scan(p, s, i) = Scan(p, w, j)
<1>1. Plain(p, s, i) = Plain(p, w, j)
  BY DEF Plain
<1>. QED
  BY <1>1 DEF Scan

\* tokenize with other tokens before its own.
Behind(p, before) == Scanner(p.mode, p.cur, before \o p.out)

\* They change nothing.
LEMMA EmittedBehind ==
  ASSUME NEW p \in ScanState, NEW before \in Seq(Tokens)
  PROVE  Emitted(Behind(p, before)) = before \o Emitted(p)
<1>1. p.cur \in Progress /\ p.out \in Seq(Tokens)
  BY DEF ScanState
<1>2. p.cur.some => p.cur \in Tokens
  BY <1>1 DEF Progress, Tokens
<1>3. Behind(p, before).cur = p.cur /\ Behind(p, before).out = before \o p.out
  BY DEF Behind, Scanner
<1>4. ASSUME NEW t \in Tokens PROVE Append(before \o p.out, t) = before \o Append(p.out, t)
  BY <1>1
<1>. QED
  BY <1>2, <1>3, <1>4 DEF Emitted

\* nor do they for a turn of the loop.
LEMMA ScanBehind ==
  ASSUME NEW p \in ScanState, NEW before \in Seq(Tokens), NEW s, NEW i, s[i] \in Chars
  PROVE  Scan(Behind(p, before), s, i) = Behind(Scan(p, s, i), before)
<1> DEFINE d == Behind(p, before)
           b == s[i]
           x == before \o p.out
<1>0. d = Scanner(p.mode, p.cur, x)
  BY DEF Behind
<1>1. d.mode = p.mode /\ d.cur = p.cur /\ d.out = x
  BY DEF Behind, Scanner
<1>2. ASSUME NEW m PROVE To(d, m) = Behind(To(p, m), before)
  BY <1>1 DEF To, Behind, Scanner
<1>3. ASSUME NEW m, NEW t, NEW q PROVE Write(d, m, t, q) = Behind(Write(p, m, t, q), before)
  BY <1>1 DEF Write, Behind, Scanner
<1>4. Emitted(d) = before \o Emitted(p) /\ Emitted(p) \in Seq(Tokens)
  BY EmittedBehind, EmittedTyped
<1>5. Scanner("plain", None, Emitted(d)) = Behind(Scanner("plain", None, Emitted(p)), before)
  BY <1>4 DEF Behind, Scanner
<1>6. ASSUME NEW m, NEW t \in Texts PROVE Operator(d, m, t) = Behind(Operator(p, m, t), before)
  <2> DEFINE e == Emitted(p)
             o == Op(t)
  <2>1. o \in Tokens /\ e \in Seq(Tokens)
    BY <1>4, <1>6, OpTyped
  <2> HIDE DEF e, o
  <2>2. Append(before \o e, o) = before \o Append(e, o)
    BY <2>1
  <2>3. Append(Emitted(d), Op(t)) = before \o Append(Emitted(p), Op(t))
    BY <1>4, <2>2 DEF e, o
  <2>. QED
    BY <2>3 DEF Operator, Behind, Scanner
<1>7. <<b>> \in Texts /\ <<b, b>> \in Texts
  BY CharTexts
<1> HIDE DEF d
<1>8. Plain(d, s, i) = Behind(Plain(p, s, i), before)
  <2> DEFINE more == i < Len(s)
             twice == b \in {"|", "&", ">"} /\ more /\ s[i + 1] = b
  <2>1. ASSUME NEW q
        PROVE  Plain(q, s, i) = CASE b = "\\" /\ more -> To(q, "escaped")
                 [] b = "'" -> Write(q, "single", << >>, TRUE)
                 [] b = Quote -> Write(q, "double", << >>, TRUE)
                 [] b = Blank -> Scanner("plain", None, Emitted(q))
                 [] twice -> Operator(q, "second", <<b, b>>)
                 [] b \in {"|", "&", ">", Semicolon, "<"} /\ ~twice -> Operator(q, "plain", <<b>>)
                 [] OTHER -> Write(q, "plain", <<b>>, FALSE)
    BY DEF Plain
  <2>2. Operator(d, "second", <<b, b>>) = Behind(Operator(p, "second", <<b, b>>), before)
    BY <1>6, <1>7
  <2>3. Operator(d, "plain", <<b>>) = Behind(Operator(p, "plain", <<b>>), before)
    BY <1>6, <1>7
  <2> HIDE DEF more, b
  <2>4. CASE b = "\\"
    BY Different, <1>2, <1>3, <2>1, <2>4
  <2>5. CASE b = "'"
    BY Different, <1>3, <2>1, <2>5
  <2>6. CASE b = Quote
    BY Different, <1>3, <2>1, <2>6
  <2>7. CASE b = Blank
    BY Different, <1>5, <2>1, <2>7
  <2>8. CASE b \in {"|", "&", ">", Semicolon, "<"}
    BY Different, <2>1, <2>2, <2>3, <2>8
  <2>9. CASE b \notin {"\\", "'", Quote, Blank, "|", "&", ">", Semicolon, "<"}
    BY <1>3, <2>1, <2>9
  <2>. QED
    BY <2>4, <2>5, <2>6, <2>7, <2>8, <2>9
<1>9. p.mode \in {"plain", "second", "escaped", "single", "double", "doubleEscaped"}
  BY DEF ScanState, Modes
<1>10. CASE p.mode = "plain"
  BY <1>1, <1>8, <1>10 DEF Scan, d
<1>11. CASE p.mode = "second"
  BY <1>1, <1>2, <1>11 DEF Scan, d
<1>12. CASE p.mode = "escaped"
  BY <1>1, <1>3, <1>12 DEF Scan, d
<1>13. CASE p.mode = "single"
  BY <1>1, <1>2, <1>3, <1>13 DEF Scan, d
<1>14. CASE p.mode = "double"
  BY <1>1, <1>2, <1>3, <1>14 DEF Scan, d
<1>15. CASE p.mode = "doubleEscaped"
  BY <1>1, <1>3, <1>15 DEF Scan, d
<1>. QED
  BY <1>9, <1>10, <1>11, <1>12, <1>13, <1>14, <1>15

\* A turn of the loop of tokenize over symbols, or of Parse over tokens (words).
PassTurn(words, p, s, i) == IF words THEN ParseToken(p, s[i]) ELSE Scan(p, s, i)
PassBy(f, words, x, s, i) == IF i = 0 THEN x ELSE PassTurn(words, f[i - 1], s, i)
Passes(f, words, x, s, n) == f = [i \in 0..n |-> PassBy(f, words, x, s, i)]
Passed(f, words, x, s, n) == f[0] = x /\ \A i \in 1..n : f[i] = PassTurn(words, f[i - 1], s, i)

\* Induction over the turns of a loop: G is the set of those at which something holds.
LEMMA TurnByTurn ==
  ASSUME NEW n \in Nat, NEW G, 0 \in G, \A i \in 1..n : i - 1 \in G => i \in G
  PROVE  \A i \in 0..n : i \in G
<1> DEFINE T == {i \in 0..n : i \notin G}
<1>1. SUFFICES ASSUME T # {} PROVE FALSE
  OBVIOUS
<1>2. PICK i \in T : \A k \in T : i <= k
  <2>1. T \subseteq Nat
    OBVIOUS
  <2> HIDE DEF T
  <2>. QED
    BY <1>1, <2>1, NatMin
<1>3. i \in 1..n /\ i - 1 \in 0..n /\ ~(i <= i - 1)
  BY <1>2
<1>4. i - 1 \in G
  BY <1>2, <1>3
<1>. QED
  BY <1>2, <1>3, <1>4

\* Such a loop, at each of its turns.
LEMMA PassesAt ==
  ASSUME NEW words, NEW x, NEW s, NEW n \in Nat, NEW f, Passes(f, words, x, s, n)
  PROVE  \A i \in 0..n : f[i] = PassBy(f, words, x, s, i)
<1> DEFINE R == [i \in 0..n |-> PassBy(f, words, x, s, i)]
<1>1. f = R
  BY DEF Passes
<1>2. \A i \in 0..n : R[i] = PassBy(f, words, x, s, i)
  OBVIOUS
<1> HIDE DEF R
<1>. QED
  BY <1>1, <1>2

\* It has a result, however long the line is.
LEMMA PassesExists ==
  ASSUME NEW words, NEW x, NEW s
  PROVE  \A n \in Nat : \E f : Passes(f, words, x, s, n)
<1> DEFINE T == {n \in Nat : ~\E f : Passes(f, words, x, s, n)}
<1>1. SUFFICES ASSUME T # {} PROVE FALSE
  OBVIOUS
<1>2. PICK n \in T : \A k \in T : n <= k
  <2>1. T \subseteq Nat
    OBVIOUS
  <2> HIDE DEF T
  <2>. QED
    BY <1>1, <2>1, NatMin
<1>3. n # 0
  <2> DEFINE f == [i \in 0..0 |-> x]
  <2>1. \A i \in 0..0 : PassBy(f, words, x, s, i) = x
    BY DEF PassBy
  <2>2. f = [i \in 0..0 |-> PassBy(f, words, x, s, i)]
    BY <2>1
  <2>3. Passes(f, words, x, s, 0)
    BY <2>2 DEF Passes
  <2>. QED
    BY <1>2, <2>3
<1>4. n \in Nat /\ n - 1 \in Nat
  BY <1>2, <1>3
<1>5. \E f : Passes(f, words, x, s, n - 1)
  BY <1>2, <1>4
<1>6. PICK f : Passes(f, words, x, s, n - 1)
  BY <1>5
<1>7. \A i \in 0..(n - 1) : f[i] = PassBy(f, words, x, s, i)
  BY <1>4, <1>6, PassesAt
<1> DEFINE g == [i \in 0..n |-> IF i < n THEN f[i] ELSE PassBy(f, words, x, s, i)]
<1>8. \A i \in 0..n : g[i] = PassBy(g, words, x, s, i)
  <2>1. TAKE i \in 0..n
  <2>2. g[i] = PassBy(f, words, x, s, i)
    BY <1>4, <1>7
  <2>3. i # 0 => g[i - 1] = f[i - 1]
    BY <1>4
  <2> HIDE DEF g
  <2>4. PassBy(g, words, x, s, i) = PassBy(f, words, x, s, i)
    BY <2>3 DEF PassBy
  <2>. QED
    BY <2>2, <2>4
<1>9. g = [i \in 0..n |-> PassBy(g, words, x, s, i)]
  BY <1>8
<1>10. Passes(g, words, x, s, n)
  BY <1>9 DEF Passes
<1>. QED
  BY <1>2, <1>10

\* The loop as its start and its turns.
LEMMA PassesPassed ==
  ASSUME NEW words, NEW x, NEW s, NEW n \in Nat, NEW f, Passes(f, words, x, s, n)
  PROVE  Passed(f, words, x, s, n)
<1>1. \A i \in 0..n : f[i] = PassBy(f, words, x, s, i)
  BY PassesAt
<1>2. f[0] = x
  BY <1>1 DEF PassBy
<1>3. \A i \in 1..n : f[i] = PassTurn(words, f[i - 1], s, i)
  BY <1>1 DEF PassBy
<1>. QED
  BY <1>2, <1>3 DEF Passed

ScanBy(f, s, i) == IF i = 0 THEN Scanner("plain", None, << >>) ELSE Scan(f[i - 1], s, i)
Scans(f, s, n) == f = [i \in 0..n |-> ScanBy(f, s, i)]

\* tokenize is one,
LEMMA TokenizePasses ==
  ASSUME NEW s, NEW n \in Nat, Len(s) = n
  PROVE  \E f : Tokenize(s) = Emitted(f[n]) /\ Passed(f, FALSE, ScanStart, s, n)
<1> DEFINE f == CHOOSE x : Scans(x, s, n)
<1>1. Tokenize(s) = Emitted(f[n])
  BY DEF Tokenize, Scans, ScanBy
<1>2. ASSUME NEW x PROVE Scans(x, s, n) <=> Passes(x, FALSE, ScanStart, s, n)
  <2>1. \A i \in 0..n : ScanBy(x, s, i) = PassBy(x, FALSE, ScanStart, s, i)
    BY DEF ScanBy, PassBy, PassTurn, ScanStart
  <2>2. [i \in 0..n |-> ScanBy(x, s, i)] = [i \in 0..n |-> PassBy(x, FALSE, ScanStart, s, i)]
    BY <2>1
  <2>. QED
    BY <2>2 DEF Scans, Passes
<1>3. PICK h : Passes(h, FALSE, ScanStart, s, n)
  BY PassesExists
<1>4. Scans(f, s, n)
  BY <1>2, <1>3
<1> HIDE DEF f
<1>5. Passes(f, FALSE, ScanStart, s, n)
  BY <1>2, <1>4
<1>6. Passed(f, FALSE, ScanStart, s, n)
  BY <1>5, PassesPassed
<1>. QED
  BY <1>1, <1>6

\* tokenize holds what it should at every symbol.
LEMMA PassTyped ==
  ASSUME NEW s, NEW n \in Nat, NEW f, Passed(f, FALSE, ScanStart, s, n), \A i \in 1..n : s[i] \in Chars
  PROVE  \A i \in 0..n : f[i] \in ScanState
<1> DEFINE G == {i \in 0..n : f[i] \in ScanState}
<1>1. 0 \in G
  BY NoneTyped DEF Passed
<1>2. ASSUME NEW i \in 1..n, i - 1 \in G PROVE i \in G
  <2>1. f[i - 1] \in ScanState /\ s[i] \in Chars
    BY <1>2
  <2>2. f[i] = Scan(f[i - 1], s, i)
    BY DEF Passed, PassTurn
  <2>. QED
    BY <2>1, <2>2, ScanTyped
<1> HIDE DEF G
<1>3. \A i \in 0..n : i \in G
  BY <1>1, <1>2, TurnByTurn
<1>. QED
  BY <1>3 DEF G

\* Lines that begin alike: w has the n symbols of s before its others.
Begins(s, n, w, l) == Len(s) = n /\ Len(w) = l /\ n < l /\ \A i \in 1..n : w[i] = s[i]

Alike(f, g, n) == \A i \in 0..(n - 1) : g[i] = f[i]

\* tokenize is at the same place in them, before the last symbol of the shorter.
LEMMA PassAlike ==
  ASSUME NEW s, NEW n \in Nat, n # 0, NEW w, NEW l \in Nat, Begins(s, n, w, l), NEW f, NEW g,
         Passed(f, FALSE, ScanStart, s, n), Passed(g, FALSE, ScanStart, w, l)
  PROVE  Alike(f, g, n)
<1> DEFINE G == {i \in 0..(n - 1) : g[i] = f[i]}
<1>0. n - 1 \in Nat
  OBVIOUS
<1>1. 0 \in G
  BY DEF Passed
<1>2. ASSUME NEW i \in 1..(n - 1), i - 1 \in G PROVE i \in G
  <2>1. g[i - 1] = f[i - 1] /\ i \in 1..n /\ i \in 1..l /\ i + 1 \in 1..n
    BY <1>2 DEF Begins
  <2>2. f[i] = Scan(f[i - 1], s, i) /\ g[i] = Scan(g[i - 1], w, i)
    BY <2>1 DEF Passed, PassTurn
  <2>3. s[i] = w[i] /\ s[i + 1] = w[i + 1] /\ i < Len(s) /\ i < Len(w)
    BY <2>1 DEF Begins
  <2> DEFINE p == f[i - 1]
  <2> HIDE DEF p
  <2>4. Scan(p, s, i) = Scan(p, w, i)
    BY <2>3, ScanLooks
  <2>. QED
    BY <2>1, <2>2, <2>4 DEF p
<1> HIDE DEF G
<1>3. \A i \in 0..(n - 1) : i \in G
  BY <1>0, <1>1, <1>2, TurnByTurn
<1>. QED
  BY <1>3 DEF G, Alike

\* A backslash at the end of a line that would escape the symbol after it.
Dangling(p, b) == b = "\\" /\ p.mode \in {"plain", "double"}

\* The last symbol of a line that a blank or a semicolon may follow.
LEMMA ScanLast ==
  ASSUME NEW p \in ScanState, NEW s, NEW n \in Nat, NEW w, NEW l \in Nat, Len(s) = n, Len(w) = l,
         n < l, s[n] = w[n], s[n] \in Chars, w[n + 1] \in {Blank, Semicolon}
  PROVE  /\ ~Dangling(p, s[n]) => Scan(p, w, n) = Scan(p, s, n)
         /\ Scan(p, s, n).mode \in {"plain", "single", "double"}
<1> DEFINE b == s[n]
<1>0. p.mode \in {"plain", "second", "escaped", "single", "double", "doubleEscaped"}
  BY DEF ScanState, Modes
<1>1. ~(n < Len(s)) /\ n < Len(w) /\ w[n] = b
  OBVIOUS
<1>2. /\ To(p, "plain").mode = "plain"
      /\ Write(p, "plain", <<b>>, FALSE).mode = "plain" /\ Write(p, "double", <<b>>, TRUE).mode = "double"
      /\ Write(p, "single", <<b>>, TRUE).mode = "single"
      /\ Write(p, "single", << >>, TRUE).mode = "single" /\ Write(p, "double", << >>, TRUE).mode = "double"
      /\ Operator(p, "plain", <<b>>).mode = "plain" /\ Scanner("plain", None, Emitted(p)).mode = "plain"
  BY DEF To, Write, Operator, Scanner
<1>3. /\ b # "\\" => Plain(p, w, n) = Plain(p, s, n)
      /\ Plain(p, s, n).mode \in {"plain", "single", "double"}
  <2>1. Plain(p, s, n) =
          CASE b = "'" -> Write(p, "single", << >>, TRUE)
            [] b = Quote -> Write(p, "double", << >>, TRUE)
            [] b = Blank -> Scanner("plain", None, Emitted(p))
            [] b \in {"|", "&", ">", Semicolon, "<"} -> Operator(p, "plain", <<b>>)
            [] OTHER -> Write(p, "plain", <<b>>, FALSE)
    BY <1>1, Different DEF Plain
  <2>2. ~(b \in {"|", "&", ">"} /\ n < Len(w) /\ w[n + 1] = w[n])
    BY <1>1, Different
  <2>3. b # "\\" => Plain(p, w, n) =
          CASE b = "'" -> Write(p, "single", << >>, TRUE)
            [] b = Quote -> Write(p, "double", << >>, TRUE)
            [] b = Blank -> Scanner("plain", None, Emitted(p))
            [] b \in {"|", "&", ">", Semicolon, "<"} -> Operator(p, "plain", <<b>>)
            [] OTHER -> Write(p, "plain", <<b>>, FALSE)
    BY <1>1, <2>2, Different DEF Plain
  <2> HIDE DEF b
  <2>. QED
    BY <1>2, <2>1, <2>3
<1>4. CASE p.mode = "plain"
  <2>1. Scan(p, s, n) = Plain(p, s, n) /\ Scan(p, w, n) = Plain(p, w, n)
    BY <1>4 DEF Scan
  <2>. QED
    BY <1>3, <1>4, <2>1 DEF Dangling
<1>5. CASE p.mode = "second"
  <2>1. Scan(p, s, n) = To(p, "plain") /\ Scan(p, w, n) = To(p, "plain")
    BY <1>5 DEF Scan
  <2>. QED
    BY <1>2, <2>1
<1>6. CASE p.mode = "escaped"
  <2>1. Scan(p, s, n) = Write(p, "plain", <<b>>, FALSE) /\ Scan(p, w, n) = Write(p, "plain", <<b>>, FALSE)
    BY <1>6 DEF Scan
  <2> HIDE DEF b
  <2>. QED
    BY <1>2, <2>1
<1>7. CASE p.mode = "single"
  <2>1. /\ Scan(p, s, n) = IF b = "'" THEN To(p, "plain") ELSE Write(p, "single", <<b>>, TRUE)
        /\ Scan(p, w, n) = IF b = "'" THEN To(p, "plain") ELSE Write(p, "single", <<b>>, TRUE)
    BY <1>7 DEF Scan
  <2> HIDE DEF b
  <2>. QED
    BY <1>2, <2>1
<1>8. CASE p.mode = "double"
  <2>1. /\ Scan(p, s, n) = IF b = Quote THEN To(p, "plain")
                           ELSE IF b = "\\" /\ n < Len(s) THEN To(p, "doubleEscaped")
                           ELSE Write(p, "double", <<b>>, TRUE)
        /\ Scan(p, w, n) = IF b = Quote THEN To(p, "plain")
                           ELSE IF b = "\\" /\ n < Len(w) THEN To(p, "doubleEscaped")
                           ELSE Write(p, "double", <<b>>, TRUE)
    BY <1>8 DEF Scan
  <2>2. Dangling(p, b) <=> b = "\\"
    BY <1>8 DEF Dangling
  <2>3. Scan(p, s, n) = IF b = Quote THEN To(p, "plain") ELSE Write(p, "double", <<b>>, TRUE)
    BY <1>1, <2>1
  <2>4. ~Dangling(p, b) => Scan(p, w, n) = IF b = Quote THEN To(p, "plain") ELSE Write(p, "double", <<b>>, TRUE)
    BY <1>1, <2>1, <2>2
  <2>. QED
    BY <1>2, <2>3, <2>4
<1>9. CASE p.mode = "doubleEscaped"
  <2>1. Scan(p, s, n) = Write(p, "double", <<b>>, TRUE) /\ Scan(p, w, n) = Write(p, "double", <<b>>, TRUE)
    BY <1>9 DEF Scan
  <2> HIDE DEF b
  <2>. QED
    BY <1>2, <2>1
<1>. QED
  BY <1>0, <1>4, <1>5, <1>6, <1>7, <1>8, <1>9

\* A token that has grown by a symbol is another.
LEMMA ExtendDiffers ==
  ASSUME NEW cur \in Progress, NEW a \in Chars, NEW b \in Chars, NEW q \in BOOLEAN, NEW r \in BOOLEAN
  PROVE  /\ Extend(cur, <<a>>, q) # cur
         /\ a # b => Extend(cur, <<a>>, q) # Extend(cur, <<b>>, r)
<1> DEFINE x == cur.text
           y == <<a>>
           z == <<b>>
           xy == x \o y
           xz == x \o z
<1>1. x \in Seq(Chars) /\ y \in Seq(Chars) /\ z \in Seq(Chars)
  BY DEF Progress, Texts
<1>2. Len(y) = 1 /\ Len(z) = 1 /\ y[1] = a /\ z[1] = b
  OBVIOUS
<1>3. Extend(cur, <<a>>, q).text = xy /\ Extend(cur, <<b>>, r).text = xz
  BY DEF Extend
<1> HIDE DEF x, y, z
<1>4. Len(xy) = Len(x) + 1 /\ xy[Len(x) + 1] = a /\ xz[Len(x) + 1] = b /\ Len(x) \in Nat
  <2>1. 1 \in 1..Len(y) /\ 1 \in 1..Len(z)
    BY <1>2
  <2>2. Len(xy) = Len(x) + Len(y) /\ Len(x) \in Nat /\ \A i \in 1..Len(y) : xy[Len(x) + i] = y[i]
    BY <1>1, Joined
  <2>3. \A i \in 1..Len(z) : xz[Len(x) + i] = z[i]
    BY <1>1, Joined
  <2> HIDE DEF xy, xz
  <2>. QED
    BY <1>2, <2>1, <2>2, <2>3
<1> HIDE DEF xy, xz
<1>. QED
  BY <1>3, <1>4 DEF x

\* An open quote takes a blank for text.
LEMMA OpenQuote ==
  ASSUME NEW p \in ScanState, p.mode \in {"single", "double"}, NEW w, NEW i, w[i] = Blank
  PROVE  Emitted(Scan(p, w, i)) # Emitted(p)
<1> DEFINE e == Extend(p.cur, <<Blank>>, TRUE)
<1>1. Scan(p, w, i) = Write(p, p.mode, <<Blank>>, TRUE)
  BY Different DEF Scan
<1>2. p.cur \in Progress /\ p.out \in Seq(Tokens) /\ Blank \in Chars /\ <<Blank>> \in Texts
  BY CharTexts DEF ScanState, Chars
<1>3. e \in Tokens /\ e.some = TRUE /\ e # p.cur
  BY <1>2, ExtendTyped, ExtendDiffers
<1>4. Scan(p, w, i).cur = e /\ Scan(p, w, i).out = p.out
  BY <1>1 DEF Write, Scanner
<1> HIDE DEF e
<1>5. Emitted(Scan(p, w, i)) = Append(p.out, e)
  BY <1>3, <1>4 DEF Emitted
<1>6. p.cur.some => p.cur \in Tokens
  BY <1>2 DEF Progress, Tokens
<1>7. ASSUME NEW t \in Tokens PROVE Len(Append(p.out, t)) = Len(p.out) + 1 /\ Append(p.out, t)[Len(p.out) + 1] = t
  BY <1>2
<1>8. Len(p.out) \in Nat
  BY <1>2
<1>9. CASE p.cur.some
  BY <1>3, <1>5, <1>6, <1>7, <1>9 DEF Emitted
<1>10. CASE ~p.cur.some
  <2>1. Emitted(p) = p.out
    BY <1>10 DEF Emitted
  <2>2. Len(Append(p.out, e)) = Len(p.out) + 1
    BY <1>3, <1>7
  <2>3. Len(p.out) + 1 # Len(p.out)
    BY <1>8
  <2>. QED
    BY <1>5, <2>1, <2>2, <2>3
<1>. QED
  BY <1>9, <1>10

\* A backslash at the end takes the blank after it for text.
LEMMA DanglingOpen ==
  ASSUME NEW p \in ScanState, NEW s, NEW n \in Nat, NEW w, Len(s) = n, Len(w) = n + 1,
         s[n] = "\\", w[n] = "\\", w[n + 1] = Blank, Dangling(p, s[n]), "\\" \in Chars
  PROVE  Emitted(Scan(Scan(p, w, n), w, n + 1)) # Emitted(Scan(p, s, n))
<1> DEFINE r == Scan(p, s, n)
           v == Scan(Scan(p, w, n), w, n + 1)
<1>1. PICK q \in BOOLEAN : /\ r.cur = Extend(p.cur, <<"\\">>, q) /\ r.out = p.out
                           /\ v.cur = Extend(p.cur, <<Blank>>, q) /\ v.out = p.out
  <2>0. ~(n < Len(s)) /\ n < Len(w)
    OBVIOUS
  <2>1. CASE p.mode = "plain"
    <3>1. Scan(p, s, n) = Plain(p, s, n) /\ Scan(p, w, n) = Plain(p, w, n)
      BY <2>1 DEF Scan
    <3>5. Plain(p, s, n) = Write(p, "plain", <<s[n]>>, FALSE)
      BY <2>0, Different DEF Plain
    <3>2. Plain(p, w, n) = To(p, "escaped")
      BY <2>0, Different DEF Plain
    <3>6. To(p, "escaped").mode = "escaped"
      BY DEF To, Scanner
    <3>3. v = Write(To(p, "escaped"), "plain", <<w[n + 1]>>, FALSE)
      BY <3>1, <3>2, <3>6 DEF Scan
    <3>7. r = Write(p, "plain", <<s[n]>>, FALSE)
      BY <3>1, <3>5
    <3> HIDE DEF r, v
    <3>8. r.cur = Extend(p.cur, <<s[n]>>, FALSE) /\ r.out = p.out
      BY <3>7 DEF Write, Scanner
    <3>9. v.cur = Extend(p.cur, <<w[n + 1]>>, FALSE) /\ v.out = p.out
      BY <3>3 DEF Write, Scanner, To
    <3>. QED
      BY <3>8, <3>9
  <2>2. CASE p.mode = "double"
    <3>1. Scan(p, s, n) = Write(p, "double", <<s[n]>>, TRUE)
      BY <2>0, <2>2, Different DEF Scan
    <3>2. Scan(p, w, n) = To(p, "doubleEscaped")
      BY <2>0, <2>2, Different DEF Scan
    <3>5. To(p, "doubleEscaped").mode = "doubleEscaped"
      BY DEF To, Scanner
    <3>3. v = Write(To(p, "doubleEscaped"), "double", <<w[n + 1]>>, TRUE)
      BY <3>2, <3>5 DEF Scan
    <3>7. r = Write(p, "double", <<s[n]>>, TRUE)
      BY <3>1
    <3> HIDE DEF r, v
    <3>8. r.cur = Extend(p.cur, <<s[n]>>, TRUE) /\ r.out = p.out
      BY <3>7 DEF Write, Scanner
    <3>9. v.cur = Extend(p.cur, <<w[n + 1]>>, TRUE) /\ v.out = p.out
      BY <3>3 DEF Write, Scanner, To
    <3>. QED
      BY <3>8, <3>9
  <2>. QED
    BY <2>1, <2>2 DEF Dangling
<1> DEFINE e == Extend(p.cur, <<"\\">>, q)
           d == Extend(p.cur, <<Blank>>, q)
<1> HIDE DEF r, v
<1>6. p.cur \in Progress /\ p.out \in Seq(Tokens) /\ Blank \in Chars /\ <<Blank>> \in Texts /\ <<"\\">> \in Texts
  BY CharTexts DEF ScanState, Chars
<1>7. e \in Tokens /\ d \in Tokens /\ e.some = TRUE /\ d.some = TRUE /\ e # d
  <2>1. e \in Tokens /\ d \in Tokens /\ e.some = TRUE /\ d.some = TRUE
    BY <1>6, ExtendTyped
  <2>2. "\\" # Blank
    BY Different
  <2>. QED
    BY <1>6, <2>1, <2>2, ExtendDiffers
<1>10. r.cur = e /\ v.cur = d /\ r.out = p.out /\ v.out = p.out
  BY <1>1
<1> HIDE DEF e, d
<1>8. Emitted(r) = Append(p.out, e) /\ Emitted(v) = Append(p.out, d)
  BY <1>7, <1>10 DEF Emitted
<1>9. ASSUME NEW t \in Tokens PROVE Append(p.out, t)[Len(p.out) + 1] = t
  BY <1>6
<1>. QED
  BY <1>7, <1>8, <1>9 DEF r, v

\* A line that another can follow ends outside quotes and with no character escaped.
LEMMA ClosedPlain ==
  ASSUME NEW s \in Texts, Closed(s), NEW n \in Nat, Len(s) = n,
         NEW f, Passed(f, FALSE, ScanStart, s, n), Tokenize(s) = Emitted(f[n])
  PROVE  f[n].mode = "plain" /\ (n # 0 => ~Dangling(f[n - 1], s[n]))
<1>1. CASE n = 0
  BY <1>1 DEF Passed, ScanStart, Scanner
<1>2. CASE n # 0
  <2> DEFINE w == Append(s, Blank)
             l == n + 1
  <2>1. Blank \in Chars
    BY DEF Chars
  <2>2. /\ Len(w) = l /\ w[n + 1] = Blank /\ l \in Nat /\ n < l
        /\ \A i \in 1..n : w[i] = s[i]
        /\ \A i \in 1..n : s[i] \in Chars
    BY <2>1 DEF Texts
  <2>3. Tokenize(w) = Tokenize(s)
    BY DEF Closed
  <2> HIDE DEF w
  <2>4. PICK g : Tokenize(w) = Emitted(g[l]) /\ Passed(g, FALSE, ScanStart, w, l)
    BY <2>2, TokenizePasses
  <2>5. \A i \in 1..l : w[i] \in Chars
    BY <2>1, <2>2
  <2>6. \A i \in 0..n : f[i] \in ScanState
    BY <2>2, PassTyped
  <2>7. \A i \in 0..(n - 1) : g[i] = f[i]
    <3>1. Begins(s, n, w, l)
      BY <1>2, <2>2 DEF Begins
    <3>2. l \in Nat /\ Passed(g, FALSE, ScanStart, w, l)
      BY <2>2, <2>4
    <3> HIDE DEF l
    <3>3. Alike(f, g, n)
      BY <1>2, <3>1, <3>2, PassAlike
    <3>. QED
      BY <3>3 DEF Alike
  <2> DEFINE p == f[n - 1]
             r == f[n]
  <2>8. p \in ScanState /\ r \in ScanState /\ g[n - 1] = p /\ w[n] = s[n] /\ s[n] \in Chars
    BY <1>2, <2>2, <2>6, <2>7
  <2>9. r = Scan(p, s, n) /\ g[n] = Scan(g[n - 1], w, n) /\ g[l] = Scan(g[n], w, n + 1)
    <3>1. n \in 1..n /\ n \in 1..l /\ l \in 1..l /\ l - 1 = n
      BY <1>2
    <3>2. r = PassTurn(FALSE, f[n - 1], s, n) /\ g[n] = PassTurn(FALSE, g[n - 1], w, n)
          /\ g[l] = PassTurn(FALSE, g[l - 1], w, l)
      BY <2>4, <3>1 DEF Passed
    <3>. QED
      BY <3>1, <3>2 DEF PassTurn
  <2> HIDE DEF p, r
  <2>10. Emitted(g[l]) = Emitted(r)
    BY <2>3, <2>4 DEF r
  <2>11. ~Dangling(p, s[n])
    <3> SUFFICES ASSUME Dangling(p, s[n]) PROVE FALSE
      OBVIOUS
    <3>1. s[n] = "\\"
      BY DEF Dangling
    <3>2. Emitted(Scan(Scan(p, w, n), w, n + 1)) # Emitted(Scan(p, s, n))
      BY <2>2, <2>8, <3>1, DanglingOpen
    <3>. QED
      BY <2>8, <2>9, <2>10, <3>2
  <2>12. g[n] = r /\ r.mode \in {"plain", "single", "double"}
    <3>1. /\ ~Dangling(p, s[n]) => Scan(p, w, n) = Scan(p, s, n)
          /\ Scan(p, s, n).mode \in {"plain", "single", "double"}
      BY <2>2, <2>8, ScanLast
    <3>. QED
      BY <2>8, <2>9, <2>11, <3>1
  <2>13. r.mode \notin {"single", "double"}
    BY <2>2, <2>8, <2>9, <2>10, <2>12, OpenQuote
  <2>. QED
    BY <2>11, <2>12, <2>13 DEF p, r
<1>. QED
  BY <1>1, <1>2

\* The line w is s, a semicolon and a.
Parts(w, s, n, a, m) ==
  /\ Len(s) = n /\ Len(a) = m /\ Len(w) = n + 1 + m
  /\ \A i \in 1..n : w[i] = s[i]
  /\ w[n + 1] = Semicolon
  /\ \A j \in 1..m : w[n + 1 + j] = a[j]

\* A semicolon outside quotes ends the token before it and is one.
LEMMA ScanSemicolon ==
  ASSUME NEW p \in ScanState, p.mode = "plain", NEW w, NEW i, w[i] = Semicolon
  PROVE  Scan(p, w, i) = Operator(p, "plain", <<Semicolon>>)
<1>1. Scan(p, w, i) = Plain(p, w, i)
  BY DEF Scan
<1>2. Plain(p, w, i) = Operator(p, "plain", <<w[i]>>)
  BY Different DEF Plain
<1>. QED
  BY <1>1, <1>2

\* The tokens of such a line are those of its parts and the semicolon.
LEMMA TokensOfParts ==
  ASSUME NEW w, NEW s \in Texts, NEW n \in Nat, NEW a \in Texts, NEW m \in Nat, Parts(w, s, n, a, m),
         Closed(s), Semicolon \in Chars
  PROVE  /\ Tokenize(w) = Append(Tokenize(s), Op(<<Semicolon>>)) \o Tokenize(a)
         /\ Tokenize(s) \in Seq(Tokens) /\ Tokenize(a) \in Seq(Tokens)
<1> DEFINE k == n + 1
           l == k + m
<1>1. /\ Len(s) = n /\ Len(a) = m /\ Len(w) = l /\ l \in Nat /\ k \in Nat
      /\ \A i \in 1..n : w[i] = s[i]
      /\ w[k] = Semicolon
      /\ \A j \in 1..m : w[k + j] = a[j]
  BY DEF Parts
<1>2. PICK f : Tokenize(s) = Emitted(f[n]) /\ Passed(f, FALSE, ScanStart, s, n)
  BY <1>1, TokenizePasses
<1>3. PICK h : Tokenize(a) = Emitted(h[m]) /\ Passed(h, FALSE, ScanStart, a, m)
  BY <1>1, TokenizePasses
<1>4. PICK g : Tokenize(w) = Emitted(g[l]) /\ Passed(g, FALSE, ScanStart, w, l)
  BY <1>1, TokenizePasses
<1>5. (\A i \in 1..n : s[i] \in Chars) /\ (\A j \in 1..m : a[j] \in Chars)
  BY <1>1 DEF Texts
<1>6. (\A i \in 0..n : f[i] \in ScanState) /\ (\A j \in 0..m : h[j] \in ScanState)
  BY <1>2, <1>3, <1>5, PassTyped
<1>7. f[n].mode = "plain" /\ (n # 0 => ~Dangling(f[n - 1], s[n]))
  BY <1>1, <1>2, ClosedPlain
<1> DEFINE r == f[n]
           before == Append(Tokenize(s), Op(<<Semicolon>>))
<1>8. g[n] = r
  <2>1. CASE n = 0
    BY <1>2, <1>4, <2>1 DEF Passed
  <2>2. CASE n # 0
    <3>1. \A i \in 0..(n - 1) : g[i] = f[i]
      <4>1. n < l
        BY <1>1
      <4>2. Begins(s, n, w, l)
        BY <1>1, <2>2, <4>1 DEF Begins
      <4>3. l \in Nat /\ Passed(g, FALSE, ScanStart, w, l) /\ Passed(f, FALSE, ScanStart, s, n)
        BY <1>1, <1>2, <1>4
      <4> HIDE DEF l
      <4>4. Alike(f, g, n)
        BY <2>2, <4>2, <4>3, PassAlike
      <4>. QED
        BY <4>4 DEF Alike
    <3> DEFINE p == f[n - 1]
    <3>2. p \in ScanState /\ g[n - 1] = p /\ n \in 1..n /\ n \in 1..l /\ s[n] = w[n] /\ s[n] \in Chars /\ n < l
      BY <1>1, <1>5, <1>6, <2>2, <3>1
    <3>3. f[n] = Scan(p, s, n) /\ g[n] = Scan(g[n - 1], w, n)
      BY <1>2, <1>4, <3>2 DEF Passed, PassTurn
    <3>4. ~Dangling(p, s[n])
      BY <1>7, <2>2
    <3> HIDE DEF p
    <3>5. ~Dangling(p, s[n]) => Scan(p, w, n) = Scan(p, s, n)
      BY <1>1, <3>2, ScanLast
    <3>. QED
      BY <3>2, <3>3, <3>4, <3>5
  <2>. QED
    BY <2>1, <2>2
<1>9. r \in ScanState /\ r.mode = "plain" /\ Tokenize(s) = Emitted(r) /\ Tokenize(s) \in Seq(Tokens)
  <2>1. r \in ScanState
    BY <1>6
  <2>. QED
    BY <1>2, <1>7, <2>1, EmittedTyped
<1>10. before \in Seq(Tokens)
  <2>1. <<Semicolon>> \in Texts
    BY CharTexts
  <2>2. Op(<<Semicolon>>) \in Tokens
    BY <2>1, OpTyped
  <2>. QED
    BY <1>9, <2>2
<1>11. g[k] = Behind(ScanStart, before)
  <2>1. k \in 1..l /\ k - 1 = n
    BY <1>1
  <2>2. g[k] = Scan(g[n], w, k)
    BY <1>4, <2>1 DEF Passed, PassTurn
  <2> HIDE DEF r
  <2>3. Scan(r, w, k) = Operator(r, "plain", <<Semicolon>>)
    BY <1>1, <1>9, ScanSemicolon
  <2>4. Operator(r, "plain", <<Semicolon>>) = Scanner("plain", None, before)
    BY <1>9 DEF Operator
  <2> HIDE DEF before
  <2>5. before \o << >> = before
    BY <1>10, ConcatEmptySeq
  <2>6. Behind(ScanStart, before) = Scanner("plain", None, before)
    BY <2>5 DEF Behind, ScanStart, Scanner
  <2>. QED
    BY <1>8, <2>2, <2>3, <2>4, <2>6
<1> HIDE DEF r, before
<1>12. \A j \in 0..m : g[k + j] = Behind(h[j], before)
  <2> DEFINE G == {j \in 0..m : g[k + j] = Behind(h[j], before)}
  <2>1. 0 \in G
    <3>1. k + 0 = k /\ h[0] = ScanStart /\ 0 \in 0..m
      BY <1>1, <1>3 DEF Passed
    <3>. QED
      BY <1>11, <3>1
  <2>2. ASSUME NEW j \in 1..m, j - 1 \in G PROVE j \in G
    <3> DEFINE i == k + j
               q == h[j - 1]
    <3>1. i \in 1..l /\ i - 1 = k + (j - 1) /\ j - 1 \in 0..m
      BY <1>1
    <3>2. g[i] = Scan(g[i - 1], w, i) /\ h[j] = Scan(q, a, j) /\ g[i - 1] = Behind(q, before)
      BY <1>3, <1>4, <2>2, <3>1 DEF Passed, PassTurn
    <3>3. q \in ScanState /\ a[j] \in Chars /\ w[i] = a[j]
      BY <1>1, <1>5, <1>6, <3>1
    <3>4. (i < Len(w) <=> j < Len(a)) /\ (i < Len(w) => w[i + 1] = a[j + 1])
      <4>1. i < Len(w) <=> j < Len(a)
        BY <1>1
      <4>2. ASSUME j < m PROVE w[i + 1] = a[j + 1]
        <5>1. j + 1 \in 1..m /\ k + (j + 1) = i + 1
          BY <1>1, <4>2
        <5>. QED
          BY <1>1, <5>1
      <4>. QED
        BY <1>1, <4>1, <4>2
    <3> HIDE DEF i, q
    <3>5. Scan(Behind(q, before), w, i) = Behind(Scan(q, w, i), before)
      BY <1>10, <3>3, ScanBehind
    <3>6. Scan(q, w, i) = Scan(q, a, j)
      BY <3>3, <3>4, ScanLooks
    <3>7. g[i] = Behind(h[j], before)
      BY <3>2, <3>5, <3>6
    <3>. QED
      BY <3>7 DEF i
  <2> HIDE DEF G
  <2>3. \A j \in 0..m : j \in G
    BY <2>1, <2>2, TurnByTurn
  <2>. QED
    BY <2>3 DEF G
<1>13. g[l] = Behind(h[m], before) /\ h[m] \in ScanState
  BY <1>6, <1>12
<1>14. Emitted(g[l]) = before \o Emitted(h[m]) /\ Emitted(h[m]) \in Seq(Tokens)
  BY <1>10, <1>13, EmittedBehind, EmittedTyped
<1>. QED
  BY <1>3, <1>4, <1>9, <1>14 DEF before

\* What Parse holds: the pipelines before, the one in progress, its stage in progress and
\* the redirection that waits for its target.
Stages == [argv : Seq(Texts), out : Texts, app : Texts, in : Texts]
Joins == {"", Semicolon, "&&", "||"}
Pipelines == [stages : Seq(Stages), next : Joins, background : BOOLEAN]
Redirects == {<<">">>, <<">", ">">>, <<"<">>}
ParseState == [done : Seq(Pipelines), cur : Pipelines, stage : Stages, pending : {<< >>} \cup Redirects]

ParserAt(d, c, s, g) == [done |-> d, cur |-> c, stage |-> s, pending |-> g]
PipelineOf(s, n, b) == [stages |-> s, next |-> n, background |-> b]
StageOf(v, o, a, i) == [argv |-> v, out |-> o, app |-> a, in |-> i]

\* The fields of what Parse holds,
LEMMA ParserIs ==
  ASSUME NEW p \in ParseState
  PROVE  /\ p = ParserAt(p.done, p.cur, p.stage, p.pending)
         /\ p.done \in Seq(Pipelines) /\ p.cur \in Pipelines /\ p.stage \in Stages
         /\ p.pending \in {<< >>} \cup Redirects
         /\ p.cur = PipelineOf(p.cur.stages, p.cur.next, p.cur.background)
         /\ p.cur.stages \in Seq(Stages) /\ p.cur.next \in Joins /\ p.cur.background \in BOOLEAN
         /\ p.stage = StageOf(p.stage.argv, p.stage.out, p.stage.app, p.stage.in)
         /\ p.stage.argv \in Seq(Texts) /\ p.stage.out \in Texts /\ p.stage.app \in Texts /\ p.stage.in \in Texts
<1>1. /\ p = ParserAt(p.done, p.cur, p.stage, p.pending)
      /\ p.done \in Seq(Pipelines) /\ p.cur \in Pipelines /\ p.stage \in Stages
      /\ p.pending \in {<< >>} \cup Redirects
  BY DEF ParseState, ParserAt
<1>2. ASSUME NEW c \in Pipelines
      PROVE  /\ c = PipelineOf(c.stages, c.next, c.background)
             /\ c.stages \in Seq(Stages) /\ c.next \in Joins /\ c.background \in BOOLEAN
  BY DEF Pipelines, PipelineOf
<1>3. ASSUME NEW s \in Stages
      PROVE  /\ s = StageOf(s.argv, s.out, s.app, s.in)
             /\ s.argv \in Seq(Texts) /\ s.out \in Texts /\ s.app \in Texts /\ s.in \in Texts
  BY DEF Stages, StageOf
<1>. QED
  BY <1>1, <1>2, <1>3

\* and of what is put together from them.
LEMMA ParserFields ==
  ASSUME NEW d, NEW c, NEW s, NEW g
  PROVE  /\ ParserAt(d, c, s, g).done = d /\ ParserAt(d, c, s, g).cur = c
         /\ ParserAt(d, c, s, g).stage = s /\ ParserAt(d, c, s, g).pending = g
         /\ PipelineOf(d, c, s).stages = d /\ PipelineOf(d, c, s).next = c /\ PipelineOf(d, c, s).background = s
         /\ StageOf(d, c, s, g).argv = d /\ StageOf(d, c, s, g).out = c
         /\ StageOf(d, c, s, g).app = s /\ StageOf(d, c, s, g).in = g
BY DEF ParserAt, PipelineOf, StageOf

\* The pipeline in progress with the stage in progress, unless there is nothing in it.
StagesWith(c, s) ==
  IF s.argv # << >> \/ s.out # NoTarget \/ s.app # NoTarget THEN Append(c.stages, s) ELSE c.stages
CurWith(c, s) == PipelineOf(StagesWith(c, s), c.next, c.background)

\* Parse's flushStage
LEMMA FlushStageIs ==
  ASSUME NEW d, NEW n, NEW v, NEW b, NEW s, NEW g
  PROVE  FlushStage(ParserAt(d, PipelineOf(v, n, b), s, g))
           = ParserAt(d, CurWith(PipelineOf(v, n, b), s), EmptyStage, g)
<1> DEFINE c == PipelineOf(v, n, b)
           p == ParserAt(d, c, s, g)
           x == StagesWith(c, s)
<1>1. p.done = d /\ p.cur = c /\ p.stage = s /\ p.pending = g /\ c.stages = v /\ c.next = n /\ c.background = b
  BY ParserFields
<1>2. FlushStage(p) = [p EXCEPT !.cur.stages = x, !.stage = EmptyStage]
  BY <1>1 DEF FlushStage, StagesWith
<1> HIDE DEF x
<1>3. [p EXCEPT !.cur.stages = x, !.stage = EmptyStage] = [[p EXCEPT !.cur = [p.cur EXCEPT !.stages = x]] EXCEPT !.stage = EmptyStage]
  BY SMT
<1>4. [c EXCEPT !.stages = x] = CurWith(c, s)
  BY <1>1 DEF CurWith, PipelineOf, x
<1> DEFINE y == CurWith(c, s)
<1> HIDE DEF y
<1>5. [p EXCEPT !.cur = y] = ParserAt(d, y, s, g)
  BY DEF ParserAt
<1>6. [ParserAt(d, y, s, g) EXCEPT !.stage = EmptyStage] = ParserAt(d, y, EmptyStage, g)
  BY DEF ParserAt
<1>7. FlushStage(p) = ParserAt(d, y, EmptyStage, g)
  BY <1>1, <1>2, <1>3, <1>4, <1>5, <1>6 DEF y
<1>. QED
  BY <1>7 DEF y

\* The pipelines with the one in progress, unless there is nothing in it.
DoneWith(d, c, s, op) ==
  IF StagesWith(c, s) # << >> THEN Append(d, PipelineOf(StagesWith(c, s), op, c.background)) ELSE d

\* and flushPipeline, field by field.
LEMMA FlushPipelineIs ==
  ASSUME NEW d, NEW n, NEW v, NEW b, NEW s, NEW g, NEW op
  PROVE  FlushPipeline(ParserAt(d, PipelineOf(v, n, b), s, g), op)
           = ParserAt(DoneWith(d, PipelineOf(v, n, b), s, op), EmptyPipeline, EmptyStage, g)
<1> DEFINE c == PipelineOf(v, n, b)
           p == ParserAt(d, c, s, g)
           x == StagesWith(c, s)
           y == CurWith(c, s)
           q == ParserAt(d, y, EmptyStage, g)
           e == DoneWith(d, c, s, op)
<1>1. FlushStage(p) = q
  BY FlushStageIs
<1>2. c.background = b /\ c.next = n
  BY ParserFields
<1>3. y = PipelineOf(x, n, b)
  BY <1>2 DEF CurWith
<1> HIDE DEF x
<1>4. q.done = d /\ q.cur = y /\ y.stages = x
  BY <1>3, ParserFields
<1>5. [y EXCEPT !.next = op] = PipelineOf(x, op, b)
  BY <1>3 DEF PipelineOf
<1>6. e = IF x # << >> THEN Append(d, PipelineOf(x, op, b)) ELSE d
  BY <1>2 DEF DoneWith, x
<1> HIDE DEF p, q, y, e
<1>7. FlushPipeline(p, op) = [q EXCEPT !.done = e, !.cur = EmptyPipeline]
  BY <1>1, <1>4, <1>5, <1>6 DEF FlushPipeline
<1>8. q = ParserAt(d, y, EmptyStage, g)
  BY DEF q
<1>9. [ParserAt(d, y, EmptyStage, g) EXCEPT !.done = e, !.cur = EmptyPipeline]
        = [[ParserAt(d, y, EmptyStage, g) EXCEPT !.done = e] EXCEPT !.cur = EmptyPipeline]
  BY SMT
<1>10. [ParserAt(d, y, EmptyStage, g) EXCEPT !.done = e] = ParserAt(e, y, EmptyStage, g)
  BY DEF ParserAt
<1>11. [ParserAt(e, y, EmptyStage, g) EXCEPT !.cur = EmptyPipeline] = ParserAt(e, EmptyPipeline, EmptyStage, g)
  BY DEF ParserAt
<1>12. FlushPipeline(p, op) = ParserAt(e, EmptyPipeline, EmptyStage, g)
  BY <1>7, <1>8, <1>9, <1>10, <1>11
<1>. QED
  BY <1>12 DEF p, e

Detached == TRUE
InBackground(c) == PipelineOf(c.stages, c.next, Detached)

\* What a token makes of them.
Turned(d, c, s, g, t) ==
  CASE g = <<">">> -> ParserAt(d, c, StageOf(s.argv, t.text, s.app, s.in), << >>)
    [] g = <<">", ">">> -> ParserAt(d, c, StageOf(s.argv, s.out, t.text, s.in), << >>)
    [] g = <<"<">> -> ParserAt(d, c, StageOf(s.argv, s.out, s.app, t.text), << >>)
    [] g = << >> /\ IsOp(t, <<"|">>) -> ParserAt(d, CurWith(c, s), EmptyStage, g)
    [] g = << >> /\ IsOp(t, <<Semicolon>>) ->
         ParserAt(DoneWith(d, c, s, Semicolon), EmptyPipeline, EmptyStage, g)
    [] g = << >> /\ IsOp(t, <<"&", "&">>) ->
         ParserAt(DoneWith(d, c, s, "&&"), EmptyPipeline, EmptyStage, g)
    [] g = << >> /\ IsOp(t, <<"|", "|">>) ->
         ParserAt(DoneWith(d, c, s, "||"), EmptyPipeline, EmptyStage, g)
    [] g = << >> /\ IsOp(t, <<"&">>) ->
         ParserAt(DoneWith(d, InBackground(c), s, Semicolon), EmptyPipeline, EmptyStage, g)
    [] g = << >> /\ (IsOp(t, <<">">>) \/ IsOp(t, <<">", ">">>) \/ IsOp(t, <<"<">>)) ->
         ParserAt(d, c, s, t.text)
    [] OTHER -> ParserAt(d, c, StageOf(Append(s.argv, t.text), s.out, s.app, s.in), g)

\* That is the body of Parse's loop.
LEMMA TokenTurns ==
  ASSUME NEW d, NEW c \in Pipelines, NEW s \in Stages, NEW g, NEW t
  PROVE  ParseToken(ParserAt(d, c, s, g), t) = Turned(d, c, s, g, t)
<1> DEFINE p == ParserAt(d, c, s, g)
           x == t.text
<1>1. p.pending = g /\ p.stage = s /\ p.cur = c /\ p.done = d
  BY ParserFields
<1>2. c = PipelineOf(c.stages, c.next, c.background) /\ s = StageOf(s.argv, s.out, s.app, s.in)
  BY DEF Pipelines, PipelineOf, Stages, StageOf
<1>3. /\ [s EXCEPT !.out = x] = StageOf(s.argv, x, s.app, s.in)
      /\ [s EXCEPT !.app = x] = StageOf(s.argv, s.out, x, s.in)
      /\ [s EXCEPT !.in = x] = StageOf(s.argv, s.out, s.app, x)
  <2> HIDE DEF x
  <2>. QED
    BY DEF Stages, StageOf
<1>4. ASSUME NEW y PROVE [s EXCEPT !.argv = y] = StageOf(y, s.out, s.app, s.in)
  BY DEF Stages, StageOf
<1>5. ASSUME NEW y, NEW z PROVE [ParserAt(d, c, s, g) EXCEPT !.stage = y, !.pending = z] = ParserAt(d, c, y, z)
  <2>1. [ParserAt(d, c, s, g) EXCEPT !.stage = y, !.pending = z]
          = [[ParserAt(d, c, s, g) EXCEPT !.stage = y] EXCEPT !.pending = z]
    BY SMT
  <2>2. [ParserAt(d, c, s, g) EXCEPT !.stage = y] = ParserAt(d, c, y, g)
    BY DEF ParserAt
  <2>3. [ParserAt(d, c, y, g) EXCEPT !.pending = z] = ParserAt(d, c, y, z)
    BY DEF ParserAt
  <2>. QED
    BY <2>1, <2>2, <2>3
<1>6. /\ [p EXCEPT !.stage.out = x, !.pending = << >>] = ParserAt(d, c, StageOf(s.argv, x, s.app, s.in), << >>)
      /\ [p EXCEPT !.stage.app = x, !.pending = << >>] = ParserAt(d, c, StageOf(s.argv, s.out, x, s.in), << >>)
      /\ [p EXCEPT !.stage.in = x, !.pending = << >>] = ParserAt(d, c, StageOf(s.argv, s.out, s.app, x), << >>)
  <2> HIDE DEF x
  <2>1. /\ [p EXCEPT !.stage.out = x, !.pending = << >>] = [p EXCEPT !.stage = [p.stage EXCEPT !.out = x], !.pending = << >>]
        /\ [p EXCEPT !.stage.app = x, !.pending = << >>] = [p EXCEPT !.stage = [p.stage EXCEPT !.app = x], !.pending = << >>]
        /\ [p EXCEPT !.stage.in = x, !.pending = << >>] = [p EXCEPT !.stage = [p.stage EXCEPT !.in = x], !.pending = << >>]
    BY SMT
  <2> DEFINE o == StageOf(s.argv, x, s.app, s.in)
             a == StageOf(s.argv, s.out, x, s.in)
             i == StageOf(s.argv, s.out, s.app, x)
  <2>2. [p.stage EXCEPT !.out = x] = o /\ [p.stage EXCEPT !.app = x] = a /\ [p.stage EXCEPT !.in = x] = i
    BY <1>1, <1>3
  <2> HIDE DEF o, a, i
  <2>3. /\ [p EXCEPT !.stage = o, !.pending = << >>] = ParserAt(d, c, o, << >>)
        /\ [p EXCEPT !.stage = a, !.pending = << >>] = ParserAt(d, c, a, << >>)
        /\ [p EXCEPT !.stage = i, !.pending = << >>] = ParserAt(d, c, i, << >>)
    BY <1>5
  <2>4. /\ [p EXCEPT !.stage.out = x, !.pending = << >>] = ParserAt(d, c, o, << >>)
        /\ [p EXCEPT !.stage.app = x, !.pending = << >>] = ParserAt(d, c, a, << >>)
        /\ [p EXCEPT !.stage.in = x, !.pending = << >>] = ParserAt(d, c, i, << >>)
    BY <2>1, <2>2, <2>3
  <2>. QED
    BY <2>4 DEF o, a, i
<1>7. [p EXCEPT !.stage.argv = Append(@, x)] = ParserAt(d, c, StageOf(Append(s.argv, x), s.out, s.app, s.in), g)
  <2> DEFINE y == Append(s.argv, x)
             u == StageOf(y, s.out, s.app, s.in)
  <2>1. [p EXCEPT !.stage.argv = Append(@, x)] = [p EXCEPT !.stage = [p.stage EXCEPT !.argv = Append(p.stage.argv, x)]]
    BY SMT
  <2> HIDE DEF x, y
  <2>2. [s EXCEPT !.argv = y] = u
    BY <1>4
  <2>3. [p EXCEPT !.stage.argv = Append(@, x)] = [p EXCEPT !.stage = [s EXCEPT !.argv = y]]
    BY <1>1, <2>1 DEF y
  <2> HIDE DEF u
  <2>4. [p EXCEPT !.stage = u] = ParserAt(d, c, u, g)
    BY DEF ParserAt
  <2>5. [p EXCEPT !.stage.argv = Append(@, x)] = ParserAt(d, c, u, g)
    BY <2>2, <2>3, <2>4
  <2>. QED
    BY <2>5 DEF u, y
<1>8. [p EXCEPT !.pending = x] = ParserAt(d, c, s, x)
  BY DEF ParserAt
<1>9. FlushStage(p) = ParserAt(d, CurWith(c, s), EmptyStage, g)
  BY <1>2, FlushStageIs
<1>10. ASSUME NEW op PROVE FlushPipeline(p, op) = ParserAt(DoneWith(d, c, s, op), EmptyPipeline, EmptyStage, g)
  BY <1>2, FlushPipelineIs
<1>11. FlushPipeline([p EXCEPT !.cur.background = TRUE], Semicolon)
         = ParserAt(DoneWith(d, InBackground(c), s, Semicolon), EmptyPipeline, EmptyStage, g)
  <2> DEFINE b == InBackground(c)
  <2>1. [p EXCEPT !.cur.background = TRUE] = [p EXCEPT !.cur = [p.cur EXCEPT !.background = TRUE]]
    BY SMT
  <2>2. [c EXCEPT !.background = TRUE] = b
    <3> DEFINE v == c.stages
               n == c.next
               u == c.background
    <3>1. c = PipelineOf(v, n, u)
      BY <1>2
    <3> HIDE DEF v, n, u
    <3>2. [PipelineOf(v, n, u) EXCEPT !.background = Detached] = PipelineOf(v, n, Detached)
      BY DEF PipelineOf
    <3>3. [PipelineOf(v, n, u) EXCEPT !.background = TRUE] = PipelineOf(v, n, Detached)
      BY <3>2 DEF Detached
    <3>. QED
      BY <3>1, <3>3 DEF InBackground, v, n
  <2>3. b = PipelineOf(c.stages, c.next, Detached)
    BY DEF InBackground
  <2> HIDE DEF b
  <2>4. [p EXCEPT !.cur = b] = ParserAt(d, b, s, g)
    BY DEF ParserAt
  <2>5. [p EXCEPT !.cur.background = TRUE] = ParserAt(d, b, s, g)
    BY <1>1, <2>1, <2>2, <2>4
  <2>6. FlushPipeline(ParserAt(d, b, s, g), Semicolon) = ParserAt(DoneWith(d, b, s, Semicolon), EmptyPipeline, EmptyStage, g)
    BY <2>3, FlushPipelineIs
  <2>. QED
    BY <2>5, <2>6 DEF b
<1> HIDE DEF p
<1>12. ParseToken(p, t) = Turned(d, c, s, g, t)
  BY <1>1, <1>6, <1>7, <1>8, <1>9, <1>10, <1>11 DEF ParseToken, Turned
<1>. QED
  BY <1>12 DEF p

ParseStart == ParserAt(<< >>, EmptyPipeline, EmptyStage, << >>)

\* Parse begins with nothing.
LEMMA EmptyTyped == EmptyPipeline \in Pipelines /\ EmptyStage \in Stages /\ ParseStart \in ParseState
<1>1. EmptyPipeline \in Pipelines
  BY DEF EmptyPipeline, Pipelines, Joins
<1>2. EmptyStage \in Stages
  BY DEF EmptyStage, Stages, NoTarget, Texts
<1>3. ASSUME NEW c \in Pipelines, NEW s \in Stages PROVE ParserAt(<< >>, c, s, << >>) \in ParseState
  BY DEF ParserAt, ParseState
<1>. QED
  BY <1>1, <1>2, <1>3 DEF ParseStart

\* What Parse holds is put together from such parts.
LEMMA ParserTyped ==
  ASSUME NEW d \in Seq(Pipelines), NEW c \in Pipelines, NEW s \in Stages, NEW g \in {<< >>} \cup Redirects
  PROVE  ParserAt(d, c, s, g) \in ParseState
BY DEF ParserAt, ParseState

\* A stage that is flushed goes to the pipeline,
LEMMA StagesTyped ==
  ASSUME NEW c \in Pipelines, NEW s \in Stages
  PROVE  StagesWith(c, s) \in Seq(Stages) /\ CurWith(c, s) \in Pipelines /\ InBackground(c) \in Pipelines
<1>1. c.stages \in Seq(Stages) /\ c.next \in Joins /\ c.background \in BOOLEAN
  BY DEF Pipelines
<1> DEFINE x == StagesWith(c, s)
<1>2. x \in Seq(Stages)
  BY <1>1 DEF StagesWith
<1> HIDE DEF x
<1>3. PipelineOf(x, c.next, c.background) \in Pipelines
  BY <1>1, <1>2 DEF PipelineOf, Pipelines
<1>4. PipelineOf(c.stages, c.next, TRUE) \in Pipelines
  BY <1>1 DEF PipelineOf, Pipelines
<1>. QED
  BY <1>2, <1>3, <1>4 DEF CurWith, InBackground, Detached, x

\* and a pipeline to the others, whatever stands before them.
LEMMA DoneTyped ==
  ASSUME NEW d \in Seq(Pipelines), NEW c \in Pipelines, NEW s \in Stages, NEW op \in Joins
  PROVE  /\ DoneWith(d, c, s, op) \in Seq(Pipelines)
         /\ \A e \in Seq(Pipelines) : DoneWith(e \o d, c, s, op) = e \o DoneWith(d, c, s, op)
<1> DEFINE x == StagesWith(c, s)
           y == PipelineOf(x, op, c.background)
<1>1. x \in Seq(Stages) /\ c.background \in BOOLEAN
  BY StagesTyped DEF Pipelines
<1>2. \A e : DoneWith(e, c, s, op) = IF x # << >> THEN Append(e, y) ELSE e
  BY DEF DoneWith
<1> HIDE DEF x
<1>3. y \in Pipelines
  BY <1>1 DEF PipelineOf, Pipelines
<1> HIDE DEF y
<1>4. ASSUME NEW e \in Seq(Pipelines) PROVE Append(e \o d, y) = e \o Append(d, y)
  BY <1>3
<1>5. Append(d, y) \in Seq(Pipelines)
  BY <1>3
<1>6. DoneWith(d, c, s, op) \in Seq(Pipelines)
  BY <1>2, <1>5
<1>7. ASSUME NEW e \in Seq(Pipelines) PROVE DoneWith(e \o d, c, s, op) = e \o DoneWith(d, c, s, op)
  BY <1>2, <1>4
<1>. QED
  BY <1>6, <1>7

\* Parse with other pipelines before its own.
Ahead(p, e) == ParserAt(e \o p.done, p.cur, p.stage, p.pending)

\* The fields with others before.
LEMMA AheadOf ==
  ASSUME NEW d, NEW c, NEW s, NEW g, NEW e
  PROVE  Ahead(ParserAt(d, c, s, g), e) = ParserAt(e \o d, c, s, g)
BY ParserFields DEF Ahead

\* The forms of what a token makes.
LEMMA TurnedIs ==
  ASSUME NEW d \in Seq(Pipelines), NEW c \in Pipelines, NEW s \in Stages, NEW g \in {<< >>} \cup Redirects,
         NEW t \in Tokens
  PROVE  /\ Turned(d, c, s, g, t) \in ParseState
         /\ \A e \in Seq(Pipelines) : Turned(e \o d, c, s, g, t) = Ahead(Turned(d, c, s, g, t), e)
         /\ t \notin {Op(r) : r \in Redirects} => Turned(d, c, s, g, t).pending = << >>
<1>1. /\ s.argv \in Seq(Texts) /\ s.out \in Texts /\ s.app \in Texts /\ s.in \in Texts /\ t.text \in Texts
      /\ t.some = TRUE /\ t.quoted \in BOOLEAN
  BY DEF Stages, Tokens
<1> DEFINE x == t.text
           so == StageOf(s.argv, x, s.app, s.in)
           sa == StageOf(s.argv, s.out, x, s.in)
           si == StageOf(s.argv, s.out, s.app, x)
           sv == StageOf(Append(s.argv, x), s.out, s.app, s.in)
           cw == CurWith(c, s)
           cb == InBackground(c)
<1>2. so \in Stages /\ sa \in Stages /\ si \in Stages
  BY <1>1 DEF StageOf, Stages
<1>3. sv \in Stages
  <2> DEFINE y == Append(s.argv, x)
  <2>1. y \in Seq(Texts)
    BY <1>1
  <2> HIDE DEF y
  <2>2. StageOf(y, s.out, s.app, s.in) \in Stages
    BY <1>1, <2>1 DEF StageOf, Stages
  <2>. QED
    BY <2>2 DEF y
<1>4. cw \in Pipelines /\ cb \in Pipelines
  BY StagesTyped
<1>5. << >> \in {<< >>} \cup Redirects /\ Semicolon \in Joins /\ "&&" \in Joins /\ "||" \in Joins
  BY DEF Joins
<1>6. EmptyPipeline \in Pipelines /\ EmptyStage \in Stages
  BY EmptyTyped
<1> DEFINE At(e) == Turned(e, c, s, g, t)
           D(e, op) == DoneWith(e, c, s, op)
           B(e) == DoneWith(e, cb, s, Semicolon)
           Kind ==
             \/ \A e : At(e) = ParserAt(e, c, so, << >>)
             \/ \A e : At(e) = ParserAt(e, c, sa, << >>)
             \/ \A e : At(e) = ParserAt(e, c, si, << >>)
             \/ g = << >> /\ \A e : At(e) = ParserAt(e, cw, EmptyStage, g)
             \/ g = << >> /\ \E op \in Joins : \A e : At(e) = ParserAt(D(e, op), EmptyPipeline, EmptyStage, g)
             \/ g = << >> /\ \A e : At(e) = ParserAt(B(e), EmptyPipeline, EmptyStage, g)
             \/ x \in Redirects /\ ~t.quoted /\ \A e : At(e) = ParserAt(e, c, s, x)
             \/ g = << >> /\ \A e : At(e) = ParserAt(e, c, sv, g)
<1>7. Kind
  <2>1. \A e : At(e) =
    CASE g = <<">">> -> ParserAt(e, c, so, << >>)
    [] g = <<">", ">">> -> ParserAt(e, c, sa, << >>)
    [] g = <<"<">> -> ParserAt(e, c, si, << >>)
    [] g = << >> /\ IsOp(t, <<"|">>) -> ParserAt(e, cw, EmptyStage, g)
    [] g = << >> /\ IsOp(t, <<Semicolon>>) -> ParserAt(D(e, Semicolon), EmptyPipeline, EmptyStage, g)
    [] g = << >> /\ IsOp(t, <<"&", "&">>) -> ParserAt(D(e, "&&"), EmptyPipeline, EmptyStage, g)
    [] g = << >> /\ IsOp(t, <<"|", "|">>) -> ParserAt(D(e, "||"), EmptyPipeline, EmptyStage, g)
    [] g = << >> /\ IsOp(t, <<"&">>) -> ParserAt(B(e), EmptyPipeline, EmptyStage, g)
    [] g = << >> /\ (IsOp(t, <<">">>) \/ IsOp(t, <<">", ">">>) \/ IsOp(t, <<"<">>)) -> ParserAt(e, c, s, x)
    [] OTHER -> ParserAt(e, c, sv, g)
    BY DEF Turned
  <2> DEFINE redirects == IsOp(t, <<">">>) \/ IsOp(t, <<">", ">">>) \/ IsOp(t, <<"<">>)
  <2>2. redirects => x \in Redirects /\ ~t.quoted
    BY DEF IsOp, Redirects
  <2>3. g \in {<< >>, <<">">>, <<">", ">">>, <<"<">>}
    BY DEF Redirects
  <2>4. <<">">> # << >> /\ <<">", ">">> # << >> /\ <<"<">> # << >> /\ <<">">> # <<">", ">">> /\ <<">">> # <<"<">>
        /\ <<">", ">">> # <<"<">>
    OBVIOUS
  <2> HIDE DEF At, so, sa, si, sv, cw, D, B, x
  <2>5. CASE g = <<">">>
    <3>1. \A e : At(e) = ParserAt(e, c, so, << >>)
      BY <2>1, <2>4, <2>5
    <3>. QED
      BY <3>1
  <2>6. CASE g = <<">", ">">>
    <3>1. \A e : At(e) = ParserAt(e, c, sa, << >>)
      BY <2>1, <2>4, <2>6
    <3>. QED
      BY <3>1
  <2>7. CASE g = <<"<">>
    <3>1. \A e : At(e) = ParserAt(e, c, si, << >>)
      BY <2>1, <2>4, <2>7
    <3>. QED
      BY <3>1
  <2>8. CASE g = << >>
    <3> DEFINE o1 == IsOp(t, <<"|">>)
               o2 == IsOp(t, <<Semicolon>>)
               o3 == IsOp(t, <<"&", "&">>)
               o4 == IsOp(t, <<"|", "|">>)
               o5 == IsOp(t, <<"&">>)
    <3>0. \A e : At(e) =
       CASE o1 -> ParserAt(e, cw, EmptyStage, g)
         [] o2 -> ParserAt(D(e, Semicolon), EmptyPipeline, EmptyStage, g)
         [] o3 -> ParserAt(D(e, "&&"), EmptyPipeline, EmptyStage, g)
         [] o4 -> ParserAt(D(e, "||"), EmptyPipeline, EmptyStage, g)
         [] o5 -> ParserAt(B(e), EmptyPipeline, EmptyStage, g)
         [] redirects -> ParserAt(e, c, s, x)
         [] OTHER -> ParserAt(e, c, sv, g)
      BY <2>1, <2>4, <2>8
    <3> HIDE DEF redirects, o1, o2, o3, o4, o5
    <3>. QED
      BY <1>5, <2>2, <2>8, <3>0
  <2>. QED
    BY <2>3, <2>5, <2>6, <2>7, <2>8
<1> DEFINE Good(g2) == /\ At(d) \in ParseState
                       /\ \A e \in Seq(Pipelines) : At(e \o d) = Ahead(At(d), e)
                       /\ At(d).pending = g2
<1>8. ASSUME NEW c2 \in Pipelines, NEW s2 \in Stages, NEW g2 \in {<< >>} \cup Redirects,
             \A e : At(e) = ParserAt(e, c2, s2, g2)
      PROVE  Good(g2)
  <2> HIDE DEF At
  <2>. QED
    BY <1>8, ParserTyped, AheadOf, ParserFields
<1>9. ASSUME NEW c2 \in Pipelines, NEW op \in Joins, g = << >>,
             \A e : At(e) = ParserAt(DoneWith(e, c2, s, op), EmptyPipeline, EmptyStage, g)
      PROVE  Good(<< >>)
  <2> DEFINE y == DoneWith(d, c2, s, op)
  <2>1. y \in Seq(Pipelines) /\ \A e \in Seq(Pipelines) : DoneWith(e \o d, c2, s, op) = e \o y
    BY DoneTyped
  <2>2. At(d) = ParserAt(y, EmptyPipeline, EmptyStage, << >>)
    BY <1>9
  <2>3. \A e \in Seq(Pipelines) : At(e \o d) = ParserAt(e \o y, EmptyPipeline, EmptyStage, << >>)
    <3>1. TAKE e \in Seq(Pipelines)
    <3>2. At(e \o d) = ParserAt(DoneWith(e \o d, c2, s, op), EmptyPipeline, EmptyStage, << >>)
      BY <1>9
    <3>. QED
      BY <2>1, <3>2
  <2> HIDE DEF At, y
  <2>4. ParserAt(y, EmptyPipeline, EmptyStage, << >>) \in ParseState
    BY <1>5, <1>6, <2>1, ParserTyped
  <2>5. \A e \in Seq(Pipelines) : At(e \o d) = Ahead(At(d), e)
    BY <2>2, <2>3, AheadOf
  <2>. QED
    BY <2>2, <2>4, <2>5, ParserFields
<1>10. x \in Redirects /\ ~t.quoted => t \in {Op(r) : r \in Redirects}
  <2>1. ~t.quoted => t = Op(x)
    BY <1>1 DEF Op, Tokens
  <2> HIDE DEF x
  <2>. QED
    BY <2>1
<1>11. Good(<< >>) \/ (t \in {Op(r) : r \in Redirects} /\ Good(x))
  <2> HIDE DEF At, Good, so, sa, si, sv, cw, cb, x
  <2>1. CASE \A e : At(e) = ParserAt(e, c, so, << >>)
    BY <1>2, <1>5, <1>8, <2>1
  <2>2. CASE \A e : At(e) = ParserAt(e, c, sa, << >>)
    BY <1>2, <1>5, <1>8, <2>2
  <2>3. CASE \A e : At(e) = ParserAt(e, c, si, << >>)
    BY <1>2, <1>5, <1>8, <2>3
  <2>4. CASE g = << >> /\ \A e : At(e) = ParserAt(e, cw, EmptyStage, g)
    BY <1>4, <1>5, <1>6, <1>8, <2>4
  <2>5. ASSUME g = << >>, NEW op \in Joins, \A e : At(e) = ParserAt(D(e, op), EmptyPipeline, EmptyStage, g)
        PROVE  Good(<< >>)
    BY <1>9, <2>5
  <2>6. CASE g = << >> /\ \A e : At(e) = ParserAt(B(e), EmptyPipeline, EmptyStage, g)
    BY <1>4, <1>5, <1>9, <2>6
  <2>7. CASE x \in Redirects /\ ~t.quoted /\ \A e : At(e) = ParserAt(e, c, s, x)
    BY <1>8, <1>10, <2>7
  <2>8. CASE g = << >> /\ \A e : At(e) = ParserAt(e, c, sv, g)
    BY <1>3, <1>5, <1>8, <2>8
  <2>. QED
    BY <1>7, <2>1, <2>2, <2>3, <2>4, <2>5, <2>6, <2>7, <2>8
<1>. QED
  BY <1>11

ParseBy(f, tokens, i) ==
  IF i = 0 THEN [done |-> << >>, cur |-> EmptyPipeline, stage |-> EmptyStage, pending |-> << >>]
  ELSE ParseToken(f[i - 1], tokens[i])
Parses(f, tokens, n) == f = [i \in 0..n |-> ParseBy(f, tokens, i)]

\* and so is Parse, over the tokens.
LEMMA ParsePasses ==
  ASSUME NEW s, NEW n \in Nat, Len(Tokenize(s)) = n
  PROVE  \E f : Parse(s) = FlushPipeline(f[n], "").done /\ Passed(f, TRUE, ParseStart, Tokenize(s), n)
<1> DEFINE u == Tokenize(s)
           f == CHOOSE x : Parses(x, u, n)
<1>1. Parse(s) = FlushPipeline(f[n], "").done
  BY DEF Parse, Parses, ParseBy
<1> HIDE DEF u
<1>2. ASSUME NEW x PROVE Parses(x, u, n) <=> Passes(x, TRUE, ParseStart, u, n)
  <2>1. \A i \in 0..n : ParseBy(x, u, i) = PassBy(x, TRUE, ParseStart, u, i)
    BY DEF ParseBy, PassBy, PassTurn, ParseStart, ParserAt
  <2>2. [i \in 0..n |-> ParseBy(x, u, i)] = [i \in 0..n |-> PassBy(x, TRUE, ParseStart, u, i)]
    BY <2>1
  <2>. QED
    BY <2>2 DEF Parses, Passes
<1>3. PICK h : Passes(h, TRUE, ParseStart, u, n)
  BY PassesExists
<1>4. Parses(f, u, n)
  BY <1>2, <1>3
<1> HIDE DEF f
<1>5. Passes(f, TRUE, ParseStart, u, n)
  BY <1>2, <1>4
<1>6. Passed(f, TRUE, ParseStart, u, n)
  BY <1>5, PassesPassed
<1>. QED
  BY <1>1, <1>6 DEF u

\* A turn of Parse's loop.
LEMMA ParseTurn ==
  ASSUME NEW p \in ParseState, NEW t \in Tokens
  PROVE  /\ ParseToken(p, t) \in ParseState
         /\ \A e \in Seq(Pipelines) : ParseToken(Ahead(p, e), t) = Ahead(ParseToken(p, t), e)
         /\ t \notin {Op(r) : r \in Redirects} => ParseToken(p, t).pending = << >>
<1> DEFINE d == p.done
           c == p.cur
           s == p.stage
           g == p.pending
<1>1. d \in Seq(Pipelines) /\ c \in Pipelines /\ s \in Stages /\ g \in {<< >>} \cup Redirects /\ p = ParserAt(d, c, s, g)
  BY ParserIs
<1>2. \A e : Ahead(p, e) = ParserAt(e \o d, c, s, g)
  BY DEF Ahead
<1> HIDE DEF d, c, s, g
<1>3. ParseToken(p, t) = Turned(d, c, s, g, t)
  BY <1>1, TokenTurns
<1>4. \A e : ParseToken(Ahead(p, e), t) = Turned(e \o d, c, s, g, t)
  <2>1. \A e : ParseToken(ParserAt(e, c, s, g), t) = Turned(e, c, s, g, t)
    BY <1>1, TokenTurns
  <2>. QED
    BY <1>2, <2>1
<1>5. /\ Turned(d, c, s, g, t) \in ParseState
      /\ \A e \in Seq(Pipelines) : Turned(e \o d, c, s, g, t) = Ahead(Turned(d, c, s, g, t), e)
      /\ t \notin {Op(r) : r \in Redirects} => Turned(d, c, s, g, t).pending = << >>
  BY <1>1, TurnedIs
<1>. QED
  BY <1>3, <1>4, <1>5

\* Parse holds what it should at every token, and waits for a target only behind a redirection.
LEMMA ParseTyped ==
  ASSUME NEW u \in Seq(Tokens), NEW n \in Nat, Len(u) = n, NEW f, Passed(f, TRUE, ParseStart, u, n)
  PROVE  /\ \A i \in 0..n : f[i] \in ParseState
         /\ (n # 0 => u[n] \notin {Op(r) : r \in Redirects}) => f[n].pending = << >>
<1>0. \A i \in 1..n : u[i] \in Tokens
  OBVIOUS
<1>1. f[0] = ParseStart /\ \A i \in 1..n : f[i] = ParseToken(f[i - 1], u[i])
  BY DEF Passed, PassTurn
<1>2. \A i \in 0..n : f[i] \in ParseState
  <2> DEFINE G == {i \in 0..n : f[i] \in ParseState}
  <2>1. 0 \in G
    BY <1>1, EmptyTyped
  <2>2. ASSUME NEW i \in 1..n, i - 1 \in G PROVE i \in G
    BY <1>0, <1>1, <2>2, ParseTurn
  <2> HIDE DEF G
  <2>3. \A i \in 0..n : i \in G
    BY <2>1, <2>2, TurnByTurn
  <2>. QED
    BY <2>3 DEF G
<1>3. n = 0 => f[n].pending = << >>
  BY <1>1, ParserFields DEF ParseStart
<1>4. ASSUME n # 0, u[n] \notin {Op(r) : r \in Redirects} PROVE f[n].pending = << >>
  <2> DEFINE p == f[n - 1]
             t == u[n]
  <2>1. p \in ParseState /\ t \in Tokens /\ f[n] = ParseToken(p, t)
    BY <1>0, <1>1, <1>2, <1>4
  <2>2. t \notin {Op(r) : r \in Redirects}
    BY <1>4
  <2> HIDE DEF p, t
  <2>3. ParseToken(p, t).pending = << >>
    BY <2>1, <2>2, ParseTurn
  <2>. QED
    BY <2>1, <2>3
<1>. QED
  BY <1>2, <1>3, <1>4

\* The commands of pipelines do not depend on what joins them.
LEMMA CommandsJoined ==
  ASSUME NEW d \in Seq(Pipelines), NEW e \in Seq(Pipelines)
  PROVE  Commands(d \o e) = Commands(d) \o Commands(e)
<1> DEFINE S == Seq(Stages)
           w == d \o e
           cd == Commands(d)
           ce == Commands(e)
           cw == Commands(w)
           z == cd \o ce
<1>1. ASSUME NEW x \in Seq(Pipelines)
      PROVE  /\ Commands(x) \in Seq(S) /\ Len(Commands(x)) = Len(x) /\ Len(x) \in Nat
             /\ \A i \in 1..Len(x) : Commands(x)[i] = x[i].stages
  <2>1. DOMAIN x = 1..Len(x) /\ Len(x) \in Nat /\ \A i \in 1..Len(x) : x[i].stages \in S
    <3>1. DOMAIN x = 1..Len(x) /\ Len(x) \in Nat /\ \A i \in 1..Len(x) : x[i] \in Pipelines
      BY <1>1
    <3>2. \A c \in Pipelines : c.stages \in S
      BY DEF Pipelines
    <3>. QED
      BY <3>1, <3>2
  <2> HIDE DEF S
  <2>2. Commands(x) = [i \in 1..Len(x) |-> x[i].stages]
    BY <2>1 DEF Commands
  <2>3. [i \in 1..Len(x) |-> x[i].stages] \in Seq(S) /\ Len([i \in 1..Len(x) |-> x[i].stages]) = Len(x)
    <3> DEFINE n == Len(x)
               q == [i \in 1..n |-> x[i].stages]
    <3>1. n \in Nat /\ q \in [1..n -> S]
      BY <2>1
    <3> HIDE DEF n, q
    <3>2. q \in Seq(S) /\ Len(q) = n
      BY <3>1
    <3>. QED
      BY <3>2 DEF n, q
  <2>. QED
    BY <2>2, <2>3
<1>2. /\ w \in Seq(Pipelines) /\ Len(d) \in Nat /\ Len(e) \in Nat /\ Len(w) = Len(d) + Len(e)
      /\ \A i \in 1..Len(d) : w[i] = d[i]
      /\ \A i \in 1..Len(e) : w[Len(d) + i] = e[i]
  BY Joined
<1> HIDE DEF w
<1>3. /\ cd \in Seq(S) /\ Len(cd) = Len(d) /\ \A i \in 1..Len(d) : cd[i] = d[i].stages
      /\ ce \in Seq(S) /\ Len(ce) = Len(e) /\ \A i \in 1..Len(e) : ce[i] = e[i].stages
      /\ cw \in Seq(S) /\ Len(cw) = Len(w) /\ \A i \in 1..Len(w) : cw[i] = w[i].stages
  BY <1>1, <1>2
<1> HIDE DEF cd, ce, cw, S
<1>4. /\ z \in Seq(S) /\ Len(z) = Len(cd) + Len(ce)
      /\ \A i \in 1..Len(cd) : z[i] = cd[i]
      /\ \A i \in 1..Len(ce) : z[Len(cd) + i] = ce[i]
  <2>1. cd \in Seq(S) /\ ce \in Seq(S)
    BY <1>3
  <2>. QED
    BY <2>1, Joined
<1> HIDE DEF z
<1>5. ASSUME NEW i \in 1..Len(w) PROVE z[i] = cw[i]
  <2>1. CASE i <= Len(d)
    <3>1. i \in 1..Len(d)
      BY <1>2, <2>1
    <3>. QED
      BY <1>2, <1>3, <1>4, <3>1
  <2>2. CASE i > Len(d)
    <3> DEFINE j == i - Len(d)
    <3>1. j \in 1..Len(e) /\ Len(d) + j = i
      BY <1>2, <2>2
    <3> HIDE DEF j
    <3>2. w[i] = e[j]
      BY <1>2, <3>1
    <3>3. z[i] = ce[j]
      BY <1>3, <1>4, <3>1
    <3>. QED
      BY <1>3, <3>1, <3>2, <3>3
  <2>. QED
    BY <1>2, <2>1, <2>2
<1>6. z = cw
  BY <1>2, <1>3, <1>4, <1>5, SeqEqual
<1>. QED
  BY <1>6 DEF z, cd, ce, cw, w

\* So the operator that ended a pipeline does not show in them.
LEMMA CommandsSame ==
  ASSUME NEW d \in Seq(Pipelines), NEW c \in Pipelines, NEW s \in Stages, NEW op \in Joins, NEW other \in Joins
  PROVE  Commands(DoneWith(d, c, s, op)) = Commands(DoneWith(d, c, s, other))
<1> DEFINE x == StagesWith(c, s)
           y == PipelineOf(x, op, c.background)
           z == PipelineOf(x, other, c.background)
<1>1. x \in Seq(Stages) /\ c.background \in BOOLEAN
  BY StagesTyped DEF Pipelines
<1>2. /\ DoneWith(d, c, s, op) = IF x # << >> THEN Append(d, y) ELSE d
      /\ DoneWith(d, c, s, other) = IF x # << >> THEN Append(d, z) ELSE d
  BY DEF DoneWith
<1> HIDE DEF x
<1>3. y \in Pipelines /\ z \in Pipelines /\ y.stages = x /\ z.stages = x
  BY <1>1 DEF PipelineOf, Pipelines
<1> HIDE DEF y, z
<1>4. DOMAIN Append(d, y) = DOMAIN Append(d, z) /\ \A i \in DOMAIN Append(d, y) : Append(d, y)[i].stages = Append(d, z)[i].stages
  <2>1. /\ Len(d) \in Nat
        /\ Append(d, y) \in Seq(Pipelines) /\ Len(Append(d, y)) = Len(d) + 1
        /\ Append(d, z) \in Seq(Pipelines) /\ Len(Append(d, z)) = Len(d) + 1
        /\ \A i \in 1..Len(d) : Append(d, y)[i] = d[i] /\ Append(d, z)[i] = d[i]
        /\ Append(d, y)[Len(d) + 1] = y /\ Append(d, z)[Len(d) + 1] = z
    BY <1>3
  <2>2. DOMAIN Append(d, y) = 1..(Len(d) + 1) /\ DOMAIN Append(d, z) = 1..(Len(d) + 1)
    BY <2>1
  <2> DEFINE a == Append(d, y)
             b == Append(d, z)
             n == Len(d)
  <2>3. n \in Nat /\ (\A i \in 1..n : a[i] = b[i]) /\ a[n + 1].stages = b[n + 1].stages
    BY <1>3, <2>1
  <2> HIDE DEF a, b, n
  <2>4. \A i \in 1..(n + 1) : a[i].stages = b[i].stages
    <3>1. \A i \in 1..(n + 1) : i \in 1..n \/ i = n + 1
      BY <2>3
    <3>. QED
      BY <2>3, <3>1
  <2>. QED
    BY <2>2, <2>4 DEF a, b, n
<1>5. Commands(Append(d, y)) = Commands(Append(d, z))
  BY <1>4 DEF Commands
<1>. QED
  BY <1>2, <1>5

\* The pipelines that Parse has at its end.
LEMMA FlushDone ==
  ASSUME NEW p \in ParseState, NEW op \in Joins
  PROVE  /\ FlushPipeline(p, op).done = DoneWith(p.done, p.cur, p.stage, op)
         /\ \A e \in Seq(Pipelines) : FlushPipeline(Ahead(p, e), op).done = e \o FlushPipeline(p, op).done
<1> DEFINE d == p.done
           c == p.cur
           s == p.stage
           g == p.pending
<1>1. /\ d \in Seq(Pipelines) /\ c \in Pipelines /\ s \in Stages /\ p = ParserAt(d, c, s, g)
      /\ c = PipelineOf(c.stages, c.next, c.background)
  BY ParserIs
<1>2. \A e : Ahead(p, e) = ParserAt(e \o d, c, s, g)
  BY DEF Ahead
<1> HIDE DEF d, c, s, g
<1>3. \A e : FlushPipeline(ParserAt(e, c, s, g), op) = ParserAt(DoneWith(e, c, s, op), EmptyPipeline, EmptyStage, g)
  BY <1>1, FlushPipelineIs
<1>4. \A e : FlushPipeline(ParserAt(e, c, s, g), op).done = DoneWith(e, c, s, op)
  BY <1>3, ParserFields
<1>5. FlushPipeline(p, op).done = DoneWith(d, c, s, op)
  BY <1>1, <1>4
<1>6. \A e \in Seq(Pipelines) : DoneWith(e \o d, c, s, op) = e \o DoneWith(d, c, s, op)
  BY <1>1, DoneTyped
<1>7. \A e \in Seq(Pipelines) : FlushPipeline(Ahead(p, e), op).done = e \o FlushPipeline(p, op).done
  BY <1>2, <1>4, <1>5, <1>6
<1>. QED
  BY <1>5, <1>7 DEF d, c, s

\* A semicolon where no redirection waits ends the pipeline in progress: Parse goes on as at
\* its start, with what there was before.
LEMMA ParseSemicolon ==
  ASSUME NEW p \in ParseState, p.pending = << >>
  PROVE  ParseToken(p, Op(<<Semicolon>>)) = Ahead(ParseStart, DoneWith(p.done, p.cur, p.stage, Semicolon))
<1> DEFINE d == p.done
           c == p.cur
           s == p.stage
           t == Op(<<Semicolon>>)
           e == DoneWith(d, c, s, Semicolon)
<1>1. d \in Seq(Pipelines) /\ c \in Pipelines /\ s \in Stages /\ p = ParserAt(d, c, s, << >>)
  BY ParserIs
<1> HIDE DEF d, c, s
<1>2. ParseToken(p, t) = Turned(d, c, s, << >>, t)
  BY <1>1, TokenTurns
<1>3. /\ IsOp(t, <<Semicolon>>) /\ ~IsOp(t, <<"|">>) /\ ~IsOp(t, <<"&", "&">>) /\ ~IsOp(t, <<"|", "|">>)
      /\ ~IsOp(t, <<"&">>) /\ ~IsOp(t, <<">">>) /\ ~IsOp(t, <<">", ">">>) /\ ~IsOp(t, <<"<">>)
  <2>1. t.quoted = FALSE /\ t.text = <<Semicolon>>
    BY DEF Op
  <2>2. /\ <<Semicolon>> # <<"|">> /\ <<Semicolon>> # <<"&">> /\ <<Semicolon>> # <<">">> /\ <<Semicolon>> # <<"<">>
        /\ <<Semicolon>> # <<"&", "&">> /\ <<Semicolon>> # <<"|", "|">> /\ <<Semicolon>> # <<">", ">">>
    <3>1. /\ <<Semicolon>>[1] = Semicolon /\ <<"|">>[1] = "|" /\ <<"&">>[1] = "&" /\ <<">">>[1] = ">" /\ <<"<">>[1] = "<"
          /\ <<"&", "&">>[1] = "&" /\ <<"|", "|">>[1] = "|" /\ <<">", ">">>[1] = ">"
      OBVIOUS
    <3>. QED
      BY <3>1, Different
  <2> HIDE DEF t
  <2>. QED
    BY <2>1, <2>2 DEF IsOp
<1> HIDE DEF t
<1>4. Turned(d, c, s, << >>, t) = ParserAt(e, EmptyPipeline, EmptyStage, << >>)
  <2>1. <<">">> # << >> /\ <<">", ">">> # << >> /\ <<"<">> # << >>
    OBVIOUS
  <2> DEFINE g == << >>
  <2>2. g # <<">">> /\ g # <<">", ">">> /\ g # <<"<">> /\ g = << >>
    BY <2>1
  <2> HIDE DEF g
  <2>3. Turned(d, c, s, g, t) = ParserAt(DoneWith(d, c, s, Semicolon), EmptyPipeline, EmptyStage, g)
    BY <1>3, <2>2 DEF Turned
  <2>. QED
    BY <2>3 DEF g, e
<1>5. e \in Seq(Pipelines)
  BY <1>1, DoneTyped DEF Joins
<1> HIDE DEF e
<1>6. e \o << >> = e
  BY <1>5, ConcatEmptySeq
<1>7. Ahead(ParseStart, e) = ParserAt(e, EmptyPipeline, EmptyStage, << >>)
  <2>1. Ahead(ParserAt(<< >>, EmptyPipeline, EmptyStage, << >>), e) = ParserAt(e \o << >>, EmptyPipeline, EmptyStage, << >>)
    <3> DEFINE o == << >>
               cc == EmptyPipeline
               ss == EmptyStage
    <3> HIDE DEF o, cc, ss
    <3>1. Ahead(ParserAt(o, cc, ss, o), e) = ParserAt(e \o o, cc, ss, o)
      BY AheadOf
    <3>. QED
      BY <3>1 DEF o, cc, ss
  <2>. QED
    BY <1>6, <2>1 DEF ParseStart
<1>8. ParseToken(p, t) = Ahead(ParseStart, e)
  BY <1>2, <1>4, <1>7
<1>. QED
  BY <1>8 DEF t, e, d, c, s

\* So Parse finds in a line the commands of its parts.
LEMMA CommandsOfParts ==
  ASSUME NEW w, NEW s \in Texts, NEW n \in Nat, NEW a \in Texts, NEW m \in Nat, Parts(w, s, n, a, m),
         Closed(s), Semicolon \in Chars,
         Tokenize(s) # << >> => Tokenize(s)[Len(Tokenize(s))] \notin {Op(r) : r \in Redirects}
  PROVE  Commands(Parse(w)) = Commands(Parse(s)) \o Commands(Parse(a))
<1> DEFINE A == Tokenize(s)
           B == Tokenize(a)
           W == Tokenize(w)
           t == Op(<<Semicolon>>)
           i == Len(A)
           j == Len(B)
           k == i + 1
           l == k + j
<1>1. A \in Seq(Tokens) /\ B \in Seq(Tokens) /\ W = Append(A, t) \o B
  BY TokensOfParts
<1>2. A # << >> => A[i] \notin {Op(r) : r \in Redirects}
  OBVIOUS
<1>3. t \in Tokens
  <2>1. <<Semicolon>> \in Texts
    BY CharTexts
  <2>. QED
    BY <2>1, OpTyped
<1> HIDE DEF A, B, W, t
<1>4. i \in Nat /\ j \in Nat /\ k \in Nat /\ l \in Nat /\ Len(A) = i /\ Len(B) = j
  BY <1>1
<1>5. /\ Len(W) = l /\ W[k] = t
      /\ \A x \in 1..i : W[x] = A[x]
      /\ \A x \in 1..j : W[k + x] = B[x]
  <2> DEFINE X == Append(A, t)
  <2>1. X \in Seq(Tokens) /\ Len(X) = k /\ X[k] = t /\ \A x \in 1..i : X[x] = A[x]
    BY <1>1, <1>3, <1>4
  <2> HIDE DEF X
  <2>2. /\ Len(X \o B) = Len(X) + Len(B)
        /\ \A x \in 1..Len(X) : (X \o B)[x] = X[x]
        /\ \A x \in 1..Len(B) : (X \o B)[Len(X) + x] = B[x]
    <3>1. X \in Seq(Tokens) /\ B \in Seq(Tokens)
      BY <1>1, <2>1
    <3>. QED
      BY <3>1, Joined
  <2>3. W = X \o B
    BY <1>1 DEF X
  <2> HIDE DEF i, j
  <2>4. k \in 1..k /\ \A x \in 1..i : x \in 1..k
    BY <1>4
  <2>5. /\ Len(W) = Len(X) + Len(B)
        /\ \A x \in 1..Len(X) : W[x] = X[x]
        /\ \A x \in 1..Len(B) : W[Len(X) + x] = B[x]
    BY <2>2, <2>3
  <2>. QED
    BY <1>4, <2>1, <2>4, <2>5
<1>6. (\A x \in 1..i : A[x] \in Tokens) /\ (\A x \in 1..j : B[x] \in Tokens)
  BY <1>1
<1>7. i # 0 => A[i] \notin {Op(r) : r \in Redirects}
  BY <1>1, <1>2
<1> HIDE DEF i, j
<1>8. PICK f : Parse(s) = FlushPipeline(f[i], "").done /\ Passed(f, TRUE, ParseStart, A, i)
  BY <1>4, ParsePasses DEF A
<1>9. PICK h : Parse(a) = FlushPipeline(h[j], "").done /\ Passed(h, TRUE, ParseStart, B, j)
  BY <1>4, ParsePasses DEF B
<1>10. PICK g : Parse(w) = FlushPipeline(g[l], "").done /\ Passed(g, TRUE, ParseStart, W, l)
  BY <1>4, <1>5, ParsePasses DEF W
<1>11. /\ f[0] = ParseStart /\ \A x \in 1..i : f[x] = ParseToken(f[x - 1], A[x])
       /\ h[0] = ParseStart /\ \A x \in 1..j : h[x] = ParseToken(h[x - 1], B[x])
       /\ g[0] = ParseStart /\ \A x \in 1..l : g[x] = ParseToken(g[x - 1], W[x])
  BY <1>8, <1>9, <1>10 DEF Passed, PassTurn
<1>12. (\A x \in 0..i : f[x] \in ParseState) /\ f[i].pending = << >>
  BY <1>1, <1>4, <1>7, <1>8, ParseTyped
<1>13. \A x \in 0..j : h[x] \in ParseState
  BY <1>1, <1>4, <1>9, ParseTyped
<1>14. g[i] = f[i]
  <2> DEFINE G == {x \in 0..i : g[x] = f[x]}
  <2>1. 0 \in G
    BY <1>4, <1>11
  <2>2. ASSUME NEW x \in 1..i, x - 1 \in G PROVE x \in G
    <3>1. x \in 1..l /\ x \in 0..i
      BY <1>4
    <3>. QED
      BY <1>5, <1>11, <2>2, <3>1
  <2> HIDE DEF G
  <2>3. \A x \in 0..i : x \in G
    BY <1>4, <2>1, <2>2, TurnByTurn
  <2>4. i \in 0..i
    BY <1>4
  <2>. QED
    BY <2>3, <2>4 DEF G
<1> DEFINE p == f[i]
           e == DoneWith(p.done, p.cur, p.stage, Semicolon)
           b == DoneWith(p.done, p.cur, p.stage, "")
<1>15. p \in ParseState /\ p.pending = << >> /\ g[i] = p
  BY <1>4, <1>12, <1>14
<1>16. Semicolon \in Joins /\ "" \in Joins
  BY DEF Joins
<1>17. Parse(s) = b
  <2> HIDE DEF p
  <2>1. FlushPipeline(p, "").done = b
    BY <1>15, <1>16, FlushDone
  <2>. QED
    BY <1>8, <2>1 DEF p
<1> HIDE DEF p
<1>18. e \in Seq(Pipelines) /\ b \in Seq(Pipelines) /\ Commands(e) = Commands(b)
  <2>1. p.done \in Seq(Pipelines) /\ p.cur \in Pipelines /\ p.stage \in Stages
    BY <1>15, ParserIs
  <2> DEFINE pd == p.done
             pc2 == p.cur
             ps == p.stage
  <2>2. pd \in Seq(Pipelines) /\ pc2 \in Pipelines /\ ps \in Stages
    BY <2>1
  <2> HIDE DEF pd, pc2, ps
  <2>3. /\ DoneWith(pd, pc2, ps, Semicolon) \in Seq(Pipelines) /\ DoneWith(pd, pc2, ps, "") \in Seq(Pipelines)
        /\ Commands(DoneWith(pd, pc2, ps, Semicolon)) = Commands(DoneWith(pd, pc2, ps, ""))
    BY <1>16, <2>2, DoneTyped, CommandsSame
  <2>. QED
    BY <2>3 DEF pd, pc2, ps
<1>19. g[k] = Ahead(ParseStart, e)
  <2>1. k \in 1..l /\ k - 1 = i
    BY <1>4
  <2>2. g[k] = ParseToken(p, t)
    BY <1>5, <1>11, <1>15, <2>1
  <2>. QED
    BY <1>15, <2>2, ParseSemicolon DEF t
<1> HIDE DEF e, b
<1>20. \A x \in 0..j : g[k + x] = Ahead(h[x], e)
  <2> DEFINE G == {x \in 0..j : g[k + x] = Ahead(h[x], e)}
  <2>1. 0 \in G
    <3>1. k + 0 = k /\ 0 \in 0..j
      BY <1>4
    <3>. QED
      BY <1>11, <1>19, <3>1
  <2>2. ASSUME NEW x \in 1..j, x - 1 \in G PROVE x \in G
    <3> DEFINE q == h[x - 1]
               u == B[x]
               y == k + x
    <3>1. y \in 1..l /\ y - 1 = k + (x - 1) /\ x - 1 \in 0..j
      BY <1>4
    <3>2. g[y] = ParseToken(Ahead(q, e), u) /\ h[x] = ParseToken(q, u)
      BY <1>5, <1>11, <2>2, <3>1
    <3>3. q \in ParseState /\ u \in Tokens
      BY <1>6, <1>13, <3>1
    <3> HIDE DEF q, u, y
    <3>4. ParseToken(Ahead(q, e), u) = Ahead(ParseToken(q, u), e)
      BY <1>18, <3>3, ParseTurn
    <3>5. g[y] = Ahead(h[x], e)
      BY <3>2, <3>4
    <3>. QED
      BY <3>5 DEF y
  <2> HIDE DEF G
  <2>3. \A x \in 0..j : x \in G
    BY <1>4, <2>1, <2>2, TurnByTurn
  <2>. QED
    BY <2>3 DEF G
<1> DEFINE z == h[j]
           c == FlushPipeline(z, "").done
<1>21. g[l] = Ahead(z, e) /\ z \in ParseState
  <2>1. j \in 0..j
    BY <1>4
  <2>. QED
    BY <1>13, <1>20, <2>1
<1>22. Parse(a) = c
  BY <1>9
<1> HIDE DEF z
<1>23. FlushPipeline(Ahead(z, e), "").done = e \o c
  BY <1>16, <1>18, <1>21, FlushDone
<1>24. c \in Seq(Pipelines)
  <2>1. z.done \in Seq(Pipelines) /\ z.cur \in Pipelines /\ z.stage \in Stages
    BY <1>21, ParserIs
  <2>2. c = DoneWith(z.done, z.cur, z.stage, "")
    BY <1>16, <1>21, FlushDone
  <2> DEFINE pd == z.done
             pc2 == z.cur
             ps == z.stage
  <2>3. pd \in Seq(Pipelines) /\ pc2 \in Pipelines /\ ps \in Stages
    BY <2>1
  <2> HIDE DEF pd, pc2, ps
  <2>4. DoneWith(pd, pc2, ps, "") \in Seq(Pipelines)
    BY <1>16, <2>3, DoneTyped
  <2>. QED
    BY <2>2, <2>4 DEF pd, pc2, ps
<1> HIDE DEF c
<1>25. Parse(w) = e \o c
  BY <1>10, <1>21, <1>23
<1>26. Commands(e \o c) = Commands(e) \o Commands(c)
  BY <1>18, <1>24, CommandsJoined
<1>. QED
  BY <1>17, <1>18, <1>22, <1>25, <1>26

\* A terminal whose lines, the one in progress and those of the history, are made of bytes
\* that were sent, and whose place in the history is one.
Legible(s) ==
  /\ IsLine(s) /\ s.buf \in Streams /\ s.history \in Seq(Streams)
  /\ s.pos \in 0..Len(s.history)

\* It stays so when such things are put in it.
LEMMA PutLegible ==
  ASSUME NEW s, Legible(s), NEW x \in Streams, NEW y, NEW z
  PROVE  /\ Legible(PutBuf(s, x)) /\ Legible(PutAnswer(s, x, y))
         /\ y \in 0..Len(s.history) => Legible(PutPlace(s, x, y))
         /\ Legible(PutStatus(s, z)) /\ Legible(PutCut(s, z)) /\ Legible(PutIn(s, z))
<1>1. IsLine(s) /\ s.buf \in Streams /\ s.history \in Seq(Streams) /\ s.pos \in 0..Len(s.history)
  BY DEF Legible
<1>2. Legible(PutBuf(s, x))
  BY <1>1 DEF PutBuf, Legible, IsLine, LineOf
<1>3. PutPlace(s, x, y) = LineOf(s.prompts, x, y, s.history, s.inBytes, s.cut, s.status)
      /\ PutAnswer(s, x, y) = LineOf(y, x, s.pos, s.history, s.inBytes, s.cut, s.status)
  <2>1. /\ PutPlace(LineOf(s.prompts, s.buf, s.pos, s.history, s.inBytes, s.cut, s.status), x, y)
             = LineOf(s.prompts, x, y, s.history, s.inBytes, s.cut, s.status)
        /\ PutAnswer(LineOf(s.prompts, s.buf, s.pos, s.history, s.inBytes, s.cut, s.status), x, y)
             = LineOf(y, x, s.pos, s.history, s.inBytes, s.cut, s.status)
    BY PutTwo
  <2>. QED
    BY <1>1, <2>1 DEF IsLine
<1>4. y \in 0..Len(s.history) => Legible(PutPlace(s, x, y))
  BY <1>1, <1>3 DEF Legible, IsLine, LineOf
<1>5. Legible(PutAnswer(s, x, y))
  BY <1>1, <1>3 DEF Legible, IsLine, LineOf
<1>6. Legible(PutStatus(s, z))
  BY <1>1 DEF PutStatus, Legible, IsLine, LineOf
<1>7. Legible(PutCut(s, z))
  BY <1>1 DEF PutCut, Legible, IsLine, LineOf
<1>8. Legible(PutIn(s, z))
  BY <1>1 DEF PutIn, Legible, IsLine, LineOf
<1>. QED
  BY <1>2, <1>4, <1>5, <1>6, <1>7, <1>8

\* A line that ends goes to the history,
LEMMA EndLineLegible ==
  ASSUME NEW s, Legible(s)
  PROVE  Legible(EndLine(s))
<1>0. << >> \in Streams
  BY Literals
<1>1. ASSUME NEW r, Legible(r) PROVE Legible(NewLine(r))
  <2> DEFINE n == Len(r.history)
  <2>1. n \in 0..Len(r.history)
    <3>1. r.history \in Seq(Streams)
      BY <1>1 DEF Legible
    <3>2. Len(r.history) \in Nat
      BY <3>1
    <3>. QED
      BY <3>2
  <2>2. NewLine(r) = PutPlace(r, << >>, n)
    BY DEF NewLine, PutPlace
  <2> HIDE DEF n
  <2>. QED
    BY <1>0, <1>1, <2>1, <2>2, PutLegible
<1>2. CASE ToSet(s.buf) \subseteq {" "}
  <2>1. EndLine(s) = NewLine(s)
    BY <1>2, Zenon DEF EndLine
  <2>. QED
    BY <1>1, <2>1
<1>3. CASE ~(ToSet(s.buf) \subseteq {" "})
  <2> DEFINE h == Append(s.history, s.buf)
             t == PutHistory(s, h)
  <2>1. EndLine(s) = NewLine(t)
    BY <1>3, Zenon DEF EndLine, PutHistory
  <2>2. IsLine(s) /\ s.buf \in Streams /\ s.history \in Seq(Streams) /\ s.pos \in 0..Len(s.history)
    BY DEF Legible
  <2>3. h \in Seq(Streams) /\ Len(h) = Len(s.history) + 1 /\ Len(s.history) \in Nat
    BY <2>2
  <2> HIDE DEF h
  <2>4. s.pos \in 0..Len(h)
    BY <2>2, <2>3
  <2>5. IsLine(t) /\ t.buf = s.buf /\ t.pos = s.pos /\ t.history = h
    BY <2>2 DEF PutHistory, IsLine, LineOf
  <2> HIDE DEF t
  <2>6. Legible(t)
    BY <2>2, <2>3, <2>4, <2>5 DEF Legible
  <2>. QED
    BY <1>1, <2>1, <2>6
<1>. QED
  BY <1>2, <1>3

\* an arrow takes one from there,
LEMMA ArrowLegible ==
  ASSUME NEW s, Legible(s), NEW key
  PROVE  Legible(Arrow(s, key))
<1> DEFINE n == Len(s.history)
           o == s.pos
           p == CASE key = "A" -> IF o > 0 THEN o - 1 ELSE o
                  [] key = "B" -> IF o + 1 < n THEN o + 1 ELSE n
                  [] OTHER -> o
           moved == (key = "A" /\ o > 0) \/ key = "B"
           buf == IF p = n THEN << >> ELSE s.history[p + 1]
<1>1. s.history \in Seq(Streams) /\ o \in 0..n /\ n \in Nat /\ << >> \in Streams
  <2>1. s.history \in Seq(Streams) /\ o \in 0..n
    BY DEF Legible
  <2>2. n \in Nat
    BY <2>1
  <2>. QED
    BY <2>1, <2>2, Literals
<1>2. Arrow(s, key) = IF ~moved THEN s ELSE PutPlace(s, buf, p)
  BY DEF Arrow, PutPlace
<1> HIDE DEF o, n
<1>3. p \in 0..n
  BY <1>1
<1> HIDE DEF p
<1>4. \A i \in 1..n : s.history[i] \in Streams
  BY <1>1 DEF n
<1>5. buf \in Streams
  <2>1. p # n => p + 1 \in 1..n
    BY <1>1, <1>3
  <2>. QED
    BY <1>1, <1>4, <2>1
<1> HIDE DEF buf, moved
<1>6. Legible(PutPlace(s, buf, p))
  <2>1. p \in 0..Len(s.history)
    BY <1>3 DEF n
  <2>. QED
    BY <1>5, <2>1, PutLegible
<1>. QED
  BY <1>2, <1>6

\* One byte more or less is a line.
LEMMA EraseLegible ==
  ASSUME NEW x \in Streams, NEW b \in Bytes
  PROVE  Erase(x) \in Streams /\ Append(x, b) \in Streams
<1>1. Append(x, b) \in Streams
  BY DEF Streams
<1>2. CASE x = << >>
  BY <1>1, <1>2 DEF Erase
<1>3. CASE x # << >>
  <2>1. Erase(x) = SubSeq(x, 1, Len(x) - 1)
    BY <1>3 DEF Erase, Front
  <2>2. Len(x) \in Nat /\ Len(x) # 0
    BY <1>3 DEF Streams
  <2>3. \A i \in 1..(Len(x) - 1) : x[i] \in Bytes
    BY <2>2 DEF Streams
  <2>4. SubSeq(x, 1, Len(x) - 1) \in Seq(Bytes)
    BY <2>2, <2>3 DEF Streams
  <2>. QED
    BY <1>1, <2>1, <2>4 DEF Streams
<1>. QED
  BY <1>2, <1>3

\* a key writes or erases one byte,
LEMMA PressLegible ==
  ASSUME NEW s, Legible(s), NEW b \in Bytes
  PROVE  Legible(Press(s, b)) /\ Legible(Answer(s, b))
<1> DEFINE e == Erase(s.buf)
           x == Append(s.buf, b)
           y == s.prompts - 1
           full == Len(s.buf) = MaxPrompt
           empty == s.buf = << >>
<1>1. << >> \in Streams /\ e \in Streams /\ x \in Streams
  <2>1. s.buf \in Streams
    BY DEF Legible
  <2>. QED
    BY <2>1, EraseLegible, Literals
<1>2. Press(s, b) = CASE b \in {"^C", "^U"} -> PutBuf(s, << >>)
                      [] b = "bs" -> PutBuf(s, e)
                      [] b = "^D" -> IF empty THEN PutStatus(s, "exit") ELSE s
                      [] b \in {"nul", "tab", "esc"} -> s
                      [] OTHER -> PutBuf(s, x)
  BY DEF Press, PutBuf, PutStatus
<1>3. Answer(s, b) = CASE b = "nl" -> IF empty THEN s ELSE PutAnswer(s, << >>, y)
                       [] b = "bs" -> PutBuf(s, e)
                       [] b \in {"^C", "^D", "^U", "esc", "tab"} -> s
                       [] OTHER -> IF full THEN PutStatus(s, "limit") ELSE PutBuf(s, x)
  BY DEF Answer, PutBuf, PutStatus, PutAnswer
<1> HIDE DEF e, x, y, full, empty
<1>4. /\ Legible(PutBuf(s, << >>)) /\ Legible(PutBuf(s, e)) /\ Legible(PutBuf(s, x))
      /\ Legible(PutStatus(s, "exit")) /\ Legible(PutStatus(s, "limit")) /\ Legible(PutAnswer(s, << >>, y))
  BY <1>1, PutLegible
<1>5. Legible(Press(s, b))
  BY <1>2, <1>4
<1>6. Legible(Answer(s, b))
  BY <1>3, <1>4
<1>. QED
  BY <1>5, <1>6

\* and so do the turns of the loop in Shell.readLine.
LEMMA TurnLegible ==
  ASSUME NEW s, Legible(s), NEW chunk, NEW i, chunk[i] \in Bytes
  PROVE  Legible(Turn(s, chunk, i))
<1>1. CASE chunk[i] = "nl"
  <2> DEFINE x == s.cut \/ i < Len(chunk)
             t == PutCut(s, x)
  <2>1. Turn(s, chunk, i) = EndLine(t)
    BY <1>1 DEF Turn, PutCut
  <2> HIDE DEF x
  <2>2. Legible(t)
    BY Literals, PutLegible
  <2> HIDE DEF t
  <2>. QED
    BY <2>1, <2>2, EndLineLegible
<1>2. CASE chunk[i] = "esc" /\ Whole(chunk, i)
  <2>1. Turn(s, chunk, i) = Arrow(s, chunk[i + 2])
    BY <1>2 DEF Turn
  <2>. QED
    BY <2>1, ArrowLegible
<1>3. CASE chunk[i] = "esc" /\ ~Whole(chunk, i)
  <2> DEFINE x == s.cut \/ i = Len(chunk) \/ (i + 1 = Len(chunk) /\ chunk[i + 1] = "[")
             t == PutCut(s, x)
  <2>1. Turn(s, chunk, i) = t
    BY <1>3 DEF Turn, PutCut
  <2> HIDE DEF x
  <2>2. Legible(t)
    BY Literals, PutLegible
  <2>. QED
    BY <2>1, <2>2
<1>4. CASE chunk[i] # "nl" /\ chunk[i] # "esc"
  <2>1. Turn(s, chunk, i) = Press(s, chunk[i])
    BY <1>4 DEF Turn
  <2>. QED
    BY <2>1, PressLegible
<1>. QED
  BY <1>1, <1>2, <1>3, <1>4

\* Shell.readLine over a chunk.
LEMMA EditLegible ==
  ASSUME NEW s, Legible(s), NEW chunk \in Streams
  PROVE  Legible(Edit(s, chunk))
<1> DEFINE n == Len(chunk)
<1>1. n \in Nat /\ \A i \in 1..n : chunk[i] \in Bytes
  BY DEF Streams
<1> HIDE DEF n
<1>2. PICK f : Edit(s, chunk) = f[n].line /\ Looped(f, FALSE, s, chunk, n)
  BY <1>1, EditLoops DEF n
<1> DEFINE G == {i \in 0..n : Legible(f[i].line)}
<1>3. 0 \in G
  <2>1. f[0].line = s
    BY <1>2 DEF Looped
  <2>. QED
    BY <1>1, <2>1
<1>4. ASSUME NEW i \in 1..n, i - 1 \in G PROVE i \in G
  <2> DEFINE p == f[i - 1]
             l == p.line
  <2>1. f[i] = IF p.next # i \/ p.line.status # "open" THEN p ELSE Moved(FALSE, p, chunk, i)
    BY <1>2 DEF Looped
  <2>2. f[i].line = l \/ f[i].line = Turn(l, chunk, i)
    BY <2>1 DEF Moved
  <2>3. Legible(l)
    BY <1>4
  <2> HIDE DEF p, l
  <2>4. Legible(Turn(l, chunk, i))
    BY <1>1, <2>3, TurnLegible
  <2>5. Legible(f[i].line)
    BY <2>2, <2>3, <2>4
  <2>. QED
    BY <2>5
<1> HIDE DEF G
<1>5. \A i \in 0..n : i \in G
  BY <1>1, <1>3, <1>4, TurnByTurn
<1>6. Legible(f[n].line)
  BY <1>1, <1>5 DEF G
<1>. QED
  BY <1>2, <1>6

\* A Read that returns something.
LEMMA ReturnLegible ==
  ASSUME NEW c \in ConnState, NEW s, Legible(s), c.got # << >>
  PROVE  Legible(Return(c, s).line)
<1> DEFINE chunk == c.got
<1>1. chunk \in Streams /\ chunk # << >>
  BY DEF ConnState
<1>2. Return(c, s).line = Take(s, chunk)
  BY DEF Return
<1> HIDE DEF chunk
<1>3. CASE s.prompts > 0
  <2>1. chunk[1] \in Bytes
    BY <1>1 DEF Streams
  <2>2. Take(s, chunk) = Answer(s, chunk[1])
    BY <1>3 DEF Take
  <2>. QED
    BY <1>2, <2>1, <2>2, PressLegible
<1>4. CASE ~(s.prompts > 0) /\ s.inBytes + Len(chunk) > MaxInput
  <2>1. Take(s, chunk) = PutStatus(s, "limit")
    BY <1>4 DEF Take, PutStatus
  <2>. QED
    BY <1>2, <2>1, Literals, PutLegible
<1>5. CASE ~(s.prompts > 0) /\ ~(s.inBytes + Len(chunk) > MaxInput)
  <2> DEFINE x == s.inBytes + Len(chunk)
             t == PutIn(s, x)
  <2>1. Take(s, chunk) = Edit(t, chunk)
    BY <1>5 DEF Take, PutIn
  <2> HIDE DEF x
  <2>2. Legible(t)
    BY Literals, PutLegible
  <2> HIDE DEF t
  <2>. QED
    BY <1>1, <1>2, <2>1, <2>2, EditLegible
<1>. QED
  BY <1>3, <1>4, <1>5

\* One turn of the loop in telnetConn.Read,
LEMMA ReadByteLegible ==
  ASSUME NEW c \in ConnState, NEW s, NEW b \in Bytes, NEW more, Legible(s)
  PROVE  Legible(ReadByte(c, s, b, more).line)
<1> DEFINE r == ReadByte(c, s, b, more)
           kept == [c EXCEPT !.phase = "data", !.got = Append(c.got, b)]
           full == Len(kept.got) = Room(s)
<1>1. kept \in ConnState /\ kept.got # << >>
  <2>1. kept \in ConnState
    BY KeepAdds
  <2>2. kept.got = Append(c.got, b) /\ c.got \in Streams
    BY DEF ConnState
  <2> HIDE DEF kept
  <2>3. Append(c.got, b) # << >>
    BY <2>2 DEF Streams
  <2>. QED
    BY <2>1, <2>2, <2>3
<1>2. r = Return(kept, s) \/ r.line = s
  BY DEF ReadByte
<1> HIDE DEF kept, full, r
<1>3. Legible(Return(kept, s).line)
  BY <1>1, ReturnLegible
<1>4. Legible(r.line)
  BY <1>2, <1>3
<1>. QED
  BY <1>4 DEF r

\* and the bytes of a segment.
LEMMA FeedLegible ==
  ASSUME NEW bytes \in Streams, NEW t \in Streams, conn \in ConnState, Taken(t, conn), Legible(line)
  PROVE  Legible(Feed(bytes).line)
<1> DEFINE n == Len(bytes)
<1>1. n \in Nat /\ \A i \in 1..n : bytes[i] \in Bytes
  BY DEF Streams
<1>2. PICK f : /\ Feed(bytes) = f[n]
               /\ f[0] = [conn |-> conn, line |-> line]
               /\ \A i \in 1..n : f[i] = IF f[i - 1].line.status # "open" THEN f[i - 1]
                                         ELSE ReadByte(f[i - 1].conn, f[i - 1].line, bytes[i], i < n)
  BY <1>1, FeedEquation
<1>3. \A i \in 0..n : Worked(t, bytes, i, f[i])
  BY <1>1, <1>2, FeedWorks
<1> DEFINE G == {i \in 0..n : Legible(f[i].line)}
<1>4. 0 \in G
  <2>1. f[0].line = line
    BY <1>2
  <2>. QED
    BY <1>1, <2>1
<1>5. ASSUME NEW i \in 1..n, i - 1 \in G PROVE i \in G
  <2> DEFINE p == f[i - 1]
             c == p.conn
             s == p.line
             b == bytes[i]
             more == i < n
  <2>1. f[i] = IF s.status # "open" THEN p ELSE ReadByte(c, s, b, more)
    BY <1>2
  <2>2. Legible(s) /\ c \in ConnState /\ b \in Bytes /\ p.line = s
    BY <1>1, <1>3, <1>5 DEF Worked
  <2> HIDE DEF p, c, s, b, more
  <2>3. Legible(ReadByte(c, s, b, more).line)
    BY <2>2, ReadByteLegible
  <2>4. Legible(f[i].line)
    BY <2>1, <2>2, <2>3
  <2>. QED
    BY <2>4
<1> HIDE DEF G
<1>6. \A i \in 0..n : i \in G
  BY <1>1, <1>4, <1>5, TurnByTurn
<1>7. Legible(f[n].line)
  BY <1>1, <1>6 DEF G
<1>. QED
  BY <1>2, <1>7

\* The terminal's lines are always made of bytes that were sent.
LEMMA TerminalLegible == TerminalSpec => []Legible(line)
<1>1. TerminalInit => Legible(line)
  <2> SUFFICES ASSUME TerminalInit PROVE Legible(line)
    OBVIOUS
  <2>1. line = LineOf(keyboard.prompts, << >>, 0, << >>, 0, FALSE, "open")
    BY DEF TerminalInit, Login, LineOf
  <2>2. IsLine(line) /\ line.buf = << >> /\ line.history = << >> /\ line.pos = 0
    BY <2>1 DEF IsLine, LineOf
  <2>3. << >> \in Streams /\ << >> \in Seq(Streams) /\ Len(<< >>) = 0 /\ 0 \in 0..0
    BY Literals
  <2>. QED
    BY <2>2, <2>3 DEF Legible
<1>2. TInv /\ Legible(line) /\ [TerminalNext]_terminalVars => Legible(line)'
  <2> SUFFICES ASSUME TInv, Legible(line), [TerminalNext]_terminalVars PROVE Legible(line')
    OBVIOUS
  <2>1. ASSUME NEW n \in 1..MaxSegment, NEW segment \in [1..n -> keyboard.keys], Arrive(segment)
        PROVE  Legible(line')
    <3>1. keyboard.keys \subseteq Bytes
      BY DEF TInv, Bytes
    <3>2. n \in Nat
      BY TerminalAssumption
    <3>3. segment \in [1..n -> Bytes]
      BY <3>1
    <3>4. segment \in Streams
      BY <3>2, <3>3 DEF Streams
    <3>5. Reading /\ line' = Feed(segment).line
      BY <2>1 DEF Arrive
    <3>6. sent \in Streams /\ conn \in ConnState /\ Taken(sent, conn)
      BY <3>5, WholeTaken DEF TInv, Reading
    <3>7. Legible(Feed(segment).line)
      BY <3>4, <3>6, FeedLegible
    <3>. QED
      BY <3>5, <3>7
  <2>2. CASE HangUp
    <3> DEFINE r == Return(conn, line)
    <3>1. line' = IF conn.phase = "data" /\ conn.got # << >> THEN r.line ELSE line
      BY <2>2 DEF HangUp
    <3>2. conn \in ConnState
      BY DEF TInv
    <3>3. conn.got # << >> => Legible(r.line)
      BY <3>2, ReturnLegible
    <3> HIDE DEF r
    <3>. QED
      BY <3>1, <3>3
  <2>3. CASE UNCHANGED terminalVars
    <3>1. line' = line
      BY <2>3 DEF terminalVars
    <3>. QED
      BY <3>1
  <2>. QED
    BY <2>1, <2>2, <2>3 DEF TerminalNext
<1>. QED
  BY <1>1, <1>2, TerminalListens, PTL DEF TerminalSpec

\* Whatever a client types and edits, a semicolon outside quotes separates the line in
\* progress: the parser finds the commands of the two parts in it, with their arguments and
\* redirections, and no others.
THEOREM TerminalPartsAreIndependent == TerminalSpec => []PartsAreIndependent
<1>1. ASSUME Legible(line) PROVE PartsAreIndependent
  <2> DEFINE b == line.buf
             l == Len(b)
             before(i) == SubSeq(b, 1, i - 1)
             after(i) == SubSeq(b, i + 1, l)
             tokens(i) == Tokenize(before(i))
             redirects(i) == /\ tokens(i) # << >>
                             /\ Last(tokens(i)) \in {Op(<<">">>), Op(<<">", ">">>), Op(<<"<">>)}
             Separate(i) == Commands(Parse(b)) = Commands(Parse(before(i))) \o Commands(Parse(after(i)))
  <2>1. b \in Streams
    BY <1>1 DEF Legible
  <2>2. /\ l \in Nat /\ DOMAIN b = 1..l /\ \A i \in 1..l : b[i] \in Chars
        /\ \A x \in Streams : x \in Texts
    <3>1. Bytes \subseteq Chars
      BY DEF Chars
    <3>2. l \in Nat /\ DOMAIN b = 1..l /\ \A i \in 1..l : b[i] \in Bytes
      BY <2>1 DEF Streams
    <3>3. \A x \in Streams : x \in Texts
      BY <3>1 DEF Streams, Texts
    <3>. QED
      BY <3>1, <3>2, <3>3
  <2>3. ASSUME NEW i \in 1..l, b[i] = Semicolon, Closed(before(i)), ~redirects(i)
        PROVE  Separate(i)
    <3> DEFINE s == before(i)
               a == after(i)
               n == i - 1
               m == l - i
    <3>1. n \in Nat /\ m \in Nat /\ i \in Nat /\ n + 1 = i /\ n + 1 + m = l
      BY <2>2
    <3>2. s \in Streams /\ Len(s) = n /\ \A k \in 1..n : b[k] = s[k]
      BY <2>1, <2>2 DEF Streams
    <3>3. a \in Streams /\ Len(a) = m /\ \A k \in 1..m : b[i + k] = a[k]
      BY <2>1, <2>2 DEF Streams
    <3>4. Semicolon \in Chars
      BY <2>2, <2>3
    <3>5. tokens(i) # << >> => tokens(i)[Len(tokens(i))] \notin {Op(r) : r \in Redirects}
      <4> DEFINE u == tokens(i)
      <4>1. ~(u # << >> /\ Last(u) \in {Op(<<">">>), Op(<<">", ">">>), Op(<<"<">>)})
        BY <2>3
      <4>2. {Op(r) : r \in Redirects} = {Op(<<">">>), Op(<<">", ">">>), Op(<<"<">>)}
        BY DEF Redirects
      <4> HIDE DEF u
      <4>3. Last(u) = u[Len(u)]
        BY DEF Last
      <4>4. u # << >> => u[Len(u)] \notin {Op(r) : r \in Redirects}
        BY <4>1, <4>2, <4>3
      <4>. QED
        BY <4>4 DEF u
    <3>6. Closed(s) /\ (Tokenize(s) # << >> => Tokenize(s)[Len(Tokenize(s))] \notin {Op(r) : r \in Redirects})
      BY <2>3, <3>5
    <3> HIDE DEF s, a, n, m, b, l
    <3>7. Parts(b, s, n, a, m)
      BY <2>3, <3>1, <3>2, <3>3 DEF Parts, l
    <3>8. s \in Texts /\ a \in Texts
      BY <2>2, <3>2, <3>3
    <3>9. Commands(Parse(b)) = Commands(Parse(s)) \o Commands(Parse(a))
      BY <3>1, <3>4, <3>6, <3>7, <3>8, CommandsOfParts
    <3>. QED
      BY <3>9 DEF s, a
  <2>4. PartsAreIndependent = \A i \in DOMAIN b :
          (b[i] = Semicolon /\ Closed(before(i)) /\ ~redirects(i)) => Separate(i)
    BY DEF PartsAreIndependent
  <2> HIDE DEF Separate, redirects, before, after, tokens, b, l
  <2>. QED
    BY <2>2, <2>3, <2>4
<1>. QED
  BY <1>1, TerminalLegible, PTL
=============================================================================
