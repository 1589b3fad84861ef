---------------------------- MODULE TelnetProofs ----------------------------
(***************************************************************************)
(* Proofs about Telnet for every number of connections and sources and     *)
(* every setting of the limits: the budget counts exactly the handlers     *)
(* that run, so one source alone never exhausts it.                        *)
(***************************************************************************)
EXTENDS Telnet, FiniteSetTheorems, TLAPS

Kinds == {"start", "auth", "login", "command", "end"}
Points == {"new", "start", "login", "shell", "end", "release", "closed", "gone"}

\* The types without the upper bounds of the counters, which follow from BudgetExact,
\* and with what makes them inductive: the loop of authenticate has rounds left.
Typed ==
  /\ total \in Nat /\ perIP \in [IPs -> Nat]
  /\ pc \in [Conns -> Points]
  /\ attempt \in [Conns -> 1..(MaxAuthAttempts + 1)]
  /\ log \in [Conns -> Seq(Kinds)]
  /\ late \subseteq Conns /\ panicked \subseteq Conns
  /\ cancelled \in BOOLEAN

RoundsLeft ==
  \A c \in Conns : pc[c] \in {"new", "start", "login"} => attempt[c] <= MaxAuthAttempts

\* No source holds more slots than its share.
WithinShare == MaxSessionsPerIP # 0 => \A ip \in IPs : perIP[ip] <= MaxSessionsPerIP

From(ip) == {c \in Holding : Ip[c] = ip}

\* The handlers that run are finitely many, in all and per source.
LEMMA HoldingFinite ==
  /\ IsFiniteSet(Holding)
  /\ \A ip \in IPs : IsFiniteSet(From(ip)) /\ IsFiniteSet(From(ip)')
  /\ IsFiniteSet(Holding')
<1>1. Holding \subseteq Conns /\ Holding' \subseteq Conns
  BY DEF Holding
<1>2. \A ip \in IPs : From(ip) \subseteq Conns /\ From(ip)' \subseteq Conns
  BY <1>1 DEF From
<1>. QED
  BY <1>1, <1>2, TelnetAssumption, FS_Subset DEF TelnetAssumption

\* A step that leaves the set of running handlers and the counters alone.
LEMMA BudgetStays ==
  ASSUME BudgetExact, Holding' = Holding, UNCHANGED limiterVars
  PROVE  BudgetExact'
  BY DEF BudgetExact, limiterVars

\* acquire: one more handler runs, and both counters go up by one (telnet server.go
\* acquire).
LEMMA BudgetTaken ==
  ASSUME Typed, BudgetExact, NEW c \in Conns, c \notin Holding,
         Holding' = Holding \cup {c}, Take(Ip[c])
  PROVE  BudgetExact'
<1>1. Ip[c] \in IPs
  BY TelnetAssumption DEF TelnetAssumption
<1>2. Cardinality(Holding') = Cardinality(Holding) + 1
  BY HoldingFinite, FS_AddElement
<1>3. total' = Cardinality(Holding')
  BY <1>2 DEF BudgetExact, Take
<1>4. ASSUME NEW ip \in IPs PROVE perIP'[ip] = Cardinality(From(ip)')
  <2>1. perIP[ip] = Cardinality(From(ip))
    BY DEF BudgetExact, From
  <2>2. CASE ip = Ip[c]
    <3>1. From(ip)' = From(ip) \cup {c} /\ c \notin From(ip)
      BY <2>2 DEF From
    <3>2. Cardinality(From(ip)') = Cardinality(From(ip)) + 1
      BY <3>1, HoldingFinite, FS_AddElement
    <3>3. perIP'[ip] = perIP[ip] + 1
      BY <1>1, <2>2 DEF Take, Typed
    <3>. QED
      BY <2>1, <3>2, <3>3
  <2>3. CASE ip # Ip[c]
    <3>1. From(ip)' = From(ip)
      BY <2>3 DEF From
    <3>2. perIP'[ip] = perIP[ip]
      BY <2>3 DEF Take, Typed
    <3>. QED
      BY <2>1, <3>1, <3>2
  <2>. QED
    BY <2>2, <2>3
<1>. QED
  BY <1>3, <1>4 DEF BudgetExact, From

\* release: the deferred call of one running handler lowers both counters by one,
\* and neither below zero.
LEMMA BudgetGiven ==
  ASSUME Typed, BudgetExact, NEW c \in Conns, c \in Holding,
         Holding' = Holding \ {c}, Give(Ip[c])
  PROVE  BudgetExact' /\ total' \in Nat /\ perIP' \in [IPs -> Nat]
<1>1. Ip[c] \in IPs
  BY TelnetAssumption DEF TelnetAssumption
<1>2. Cardinality(Holding') = Cardinality(Holding) - 1 /\ Cardinality(Holding') \in Nat
  BY HoldingFinite, FS_RemoveElement, FS_CardinalityType
<1>3. total' = Cardinality(Holding') /\ total' \in Nat
  BY <1>2 DEF BudgetExact, Give
<1>4. ASSUME NEW ip \in IPs
      PROVE  perIP'[ip] = Cardinality(From(ip)') /\ perIP'[ip] \in Nat
  <2>1. perIP[ip] = Cardinality(From(ip)) /\ perIP[ip] \in Nat
    BY DEF BudgetExact, From, Typed
  <2>2. CASE ip = Ip[c]
    <3>1. From(ip)' = From(ip) \ {c} /\ c \in From(ip)
      BY <2>2 DEF From
    <3>2. Cardinality(From(ip)') = Cardinality(From(ip)) - 1 /\ Cardinality(From(ip)') \in Nat
      BY <3>1, HoldingFinite, FS_RemoveElement, FS_CardinalityType
    <3>3. perIP'[ip] = perIP[ip] - 1
      BY <1>1, <2>2 DEF Give, Typed
    <3>. QED
      BY <2>1, <3>2, <3>3
  <2>3. CASE ip # Ip[c]
    <3>1. From(ip)' = From(ip)
      BY <2>3 DEF From
    <3>2. perIP'[ip] = perIP[ip]
      BY <2>3 DEF Give, Typed
    <3>. QED
      BY <2>1, <3>1, <3>2
  <2>. QED
    BY <2>2, <2>3
<1>5. perIP' \in [IPs -> Nat]
  <2>1. perIP' = [ip \in IPs |-> perIP'[ip]]
    BY DEF Give, Typed
  <2>. QED
    BY <1>4, <2>1
<1>. QED
  BY <1>3, <1>4, <1>5 DEF BudgetExact, From

\* The inductive invariant.
Budget == Typed /\ RoundsLeft /\ BudgetExact /\ WithinShare

\* A listener that has just started runs no handler.
LEMMA InitBudget == Init => Budget
<1> SUFFICES ASSUME Init PROVE Budget
  OBVIOUS
<1>1. Typed /\ RoundsLeft /\ WithinShare
  <2>1. MaxAuthAttempts \in Nat \ {0} /\ MaxSessionsPerIP \in Nat
    BY TelnetAssumption, LimiterAssumption DEF TelnetAssumption, LimiterAssumption
  <2>2. log \in [Conns -> Seq(Kinds)]
    BY DEF Init
  <2>3. pc \in [Conns -> Points] /\ total \in Nat /\ perIP \in [IPs -> Nat]
    BY DEF Init, LimiterInit, Points
  <2>4. attempt \in [Conns -> 1..(MaxAuthAttempts + 1)] /\ RoundsLeft
    BY <2>1 DEF Init, RoundsLeft
  <2>5. WithinShare
    BY <2>1 DEF Init, LimiterInit, WithinShare
  <2>. QED
    BY <2>2, <2>3, <2>4, <2>5 DEF Init, Typed
<1>2. Holding = {}
  BY DEF Init, Holding
<1>3. \A ip \in IPs : From(ip) = {}
  BY <1>2 DEF From
<1>4. Cardinality({}) = 0
  BY FS_EmptySet
<1>5. total = 0 /\ \A ip \in IPs : perIP[ip] = 0
  BY DEF Init, LimiterInit
<1>6. BudgetExact
  BY <1>2, <1>3, <1>4, <1>5 DEF BudgetExact, From
<1>. QED
  BY <1>1, <1>6 DEF Budget

\* One step of handle c that neither takes nor gives a slot: it moves between two
\* points of which both hold one or neither does, and may emit an event.
LEMMA HandlerMoves ==
  ASSUME Budget, NEW c \in Conns, NEW l \in Points, Goto(c, l),
         c \in Holding <=> l \in {"start", "login", "shell", "end", "release"},
         UNCHANGED limiterVars
  PROVE  Holding' = Holding /\ BudgetExact' /\ WithinShare' /\ pc' \in [Conns -> Points]
<1>1. pc \in [Conns -> Points]
  BY DEF Budget, Typed
<1>2. pc' \in [Conns -> Points] /\ pc'[c] = l /\ \A d \in Conns \ {c} : pc'[d] = pc[d]
  BY <1>1 DEF Goto
<1>3. Holding' = Holding
  BY <1>2 DEF Holding
<1>. QED
  BY <1>2, <1>3, BudgetStays DEF Budget, WithinShare, limiterVars

\* An event appended to a handler's transcript is of a known kind.
LEMMA EmitTyped ==
  ASSUME Typed, NEW c \in Conns, NEW e \in Kinds, Emit(c, e)
  PROVE  log' \in [Conns -> Seq(Kinds)]
<1>1. log[c] \in Seq(Kinds)
  BY DEF Typed
<1>2. Append(log[c], e) \in Seq(Kinds)
  BY <1>1
<1>. QED
  BY <1>2 DEF Emit, Typed

\* However a handler ends, and whatever the others do meanwhile, the invariant is kept.
LEMMA NextBudget ==
  ASSUME Budget, [Next]_vars
  PROVE  Budget'
<1> USE DEF Budget
<1>0. /\ total \in Nat /\ perIP \in [IPs -> Nat] /\ pc \in [Conns -> Points]
      /\ attempt \in [Conns -> 1..(MaxAuthAttempts + 1)] /\ log \in [Conns -> Seq(Kinds)]
      /\ MaxAuthAttempts \in Nat \ {0} /\ MaxSessionsPerIP \in Nat
      /\ \A c \in Conns : Ip[c] \in IPs
  BY TelnetAssumption, LimiterAssumption DEF TelnetAssumption, LimiterAssumption, Typed
<1>1. CASE UNCHANGED vars
  <2>1. Holding' = Holding /\ UNCHANGED limiterVars
    BY <1>1 DEF vars, Holding
  <2>. QED
    BY <1>1, <2>1, BudgetStays DEF vars, limiterVars, Typed, RoundsLeft, WithinShare
<1>2. ASSUME NEW c \in Conns, Accept(c) PROVE Budget'
  <2>1. pc[c] = "new" /\ Take(Ip[c]) /\ pc' = [pc EXCEPT ![c] = "start"]
        /\ UNCHANGED <<attempt, log, late, cancelled, panicked>>
    BY <1>2 DEF Accept, Goto
  <2>2. Holding' = Holding \cup {c} /\ c \notin Holding
    BY <1>0, <2>1 DEF Holding
  <2>3. BudgetExact'
    BY <2>1, <2>2, BudgetTaken
  <2>4. Typed' /\ RoundsLeft'
    BY <1>0, <2>1 DEF Typed, RoundsLeft, Take, Points
  <2>5. WithinShare'
    BY <1>0, <2>1 DEF WithinShare, Take, MayAcquire
  <2>. QED
    BY <2>3, <2>4, <2>5
<1>3. ASSUME NEW c \in Conns, Refuse(c) \/ Start(c) \/ LineFails(c) \/ ShellReturns(c)
             \/ End(c) \/ Panic(c)
      PROVE Budget'
  <2>1. PICK l \in Points :
          /\ Goto(c, l) /\ (l \in {"new", "start", "login"} => pc[c] = "start")
          /\ c \in Holding <=> l \in {"start", "login", "shell", "end", "release"}
    BY <1>3 DEF Refuse, Start, LineFails, ShellReturns, End, Panic, Points, Holding
  <2>2. UNCHANGED <<limiterVars, attempt, late, cancelled>> /\ panicked' \subseteq Conns
    BY <1>3 DEF Refuse, Start, LineFails, ShellReturns, End, Panic, Typed
  <2>3. log' \in [Conns -> Seq(Kinds)]
    <3>1. log' = log \/ \E e \in Kinds : Emit(c, e)
      BY <1>3 DEF Refuse, Start, LineFails, ShellReturns, End, Panic, Kinds
    <3>. QED
      BY <1>0, <3>1, EmitTyped
  <2>4. BudgetExact' /\ WithinShare' /\ pc' \in [Conns -> Points]
    BY <2>1, <2>2, HandlerMoves
  <2>5. Typed'
    BY <1>0, <2>2, <2>3, <2>4 DEF Typed, limiterVars
  <2>6. RoundsLeft'
    BY <1>0, <2>1, <2>2 DEF RoundsLeft, Goto
  <2>. QED
    BY <2>4, <2>5, <2>6
<1>4. ASSUME NEW c \in Conns, NEW granted \in BOOLEAN, Attempt(c, granted) PROVE Budget'
  <2>1. pc[c] = "login" /\ UNCHANGED <<limiterVars, late, cancelled, panicked>>
        /\ attempt' = [attempt EXCEPT ![c] = IF granted THEN @ ELSE @ + 1]
    BY <1>4 DEF Attempt
  <2>2. PICK l \in Points :
          Goto(c, l) /\ l \in {"login", "shell", "end"}
          /\ (l = "login" => ~granted /\ ~(attempt[c] >= MaxAuthAttempts))
    BY <1>4 DEF Attempt, Points
  <2>3. log' \in [Conns -> Seq(Kinds)]
    <3>1. PICK e \in Kinds : Emit(c, e)
      BY <1>4 DEF Attempt, Kinds
    <3>. QED
      BY <3>1, EmitTyped
  <2>4. BudgetExact' /\ WithinShare' /\ pc' \in [Conns -> Points]
    BY <2>1, <2>2, HandlerMoves DEF Holding
  <2>5. attempt[c] <= MaxAuthAttempts /\ attempt[c] \in 1..(MaxAuthAttempts + 1)
    BY <1>0, <2>1 DEF RoundsLeft
  <2>6. attempt' \in [Conns -> 1..(MaxAuthAttempts + 1)]
    <3>1. (IF granted THEN attempt[c] ELSE attempt[c] + 1) \in 1..(MaxAuthAttempts + 1)
      BY <1>0, <2>5
    <3>. QED
      BY <1>0, <2>1, <3>1
  <2>7. Typed'
    BY <2>1, <2>3, <2>4, <2>6 DEF Typed, limiterVars
  <2>8. RoundsLeft'
    BY <1>0, <2>1, <2>2, <2>5 DEF RoundsLeft, Goto
  <2>. QED
    BY <2>4, <2>7, <2>8
<1>5. ASSUME NEW c \in Conns, Command(c) PROVE Budget'
  <2>1. Emit(c, "command") /\ UNCHANGED <<limiterVars, pc, attempt, late, cancelled, panicked>>
    BY <1>5 DEF Command
  <2>2. log' \in [Conns -> Seq(Kinds)]
    BY <2>1, EmitTyped DEF Kinds
  <2>3. Holding' = Holding /\ BudgetExact'
    BY <2>1, BudgetStays DEF Holding
  <2>. QED
    BY <1>0, <2>1, <2>2, <2>3 DEF Typed, RoundsLeft, WithinShare, limiterVars
<1>6. ASSUME NEW c \in Conns, Release(c) PROVE Budget'
  <2>1. pc[c] = "release" /\ Give(Ip[c]) /\ pc' = [pc EXCEPT ![c] = "closed"]
        /\ UNCHANGED <<attempt, log, cancelled, panicked>> /\ late' \subseteq late
    BY <1>6 DEF Release, Goto
  <2>2. Holding' = Holding \ {c} /\ c \in Holding
    BY <1>0, <2>1 DEF Holding
  <2>3. BudgetExact' /\ total' \in Nat /\ perIP' \in [IPs -> Nat]
    BY <2>1, <2>2, BudgetGiven
  <2>4. Typed' /\ RoundsLeft'
    BY <1>0, <2>1, <2>3 DEF Typed, RoundsLeft, Points
  <2>5. WithinShare'
    BY <1>0, <2>1 DEF WithinShare, Give
  <2>. QED
    BY <2>3, <2>4, <2>5
<1>7. ASSUME NEW c \in Conns, Deadline(c) PROVE Budget'
  <2>1. UNCHANGED <<limiterVars, pc, attempt, log, cancelled, panicked>> /\ late' \subseteq Conns
    BY <1>7 DEF Deadline, Typed
  <2>2. Holding' = Holding /\ BudgetExact'
    BY <2>1, BudgetStays DEF Holding
  <2>. QED
    BY <1>0, <2>1, <2>2 DEF Typed, RoundsLeft, WithinShare, limiterVars
<1>8. CASE Shutdown
  <2>1. UNCHANGED <<limiterVars, pc, attempt, log, late, panicked>> /\ cancelled' \in BOOLEAN
    BY <1>8 DEF Shutdown
  <2>2. Holding' = Holding /\ BudgetExact'
    BY <2>1, BudgetStays DEF Holding
  <2>. QED
    BY <1>0, <2>1, <2>2 DEF Typed, RoundsLeft, WithinShare, limiterVars
<1>9. CASE Exit
  <2>1. /\ pc' = [c \in Conns |-> IF pc[c] = "closed" THEN "closed" ELSE "gone"]
        /\ total' = 0 /\ perIP' = [ip \in IPs |-> 0] /\ late' = {}
        /\ UNCHANGED <<attempt, log, cancelled, panicked>>
    BY <1>9 DEF Exit
  <2>2. Holding' = {}
    BY <2>1 DEF Holding
  <2>3. \A ip \in IPs : From(ip)' = {}
    BY <2>2 DEF From
  <2>4. BudgetExact'
    BY <2>1, <2>2, <2>3, FS_EmptySet DEF BudgetExact, From
  <2>. QED
    BY <1>0, <2>1, <2>4 DEF Typed, RoundsLeft, WithinShare, Points
<1>. QED
  BY <1>1, <1>2, <1>3, <1>4, <1>5, <1>6, <1>7, <1>8, <1>9 DEF Next

\* The invariant holds in every reachable state.
LEMMA TelnetBudget == Spec => []Budget
  BY InitBudget, NextBudget, PTL DEF Spec

\* The counters of the budget are exactly the handlers that run, however many
\* connections there are and however each ended (telnet/server.go:153, the deferred
\* release).
THEOREM TelnetBudgetExact == Spec => []BudgetExact
<1>1. Budget => BudgetExact
  BY DEF Budget
<1>. QED
  BY <1>1, TelnetBudget, PTL

\* The listener's state is well typed, and no counter exceeds the connections made.
THEOREM TelnetTyped == Spec => []TypeOK
<1>1. Budget => TypeOK
  <2> SUFFICES ASSUME Budget PROVE TypeOK
    OBVIOUS
  <2>1. IsFiniteSet(Conns) /\ Cardinality(Conns) \in Nat
    BY TelnetAssumption, FS_CardinalityType DEF TelnetAssumption
  <2>2. ASSUME NEW H \in SUBSET Conns PROVE Cardinality(H) \in 0..Cardinality(Conns)
    <3>1. Cardinality(H) \in Nat /\ Cardinality(H) <= Cardinality(Conns)
      BY <2>1, FS_Subset, FS_CardinalityType
    <3>. QED
      BY <2>1, <3>1
  <2>3. total \in 0..Cardinality(Conns)
    BY <2>2 DEF Budget, BudgetExact, Holding
  <2>4. ASSUME NEW ip \in IPs PROVE perIP[ip] \in 0..Cardinality(Conns)
    <3>1. From(ip) \subseteq Conns /\ perIP[ip] = Cardinality(From(ip))
      BY DEF Budget, BudgetExact, From, Holding
    <3>. QED
      BY <2>2, <3>1
  <2>5. perIP \in [IPs -> 0..Cardinality(Conns)]
    BY <2>4 DEF Budget, Typed
  <2>. QED
    BY <2>3, <2>5 DEF Budget, Typed, TypeOK, Kinds, Points
<1>. QED
  BY <1>1, TelnetBudget, PTL

\* sshd/server.go:419: a source that fills its own share leaves slots for the others,
\* because the slots it holds are all there are in use and it holds at most its share.
THEOREM TelnetNotCrowdedOut == Spec => []NotCrowdedOut
<1>1. Budget => NotCrowdedOut
  <2> SUFFICES ASSUME Budget, MaxSessionsPerIP # 0, MaxSessionsPerIP < MaxSessions,
                      NEW ip \in IPs, \A c \in Holding : Ip[c] # ip,
                      NEW jp \in IPs, \A c \in Holding : Ip[c] = jp
               PROVE  MayAcquire(ip)
    BY DEF NotCrowdedOut
  <2>1. MaxSessions \in Nat /\ MaxSessionsPerIP \in Nat
    BY LimiterAssumption DEF LimiterAssumption
  <2>2. From(ip) = {} /\ From(jp) = Holding
    BY DEF From
  <2>3. perIP[ip] = 0
    BY <2>2, FS_EmptySet DEF Budget, BudgetExact, From
  <2>4. total = perIP[jp] /\ perIP[jp] <= MaxSessionsPerIP /\ perIP[jp] \in Nat
    BY <2>2 DEF Budget, BudgetExact, From, WithinShare, Typed
  <2>. QED
    BY <2>1, <2>3, <2>4 DEF MayAcquire
<1>. QED
  BY <1>1, TelnetBudget, PTL
-----------------------------------------------------------------------------
(* The transcripts *)

OffersIn(h) == {i \in DOMAIN h : h[i] \in {"auth", "login"}}

\* What handler c has emitted at each point of handle.
Script(c) ==
  LET h == log[c] IN
  /\ Whole(h)
  /\ pc[c] \in {"new", "start"} => h = << >> /\ attempt[c] = 1
  /\ pc[c] \in {"login", "shell", "end"} => h # << >> /\ \A i \in DOMAIN h : h[i] # "end"
  /\ pc[c] = "login" => /\ Cardinality(OffersIn(h)) = attempt[c] - 1
                        /\ \A i \in DOMAIN h : h[i] # "login"
  /\ pc[c] = "shell" => \E i \in DOMAIN h : h[i] = "login"
  /\ pc[c] \in {"release", "closed"} /\ h # << >> /\ c \notin panicked
       => h[Len(h)] = "end"

Scripted == \A c \in Conns : Script(c)

\* An event of the right kind keeps a transcript whole.
LEMMA WholeAppend ==
  ASSUME NEW h \in Seq(Kinds), Whole(h), NEW e \in Kinds \ {"start"}, h # << >>,
         \A i \in DOMAIN h : h[i] # "end",
         (\A i \in DOMAIN h : h[i] # "login") \/ e \in {"command", "end"},
         e = "command" => \E i \in DOMAIN h : h[i] = "login",
         e \in {"auth", "login"} => Cardinality(OffersIn(h)) + 1 <= MaxAuthAttempts
  PROVE  /\ Whole(Append(h, e))
         /\ e \in {"auth", "login"} =>
              Cardinality(OffersIn(Append(h, e))) = Cardinality(OffersIn(h)) + 1
<1>. DEFINE t == Append(h, e)
            n == Len(h)
<1>1. /\ n \in Nat /\ DOMAIN h = 1..n /\ DOMAIN t = 1..(n + 1)
      /\ t[n + 1] = e /\ \A i \in 1..n : t[i] = h[i]
      /\ t # << >> /\ n # 0
  OBVIOUS
<1>. HIDE DEF t, n
<1>2. t[1] = "start" /\ \A i \in DOMAIN t : t[i] = "start" => i = 1
  BY <1>1 DEF Whole
<1>3. IsFiniteSet(OffersIn(h))
  <2>1. OffersIn(h) \subseteq 1..n /\ IsFiniteSet(1..n)
    BY <1>1, FS_Interval DEF OffersIn
  <2>. QED
    BY <2>1, FS_Subset
<1>4. n + 1 \notin OffersIn(h)
  BY <1>1 DEF OffersIn
<1>5. OffersIn(t) = IF e \in {"auth", "login"} THEN OffersIn(h) \cup {n + 1} ELSE OffersIn(h)
  BY <1>1 DEF OffersIn
<1>6. e \in {"auth", "login"} => Cardinality(OffersIn(t)) = Cardinality(OffersIn(h)) + 1
  BY <1>3, <1>4, <1>5, FS_AddElement
<1>7. Cardinality(OffersIn(t)) <= MaxAuthAttempts
  <2>1. Cardinality(OffersIn(h)) <= MaxAuthAttempts
    BY DEF Whole, OffersIn
  <2>. QED
    BY <1>5, <1>6, <2>1
<1>8. ASSUME NEW i \in DOMAIN t, NEW j \in DOMAIN t, i < j
      PROVE  /\ t[i] # "end"
             /\ t[i] = "login" => t[j] \in {"command", "end"}
  <2>1. i \in 1..n /\ t[i] = h[i]
    BY <1>1, <1>8
  <2>2. CASE j \in 1..n
    <3>1. /\ h[i] # "end"
          /\ h[i] = "login" => h[j] \in {"command", "end"}
      BY <1>1, <1>8, <2>1, <2>2 DEF Whole
    <3>. QED
      BY <1>1, <2>1, <2>2, <3>1
  <2>3. CASE j = n + 1
    BY <1>1, <2>1, <2>3
  <2>. QED
    BY <1>1, <2>2, <2>3
<1>10. ASSUME NEW j \in DOMAIN t, t[j] = "command"
       PROVE  \E i \in 1..(j - 1) : t[i] = "login"
  <2>1. CASE j \in 1..n
    <3>1. PICK i \in 1..(j - 1) : h[i] = "login"
      BY <1>1, <1>10, <2>1 DEF Whole
    <3>2. i \in 1..n
      BY <1>1, <2>1
    <3>. QED
      BY <1>1, <3>1, <3>2
  <2>2. CASE j = n + 1
    <3>1. PICK i \in 1..n : h[i] = "login"
      BY <1>1, <1>10, <2>2
    <3>2. i \in 1..(j - 1)
      BY <1>1, <2>2
    <3>. QED
      BY <1>1, <3>1, <3>2
  <2>. QED
    BY <1>1, <2>1, <2>2
<1>9. Whole(t)
  BY <1>1, <1>2, <1>7, <1>8, <1>10 DEF Whole, OffersIn
<1>. QED
  BY <1>6, <1>9 DEF t

\* A handler that does not move keeps its script, whatever the others do.
LEMMA ScriptStays ==
  ASSUME NEW c \in Conns, Script(c), log'[c] = log[c], pc'[c] = pc[c],
         attempt'[c] = attempt[c], c \in panicked => c \in panicked'
  PROVE  Script(c)'
  BY DEF Script

\* Every event a handler emits continues its transcript (telnet/server.go handle,
\* authenticate).
LEMMA NextScripted ==
  ASSUME Budget, Scripted, [Next]_vars
  PROVE  Scripted'
<1>0. /\ pc \in [Conns -> Points] /\ log \in [Conns -> Seq(Kinds)]
      /\ attempt \in [Conns -> 1..(MaxAuthAttempts + 1)] /\ MaxAuthAttempts \in Nat \ {0}
  BY TelnetAssumption DEF TelnetAssumption, Budget, Typed
<1>1. CASE UNCHANGED vars
  BY <1>1 DEF vars, Scripted, Script
<1>2. CASE Shutdown
  BY <1>2 DEF Shutdown, Scripted, Script
<1>3. CASE Exit
  <2>1. UNCHANGED <<log, attempt, panicked>>
        /\ \A c \in Conns : pc'[c] = IF pc[c] = "closed" THEN "closed" ELSE "gone"
    BY <1>3 DEF Exit
  <2>. QED
    BY <2>1 DEF Scripted, Script
<1>4. ASSUME NEW c \in Conns,
             \/ Accept(c) \/ Refuse(c) \/ Start(c) \/ LineFails(c)
             \/ \E granted \in BOOLEAN : Attempt(c, granted)
             \/ Command(c) \/ ShellReturns(c) \/ End(c) \/ Panic(c) \/ Release(c)
             \/ Deadline(c)
      PROVE  Scripted'
  <2>. DEFINE h == log[c]
  <2>0. Script(c) /\ h \in Seq(Kinds)
    BY <1>0 DEF Scripted
  <2>1. \A d \in Conns \ {c} : /\ log'[d] = log[d] /\ pc'[d] = pc[d]
                               /\ attempt'[d] = attempt[d]
    BY <1>0, <1>4 DEF Accept, Refuse, Start, LineFails, Attempt, Command, ShellReturns, End,
                      Panic, Release, Deadline, Goto, Emit
  <2>2. panicked \subseteq panicked'
    BY <1>4 DEF Accept, Refuse, Start, LineFails, Attempt, Command, ShellReturns, End,
                Panic, Release, Deadline
  <2>3. \A d \in Conns \ {c} : Script(d)'
    BY <2>1, <2>2, ScriptStays DEF Scripted
  <2>4. CASE Accept(c) \/ Refuse(c) \/ LineFails(c) \/ ShellReturns(c) \/ Panic(c)
             \/ Release(c) \/ Deadline(c)
    <3>1. log' = log /\ attempt' = attempt
      BY <2>4 DEF Accept, Refuse, LineFails, ShellReturns, Panic, Release, Deadline
    <3>2. \/ pc[c] = "new" /\ pc'[c] \in {"start", "closed"}
          \/ pc[c] \in {"login", "shell"} /\ pc'[c] = "end"
          \/ pc'[c] = "release" /\ c \in panicked'
          \/ pc[c] = "release" /\ pc'[c] = "closed"
          \/ pc'[c] = pc[c]
      BY <1>0, <2>4 DEF Accept, Refuse, LineFails, ShellReturns, Panic, Release, Deadline, Goto
    <3>3. Script(c)'
      BY <2>0, <2>2, <3>1, <3>2 DEF Script
    <3>. QED
      BY <2>3, <3>3 DEF Scripted
  <2>5. CASE Start(c)
    <3>1. /\ h = << >> /\ log'[c] = Append(h, "start") /\ pc'[c] = "login"
          /\ attempt'[c] = attempt[c] /\ pc[c] = "start"
      BY <1>0, <2>0, <2>5 DEF Start, Goto, Emit, Script
    <3>2. log'[c] = <<"start">>
      BY <3>1
    <3>3. DOMAIN <<"start">> = 1..1 /\ <<"start">>[1] = "start" /\ <<"start">> # << >>
      OBVIOUS
    <3>4. OffersIn(<<"start">>) = {}
      BY <3>3 DEF OffersIn
    <3>5. Cardinality(OffersIn(<<"start">>)) = 0
      BY <3>4, FS_EmptySet
    <3>6. Whole(<<"start">>)
      BY <1>0, <3>3, <3>5 DEF Whole, OffersIn
    <3>7. attempt[c] = 1
      BY <2>0, <3>1 DEF Script
    <3>8. Script(c)'
      BY <3>1, <3>2, <3>3, <3>5, <3>6, <3>7 DEF Script
    <3>. QED
      BY <2>3, <3>8 DEF Scripted
  <2>6. ASSUME NEW granted \in BOOLEAN, Attempt(c, granted) PROVE Scripted'
    <3>. DEFINE e == IF granted THEN "login" ELSE "auth"
                t == Append(h, e)
    <3>1. /\ pc[c] = "login" /\ log'[c] = t
          /\ attempt'[c] = IF granted THEN attempt[c] ELSE attempt[c] + 1
          /\ pc'[c] = IF granted THEN "shell"
                      ELSE IF attempt[c] >= MaxAuthAttempts THEN "end" ELSE "login"
      BY <1>0, <2>6 DEF Attempt, Goto, Emit
    <3>2. /\ Whole(h) /\ h # << >> /\ \A i \in DOMAIN h : h[i] \notin {"end", "login"}
          /\ Cardinality(OffersIn(h)) = attempt[c] - 1
          /\ attempt[c] <= MaxAuthAttempts /\ attempt[c] \in Nat
      BY <1>0, <2>0, <3>1 DEF Script, Budget, RoundsLeft
    <3>3. Whole(t) /\ Cardinality(OffersIn(t)) = attempt[c]
      <4>1. e \in Kinds \ {"start"} /\ e \in {"auth", "login"} /\ e # "command"
        BY DEF Kinds
      <4>2. Cardinality(OffersIn(h)) + 1 <= MaxAuthAttempts
        BY <1>0, <3>2
      <4>. HIDE DEF e
      <4>. QED
        BY <2>0, <3>2, <4>1, <4>2, WholeAppend
    <3>4. /\ DOMAIN t = 1..(Len(h) + 1) /\ Len(h) \in Nat /\ DOMAIN h = 1..Len(h)
          /\ t[Len(h) + 1] = e /\ \A i \in 1..Len(h) : t[i] = h[i]
          /\ t # << >>
      BY <2>0
    <3>5. /\ \A i \in DOMAIN t : t[i] # "end"
          /\ granted => \E i \in DOMAIN t : t[i] = "login"
          /\ ~granted => \A i \in DOMAIN t : t[i] # "login"
      <4>1. IF granted THEN e = "login" ELSE e = "auth"
        OBVIOUS
      <4>. HIDE DEF e, t
      <4>2. \A i \in DOMAIN t : i \in DOMAIN h \/ i = Len(h) + 1
        BY <3>4
      <4>3. Len(h) + 1 \in DOMAIN t
        BY <3>4
      <4>. HIDE DEF h
      <4>4. \A i \in DOMAIN t : t[i] = e \/ t[i] \notin {"end", "login"}
        BY <3>2, <3>4, <4>2
      <4>. QED
        BY <3>4, <4>1, <4>3, <4>4
    <3>6. Script(c)'
      BY <1>0, <3>1, <3>2, <3>3, <3>4, <3>5 DEF Script
    <3>. QED
      BY <2>3, <3>6 DEF Scripted
  <2>7. CASE Command(c) \/ End(c)
    <3>1. PICK e \in {"command", "end"} :
            /\ log'[c] = Append(h, e) /\ attempt'[c] = attempt[c]
            /\ e = "command" => pc[c] = "shell" /\ pc'[c] = "shell"
            /\ e = "end" => pc[c] = "end" /\ pc'[c] = "release"
      BY <1>0, <2>7 DEF Command, End, Goto, Emit
    <3>2. /\ Whole(h) /\ h # << >> /\ \A i \in DOMAIN h : h[i] # "end"
          /\ e = "command" => \E i \in DOMAIN h : h[i] = "login"
      BY <2>0, <3>1 DEF Script
    <3>. DEFINE t == Append(h, e)
    <3>3. Whole(t)
      BY <2>0, <3>2, WholeAppend DEF Kinds
    <3>4. /\ DOMAIN t = 1..(Len(h) + 1) /\ Len(h) \in Nat /\ DOMAIN h = 1..Len(h)
          /\ t[Len(h) + 1] = e /\ \A i \in 1..Len(h) : t[i] = h[i]
          /\ t # << >> /\ Len(t) = Len(h) + 1
      BY <2>0
    <3>5. /\ e = "command" => /\ \A i \in DOMAIN t : t[i] # "end"
                              /\ \E i \in DOMAIN t : t[i] = "login"
          /\ e = "end" => t[Len(t)] = "end"
      BY <3>2, <3>4
    <3>6. Script(c)'
      BY <3>1, <3>3, <3>4, <3>5 DEF Script
    <3>. QED
      BY <2>3, <3>6 DEF Scripted
  <2>. QED
    BY <1>4, <2>4, <2>5, <2>6, <2>7
<1>. QED
  BY <1>1, <1>2, <1>3, <1>4 DEF Next

\* Every transcript is a start, offers of which only the last can succeed and no more
\* than MaxAuthAttempts, commands only after the one that did, and one end, which is there unless
\* the handler panicked (telnet/server.go handle, authenticate).
THEOREM TelnetTranscriptsWhole == Spec => []TranscriptsWhole
<1>1. Init => Scripted
  <2>. SUFFICES ASSUME Init PROVE Scripted
    OBVIOUS
  <2>1. OffersIn(<< >>) = {} /\ DOMAIN << >> = {}
    BY DEF OffersIn
  <2>2. Whole(<< >>)
    BY <2>1, FS_EmptySet, TelnetAssumption DEF Whole, OffersIn, TelnetAssumption
  <2>. QED
    BY <2>2 DEF Init, Scripted, Script
<1>2. Budget /\ Scripted /\ [Next]_vars => Scripted'
  BY NextScripted
<1>3. Scripted => TranscriptsWhole
  BY DEF Scripted, Script, TranscriptsWhole
<1>. QED
  BY <1>1, <1>2, <1>3, TelnetBudget, PTL DEF Spec
=============================================================================
