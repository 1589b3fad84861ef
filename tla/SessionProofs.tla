--------------------------- MODULE SessionProofs ---------------------------
(***************************************************************************)
(* Proofs about the sessions that the SSH and the HTTP listener record.    *)
(*                                                                         *)
(* SshSession, for every number of channels, credentials and commands and  *)
(* every setting of the limits: one start and one end however the          *)
(* goroutines interleave, the summary never counts a command that was not  *)
(* run, and a reason noted in time is not replaced by the default.         *)
(*                                                                         *)
(* WebSessions, further down: every session is in one place, and its end   *)
(* is the last of it while the node runs.                                  *)
(***************************************************************************)
EXTENDS SshSession, WebSessions, FiniteSetTheorems, TLAPS

Unusual == {"limit_exceeded", "protocol_error"}
EventType == [kind : {"start", "auth", "anomaly", "command", "end"},
              reason : {"none", "client_closed"} \cup Unusual,
              commands : Nat]

Places == {"new", "acquire", "refused", "run", "count", "record", "release", "gone"}

Typed ==
  /\ auth \in {"idle", "create", "start", "attempt", "granted"}
  /\ recorder \in BOOLEAN /\ fired \in BOOLEAN
  /\ endReason \in {"none"} \cup Unusual
  /\ hook \in {"armed", "look", "reason", "count", "emit", "done"}
  /\ ending \in EventType /\ ending.kind = "end"
  /\ chan \in [Channels -> Places]
  /\ read \in [Channels -> Nat] /\ ran \in [Channels -> 0..MaxCommands]
  /\ commandCount \in Nat
  /\ log \in Seq(EventType)

\* The start is emitted once, right after the one recorder was created; the hook runs
\* once, because closeOnce does.
OneOfEach ==
  /\ auth \in {"create", "start"} => recorder = (auth = "start")
  /\ ~recorder => auth \in {"idle", "create"}
  /\ Count("start") = IF recorder /\ auth # "start" THEN 1 ELSE 0
  /\ fired = (hook # "armed")
  /\ hook # "done" => Count("end") = 0
  /\ Count("end") <= 1

\* The channels between the count of a command and its event.
InHand == {c \in Channels : chan[c] \in {"count", "record"}}

\* Every command run has its event or is in hand, and whatever the counter holds, or
\* is about to hold, some command accounts for.
CommandsCounted ==
  /\ IsFiniteSet(Commands) /\ IsFiniteSet(InHand)
  /\ Cardinality(Commands) = Count("command") + Cardinality(InHand)
  /\ commandCount <= Cardinality(Commands)
  /\ \A c \in Channels : chan[c] = "count" => read[c] < Cardinality(Commands)
  /\ ending.commands <= Cardinality(Commands)
  /\ \A e \in Ended : e.commands <= Cardinality(Commands)

IInv == Typed /\ OneOfEach /\ CommandsCounted
-----------------------------------------------------------------------------
(* The event log *)

\* Finitely many events of each kind have been emitted.
LEMMA CountType ==
  ASSUME Typed, NEW k
  PROVE  /\ IsFiniteSet({i \in DOMAIN log : log[i].kind = k})
         /\ Count(k) \in Nat
<1>1. DOMAIN log = 1..Len(log) /\ Len(log) \in Nat
  BY DEF Typed
<1>2. IsFiniteSet(1..Len(log))
  BY <1>1, FS_Interval
<1>3. IsFiniteSet({i \in DOMAIN log : log[i].kind = k})
  BY <1>1, <1>2, FS_Subset
<1>. QED
  BY <1>3, FS_CardinalityType DEF Count

\* Emitting an event makes one more of its kind, and it is the session's summary if it
\* is an end (session recorder.go emit).
LEMMA EmitEffect ==
  ASSUME Typed, NEW e \in EventType, Emit(e)
  PROVE  /\ log' \in Seq(EventType)
         /\ \A k : Count(k)' = IF e.kind = k THEN Count(k) + 1 ELSE Count(k)
         /\ Ended' = IF e.kind = "end" THEN Ended \cup {e} ELSE Ended
<1>1. /\ log \in Seq(EventType) /\ Len(log) \in Nat
      /\ log' = Append(log, e)
  BY DEF Typed, Emit
<1>2. /\ log' \in Seq(EventType)
      /\ DOMAIN log = 1..Len(log)
      /\ DOMAIN log' = 1..(Len(log) + 1)
      /\ log'[Len(log) + 1] = e
      /\ \A i \in DOMAIN log : log'[i] = log[i]
  BY <1>1
<1>3. DOMAIN log' = DOMAIN log \cup {Len(log) + 1} /\ Len(log) + 1 \notin DOMAIN log
  BY <1>1, <1>2
<1>4. ASSUME NEW k PROVE Count(k)' = IF e.kind = k THEN Count(k) + 1 ELSE Count(k)
  <2>. DEFINE S == {i \in DOMAIN log : log[i].kind = k}
  <2>1. IsFiniteSet(S)
    BY CountType
  <2>2. S' = IF e.kind = k THEN S \cup {Len(log) + 1} ELSE S
    BY <1>2, <1>3
  <2>3. Len(log) + 1 \notin S
    BY <1>3
  <2>. QED
    BY <2>1, <2>2, <2>3, FS_AddElement DEF Count
<1>5. Ended' = IF e.kind = "end" THEN Ended \cup {e} ELSE Ended
  <2>. DEFINE S == {j \in DOMAIN log : log[j].kind = "end"}
  <2>1. S' = IF e.kind = "end" THEN S \cup {Len(log) + 1} ELSE S
    BY <1>2, <1>3
  <2>2. \A i \in S : log'[i] = log[i]
    BY <1>2
  <2>3. Ended = {log[i] : i \in S} /\ Ended' = {log'[i] : i \in S'}
    BY DEF Ended
  <2>. HIDE DEF S
  <2>. QED
    BY <1>2, <2>1, <2>2, <2>3
<1>. QED
  BY <1>2, <1>4, <1>5

\* A step that emits nothing.
LEMMA QuietEffect ==
  ASSUME UNCHANGED log
  PROVE  (\A k : Count(k)' = Count(k)) /\ Ended' = Ended
  BY DEF Count, Ended

\* The events the goroutines emit are events.
LEMMA EventTypes ==
  /\ \A k \in {"start", "auth", "anomaly", "command"} : Ev(k) \in EventType /\ Ev(k).kind = k
  /\ Ev("end") \in EventType /\ Ev("end").kind = "end" /\ Ev("end").commands = 0
  BY DEF Ev, EventType

\* The summary as finishSession and SessionEnd fill it in.
LEMMA EndingFilled ==
  ASSUME Typed
  PROVE  /\ FinishReads => /\ ending' \in EventType /\ ending'.kind = "end"
                           /\ ending'.commands = ending.commands
                           /\ endReason # "none" => ending'.reason = endReason
         /\ FinishCounts => /\ ending' \in EventType /\ ending'.kind = "end"
                            /\ ending'.commands = commandCount
                            /\ ending'.reason = ending.reason
<1> DEFINE r == IF endReason = "none" THEN "client_closed" ELSE endReason
<1>1. r \in {"none", "client_closed"} \cup Unusual
  BY DEF Typed
<1>2. FinishReads => ending' = [ending EXCEPT !.reason = r]
  BY DEF FinishReads
<1>3. endReason # "none" => r = endReason
  OBVIOUS
<1> HIDE DEF r
<1>4. FinishReads => /\ ending' \in EventType /\ ending'.kind = "end"
                     /\ ending'.commands = ending.commands
                     /\ endReason # "none" => ending'.reason = endReason
  BY <1>1, <1>2, <1>3 DEF Typed, EventType
<1>5. FinishCounts => /\ ending' \in EventType /\ ending'.kind = "end"
                      /\ ending'.commands = commandCount /\ ending'.reason = ending.reason
  BY DEF Typed, EventType, FinishCounts
<1>. QED
  BY <1>4, <1>5
-----------------------------------------------------------------------------
\* Every step of every goroutine keeps the types.
LEMMA TypedStep ==
  ASSUME Typed, Next
  PROVE  Typed'
<1>1. CASE Offer
  BY <1>1 DEF Typed, Offer, counters
<1>2. CASE CreateRecorder
  BY <1>2 DEF Typed, CreateRecorder, counters
<1>3. CASE EmitStart
  <2>1. log' \in Seq(EventType)
    BY <1>3, EventTypes, EmitEffect DEF EmitStart
  <2>. QED
    BY <1>3, <2>1 DEF Typed, EmitStart, counters
<1>4. ASSUME NEW granted \in BOOLEAN, RecordAttempt(granted) PROVE Typed'
  <2>1. log' \in Seq(EventType)
    BY <1>4, EventTypes, EmitEffect DEF RecordAttempt
  <2>. QED
    BY <1>4, <2>1 DEF Typed, RecordAttempt
<1>5. ASSUME NEW c \in Channels, ChannelStep(c) PROVE Typed'
  <2>1. CASE OpenChannel(c)
    BY <2>1 DEF Typed, Places, OpenChannel, counters
  <2>2. CASE RefuseSftp(c)
    <3>1. log' \in Seq(EventType)
      BY <2>2, EventTypes, EmitEffect DEF RefuseSftp
    <3>. QED
      BY <2>2, <3>1 DEF Typed, Places, RefuseSftp, counters
  <2>3. CASE AcquireSlot(c)
    BY <2>3 DEF Typed, Places, AcquireSlot, counters
  <2>4. CASE RefuseSlot(c)
    <3>1. log' \in Seq(EventType)
      BY <2>4, EventTypes, EmitEffect DEF RefuseSlot
    <3>. QED
      BY <2>4, <3>1 DEF Typed, Places, RefuseSlot, counters
  <2>5. CASE CommandReads(c)
    <3>1. ran[c] + 1 \in 0..MaxCommands
      BY <2>5, SshAssumption DEF Typed, CommandReads, SshAssumption
    <3>. QED
      BY <2>5, <3>1 DEF Typed, Places, CommandReads, counters
  <2>6. CASE CommandWrites(c)
    BY <2>6 DEF Typed, Places, CommandWrites
  <2>7. CASE CommandEmits(c)
    <3>1. log' \in Seq(EventType)
      BY <2>7, EventTypes, EmitEffect DEF CommandEmits
    <3>. QED
      BY <2>7, <3>1 DEF Typed, Places, CommandEmits, counters
  <2>8. CASE ReleaseSlot(c)
    BY <2>8 DEF Typed, Places, ReleaseSlot, counters
  <2>9. ASSUME NEW why \in {"clean", "limit_exceeded", "protocol_error"}, ShellReturns(c, why)
        PROVE  Typed'
    BY <2>9 DEF Typed, Places, ShellReturns, counters, Unusual
  <2>10. CASE NoteLimit(c)
    BY <2>10 DEF Typed, Places, NoteLimit, counters, Unusual
  <2>. QED
    BY <1>5, <2>1, <2>2, <2>3, <2>4, <2>5, <2>6, <2>7, <2>8, <2>9, <2>10 DEF ChannelStep
<1>6. ASSUME NEW by \in Closers, Close(by) PROVE Typed'
  BY <1>6 DEF Typed, Close, counters
<1>7. CASE FinishLooks
  BY <1>7 DEF Typed, FinishLooks, counters
<1>8. CASE FinishReads
  BY <1>8, EndingFilled DEF Typed, FinishReads, counters
<1>9. CASE FinishCounts
  BY <1>9, EndingFilled DEF Typed, FinishCounts, counters
<1>10. CASE FinishEmits
  <2>1. log' \in Seq(EventType)
    BY <1>10, EmitEffect DEF FinishEmits, Typed
  <2>. QED
    BY <1>10, <2>1 DEF Typed, FinishEmits, counters
<1>. QED
  BY <1>1, <1>2, <1>3, <1>4, <1>5, <1>6, <1>7, <1>8, <1>9, <1>10 DEF Next
-----------------------------------------------------------------------------
(* One start and one end *)

\* A channel leaves the handshake and the closing alone, and emits at most one event,
\* neither a start nor an end (sshd/server.go handleSession).
LEMMA ChannelLeaves ==
  ASSUME Typed, NEW c \in Channels, ChannelStep(c)
  PROVE  /\ UNCHANGED <<auth, recorder, fired, hook, ending>>
         /\ Count("start")' = Count("start") /\ Count("end")' = Count("end")
         /\ Ended' = Ended
<1>1. CASE RefuseSftp(c) \/ RefuseSlot(c) \/ CommandEmits(c)
  <2>1. PICK k \in {"anomaly", "command"} : Emit(Ev(k))
    BY <1>1 DEF RefuseSftp, RefuseSlot, CommandEmits
  <2>2. Ev(k) \in EventType /\ Ev(k).kind = k
    BY EventTypes
  <2>3. Count("start")' = Count("start") /\ Count("end")' = Count("end") /\ Ended' = Ended
    BY <2>1, <2>2, EmitEffect
  <2>. QED
    BY <1>1, <2>3 DEF RefuseSftp, RefuseSlot, CommandEmits
<1>2. CASE OpenChannel(c) \/ AcquireSlot(c) \/ CommandReads(c) \/ CommandWrites(c)
           \/ ReleaseSlot(c) \/ NoteLimit(c)
           \/ \E why \in {"clean", "limit_exceeded", "protocol_error"} : ShellReturns(c, why)
  <2>1. UNCHANGED <<auth, recorder, fired, hook, ending, log>>
    BY <1>2 DEF OpenChannel, AcquireSlot, CommandReads, CommandWrites, ReleaseSlot,
                NoteLimit, ShellReturns
  <2>. QED
    BY <2>1, QuietEffect
<1>. QED
  BY <1>1, <1>2 DEF ChannelStep

\* recorderFor creates the recorder once, closeOnce runs finishSession once.
LEMMA OneOfEachStep ==
  ASSUME Typed, OneOfEach, Next
  PROVE  OneOfEach'
<1>0. Count("start") \in Nat /\ Count("end") \in Nat
  BY CountType
<1>1. CASE Offer
  <2>1. \A k : Count(k)' = Count(k)
    BY <1>1, QuietEffect DEF Offer
  <2>. QED
    BY <1>1, <2>1 DEF Typed, OneOfEach, Offer
<1>2. CASE CreateRecorder
  <2>1. \A k : Count(k)' = Count(k)
    BY <1>2, QuietEffect DEF CreateRecorder
  <2>. QED
    BY <1>2, <2>1 DEF Typed, OneOfEach, CreateRecorder
<1>3. CASE EmitStart
  <2>1. Count("start")' = Count("start") + 1 /\ Count("end")' = Count("end")
    BY <1>3, EventTypes, EmitEffect DEF EmitStart
  <2>2. recorder /\ Count("start") = 0
    BY <1>3 DEF OneOfEach, EmitStart
  <2>. QED
    BY <1>3, <2>1, <2>2 DEF Typed, OneOfEach, EmitStart
<1>4. ASSUME NEW granted \in BOOLEAN, RecordAttempt(granted) PROVE OneOfEach'
  <2>1. Count("start")' = Count("start") /\ Count("end")' = Count("end")
    BY <1>4, EventTypes, EmitEffect DEF RecordAttempt
  <2>2. recorder
    BY <1>4 DEF OneOfEach, RecordAttempt
  <2>. QED
    BY <1>4, <2>1, <2>2 DEF Typed, OneOfEach, RecordAttempt
<1>5. ASSUME NEW c \in Channels, ChannelStep(c) PROVE OneOfEach'
  BY <1>5, ChannelLeaves DEF OneOfEach
<1>6. ASSUME NEW by \in Closers, Close(by) PROVE OneOfEach'
  <2>1. \A k : Count(k)' = Count(k)
    BY <1>6, QuietEffect DEF Close
  <2>. QED
    BY <1>6, <2>1 DEF Typed, OneOfEach, Close
<1>7. CASE FinishLooks \/ FinishReads \/ FinishCounts
  <2>1. \A k : Count(k)' = Count(k)
    BY <1>7, QuietEffect DEF FinishLooks, FinishReads, FinishCounts
  <2>. QED
    BY <1>7, <2>1 DEF Typed, OneOfEach, FinishLooks, FinishReads, FinishCounts
<1>8. CASE FinishEmits
  <2>1. ending \in EventType /\ ending.kind = "end" /\ Emit(ending)
    BY <1>8 DEF FinishEmits, Typed
  <2>2. Count("start")' = Count("start") /\ Count("end")' = Count("end") + 1
    BY <2>1, EmitEffect
  <2>3. Count("end") = 0
    BY <1>8 DEF OneOfEach, FinishEmits
  <2>. QED
    BY <1>8, <2>2, <2>3 DEF Typed, OneOfEach, FinishEmits
<1>. QED
  BY <1>1, <1>2, <1>3, <1>4, <1>5, <1>6, <1>7, <1>8 DEF Next
-----------------------------------------------------------------------------
(* The commands *)

\* A step that runs and counts no command.
LEMMA CommandsStay ==
  ASSUME CommandsCounted, UNCHANGED <<read, ran, commandCount, ending>>, InHand' = InHand,
         Count("command")' = Count("command"), Ended' = Ended,
         \A c \in Channels : chan'[c] = "count" => chan[c] = "count"
  PROVE  CommandsCounted'
<1>1. Commands' = Commands
  BY DEF Commands
<1>. QED
  BY <1>1 DEF CommandsCounted

\* The same when a channel moves between two places outside of a command.
LEMMA ChannelMoves ==
  ASSUME Typed, CommandsCounted, NEW c \in Channels,
         NEW l \in {"acquire", "refused", "run", "release", "gone"}, chan' = [chan EXCEPT ![c] = l],
         chan[c] \notin {"count", "record"}, UNCHANGED <<read, ran, commandCount, ending>>,
         Count("command")' = Count("command"), Ended' = Ended
  PROVE  CommandsCounted'
<1>1. InHand' = InHand
  BY DEF InHand, Typed
<1>2. \A d \in Channels : chan'[d] = "count" => chan[d] = "count"
  BY DEF Typed
<1>. QED
  BY <1>1, <1>2, CommandsStay

\* Every command is counted at most once, though the counter is read and written in
\* two steps: a lost update only makes it smaller (session recorder.go Command).
LEMMA CommandsStep ==
  ASSUME Typed, CommandsCounted, Next
  PROVE  CommandsCounted'
<1>0. /\ Count("command") \in Nat
      /\ Cardinality(Commands) \in Nat /\ Cardinality(InHand) \in Nat
  BY CountType, FS_CardinalityType DEF CommandsCounted
<1>1. CASE Offer \/ CreateRecorder \/ FinishLooks \/ \E by \in Closers : Close(by)
  <2>1. UNCHANGED <<chan, read, ran, commandCount, ending, log>>
    BY <1>1 DEF Offer, CreateRecorder, FinishLooks, Close, counters
  <2>2. InHand' = InHand
    BY <2>1 DEF InHand
  <2>3. Count("command")' = Count("command") /\ Ended' = Ended
    BY <2>1, QuietEffect
  <2>. QED
    BY <2>1, <2>2, <2>3, CommandsStay
<1>2. CASE EmitStart \/ \E granted \in BOOLEAN : RecordAttempt(granted)
  <2>1. UNCHANGED <<chan, read, ran, commandCount, ending>>
    BY <1>2 DEF EmitStart, RecordAttempt, counters
  <2>2. InHand' = InHand
    BY <2>1 DEF InHand
  <2>3. PICK k \in {"start", "auth"} : Emit(Ev(k))
    BY <1>2 DEF EmitStart, RecordAttempt
  <2>4. Count("command")' = Count("command") /\ Ended' = Ended
    BY <2>3, EventTypes, EmitEffect
  <2>. QED
    BY <2>1, <2>2, <2>4, CommandsStay
<1>3. CASE FinishEmits
  <2>1. ending \in EventType /\ ending.kind = "end" /\ Emit(ending)
    BY <1>3 DEF FinishEmits, Typed
  <2>2. Count("command")' = Count("command") /\ Ended' = Ended \cup {ending}
    BY <2>1, EmitEffect
  <2>3. UNCHANGED <<chan, read, ran, commandCount, ending>>
    BY <1>3 DEF FinishEmits, counters
  <2>4. InHand' = InHand /\ Commands' = Commands
    BY <2>3 DEF InHand, Commands
  <2>5. \A x \in Ended' : x.commands <= Cardinality(Commands)
    BY <2>2 DEF CommandsCounted
  <2>. QED
    BY <2>2, <2>3, <2>4, <2>5 DEF CommandsCounted
<1>5. CASE FinishReads \/ FinishCounts
  <2>1. UNCHANGED <<chan, read, ran, commandCount, log>>
    BY <1>5 DEF FinishReads, FinishCounts, counters
  <2>2. InHand' = InHand /\ Commands' = Commands
    BY <2>1 DEF InHand, Commands
  <2>3. Count("command")' = Count("command") /\ Ended' = Ended
    BY <2>1, QuietEffect
  <2>4. ending'.commands <= Cardinality(Commands)
    BY <1>5, EndingFilled DEF CommandsCounted
  <2>. QED
    BY <2>1, <2>2, <2>3, <2>4 DEF CommandsCounted
<1>4. ASSUME NEW c \in Channels, ChannelStep(c) PROVE CommandsCounted'
  <2>0. Ended' = Ended /\ ending' = ending
    BY <1>4, ChannelLeaves
  <2>1. CASE OpenChannel(c) \/ AcquireSlot(c) \/ ReleaseSlot(c) \/ NoteLimit(c)
             \/ \E why \in {"clean", "limit_exceeded", "protocol_error"} : ShellReturns(c, why)
    <3>1. /\ UNCHANGED <<read, ran, commandCount, log>>
          /\ chan[c] \notin {"count", "record"}
      BY <2>1 DEF OpenChannel, AcquireSlot, ReleaseSlot, NoteLimit, ShellReturns, counters
    <3>2. PICK l \in {"acquire", "refused", "run", "release", "gone"} : chan' = [chan EXCEPT ![c] = l]
      BY <2>1 DEF OpenChannel, AcquireSlot, ReleaseSlot, NoteLimit, ShellReturns
    <3>3. Count("command")' = Count("command")
      BY <3>1, QuietEffect
    <3>. QED
      BY <2>0, <3>1, <3>2, <3>3, ChannelMoves
  <2>2. CASE RefuseSftp(c) \/ RefuseSlot(c)
    <3>1. /\ UNCHANGED <<read, ran, commandCount>> /\ Emit(Ev("anomaly"))
          /\ chan[c] \notin {"count", "record"}
      BY <2>2 DEF RefuseSftp, RefuseSlot, counters
    <3>2. PICK l \in {"refused", "gone"} : chan' = [chan EXCEPT ![c] = l]
      BY <2>2 DEF RefuseSftp, RefuseSlot
    <3>3. Count("command")' = Count("command")
      BY <3>1, EventTypes, EmitEffect
    <3>. QED
      BY <2>0, <3>1, <3>2, <3>3, ChannelMoves
  <2>3. CASE CommandReads(c)
    <3>. DEFINE p == <<c, ran[c] + 1>>
    <3>1. /\ read' = [read EXCEPT ![c] = commandCount] /\ ran' = [ran EXCEPT ![c] = @ + 1]
          /\ chan' = [chan EXCEPT ![c] = "count"] /\ chan[c] = "run"
          /\ UNCHANGED <<commandCount, log>> /\ ran[c] + 1 \in 1..MaxCommands
      BY <2>3, SshAssumption DEF CommandReads, counters, Typed, SshAssumption
    <3>2. Commands' = Commands \cup {p} /\ p \notin Commands
      <4>1. p \notin Commands
        BY <3>1 DEF Commands, Typed
      <4>2. ASSUME NEW q \in Channels \X (1..MaxCommands)
            PROVE  (q \in Commands') = (q \in Commands \/ q = p)
        <5>1. q[1] \in Channels /\ q[2] \in 1..MaxCommands /\ q = <<q[1], q[2]>>
          OBVIOUS
        <5>2. CASE q[1] # c
          BY <3>1, <5>1, <5>2 DEF Commands, Typed
        <5>3. CASE q[1] = c
          <6>1. (q \in Commands') = (q[2] <= ran[c] + 1)
            BY <3>1, <5>1, <5>3 DEF Commands, Typed
          <6>2. (q \in Commands) = (q[2] <= ran[c])
            BY <5>1, <5>3 DEF Commands
          <6>3. (q = p) = (q[2] = ran[c] + 1)
            BY <5>1, <5>3
          <6>4. ran[c] \in Nat /\ q[2] \in Nat
            BY <5>1, SshAssumption DEF Typed, SshAssumption
          <6>. QED
            BY <6>1, <6>2, <6>3, <6>4
        <5>. QED
          BY <5>2, <5>3
      <4>3. p \in Channels \X (1..MaxCommands)
        BY <3>1
      <4>. QED
        BY <4>1, <4>2, <4>3 DEF Commands
    <3>3. InHand' = InHand \cup {c} /\ c \notin InHand
      BY <3>1 DEF InHand, Typed
    <3>4. /\ IsFiniteSet(Commands') /\ IsFiniteSet(InHand')
          /\ Cardinality(Commands') = Cardinality(Commands) + 1
          /\ Cardinality(InHand') = Cardinality(InHand) + 1
      BY <3>2, <3>3, FS_AddElement DEF CommandsCounted
    <3>5. Count("command")' = Count("command")
      BY <3>1, QuietEffect
    <3>6. ASSUME NEW d \in Channels, chan'[d] = "count" PROVE read'[d] < Cardinality(Commands')
      BY <1>0, <3>1, <3>4, <3>6 DEF CommandsCounted, Typed
    <3>7. /\ ending'.commands <= Cardinality(Commands')
          /\ \A x \in Ended' : x.commands <= Cardinality(Commands')
      <4>1. ending.commands \in Nat
        BY DEF Typed, EventType
      <4>2. \A x \in Ended : x.commands \in Nat
        <5>1. \A i \in DOMAIN log : log[i] \in EventType
          BY DEF Typed
        <5>. QED
          BY <5>1 DEF Ended, EventType
      <4>. QED
        BY <1>0, <2>0, <3>4, <4>1, <4>2 DEF CommandsCounted
    <3>8. /\ commandCount' <= Cardinality(Commands')
          /\ Cardinality(Commands') = Count("command")' + Cardinality(InHand')
      BY <1>0, <3>1, <3>4, <3>5 DEF CommandsCounted, Typed
    <3>. QED
      BY <3>4, <3>6, <3>7, <3>8 DEF CommandsCounted
  <2>4. CASE CommandWrites(c)
    <3>1. /\ commandCount' = read[c] + 1 /\ chan' = [chan EXCEPT ![c] = "record"]
          /\ chan[c] = "count" /\ UNCHANGED <<read, ran, log>>
      BY <2>4 DEF CommandWrites
    <3>2. Commands' = Commands /\ InHand' = InHand
      BY <3>1 DEF Commands, InHand, Typed
    <3>3. Count("command")' = Count("command")
      BY <3>1, QuietEffect
    <3>4. commandCount' <= Cardinality(Commands)
      BY <1>0, <3>1 DEF CommandsCounted, Typed
    <3>5. \A d \in Channels : chan'[d] = "count" => chan[d] = "count"
      BY <3>1 DEF Typed
    <3>. QED
      BY <2>0, <3>1, <3>2, <3>3, <3>4, <3>5 DEF CommandsCounted
  <2>5. CASE CommandEmits(c)
    <3>1. /\ Emit(Ev("command")) /\ chan' = [chan EXCEPT ![c] = "run"]
          /\ chan[c] = "record" /\ UNCHANGED <<read, ran, commandCount>>
      BY <2>5 DEF CommandEmits, counters
    <3>2. Commands' = Commands
      BY <3>1 DEF Commands
    <3>3. InHand' = InHand \ {c} /\ c \in InHand
      BY <3>1 DEF InHand, Typed
    <3>4. IsFiniteSet(InHand') /\ Cardinality(InHand') = Cardinality(InHand) - 1
      BY <3>3, FS_RemoveElement DEF CommandsCounted
    <3>5. Count("command")' = Count("command") + 1
      BY <3>1, EventTypes, EmitEffect
    <3>6. \A d \in Channels : chan'[d] = "count" => chan[d] = "count"
      BY <3>1 DEF Typed
    <3>. QED
      BY <1>0, <2>0, <3>1, <3>2, <3>4, <3>5, <3>6 DEF CommandsCounted
  <2>. QED
    BY <1>4, <2>1, <2>2, <2>3, <2>4, <2>5 DEF ChannelStep
<1>. QED
  BY <1>1, <1>2, <1>3, <1>4, <1>5 DEF Next
-----------------------------------------------------------------------------
(* IInv is an invariant. *)
LEMMA IInvInductive == Spec => []IInv
<1>1. Init => IInv
  <2>. SUFFICES ASSUME Init PROVE IInv
    OBVIOUS
  <2>1. Typed
    <3>1. chan \in [Channels -> Places] /\ ending \in EventType /\ ending.kind = "end"
      BY EventTypes DEF Init, Places
    <3>2. read \in [Channels -> Nat] /\ ran \in [Channels -> 0..MaxCommands]
      BY SshAssumption DEF Init, SshAssumption
    <3>3. log \in Seq(EventType)
      BY DEF Init
    <3>4. recorder \in BOOLEAN /\ fired \in BOOLEAN
      BY DEF Init
    <3>. QED
      BY <3>1, <3>2, <3>3, <3>4 DEF Init, Typed
  <2>2. \A k : Count(k) = 0
    BY FS_EmptySet DEF Init, Count
  <2>3. Ended = {}
    BY DEF Init, Ended
  <2>4. OneOfEach
    <3>1. ~recorder /\ ~fired /\ hook = "armed" /\ auth = "idle"
      BY DEF Init
    <3>2. fired = (hook # "armed")
      BY <3>1, <2>1, Zenon DEF Typed
    <3>. QED
      BY <2>2, <3>1, <3>2 DEF OneOfEach
  <2>5. Commands = {} /\ InHand = {}
    BY DEF Init, Commands, InHand
  <2>6. CommandsCounted
    BY <2>2, <2>3, <2>5, EventTypes, FS_EmptySet DEF Init, CommandsCounted
  <2>. QED
    BY <2>1, <2>4, <2>6 DEF IInv
<1>2. IInv /\ [Next]_vars => IInv'
  <2>. SUFFICES ASSUME IInv, [Next]_vars PROVE IInv'
    OBVIOUS
  <2>1. CASE Next
    BY <2>1, TypedStep, OneOfEachStep, CommandsStep DEF IInv
  <2>2. CASE UNCHANGED vars
    BY <2>2 DEF vars, counters, IInv, Typed, OneOfEach, CommandsCounted, Count, Ended,
                Commands, InHand
  <2>. QED
    BY <2>1, <2>2
<1>. QED
  BY <1>1, <1>2, PTL DEF Spec
-----------------------------------------------------------------------------
(* One session start and at most one session end, for any number of channels and
   whichever goroutine closes the connection when (sshd/server.go recorderFor,
   finishSession, sniffConn.Close). *)
THEOREM OneStartOneEndAlways == Spec => []OneStartOneEnd
<1>1. IInv => OneStartOneEnd
  BY DEF IInv, OneOfEach, OneStartOneEnd
<1>. QED
  BY <1>1, IInvInductive, PTL

(* The summary and the events never exceed the commands run, although the channels
   increment commandCount without synchronisation (session recorder.go Command). *)
THEOREM SummaryNeverOvercounts == Spec => []NeverOvercounts
<1>1. IInv => NeverOvercounts
  <2>. SUFFICES ASSUME IInv PROVE NeverOvercounts
    OBVIOUS
  <2>1. Count("command") \in Nat
    BY CountType DEF IInv
  <2>2. Cardinality(InHand) \in Nat
    BY FS_CardinalityType DEF IInv, CommandsCounted
  <2>. QED
    BY <2>1, <2>2 DEF IInv, CommandsCounted, NeverOvercounts
<1>. QED
  BY <1>1, IInvInductive, PTL

\* The reason is there, finishSession's copy of it too once it has one, and no summary
\* with the default has been emitted.
NoDefault ==
  /\ endReason \in Unusual
  /\ hook \in {"count", "emit"} => ending.reason \in Unusual
  /\ \A e \in Ended : e.reason # "client_closed"

\* No goroutine takes a reason back (sshd/server.go handleSession, finishSession).
LEMMA NoDefaultStep ==
  ASSUME Typed, NoDefault, [Next]_vars
  PROVE  NoDefault'
<1>1. CASE UNCHANGED vars
  BY <1>1 DEF vars, NoDefault, Ended
<1>2. CASE Offer \/ CreateRecorder \/ FinishLooks \/ \E by \in Closers : Close(by)
  <2>1. /\ UNCHANGED <<endReason, ending, log>>
        /\ hook' \in {"count", "emit"} => hook \in {"count", "emit"}
    BY <1>2 DEF Offer, CreateRecorder, FinishLooks, Close
  <2>. QED
    BY <2>1, QuietEffect DEF NoDefault
<1>3. CASE EmitStart \/ \E granted \in BOOLEAN : RecordAttempt(granted)
  <2>1. UNCHANGED <<endReason, ending, hook>>
    BY <1>3 DEF EmitStart, RecordAttempt
  <2>2. PICK k \in {"start", "auth"} : Emit(Ev(k))
    BY <1>3 DEF EmitStart, RecordAttempt
  <2>3. Ended' = Ended
    BY <2>2, EventTypes, EmitEffect
  <2>. QED
    BY <2>1, <2>3 DEF NoDefault
<1>4. ASSUME NEW c \in Channels, ChannelStep(c) PROVE NoDefault'
  <2>1. Ended' = Ended /\ UNCHANGED <<hook, ending>>
    BY <1>4, ChannelLeaves
  <2>2. CASE NoteLimit(c)
    BY <2>1, <2>2 DEF NoteLimit, NoDefault, Unusual
  <2>3. ASSUME NEW why \in {"clean", "limit_exceeded", "protocol_error"}, ShellReturns(c, why)
        PROVE  NoDefault'
    BY <2>1, <2>3 DEF ShellReturns, NoDefault, Unusual
  <2>4. CASE OpenChannel(c) \/ RefuseSftp(c) \/ AcquireSlot(c) \/ RefuseSlot(c)
             \/ CommandReads(c) \/ CommandWrites(c) \/ CommandEmits(c) \/ ReleaseSlot(c)
    <3>1. UNCHANGED endReason
      BY <2>4 DEF OpenChannel, RefuseSftp, AcquireSlot, RefuseSlot, CommandReads,
                  CommandWrites, CommandEmits, ReleaseSlot
    <3>. QED
      BY <2>1, <3>1 DEF NoDefault
  <2>. QED
    BY <1>4, <2>2, <2>3, <2>4 DEF ChannelStep
<1>5. CASE FinishReads \/ FinishCounts
  <2>1. UNCHANGED <<endReason, log>> /\ ending'.reason \in Unusual
    BY <1>5, EndingFilled DEF FinishReads, FinishCounts, NoDefault, Unusual
  <2>. QED
    BY <2>1, QuietEffect DEF NoDefault
<1>6. CASE FinishEmits
  <2>1. /\ ending \in EventType /\ ending.kind = "end" /\ Emit(ending)
        /\ ending.reason \in Unusual /\ hook' = "done" /\ UNCHANGED endReason
    BY <1>6 DEF FinishEmits, Typed, NoDefault
  <2>2. Ended' = Ended \cup {ending}
    BY <2>1, EmitEffect
  <2>. QED
    BY <2>1, <2>2 DEF NoDefault, Unusual
<1>. QED
  BY <1>1, <1>2, <1>3, <1>4, <1>5, <1>6 DEF Next

(* Once a limit breach or a protocol error is noted, unless finishSession has read the
   reason already, no summary ever carries the default instead, however the channels and
   the closers interleave (sshd/server.go handleSession, finishSession). *)
THEOREM ReasonSurvives == Spec => ReasonKept
<1>1. IInv /\ Noted => NoDefault
  <2> SUFFICES ASSUME IInv, Noted PROVE NoDefault
    OBVIOUS
  <2>1. /\ endReason \in Unusual /\ hook \notin {"count", "emit"} /\ Count("end") = 0
    BY DEF IInv, OneOfEach, Noted, Unusual
  <2>2. {j \in DOMAIN log : log[j].kind = "end"} = {}
    BY <2>1, CountType, FS_EmptySet DEF IInv, Count
  <2>. QED
    BY <2>1, <2>2 DEF NoDefault, Ended
<1>2. IInv /\ NoDefault /\ [Next]_vars => NoDefault'
  BY NoDefaultStep DEF IInv
<1>3. NoDefault => \A e \in Ended : e.reason # "client_closed"
  BY DEF NoDefault
<1>. QED
  BY <1>1, <1>2, <1>3, IInvInductive, PTL DEF Spec, ReasonKept
-----------------------------------------------------------------------------
(***************************************************************************)
(* The HTTP listener's sessions, for any sources, goroutines, limit and    *)
(* number of sessions and events.  Its recorders are the same as the SSH   *)
(* listener's; here many requests share one, and a sweeper ends it.        *)
(***************************************************************************)
WebKinds == {"start", "request", "canary", "end"}

WebTyped ==
  /\ opened \in 0..MaxRecorders
  /\ sessions \in [Sources -> 0..opened]
  /\ quiet \subseteq Sources
  /\ holder \in [Requests -> 0..opened]
  /\ expired \subseteq 1..opened
  /\ entries \in [Recorders -> Seq(WebKinds)]

EndsIn(h) == Cardinality({i \in DOMAIN h : h[i] = "end"})

\* A recorder in the map is there under one source, and is not being ended or ended;
\* one in the hands of the sweeper is not ended; one in neither place is ended, once.
InOnePlace ==
  /\ \A s, t \in Sources : s # t /\ sessions[s] = sessions[t] => sessions[s] = 0
  /\ \A s \in Live : sessions[s] \notin expired /\ EndsIn(entries[sessions[s]]) = 0
  /\ \A r \in expired : EndsIn(entries[r]) = 0
  /\ \A r \in 1..opened :
       (\E s \in Sources : sessions[s] = r) \/ r \in expired \/ EndsIn(entries[r]) = 1

\* While the node runs, a request's recorder is in the map, under a source that is not
\* quiet; nothing follows an end.
HeldOpen == server = "running" =>
  \A q \in Requests : holder[q] # 0 => \E s \in Sources \ quiet : sessions[s] = holder[q]
EndsLast == server = "running" =>
  \A r \in 1..opened : \A i \in DOMAIN entries[r] : entries[r][i] = "end" => i = Len(entries[r])

WebInv == WebTyped /\ InOnePlace /\ HeldOpen /\ EndsLast

\* One more end is one more; no other event is.
LEMMA EndsAppend ==
  ASSUME NEW h \in Seq(WebKinds), NEW k \in WebKinds
  PROVE  /\ EndsIn(h) \in Nat
         /\ EndsIn(Append(h, k)) = EndsIn(h) + (IF k = "end" THEN 1 ELSE 0)
         /\ EndsIn(h) = 0 => \A i \in DOMAIN h : h[i] # "end"
<1> DEFINE t == Append(h, k)
           n == Len(h)
           A == {i \in DOMAIN h : h[i] = "end"}
           B == {i \in DOMAIN t : t[i] = "end"}
<1>1. /\ n \in Nat /\ DOMAIN h = 1..n /\ DOMAIN t = 1..(n + 1)
      /\ t[n + 1] = k /\ \A i \in 1..n : t[i] = h[i]
  OBVIOUS
<1>2. IsFiniteSet(A)
  <2>1. IsFiniteSet(1..n)
    BY <1>1, FS_Interval
  <2>. QED
    BY <1>1, <2>1, FS_Subset
<1>3. Cardinality(A) \in Nat /\ n + 1 \notin A
  BY <1>1, <1>2, FS_CardinalityType
<1> HIDE DEF t
<1>4. B = A \cup (IF k = "end" THEN {n + 1} ELSE {})
  <2>1. \A i \in 1..(n + 1) : i \in 1..n \/ i = n + 1
    BY <1>1
  <2>2. 1..n \subseteq 1..(n + 1) /\ n + 1 \in 1..(n + 1) /\ n + 1 \notin 1..n
    BY <1>1
  <2>. QED
    BY <1>1, <2>1, <2>2
<1>5. Cardinality(A \cup {n + 1}) = Cardinality(A) + 1
  BY <1>2, <1>3, FS_AddElement
<1>6. EndsIn(h) = Cardinality(A) /\ EndsIn(t) = Cardinality(B)
  BY DEF EndsIn
<1>7. Cardinality(A) = 0 => A = {}
  BY <1>2, FS_EmptySet
<1>8. A = {} => \A i \in DOMAIN h : h[i] # "end"
  OBVIOUS
<1> HIDE DEF A, B, n
<1>9. EndsIn(t) = EndsIn(h) + (IF k = "end" THEN 1 ELSE 0)
  <2>1. CASE k = "end"
    BY <1>3, <1>4, <1>5, <1>6, <2>1
  <2>2. CASE k # "end"
    <3>1. B = A
      BY <1>4, <2>2
    <3>. QED
      BY <1>3, <1>6, <2>2, <3>1
  <2>. QED
    BY <2>1, <2>2
<1>. QED
  BY <1>3, <1>6, <1>7, <1>8, <1>9 DEF t

\* A session that starts has not ended; a canary's has, at once.
LEMMA FreshEnds ==
  /\ <<"start">> \in Seq(WebKinds) /\ EndsIn(<<"start">>) = 0
  /\ \A i \in DOMAIN <<"start">> : <<"start">>[i] # "end"
  /\ <<"start", "canary", "end">> \in Seq(WebKinds) /\ EndsIn(<<"start", "canary", "end">>) = 1
  /\ \A i \in DOMAIN <<"start", "canary", "end">> :
       <<"start", "canary", "end">>[i] = "end" => i = Len(<<"start", "canary", "end">>)
<1>1. /\ <<"start">> \in Seq(WebKinds) /\ <<"start", "canary", "end">> \in Seq(WebKinds)
      /\ \A i \in DOMAIN <<"start">> : <<"start">>[i] # "end"
      /\ Len(<<"start", "canary", "end">>) = 3
  BY DEF WebKinds
<1>2. {i \in DOMAIN <<"start">> : <<"start">>[i] = "end"} = {}
  OBVIOUS
<1>3. {i \in DOMAIN <<"start", "canary", "end">> : <<"start", "canary", "end">>[i] = "end"} = {3}
  OBVIOUS
<1>4. Cardinality({}) = 0 /\ Cardinality({3}) = 1
  BY FS_EmptySet, FS_Singleton
<1>. QED
  BY <1>1, <1>2, <1>3, <1>4 DEF EndsIn

\* Steps that leave the map, the sweeper's hands and the logs alone keep every session
\* in its place.
LEMMA PlacedStays ==
  ASSUME InOnePlace, UNCHANGED <<sessions, opened, expired, entries>>
  PROVE  InOnePlace'
  BY DEF InOnePlace, Live

\* sessionFor, a known source (server.go sessionFor).
LEMMA JoinInductive ==
  ASSUME WebInv, NEW q \in Requests, NEW s \in Sources, Join(q, s)
  PROVE  WebInv'
<1>1. /\ sessions[s] # 0 /\ holder' = [holder EXCEPT ![q] = sessions[s]] /\ quiet' = quiet \ {s}
      /\ UNCHANGED <<sessions, opened, expired, server, entries>>
  BY DEF Join
<1>2. WebTyped'
  BY <1>1 DEF WebInv, WebTyped
<1>3. HeldOpen'
  <2> SUFFICES ASSUME server = "running", NEW p \in Requests, holder'[p] # 0
               PROVE  \E t \in Sources \ quiet' : sessions[t] = holder'[p]
    BY <1>1 DEF HeldOpen
  <2>1. CASE p = q
    BY <1>1, <2>1 DEF WebInv, WebTyped
  <2>2. CASE p # q
    <3>1. holder'[p] = holder[p]
      BY <1>1, <2>2 DEF WebInv, WebTyped
    <3>. QED
      BY <1>1, <3>1 DEF WebInv, HeldOpen
  <2>. QED
    BY <2>1, <2>2
<1>4. EndsLast' /\ InOnePlace'
  BY <1>1, PlacedStays DEF WebInv, EndsLast
<1>. QED
  BY <1>2, <1>3, <1>4 DEF WebInv

\* sessionFor, a new source: the recorder made is nobody else's.
LEMMA OpenInductive ==
  ASSUME WebInv, NEW q \in Requests, NEW s \in Sources, Open(q, s)
  PROVE  WebInv'
<1>0. PICK n : n = opened + 1
  OBVIOUS
<1>1. /\ sessions[s] = 0 /\ opened < MaxRecorders /\ opened' = n
      /\ entries' = [entries EXCEPT ![n] = <<"start">>]
      /\ sessions' = [sessions EXCEPT ![s] = n] /\ holder' = [holder EXCEPT ![q] = n]
      /\ quiet' = quiet \ {s} /\ UNCHANGED <<expired, server>>
  BY <1>0 DEF Open
<1>2. /\ opened \in Nat /\ sessions \in [Sources -> 0..opened] /\ holder \in [Requests -> 0..opened]
      /\ quiet \subseteq Sources /\ expired \subseteq 1..opened /\ entries \in [Recorders -> Seq(WebKinds)]
  BY DEF WebInv, WebTyped
<1>3. /\ n \in Recorders /\ n \in 0..MaxRecorders /\ n # 0 /\ n \notin 0..opened
      /\ 0..opened \subseteq 0..n /\ 1..opened \subseteq 1..n /\ n \in 1..n
      /\ \A r \in 1..n : r \in 1..opened \/ r = n
      /\ 1..opened \subseteq 0..opened
  BY <1>0, <1>1, <1>2, WebAssumption DEF Recorders
<1>4. WebTyped'
  BY <1>1, <1>2, <1>3, FreshEnds DEF WebTyped
<1>5. /\ sessions'[s] = n /\ \A t \in Sources : t # s => sessions'[t] = sessions[t]
      /\ entries'[n] = <<"start">> /\ \A r \in 1..opened : entries'[r] = entries[r]
      /\ holder'[q] = n /\ \A p \in Requests : p # q => holder'[p] = holder[p]
  <2>1. \A r \in 1..opened : r # n /\ r \in Recorders
    BY <1>2, <1>3, WebAssumption DEF WebInv, WebTyped, Recorders
  <2>. QED
    BY <1>1, <1>2, <1>3, <2>1
<1>6. \A r \in 1..opened : EndsIn(entries'[r]) = EndsIn(entries[r])
  BY <1>5
<1>7. EndsIn(entries'[n]) = 0
  BY <1>5, FreshEnds
<1>8. \A t \in Sources : sessions[t] # n /\ (sessions[t] # 0 => sessions[t] \in 1..opened)
  BY <1>2, <1>3
<1>9. InOnePlace'
  <2>1. \A t, u \in Sources : t # u /\ sessions'[t] = sessions'[u] => sessions'[t] = 0
    BY <1>5, <1>8 DEF WebInv, InOnePlace
  <2>2. ASSUME NEW t \in Sources, sessions'[t] # 0
        PROVE  sessions'[t] \notin expired /\ EndsIn(entries'[sessions'[t]]) = 0
    <3>1. CASE t = s
      BY <1>2, <1>3, <1>5, <1>7, <3>1
    <3>2. CASE t # s
      <4>1. sessions'[t] = sessions[t] /\ sessions[t] \in 1..opened /\ t \in Live
        BY <1>5, <1>8, <2>2, <3>2 DEF Live
      <4>. QED
        BY <1>6, <4>1 DEF WebInv, InOnePlace
    <3>. QED
      BY <3>1, <3>2
  <2>3. \A r \in expired : EndsIn(entries'[r]) = 0
    BY <1>2, <1>6 DEF WebInv, InOnePlace
  <2>4. ASSUME NEW r \in 1..n
        PROVE  (\E t \in Sources : sessions'[t] = r) \/ r \in expired \/ EndsIn(entries'[r]) = 1
    <3>1. CASE r = n
      BY <1>5, <3>1
    <3>2. CASE r \in 1..opened
      <4>1. CASE \E t \in Sources : sessions[t] = r
        <5>1. PICK t \in Sources : sessions[t] = r
          BY <4>1
        <5>2. t # s
          BY <1>1, <1>2, <3>2, <5>1
        <5>. QED
          BY <1>5, <5>1, <5>2
      <4>2. CASE r \in expired \/ EndsIn(entries[r]) = 1
        BY <1>6, <3>2, <4>2
      <4>. QED
        BY <3>2, <4>1, <4>2 DEF WebInv, InOnePlace
    <3>. QED
      BY <1>3, <3>1, <3>2
  <2>. QED
    BY <1>1, <2>1, <2>2, <2>3, <2>4 DEF InOnePlace, Live
<1>10. HeldOpen'
  <2> SUFFICES ASSUME server = "running", NEW p \in Requests, holder'[p] # 0
               PROVE  \E t \in Sources \ quiet' : sessions'[t] = holder'[p]
    BY <1>1 DEF HeldOpen
  <2>1. CASE p = q
    BY <1>1, <1>5, <2>1
  <2>2. CASE p # q
    <3>1. PICK t \in Sources \ quiet : sessions[t] = holder[p]
      BY <1>5, <2>2 DEF WebInv, HeldOpen
    <3>2. t # s
      BY <1>1, <1>5, <2>2, <3>1
    <3>. QED
      BY <1>1, <1>5, <2>2, <3>1, <3>2
  <2>. QED
    BY <2>1, <2>2
<1>11. EndsLast'
  <2> SUFFICES ASSUME server = "running", NEW r \in 1..n, NEW i \in DOMAIN entries'[r],
                      entries'[r][i] = "end"
               PROVE  i = Len(entries'[r])
    BY <1>1 DEF EndsLast
  <2>1. CASE r = n
    BY <1>5, <2>1, FreshEnds
  <2>2. CASE r \in 1..opened
    BY <1>5, <2>2 DEF WebInv, EndsLast
  <2>. QED
    BY <1>3, <2>1, <2>2
<1>. QED
  BY <1>4, <1>9, <1>10, <1>11 DEF WebInv

\* handle records on the recorder it was given: while the node runs, one in the map.
LEMMA ObserveInductive ==
  ASSUME WebInv, NEW q \in Requests, Observe(q)
  PROVE  WebInv'
<1>0. PICK r : r = holder[q]
  OBVIOUS
<1>1. /\ r # 0 /\ entries' = [entries EXCEPT ![r] = Append(@, "request")]
      /\ UNCHANGED <<sessions, quiet, opened, holder, expired, server>>
  BY <1>0 DEF Observe
<1>2. r \in 1..opened /\ 1..opened \subseteq Recorders /\ entries \in [Recorders -> Seq(WebKinds)]
  BY <1>0, <1>1, WebAssumption DEF WebInv, WebTyped, Recorders
<1>3. entries[r] \in Seq(WebKinds) /\ "request" \in WebKinds
  BY <1>2 DEF WebKinds
<1>4. entries'[r] = Append(entries[r], "request") /\ \A t \in Recorders : t # r => entries'[t] = entries[t]
  BY <1>1, <1>2
<1>5. Append(entries[r], "request") \in Seq(WebKinds)
  BY <1>3
<1>6. entries' \in [Recorders -> Seq(WebKinds)]
  BY <1>1, <1>2, <1>5
<1>7. EndsIn(Append(entries[r], "request")) = EndsIn(entries[r])
  BY <1>3, EndsAppend
<1>8. \A t \in 1..opened : EndsIn(entries'[t]) = EndsIn(entries[t])
  BY <1>2, <1>4, <1>7
<1>9. WebTyped'
  BY <1>1, <1>6 DEF WebInv, WebTyped
<1>10. InOnePlace'
  <2>1. \A s \in Live : sessions[s] \in 1..opened
    BY DEF WebInv, WebTyped, Live
  <2>2. expired \subseteq 1..opened
    BY DEF WebInv, WebTyped
  <2>. QED
    BY <1>1, <1>8, <2>1, <2>2 DEF WebInv, InOnePlace, Live
<1>11. HeldOpen'
  BY <1>1 DEF WebInv, HeldOpen
<1>12. EndsLast'
  <2> SUFFICES ASSUME server = "running", NEW t \in 1..opened, NEW i \in DOMAIN entries'[t],
                      entries'[t][i] = "end"
               PROVE  i = Len(entries'[t])
    BY <1>1 DEF EndsLast
  <2>1. CASE t = r
    <3>1. PICK s \in Sources : sessions[s] = r
      BY <1>0, <1>1 DEF WebInv, HeldOpen
    <3>2. EndsIn(entries[r]) = 0
      BY <1>1, <3>1 DEF WebInv, InOnePlace, Live
    <3>3. EndsIn(entries'[r]) = 0
      BY <1>2, <1>8, <3>2
    <3>4. \A j \in DOMAIN entries'[r] : entries'[r][j] # "end"
      BY <1>3, <1>4, <1>5, <3>3, EndsAppend
    <3>. QED
      BY <2>1, <3>4
  <2>2. CASE t # r
    BY <1>2, <1>4, <2>2 DEF WebInv, EndsLast
  <2>. QED
    BY <2>1, <2>2
<1>. QED
  BY <1>9, <1>10, <1>11, <1>12 DEF WebInv

\* A canary callback's session starts and ends in one step.
LEMMA CanaryInductive == ASSUME WebInv, Canary PROVE WebInv'
<1>0. PICK n : n = opened + 1
  OBVIOUS
<1>1. /\ opened < MaxRecorders /\ opened' = n
      /\ entries' = [entries EXCEPT ![n] = <<"start", "canary", "end">>]
      /\ UNCHANGED <<sessions, quiet, holder, expired, server>>
  BY <1>0 DEF Canary
<1>2. /\ opened \in Nat /\ sessions \in [Sources -> 0..opened] /\ holder \in [Requests -> 0..opened]
      /\ quiet \subseteq Sources /\ expired \subseteq 1..opened /\ entries \in [Recorders -> Seq(WebKinds)]
  BY DEF WebInv, WebTyped
<1>3. /\ n \in Recorders /\ n \in 0..MaxRecorders
      /\ 0..opened \subseteq 0..n /\ 1..opened \subseteq 1..n
      /\ \A r \in 1..n : r \in 1..opened \/ r = n
      /\ \A r \in 1..opened : r # n /\ r \in Recorders
  BY <1>0, <1>1, <1>2, WebAssumption DEF Recorders
<1>4. WebTyped'
  BY <1>1, <1>2, <1>3, FreshEnds DEF WebTyped
<1>5. entries'[n] = <<"start", "canary", "end">> /\ \A r \in 1..opened : entries'[r] = entries[r]
  BY <1>1, <1>2, <1>3
<1>6. EndsIn(entries'[n]) = 1
  BY <1>5, FreshEnds
<1>7. InOnePlace'
  <2>1. \A s \in Live : sessions[s] \in 1..opened
    BY <1>2 DEF Live
  <2>. QED
    BY <1>1, <1>2, <1>3, <1>5, <1>6, <2>1 DEF WebInv, InOnePlace, Live
<1>8. HeldOpen'
  BY <1>1 DEF WebInv, HeldOpen
<1>9. EndsLast'
  <2> SUFFICES ASSUME server = "running", NEW r \in 1..n, NEW i \in DOMAIN entries'[r],
                      entries'[r][i] = "end"
               PROVE  i = Len(entries'[r])
    BY <1>1 DEF EndsLast
  <2>1. CASE r = n
    BY <1>5, <2>1, FreshEnds
  <2>2. CASE r \in 1..opened
    BY <1>5, <2>2 DEF WebInv, EndsLast
  <2>. QED
    BY <1>3, <2>1, <2>2
<1>. QED
  BY <1>4, <1>7, <1>8, <1>9 DEF WebInv

\* sweepIdle and closeAllSessions move recorders from the map to the sweeper's hands
\* while they hold the mutex.
LEMMA TakeInductive ==
  ASSUME WebInv, NEW Q, expired = {},
         expired' = {sessions[s] : s \in Live \cap Q},
         sessions' = [s \in Sources |-> IF s \in Q THEN 0 ELSE sessions[s]],
         quiet' = {}, UNCHANGED <<opened, holder, entries>>,
         server' = "running" => server = "running" /\ Q = quiet
  PROVE  WebInv'
<1>1. \A s \in Sources : sessions[s] \in 0..opened /\ (s \in Live <=> sessions[s] # 0)
  BY DEF WebInv, WebTyped, Live
<1>2. WebTyped'
  <2>1. expired' \subseteq 1..opened
    BY <1>1 DEF Live, WebInv, WebTyped
  <2>2. sessions' \in [Sources -> 0..opened]
    BY <1>1 DEF WebInv, WebTyped
  <2>. QED
    BY <2>1, <2>2 DEF WebInv, WebTyped
<1>3. InOnePlace'
  <2>1. \A s, t \in Sources : s # t /\ sessions'[s] = sessions'[t] => sessions'[s] = 0
    BY DEF WebInv, InOnePlace
  <2>2. ASSUME NEW s \in Sources, sessions'[s] # 0
        PROVE  sessions'[s] \notin expired' /\ EndsIn(entries[sessions'[s]]) = 0
    <3>1. s \notin Q /\ sessions'[s] = sessions[s] /\ s \in Live
      BY <2>2 DEF Live
    <3>2. \A t \in Live \cap Q : sessions[t] # sessions[s]
      BY <3>1 DEF WebInv, InOnePlace, Live
    <3>. QED
      BY <3>1, <3>2 DEF WebInv, InOnePlace
  <2>3. \A r \in expired' : EndsIn(entries[r]) = 0
    BY DEF WebInv, InOnePlace
  <2>4. ASSUME NEW r \in 1..opened
        PROVE  (\E t \in Sources : sessions'[t] = r) \/ r \in expired' \/ EndsIn(entries[r]) = 1
    <3>1. CASE \E t \in Sources : sessions[t] = r
      <4>1. PICK t \in Sources : sessions[t] = r
        BY <3>1
      <4>2. t \in Live
        BY <1>1, <4>1 DEF WebInv, WebTyped
      <4>. QED
        BY <4>1, <4>2
    <3>2. CASE ~(\E t \in Sources : sessions[t] = r)
      BY <3>2 DEF WebInv, InOnePlace
    <3>. QED
      BY <3>1, <3>2
  <2>. QED
    BY <2>1, <2>2, <2>3, <2>4 DEF InOnePlace, Live
<1>4. HeldOpen'
  BY DEF WebInv, HeldOpen
<1>5. EndsLast'
  BY DEF WebInv, EndsLast
<1>. QED
  BY <1>2, <1>3, <1>4, <1>5 DEF WebInv

\* The sweeper ends what it has taken, and lets go of it.
LEMMA EndSessionInductive ==
  ASSUME WebInv, NEW r \in Recorders, EndSession(r)
  PROVE  WebInv'
<1>1. /\ r \in expired /\ entries' = [entries EXCEPT ![r] = Append(@, "end")] /\ expired' = expired \ {r}
      /\ UNCHANGED <<sessions, quiet, opened, holder, server>>
  BY DEF EndSession
<1>2. r \in 1..opened /\ 1..opened \subseteq Recorders /\ entries \in [Recorders -> Seq(WebKinds)]
      /\ expired \subseteq 1..opened
  BY <1>1, WebAssumption DEF WebInv, WebTyped, Recorders
<1>3. entries[r] \in Seq(WebKinds) /\ "end" \in WebKinds /\ EndsIn(entries[r]) = 0
  BY <1>1, <1>2 DEF WebKinds, WebInv, InOnePlace
<1>4. entries'[r] = Append(entries[r], "end") /\ \A t \in Recorders : t # r => entries'[t] = entries[t]
  BY <1>1, <1>2
<1>5. Append(entries[r], "end") \in Seq(WebKinds)
  BY <1>3
<1>6. entries' \in [Recorders -> Seq(WebKinds)]
  BY <1>1, <1>2, <1>5
<1>7. EndsIn(entries'[r]) = 1
  BY <1>3, <1>4, EndsAppend
<1>8. WebTyped'
  BY <1>1, <1>6 DEF WebInv, WebTyped
<1>9. InOnePlace'
  <2>1. \A s \in Live : sessions[s] \in 1..opened /\ sessions[s] # r
    BY <1>1 DEF WebInv, WebTyped, Live, InOnePlace
  <2>2. \A t \in 1..opened : t # r => EndsIn(entries'[t]) = EndsIn(entries[t])
    BY <1>2, <1>4
  <2>3. \A s \in Live : sessions[s] \notin expired' /\ EndsIn(entries'[sessions[s]]) = 0
    BY <1>1, <2>1, <2>2 DEF WebInv, InOnePlace
  <2>4. \A t \in expired' : EndsIn(entries'[t]) = 0
    BY <1>1, <1>2, <2>2 DEF WebInv, InOnePlace
  <2>5. \A t \in 1..opened :
          (\E s \in Sources : sessions[s] = t) \/ t \in expired' \/ EndsIn(entries'[t]) = 1
    BY <1>1, <1>7, <2>2 DEF WebInv, InOnePlace
  <2>. QED
    BY <1>1, <2>3, <2>4, <2>5 DEF WebInv, InOnePlace, Live
<1>10. HeldOpen'
  BY <1>1 DEF WebInv, HeldOpen
<1>11. EndsLast'
  <2> SUFFICES ASSUME server = "running", NEW t \in 1..opened, NEW i \in DOMAIN entries'[t],
                      entries'[t][i] = "end"
               PROVE  i = Len(entries'[t])
    BY <1>1 DEF EndsLast
  <2>1. CASE t = r
    <3>1. \A j \in DOMAIN entries[r] : entries[r][j] # "end"
      BY <1>3, EndsAppend
    <3>. QED
      BY <1>3, <1>4, <2>1, <3>1
  <2>2. CASE t # r
    BY <1>2, <1>4, <2>2 DEF WebInv, EndsLast
  <2>. QED
    BY <2>1, <2>2
<1>. QED
  BY <1>8, <1>9, <1>10, <1>11 DEF WebInv

\* The listener starts with no session (server.go New).
LEMMA WebInitial == ASSUME WebInit PROVE WebInv
<1>1. << >> \in Seq(WebKinds)
  OBVIOUS
<1>2. WebTyped
  BY <1>1, WebAssumption DEF WebInit, WebTyped
<1>. QED
  BY <1>2 DEF WebInit, WebInv, InOnePlace, Live, HeldOpen, EndsLast

\* Every step keeps each session in its one place.
LEMMA WebStep == ASSUME WebInv, [WebNext]_webVars PROVE WebInv'
<1>1. CASE UNCHANGED webVars
  BY <1>1, PlacedStays DEF webVars, WebInv, WebTyped, HeldOpen, EndsLast
<1>2. ASSUME NEW q \in Requests, NEW s \in Sources, Join(q, s) \/ Open(q, s) PROVE WebInv'
  BY <1>2, JoinInductive, OpenInductive
<1>3. ASSUME NEW q \in Requests, Observe(q) PROVE WebInv'
  BY <1>3, ObserveInductive
<1>4. ASSUME NEW q \in Requests, Answer(q) PROVE WebInv'
  <2>1. holder' = [holder EXCEPT ![q] = 0]
        /\ UNCHANGED <<sessions, quiet, opened, expired, server, entries>>
    BY <1>4 DEF Answer
  <2>2. WebTyped'
    BY <2>1 DEF WebInv, WebTyped
  <2>3. \A p \in Requests : holder'[p] # 0 => holder'[p] = holder[p]
    BY <2>1 DEF WebInv, WebTyped
  <2>. QED
    BY <2>1, <2>2, <2>3, PlacedStays DEF WebInv, HeldOpen, EndsLast
<1>5. CASE Canary
  BY <1>5, CanaryInductive
<1>6. ASSUME NEW s \in Sources, GoQuiet(s) PROVE WebInv'
  <2>1. /\ ~InFlight(s) /\ sessions[s] # 0 /\ quiet' = quiet \cup {s}
        /\ UNCHANGED <<sessions, opened, holder, expired, server, entries>>
    BY <1>6 DEF GoQuiet
  <2>2. HeldOpen'
    BY <2>1 DEF WebInv, HeldOpen, InFlight
  <2>3. WebTyped'
    BY <2>1 DEF WebInv, WebTyped
  <2>. QED
    BY <2>1, <2>2, <2>3, PlacedStays DEF WebInv, EndsLast
<1>7. ASSUME NEW r \in Recorders, EndSession(r) PROVE WebInv'
  BY <1>7, EndSessionInductive
<1>8. CASE Sweep
  BY <1>8, TakeInductive DEF Sweep
<1>9. CASE CloseAll
  <2>1. /\ expired = {} /\ expired' = {sessions[s] : s \in Live} /\ sessions' = [s \in Sources |-> 0]
        /\ quiet' = {} /\ server' = "emptied" /\ UNCHANGED <<opened, holder, entries>>
    BY <1>9 DEF CloseAll
  <2>2. Live \cap Sources = Live
        /\ sessions' = [s \in Sources |-> IF s \in Sources THEN 0 ELSE sessions[s]]
    BY <2>1 DEF Live
  <2>. QED
    BY <2>1, <2>2, TakeInductive
<1>10. CASE Shutdown \/ CloseServer
  <2>1. UNCHANGED <<sessions, quiet, opened, holder, expired, entries>> /\ server' # "running"
    BY <1>10 DEF Shutdown, CloseServer
  <2>. QED
    BY <2>1, PlacedStays DEF WebInv, WebTyped, HeldOpen, EndsLast
<1>. QED
  BY <1>1, <1>2, <1>3, <1>4, <1>5, <1>6, <1>7, <1>8, <1>9, <1>10 DEF WebNext

\* The invariant holds of every state of the listener.
LEMMA WebInductive == WebSpec => []WebInv
  BY WebInitial, WebStep, PTL DEF WebSpec

\* server.go sessionFor, sweepIdle, closeAllSessions: for any number of sources and
\* goroutines, every session opened is in the map under one source, in the sweeper's
\* hands or ended once; so none is ended twice and none is dropped without an end.
THEOREM WebOnePlace == WebSpec => []ExactlyOnePlace
<1>1. ASSUME WebInv, NEW r \in 1..opened
      PROVE  Cardinality({s \in Sources : sessions[s] = r})
               + (IF r \in expired THEN 1 ELSE 0) + Ends(r) = 1
  <2> DEFINE H == {s \in Sources : sessions[s] = r}
  <2>1. Ends(r) = EndsIn(entries[r]) /\ EndsIn(entries[r]) \in Nat
    <3>1. entries[r] \in Seq(WebKinds) /\ "end" \in WebKinds
      BY <1>1, WebAssumption DEF WebInv, WebTyped, Recorders, WebKinds
    <3>. QED
      BY <3>1, EndsAppend DEF Ends, EndsIn
  <2>2. CASE \E s \in Sources : sessions[s] = r
    <3>1. PICK s \in Sources : sessions[s] = r
      BY <2>2
    <3>2. s \in Live /\ r \notin expired /\ EndsIn(entries[r]) = 0
      BY <1>1, <3>1 DEF WebInv, WebTyped, InOnePlace, Live
    <3>3. H = {s}
      BY <1>1, <3>1 DEF WebInv, WebTyped, InOnePlace
    <3>4. Cardinality(H) = 1
      BY <3>3, FS_Singleton
    <3> HIDE DEF H
    <3>5. Cardinality(H) + (IF r \in expired THEN 1 ELSE 0) + Ends(r) = 1
      BY <2>1, <3>2, <3>4
    <3>. QED
      BY <3>5 DEF H
  <2>3. CASE ~(\E s \in Sources : sessions[s] = r)
    <3>1. H = {} /\ Cardinality(H) = 0
      BY <2>3, FS_EmptySet
    <3>2. \/ r \in expired /\ EndsIn(entries[r]) = 0
          \/ r \notin expired /\ EndsIn(entries[r]) = 1
      BY <1>1, <2>3 DEF WebInv, InOnePlace
    <3> HIDE DEF H
    <3>3. Cardinality(H) + (IF r \in expired THEN 1 ELSE 0) + Ends(r) = 1
      BY <2>1, <3>1, <3>2
    <3>. QED
      BY <3>3 DEF H
  <2>. QED
    BY <2>2, <2>3
<1>2. WebInv => ExactlyOnePlace
  BY <1>1 DEF ExactlyOnePlace
<1>. QED
  BY <1>2, WebInductive, PTL

\* server.go sweepIdle: until the node shuts down, nothing is recorded after a session's
\* end, because no request holds a recorder that the sweeper has taken.
THEOREM WebEndIsLast == WebSpec => []EndIsLastWhileUp
<1>1. ASSUME WebInv, server = "running", NEW q \in Requests, holder[q] # 0
      PROVE  holder[q] \notin expired
  BY <1>1 DEF WebInv, HeldOpen, InOnePlace, Live
<1>2. WebInv => EndIsLastWhileUp
  BY <1>1 DEF WebInv, EndsLast, EndIsLastWhileUp
<1>. QED
  BY <1>2, WebInductive, PTL
=============================================================================
