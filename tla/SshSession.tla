----------------------------- MODULE SshSession -----------------------------
(***************************************************************************)
(* One SSH connection, node/internal/protocols/sshd/server.go.             *)
(*                                                                         *)
(* Four kinds of goroutine share the connection's context and its single   *)
(* recorder: the handshake, which calls handlePassword and handlePublicKey *)
(* one after another; a handler per channel, which runs handleSession; and *)
(* whoever closes the connection, which runs finishSession.  The library   *)
(* closes it from the transport's goroutine as soon as a read fails        *)
(* (client gone, idle or maximum timeout, server closing), whatever the    *)
(* others are doing, and again when its connection loop ends.              *)
(***************************************************************************)
EXTENDS Limiter, Sequences

CONSTANTS
  Channels,       \* channels the client opens
  Source,         \* its address
  MaxOffers,      \* bound: credentials offered (MaxAuthTries of the library)
  MaxCommands     \* bound: commands per channel

ASSUME SshAssumption ==
  /\ Source \in IPs
  /\ MaxOffers \in Nat /\ MaxCommands \in Nat

VARIABLES
  auth,        \* where the handshake goroutine is
  offers,      \* credentials offered so far
  recorder,    \* ctxKeyRecorder is set
  endReason,   \* ctxKeyEndReason, "none" if unset
  closed,      \* closers that have called Close
  fired,       \* closeOnce has run
  hook,        \* where finishSession is
  ending,      \* the SessionEnd it is putting together
  chan,        \* per channel: where handleSession is
  read,        \* per channel: the commandCount it read and will write back
  commandCount, authCount,
  ran,         \* per channel: commands it has run
  log          \* the events emitted, in spool order

counters == <<commandCount, authCount>>
vars == <<limiterVars, auth, offers, recorder, endReason, closed, fired, hook, ending,
          chan, read, counters, ran, log>>

Closers == {"transport", "loop"}
Ev(k) == [kind |-> k, reason |-> "none", commands |-> 0]
Emit(e) == log' = Append(log, e)

Init ==
  /\ LimiterInit
  /\ auth = "idle" /\ offers = 0
  /\ recorder = FALSE /\ endReason = "none"
  /\ closed = {} /\ fired = FALSE /\ hook = "armed" /\ ending = Ev("end")
  /\ chan = [c \in Channels |-> "new"]
  /\ read = [c \in Channels |-> 0]
  /\ ran = [c \in Channels |-> 0]
  /\ commandCount = 0 /\ authCount = 0
  /\ log = << >>
-----------------------------------------------------------------------------
(* The handshake goroutine: recorderFor, then AuthAttempt or PublicKeyAttempt *)

\* A request is read from the connection; after that the callback runs to its end.
Offer ==
  /\ auth = "idle" /\ closed = {} /\ offers < MaxOffers
  /\ offers' = offers + 1
  /\ auth' = IF recorder THEN "attempt" ELSE "create"
  /\ UNCHANGED <<limiterVars, recorder, endReason, closed, fired, hook, ending, chan,
                 read, counters, ran, log>>

\* session.New, ctx.SetValue: the recorder is visible before its SessionStart.
CreateRecorder ==
  /\ auth = "create"
  /\ recorder' = TRUE
  /\ auth' = "start"
  /\ UNCHANGED <<limiterVars, offers, endReason, closed, fired, hook, ending, chan,
                 read, counters, ran, log>>

EmitStart ==
  /\ auth = "start"
  /\ Emit(Ev("start"))
  /\ auth' = "attempt"
  /\ UNCHANGED <<limiterVars, offers, recorder, endReason, closed, fired, hook, ending,
                 chan, read, counters, ran>>

\* The credential is recorded; a granted one ends the handshake.
RecordAttempt(granted) ==
  /\ auth = "attempt"
  /\ Emit(Ev("auth"))
  /\ authCount' = authCount + 1
  /\ auth' = IF granted THEN "granted" ELSE "idle"
  /\ UNCHANGED <<limiterVars, offers, recorder, endReason, closed, fired, hook, ending,
                 chan, read, commandCount, ran>>
-----------------------------------------------------------------------------
(* A channel's goroutine: handleSession *)

OpenChannel(c) ==
  /\ chan[c] = "new" /\ auth = "granted" /\ closed = {}
  /\ chan' = [chan EXCEPT ![c] = "acquire"]
  /\ UNCHANGED <<limiterVars, auth, offers, recorder, endReason, closed, fired, hook,
                 ending, read, counters, ran, log>>

\* The client asks for sftp instead of a shell: handleSFTPRefusal.
RefuseSftp(c) ==
  /\ chan[c] = "new" /\ auth = "granted" /\ closed = {}
  /\ Emit(Ev("anomaly"))
  /\ chan' = [chan EXCEPT ![c] = "gone"]
  /\ UNCHANGED <<limiterVars, auth, offers, recorder, endReason, closed, fired, hook,
                 ending, read, counters, ran>>

AcquireSlot(c) ==
  /\ chan[c] = "acquire"
  /\ Take(Source)
  /\ chan' = [chan EXCEPT ![c] = "run"]
  /\ UNCHANGED <<auth, offers, recorder, endReason, closed, fired, hook, ending, read,
                 counters, ran, log>>

RefuseSlot(c) ==
  /\ chan[c] = "acquire"
  /\ ~MayAcquire(Source)
  /\ Emit(Ev("anomaly"))
  /\ chan' = [chan EXCEPT ![c] = "refused"]
  /\ UNCHANGED <<limiterVars, auth, offers, recorder, endReason, closed, fired, hook,
                 ending, read, counters, ran>>

NoteLimit(c) ==
  /\ chan[c] = "refused"
  /\ endReason' = "limit_exceeded"
  /\ chan' = [chan EXCEPT ![c] = "gone"]
  /\ UNCHANGED <<limiterVars, auth, offers, recorder, closed, fired, hook, ending, read,
                 counters, ran, log>>

\* The shell runs a command, with or without the client: r.commandCount++ is a read
\* and a write, not synchronised between channels.
CommandReads(c) ==
  /\ chan[c] = "run" /\ ran[c] < MaxCommands
  /\ read' = [read EXCEPT ![c] = commandCount]
  /\ ran' = [ran EXCEPT ![c] = @ + 1]
  /\ chan' = [chan EXCEPT ![c] = "count"]
  /\ UNCHANGED <<limiterVars, auth, offers, recorder, endReason, closed, fired, hook,
                 ending, counters, log>>

CommandWrites(c) ==
  /\ chan[c] = "count"
  /\ commandCount' = read[c] + 1
  /\ chan' = [chan EXCEPT ![c] = "record"]
  /\ UNCHANGED <<limiterVars, auth, offers, recorder, endReason, closed, fired, hook,
                 ending, read, authCount, ran, log>>

\* Mutant: emitting a command counts it a second time.
CommandEmitsCounts(c) ==
  /\ chan[c] = "record"
  /\ Emit(Ev("command"))
  /\ commandCount' = commandCount + 1
  /\ chan' = [chan EXCEPT ![c] = "run"]
  /\ UNCHANGED <<limiterVars, auth, offers, recorder, endReason, closed, fired, hook,
                 ending, read, authCount, ran>>

CommandEmits(c) ==
  /\ chan[c] = "record"
  /\ Emit(Ev("command"))
  /\ chan' = [chan EXCEPT ![c] = "run"]
  /\ UNCHANGED <<limiterVars, auth, offers, recorder, endReason, closed, fired, hook,
                 ending, read, counters, ran>>

\* Mutant: a clean exit records the default reason.
ShellReturnsDefault(c, why) ==
  /\ chan[c] = "run"
  /\ endReason' = IF why = "clean" THEN "client_closed" ELSE why
  /\ chan' = [chan EXCEPT ![c] = "release"]
  /\ UNCHANGED <<limiterVars, auth, offers, recorder, closed, fired, hook, ending, read,
                 counters, ran, log>>

\* RunExec or RunInteractive returns; only an unusual reason is noted.
ShellReturns(c, why) ==
  /\ chan[c] = "run"
  /\ endReason' = IF why = "clean" THEN endReason ELSE why
  /\ chan' = [chan EXCEPT ![c] = "release"]
  /\ UNCHANGED <<limiterVars, auth, offers, recorder, closed, fired, hook, ending, read,
                 counters, ran, log>>

ReleaseSlot(c) ==
  /\ chan[c] = "release"
  /\ Give(Source)
  /\ chan' = [chan EXCEPT ![c] = "gone"]
  /\ UNCHANGED <<auth, offers, recorder, endReason, closed, fired, hook, ending, read,
                 counters, ran, log>>
-----------------------------------------------------------------------------
(* Closing: sniffConn.Close and finishSession *)

\* Mutant: onClose without closeOnce.
CloseEveryTime(by) ==
  /\ by \notin closed
  /\ by = "loop" => closed # {} /\ auth \in {"idle", "granted"}
  /\ hook \notin {"reason", "count", "emit"}
  /\ closed' = closed \cup {by}
  /\ fired' = TRUE
  /\ hook' = "look"
  /\ UNCHANGED <<limiterVars, auth, offers, recorder, endReason, ending, chan, read,
                 counters, ran, log>>

\* The connection loop's deferred Close comes after the transport's.
Close(by) ==
  /\ by \notin closed
  /\ by = "loop" => closed # {} /\ auth \in {"idle", "granted"}
  /\ closed' = closed \cup {by}
  /\ fired' = TRUE
  /\ hook' = IF fired THEN hook ELSE "look"
  /\ UNCHANGED <<limiterVars, auth, offers, recorder, endReason, ending, chan, read,
                 counters, ran, log>>

\* finishSession reads the recorder; a connection without one produces nothing.
FinishLooks ==
  /\ hook = "look"
  /\ hook' = IF recorder THEN "reason" ELSE "done"
  /\ UNCHANGED <<limiterVars, auth, offers, recorder, endReason, closed, fired, ending,
                 chan, read, counters, ran, log>>

\* It reads the reason, or takes the default; channels may still note one after that.
FinishReads ==
  /\ hook = "reason"
  /\ ending' = [ending EXCEPT !.reason = IF endReason = "none" THEN "client_closed"
                                         ELSE endReason]
  /\ hook' = "count"
  /\ UNCHANGED <<limiterVars, auth, offers, recorder, endReason, closed, fired, chan,
                 read, counters, ran, log>>

\* SessionEnd reads the counters, as unsynchronised as they are written.
FinishCounts ==
  /\ hook = "count"
  /\ ending' = [ending EXCEPT !.commands = commandCount]
  /\ hook' = "emit"
  /\ UNCHANGED <<limiterVars, auth, offers, recorder, endReason, closed, fired, chan,
                 read, counters, ran, log>>

FinishEmits ==
  /\ hook = "emit"
  /\ Emit(ending)
  /\ hook' = "done"
  /\ UNCHANGED <<limiterVars, auth, offers, recorder, endReason, closed, fired, ending,
                 chan, read, counters, ran>>

ChannelStep(c) ==
  \/ OpenChannel(c) \/ RefuseSftp(c) \/ AcquireSlot(c) \/ RefuseSlot(c) \/ NoteLimit(c)
  \/ CommandReads(c) \/ CommandWrites(c) \/ CommandEmits(c) \/ ReleaseSlot(c)
  \/ \E why \in {"clean", "limit_exceeded", "protocol_error"} : ShellReturns(c, why)

Next ==
  \/ Offer \/ CreateRecorder \/ EmitStart
  \/ \E granted \in BOOLEAN : RecordAttempt(granted)
  \/ \E c \in Channels : ChannelStep(c)
  \/ \E by \in Closers : Close(by)
  \/ FinishLooks \/ FinishReads \/ FinishCounts \/ FinishEmits

Spec == Init /\ [][Next]_vars
-----------------------------------------------------------------------------
(* Properties *)

Count(k) == Cardinality({i \in DOMAIN log : log[i].kind = k})
Ended == {log[i] : i \in {j \in DOMAIN log : log[j].kind = "end"}}

\* sshd/server.go:217 "emitting per channel produced one start and a dozen ends for
\* the same session_id": however many channels and closers, one start and one end.
OneStartOneEnd == Count("start") <= 1 /\ Count("end") <= 1

\* sshd/server.go:401 a channel notes why it ended "so that a limit breach or protocol
\* error is not overwritten by the default when the connection finally closes": from
\* the moment one is noted, if finishSession has not read the reason yet, no summary
\* with the default will be emitted, whatever the other channels do.  One noted later,
\* between that read and the emission, is lost.
Noted ==
  /\ endReason \in {"limit_exceeded", "protocol_error"}
  /\ hook \in {"armed", "look", "reason"}
ReasonKept == [](Noted => [](\A e \in Ended : e.reason # "client_closed"))

\* The commands run, each as its channel and its place there.
Commands == {p \in Channels \X (1..MaxCommands) : p[2] <= ran[p[1]]}

\* The summary of the session never counts a command that was not run, though
\* channels increment the counter without synchronisation.
NeverOvercounts ==
  /\ \A e \in Ended : e.commands <= Cardinality(Commands)
  /\ Count("command") <= Cardinality(Commands)
=============================================================================
