------------------------------- MODULE Telnet -------------------------------
(***************************************************************************)
(* The telnet listener, node/internal/protocols/telnet/server.go: one      *)
(* goroutine per connection runs handle, which takes a slot of the budget, *)
(* records the session, and gives the slot back by a deferred call however *)
(* it ends.  Reads fail when the client leaves or the deadline passes; a   *)
(* panic is recovered; on shutdown the listener closes, the handlers run   *)
(* on, and the process exits without waiting for them.                     *)
(***************************************************************************)
EXTENDS Limiter, Sequences

CONSTANTS
  Conns,             \* connections made in one behaviour
  Ip,                \* source address of each
  MaxAuthAttempts,   \* as in Config, after New's default
  MaxCommands,       \* bound: commands in one session
  MaxPanics          \* bound: handlers that panic

ASSUME TelnetAssumption ==
  /\ IsFiniteSet(Conns)
  /\ Ip \in [Conns -> IPs]
  /\ MaxAuthAttempts \in Nat \ {0}
  /\ MaxCommands \in Nat /\ MaxPanics \in Nat

VARIABLES
  pc,         \* per connection: where handle is
  attempt,    \* per connection: authenticate's loop variable
  log,        \* per connection: kinds of the events its recorder emitted
  late,       \* running handlers whose maxEnd has passed
  cancelled,  \* the context is cancelled
  panicked    \* connections whose handler panicked

vars == <<limiterVars, pc, attempt, log, late, cancelled, panicked>>

Goto(c, l) == pc' = [pc EXCEPT ![c] = l]
Emit(c, e) == log' = [log EXCEPT ![c] = Append(@, e)]

Holding == {c \in Conns : pc[c] \in {"start", "login", "shell", "end", "release"}}

Init ==
  /\ LimiterInit
  /\ pc = [c \in Conns |-> "new"]
  /\ attempt = [c \in Conns |-> 1]
  /\ log = [c \in Conns |-> << >>]
  /\ late = {} /\ cancelled = FALSE /\ panicked = {}

\* ln.Accept, acquire
Accept(c) ==
  /\ pc[c] = "new" /\ ~cancelled
  /\ Take(Ip[c])
  /\ Goto(c, "start")
  /\ UNCHANGED <<attempt, log, late, cancelled, panicked>>

Refuse(c) ==
  /\ pc[c] = "new" /\ ~cancelled
  /\ ~MayAcquire(Ip[c])
  /\ Goto(c, "closed")
  /\ UNCHANGED <<limiterVars, attempt, log, late, cancelled, panicked>>

Start(c) ==
  /\ pc[c] = "start"
  /\ Emit(c, "start")
  /\ Goto(c, "login")
  /\ UNCHANGED <<limiterVars, attempt, late, cancelled, panicked>>

\* One round of authenticate: a pair of lines was read.
Attempt(c, granted) ==
  /\ pc[c] = "login"
  /\ Emit(c, IF granted THEN "login" ELSE "auth")
  /\ attempt' = [attempt EXCEPT ![c] = IF granted THEN @ ELSE @ + 1]
  /\ Goto(c, IF granted THEN "shell" ELSE IF attempt[c] >= MaxAuthAttempts THEN "end"
             ELSE "login")
  /\ UNCHANGED <<limiterVars, late, cancelled, panicked>>

\* Mutant: a failed login returns without SessionEnd.
LineFailsSilently(c) ==
  /\ pc[c] = "login"
  /\ Goto(c, "release")
  /\ UNCHANGED <<limiterVars, attempt, log, late, cancelled, panicked>>

\* readLine fails: client gone, deadline, or a line over 512 bytes.
LineFails(c) ==
  /\ pc[c] = "login"
  /\ Goto(c, "end")
  /\ UNCHANGED <<limiterVars, attempt, log, late, cancelled, panicked>>

\* The shell's hooks record a command, with its artifacts and uploads.
Command(c) ==
  /\ pc[c] = "shell"
  /\ Cardinality({i \in DOMAIN log[c] : log[c][i] = "command"}) < MaxCommands
  /\ Emit(c, "command")
  /\ UNCHANGED <<limiterVars, pc, attempt, late, cancelled, panicked>>

\* RunInteractive returns: exit, client gone, deadline or a limit.
ShellReturns(c) ==
  /\ pc[c] = "shell"
  /\ Goto(c, "end")
  /\ UNCHANGED <<limiterVars, attempt, log, late, cancelled, panicked>>

End(c) ==
  /\ pc[c] = "end"
  /\ Emit(c, "end")
  /\ Goto(c, "release")
  /\ UNCHANGED <<limiterVars, attempt, late, cancelled, panicked>>

\* Mutant: the slot is given back at the end of handle, not by a deferred call.
PanicLeaks(c) ==
  /\ pc[c] \in {"start", "login", "shell", "end"}
  /\ Cardinality(panicked) < MaxPanics
  /\ panicked' = panicked \cup {c}
  /\ Goto(c, "closed")
  /\ UNCHANGED <<limiterVars, attempt, log, late, cancelled>>

\* A panic unwinds to the deferred calls: no SessionEnd, but the slot is released.
Panic(c) ==
  /\ pc[c] \in {"start", "login", "shell", "end"}
  /\ Cardinality(panicked) < MaxPanics
  /\ panicked' = panicked \cup {c}
  /\ Goto(c, "release")
  /\ UNCHANGED <<limiterVars, attempt, log, late, cancelled>>

Release(c) ==
  /\ pc[c] = "release"
  /\ Give(Ip[c])
  /\ Goto(c, "closed")
  /\ late' = late \ {c}
  /\ UNCHANGED <<attempt, log, cancelled, panicked>>

\* Mutant: maxEnd bounds the login prompt only.
DeadlineLoginOnly(c) ==
  /\ pc[c] = "login" /\ c \notin late
  /\ late' = late \cup {c}
  /\ UNCHANGED <<limiterVars, pc, attempt, log, cancelled, panicked>>

\* maxEnd passes; refreshDeadline never sets a read deadline after it.
Deadline(c) ==
  /\ pc[c] \in {"login", "shell"} /\ c \notin late
  /\ late' = late \cup {c}
  /\ UNCHANGED <<limiterVars, pc, attempt, log, cancelled, panicked>>

Shutdown ==
  /\ ~cancelled
  /\ cancelled' = TRUE
  /\ UNCHANGED <<limiterVars, pc, attempt, log, late, panicked>>

\* main returns: the handlers that are left end with the process.
Exit ==
  /\ cancelled
  /\ pc' = [c \in Conns |-> IF pc[c] = "closed" THEN "closed" ELSE "gone"]
  /\ total' = 0 /\ perIP' = [ip \in IPs |-> 0]
  /\ late' = {}
  /\ UNCHANGED <<attempt, log, cancelled, panicked>>

Next ==
  \/ \E c \in Conns :
       \/ Accept(c) \/ Refuse(c) \/ Start(c) \/ LineFails(c)
       \/ \E granted \in BOOLEAN : Attempt(c, granted)
       \/ Command(c) \/ ShellReturns(c) \/ End(c) \/ Panic(c) \/ Release(c)
       \/ Deadline(c)
  \/ Shutdown \/ Exit

Spec == Init /\ [][Next]_vars

(* Time passes, a read past its deadline fails, and the handler's own steps are
   taken.  The client is not assumed to do anything. *)
FairSpec ==
  /\ Spec
  /\ \A c \in Conns :
       /\ WF_vars(Deadline(c))
       /\ WF_vars(c \in late /\ (LineFails(c) \/ ShellReturns(c)))
       /\ WF_vars(Start(c) \/ End(c) \/ Release(c))
-----------------------------------------------------------------------------
(* Properties *)

\* Types of the budget and of each handler.
TypeOK ==
  /\ total \in 0..Cardinality(Conns)
  /\ perIP \in [IPs -> 0..Cardinality(Conns)]
  /\ pc \in [Conns -> {"new", "start", "login", "shell", "end", "release",
                       "closed", "gone"}]
  /\ attempt \in [Conns -> 1..(MaxAuthAttempts + 1)]
  /\ log \in [Conns -> Seq({"start", "auth", "login", "command", "end"})]
  /\ late \subseteq Conns /\ panicked \subseteq Conns
  /\ cancelled \in BOOLEAN

\* The counters are exactly the handlers that run, per source too, whichever way
\* the others ended: no slot leaks and none is given back twice.
BudgetExact ==
  /\ total = Cardinality(Holding)
  /\ \A ip \in IPs : perIP[ip] = Cardinality({c \in Holding : Ip[c] = ip})

\* sshd/server.go:419 "a single aggressive scanner ... would otherwise crowd out
\* every other actor": one source alone never exhausts the budget of the others.
NotCrowdedOut ==
  MaxSessionsPerIP # 0 /\ MaxSessionsPerIP < MaxSessions =>
    \A ip \in IPs : (\A c \in Holding : Ip[c] # ip)
                    /\ (\E jp \in IPs : \A c \in Holding : Ip[c] = jp)
                    => MayAcquire(ip)

\* A transcript is start, at most MaxAuthAttempts offers of which only the last can
\* succeed, commands only when it did, and one end; a handler that returned without a
\* panic has closed what it opened.
Whole(h) ==
  /\ h # << >> => h[1] = "start"
  /\ \A i \in DOMAIN h : h[i] = "start" => i = 1
  /\ Cardinality({i \in DOMAIN h : h[i] \in {"auth", "login"}}) <= MaxAuthAttempts
  /\ \A i, j \in DOMAIN h : i < j =>
       /\ h[i] # "end"
       /\ h[i] = "login" => h[j] \in {"command", "end"}
  /\ \A j \in DOMAIN h : h[j] = "command" => \E i \in 1..(j - 1) : h[i] = "login"
TranscriptsWhole ==
  \A c \in Conns :
    /\ Whole(log[c])
    /\ pc[c] = "closed" /\ log[c] # << >> /\ c \notin panicked
         => log[c][Len(log[c])] = "end"

\* Every slot comes back, though the client never sends another byte.
SlotsReturn == \A c \in Conns : c \in Holding ~> c \notin Holding
=============================================================================
