---------------------------- MODULE WebSessions ----------------------------
(***************************************************************************)
(* Session tracking of the HTTP listener,                                  *)
(* node/internal/protocols/web/server.go.  HTTP has no connection to tie a *)
(* session to: requests from one source share a recorder until the source  *)
(* is quiet for SessionIdle, when the sweeper ends the session; shutdown   *)
(* ends all of them.  A mutex guards the map, but a request emits, and the *)
(* sweeper ends sessions, after letting it go.                             *)
(*                                                                         *)
(* Assumed: a request is answered in less than SessionIdle (two minutes by *)
(* default), so a source with a request in flight has not gone quiet since *)
(* its lastSeen was refreshed.                                             *)
(***************************************************************************)
EXTENDS Naturals, Sequences, FiniteSets

CONSTANTS
  Sources,        \* source addresses
  Requests,       \* goroutines serving requests
  MaxWebSessions, \* 0 for no limit
  MaxRecorders,   \* bound: sessions opened in one behaviour
  MaxEvents       \* bound: events of one session

ASSUME WebAssumption ==
  MaxWebSessions \in Nat /\ MaxRecorders \in Nat /\ MaxEvents \in Nat

Recorders == 1..MaxRecorders
VARIABLES
  sessions,    \* the map: recorder of each source, 0 for none
  quiet,       \* sources whose lastSeen is more than SessionIdle ago
  opened,      \* recorders made so far
  holder,      \* per request: the recorder it was given, 0 if it has none
  expired,     \* recorders taken out of the map, SessionEnd not yet emitted
  server,      \* running, cancelled (ctx done), emptied (closeAllSessions), closed
  entries      \* per recorder: the events it emitted

webVars == <<sessions, quiet, opened, holder, expired, server, entries>>

Live == {s \in Sources : sessions[s] # 0}
InFlight(s) == \E q \in Requests : holder[q] # 0 /\ holder[q] = sessions[s]

WebInit ==
  /\ sessions = [s \in Sources |-> 0]
  /\ quiet = {}
  /\ opened = 0
  /\ holder = [q \in Requests |-> 0]
  /\ expired = {}
  /\ server = "running"
  /\ entries = [r \in Recorders |-> << >>]
-----------------------------------------------------------------------------
\* Mutant: a known session's lastSeen is not refreshed.
JoinStale(q, s) ==
  /\ server # "closed" /\ holder[q] = 0
  /\ sessions[s] # 0
  /\ holder' = [holder EXCEPT ![q] = sessions[s]]
  /\ UNCHANGED <<sessions, quiet, opened, expired, server, entries>>

\* sessionFor, the source is known.
Join(q, s) ==
  /\ server # "closed" /\ holder[q] = 0
  /\ sessions[s] # 0
  /\ holder' = [holder EXCEPT ![q] = sessions[s]]
  /\ quiet' = quiet \ {s}
  /\ UNCHANGED <<sessions, opened, expired, server, entries>>

\* sessionFor, a new source: SessionStart is emitted under the mutex.
Open(q, s) ==
  /\ server # "closed" /\ holder[q] = 0
  /\ sessions[s] = 0
  /\ MaxWebSessions = 0 \/ Cardinality(Live) < MaxWebSessions
  /\ opened < MaxRecorders
  /\ opened' = opened + 1
  /\ entries' = [entries EXCEPT ![opened + 1] = <<"start">>]
  /\ sessions' = [sessions EXCEPT ![s] = opened + 1]
  /\ holder' = [holder EXCEPT ![q] = opened + 1]
  /\ quiet' = quiet \ {s}
  /\ UNCHANGED <<expired, server>>

\* handle emits the request, and the credentials, artifacts and upload it carries.
Observe(q) ==
  /\ holder[q] # 0
  /\ Len(entries[holder[q]]) < MaxEvents
  /\ entries' = [entries EXCEPT ![holder[q]] = Append(@, "request")]
  /\ UNCHANGED <<sessions, quiet, opened, holder, expired, server>>

Answer(q) ==
  /\ holder[q] # 0
  /\ holder' = [holder EXCEPT ![q] = 0]
  /\ UNCHANGED <<sessions, quiet, opened, expired, server, entries>>

\* A canary callback has a recorder of its own and is complete at once.
Canary ==
  /\ server # "closed" /\ opened < MaxRecorders
  /\ opened' = opened + 1
  /\ entries' = [entries EXCEPT ![opened + 1] = <<"start", "canary", "end">>]
  /\ UNCHANGED <<sessions, quiet, holder, expired, server>>

\* SessionIdle passes since the last request of s.
GoQuiet(s) ==
  /\ sessions[s] # 0 /\ s \notin quiet
  /\ ~InFlight(s)
  /\ quiet' = quiet \cup {s}
  /\ UNCHANGED <<sessions, opened, holder, expired, server, entries>>

\* Mutant: the entries are deleted only when the sessions have been ended.
SweepKeeps ==
  /\ server \in {"running", "cancelled"} /\ expired = {} /\ Live \cap quiet # {}
  /\ expired' = {sessions[s] : s \in Live \cap quiet}
  /\ UNCHANGED <<sessions, quiet, opened, holder, server, entries>>

\* sweepIdle, up to the unlock.
Sweep ==
  /\ server \in {"running", "cancelled"} /\ expired = {} /\ Live \cap quiet # {}
  /\ expired' = {sessions[s] : s \in Live \cap quiet}
  /\ sessions' = [s \in Sources |-> IF s \in quiet THEN 0 ELSE sessions[s]]
  /\ quiet' = {}
  /\ UNCHANGED <<opened, holder, server, entries>>

Shutdown ==
  /\ server = "running"
  /\ server' = "cancelled"
  /\ UNCHANGED <<sessions, quiet, opened, holder, expired, entries>>

\* closeAllSessions, up to the unlock; the same goroutine as the sweeper.
CloseAll ==
  /\ server = "cancelled" /\ expired = {}
  /\ expired' = {sessions[s] : s \in Live}
  /\ sessions' = [s \in Sources |-> 0]
  /\ quiet' = {}
  /\ server' = "emptied"
  /\ UNCHANGED <<opened, holder, entries>>

\* Mutant: only sessions with a request are ended.
EndSessionBusy(r) ==
  /\ r \in expired
  /\ entries' = [entries EXCEPT ![r] = IF Len(@) > 1 THEN Append(@, "end") ELSE @]
  /\ expired' = expired \ {r}
  /\ UNCHANGED <<sessions, quiet, opened, holder, server>>

\* The sweeper's second loop.
EndSession(r) ==
  /\ r \in expired
  /\ entries' = [entries EXCEPT ![r] = Append(@, "end")]
  /\ expired' = expired \ {r}
  /\ UNCHANGED <<sessions, quiet, opened, holder, server>>

\* srv.Close: no new requests; the ones in flight are not waited for.
CloseServer ==
  /\ server = "emptied" /\ expired = {}
  /\ server' = "closed"
  /\ UNCHANGED <<sessions, quiet, opened, holder, expired, entries>>

WebNext ==
  \/ \E q \in Requests :
       \/ \E s \in Sources : Join(q, s) \/ Open(q, s)
       \/ Observe(q) \/ Answer(q)
  \/ Canary
  \/ \E s \in Sources : GoQuiet(s)
  \/ \E r \in Recorders : EndSession(r)
  \/ Sweep \/ Shutdown \/ CloseAll \/ CloseServer

WebSpec == WebInit /\ [][WebNext]_webVars

(* Time passes for a silent source, the ticker fires, the sweeper's goroutine and
   the handlers run. *)
WebFairSpec ==
  /\ WebSpec
  /\ WF_webVars(Sweep) /\ WF_webVars(CloseAll) /\ WF_webVars(CloseServer)
  /\ \A r \in Recorders : WF_webVars(EndSession(r))
  /\ \A s \in Sources : WF_webVars(GoQuiet(s))
  /\ \A q \in Requests : WF_webVars(Answer(q))
-----------------------------------------------------------------------------
(* Properties *)

Ends(r) == Cardinality({i \in DOMAIN entries[r] : entries[r][i] = "end"})

\* Every session opened is in exactly one place: in the map under one source, in
\* the hands of the sweeper, or ended once; so none is ended twice, or dropped.
ExactlyOnePlace ==
  \A r \in 1..opened :
    Cardinality({s \in Sources : sessions[s] = r})
      + (IF r \in expired THEN 1 ELSE 0) + Ends(r) = 1

\* Until the node shuts down, SessionEnd is the last event of its session: no
\* request still holds a recorder that the sweeper has taken.
EndIsLastWhileUp ==
  server = "running" =>
    /\ \A r \in 1..opened : \A i \in DOMAIN entries[r] :
         entries[r][i] = "end" => i = Len(entries[r])
    /\ \A q \in Requests : holder[q] # 0 => holder[q] \notin expired

\* Every session that was opened is ended, unless requests keep arriving for it for
\* ever or the node shuts down.
QuietSessionsEnd ==
  \A r \in Recorders :
    \/ [](opened < r)
    \/ <>(Ends(r) = 1 \/ server # "running")
    \/ []<>(\E q \in Requests : holder[q] = r)
=============================================================================
