----------------------------- MODULE LiveIndex -----------------------------
(***************************************************************************)
(* The collector's working set, collector/src/index.rs, and the reports    *)
(* collector/src/api.rs makes from it.                                     *)
(*                                                                         *)
(* One mutex guards the whole index, so ingest, apply_profile and each     *)
(* query are atomic.  Every stored event is ingested once per delivery;    *)
(* sessions, order and events are three structures that must stay in step. *)
(* An event carries the one value its kind counts (source address,         *)
(* credential pair, artifact URL or detected attack).  A time stamp is the *)
(* number of events ingested.                                              *)
(***************************************************************************)
EXTENDS Naturals, Sequences, FiniteSets

CONSTANTS
  Events,        \* the events the sensors send
  NoSession,     \* the empty session_id, as in a heartbeat
  NoVal,         \* the empty string
  MAX_SESSIONS, MAX_EVENTS_PER_SESSION, MAX_RECENT,
  MaxIngest      \* bound: events ingested

ASSUME IndexAssumption ==
  /\ MAX_SESSIONS \in Nat \ {0}
  /\ MAX_EVENTS_PER_SESSION \in Nat \ {0}
  /\ MAX_RECENT \in Nat \ {0}
  /\ MaxIngest \in Nat

VARIABLES
  sessions,      \* the SessionView of each retained session
  order,         \* session ids in creation order
  events,        \* per retained session, its first events
  recent,        \* ring of the latest session events
  nodes,         \* NodeHealth of each node that sent a heartbeat
  total_events,
  totals,        \* commands, credentials, artifacts, canary_hits
  counts,        \* source_counts, credential_counts and attack_counts
  since          \* history: every event of a session since its view was created

vars == <<sessions, order, events, recent, nodes, total_events, totals, counts, since>>

Sids == {e.sid : e \in Events} \ {NoSession}
Vals == {e.val : e \in Events}
Counted == {"source", "credential", "attack"} \X Vals
Totalled == {"commands", "credentials", "artifacts", "canary_hits"}

Init ==
  /\ sessions = << >> /\ order = << >> /\ events = << >> /\ recent = << >>
  /\ nodes = << >>
  /\ total_events = 0
  /\ totals = [k \in Totalled |-> 0]
  /\ counts = [k \in Counted |-> 0]
  /\ since = << >>
-----------------------------------------------------------------------------
(* ingest, structure by structure *)

Known(e) == e.sid \in DOMAIN sessions

\* The sessions the while loop pops: none, or the oldest.
Victims(e) ==
  IF ~Known(e) /\ Len(order) >= MAX_SESSIONS THEN {Head(order)} ELSE {}

\* The retained sessions once e has been folded in.
Retained(e) == (DOMAIN sessions \cup {e.sid}) \ Victims(e)

OrderAfter(e) ==
  IF Known(e) THEN order
  ELSE Append(IF Victims(e) = {} THEN order ELSE Tail(order), e.sid)

NewView ==
  [src |-> NoVal, started |-> total_events + 1, ended |-> 0, login |-> NoVal,
   commands |-> 0, auths |-> 0, artifacts |-> 0, requests |-> 0,
   urls |-> {}, attacks |-> {}, profiled |-> FALSE]

\* The view v of e's session after e.
Fold(v, e) ==
  CASE e.kind = "start"    -> [v EXCEPT !.src = e.val]
    [] e.kind = "end"      -> [v EXCEPT !.ended = total_events + 1]
    [] e.kind = "auth"     -> [v EXCEPT !.auths = @ + 1]
    [] e.kind = "login"    -> [v EXCEPT !.auths = @ + 1, !.login = e.val]
    [] e.kind = "command"  -> [v EXCEPT !.commands = @ + 1]
    [] e.kind = "artifact" -> [v EXCEPT !.artifacts = @ + 1, !.urls = @ \cup {e.val}]
    [] e.kind = "request"  -> [v EXCEPT !.requests = @ + 1,
                                        !.attacks = @ \cup ({e.val} \ {NoVal})]
    [] OTHER               -> v

\* Mutant: a session at its event cap is left alone, view and all.
ViewAfterUnderCap(e) ==
  IF ~Known(e) THEN Fold(NewView, e)
  ELSE IF Len(events[e.sid]) < MAX_EVENTS_PER_SESSION THEN Fold(sessions[e.sid], e)
  ELSE sessions[e.sid]

\* The view of e's session once e is in: the aggregate is updated before, and
\* whether or not, the event is kept.
ViewAfter(e) == Fold(IF Known(e) THEN sessions[e.sid] ELSE NewView, e)

\* The fleet-wide counter of e's value.
CountKey(e) ==
  CASE e.kind = "start" /\ e.val # NoVal   -> {<<"source", e.val>>}
    [] e.kind \in {"auth", "login"}        -> {<<"credential", e.val>>}
    [] e.kind = "request" /\ e.val # NoVal -> {<<"attack", e.val>>}
    [] OTHER                               -> {}

\* The fleet-wide total e belongs to.
TotalKey(e) ==
  CASE e.kind \in {"auth", "login"} -> {"credentials"}
    [] e.kind = "command"           -> {"commands"}
    [] e.kind = "artifact"          -> {"artifacts"}
    [] e.kind = "canary"            -> {"canary_hits"}
    [] OTHER                        -> {}

\* Mutant: the buckets of evicted sessions are not removed.
EventsAfterLeaks(e) ==
  [s \in DOMAIN events \cup {e.sid} |->
     IF s # e.sid THEN events[s]
     ELSE IF s \notin DOMAIN events THEN <<e>>
     ELSE IF Len(events[s]) < MAX_EVENTS_PER_SESSION THEN Append(events[s], e)
     ELSE events[s]]

EventsAfter(e) ==
  [s \in Retained(e) |->
     IF s # e.sid THEN events[s]
     ELSE IF ~Known(e) THEN <<e>>
     ELSE IF Len(events[s]) < MAX_EVENTS_PER_SESSION THEN Append(events[s], e)
     ELSE events[s]]

RecentAfter(e) ==
  Append(IF Len(recent) = MAX_RECENT THEN Tail(recent) ELSE recent, e)

\* A session event only counts for a node that has sent a heartbeat.
Ingest(e) ==
  /\ total_events < MaxIngest
  /\ e.sid # NoSession
  /\ total_events' = total_events + 1
  /\ nodes' = IF e.node \in DOMAIN nodes
              THEN [nodes EXCEPT ![e.node] = [seen |-> total_events + 1,
                                              events |-> @.events + 1]]
              ELSE nodes
  /\ sessions' = [s \in Retained(e) |->
                    IF s # e.sid THEN sessions[s] ELSE ViewAfter(e)]
  /\ order' = OrderAfter(e)
  /\ totals' = [k \in Totalled |-> totals[k] + IF k \in TotalKey(e) THEN 1 ELSE 0]
  /\ counts' = [k \in Counted |-> counts[k] + IF k \in CountKey(e) THEN 1 ELSE 0]
  /\ events' = EventsAfter(e)
  /\ recent' = RecentAfter(e)
  /\ since' = [s \in Retained(e) |->
                 IF s # e.sid THEN since[s]
                 ELSE IF Known(e) THEN Append(since[s], e) ELSE <<e>>]

\* The fleet's health after a heartbeat of e's node.
HealthAfter(e) ==
  [n \in DOMAIN nodes \cup {e.node} |->
     IF n # e.node THEN nodes[n]
     ELSE [seen |-> total_events + 1,
           events |-> IF n \in DOMAIN nodes THEN nodes[n].events ELSE 0]]

\* An event without a session is counted and forgotten; a heartbeat is the one kind
\* that leaves a trace, in the health of its node.
NodeTelemetry(e) ==
  /\ total_events < MaxIngest
  /\ e.sid = NoSession
  /\ total_events' = total_events + 1
  /\ nodes' = IF e.kind = "heartbeat" THEN HealthAfter(e) ELSE nodes
  /\ UNCHANGED <<sessions, order, events, recent, totals, counts, since>>

\* The profiling report names some sessions, retained or not.
ApplyProfile(named) ==
  /\ sessions' = [s \in DOMAIN sessions |->
                    [sessions[s] EXCEPT !.profiled = @ \/ s \in named]]
  /\ UNCHANGED <<order, events, recent, nodes, total_events, totals, counts, since>>

Next ==
  \/ \E e \in Events : Ingest(e) \/ NodeTelemetry(e)
  \/ \E named \in SUBSET Sids : ApplyProfile(named)

Spec == Init /\ [][Next]_vars
-----------------------------------------------------------------------------
(* Queries of the API *)

\* Mutant: a source that only tried passwords is published too.
SourceIocsSprayed ==
  {sessions[s].src : s \in {t \in DOMAIN sessions :
     \/ sessions[t].commands > 0 \/ sessions[t].artifacts > 0
     \/ sessions[t].auths > 0 \/ sessions[t].attacks # {}}}

\* The source_ips of the IOC feed: sources that did more than try passwords.
SourceIocs ==
  {sessions[s].src : s \in {t \in DOMAIN sessions :
     \/ sessions[t].commands > 0
     \/ sessions[t].artifacts > 0
     \/ sessions[t].attacks # {}}}
-----------------------------------------------------------------------------
(* Properties *)

\* The three structures agree through every eviction and re-creation: each retained
\* session is in order once, oldest first, and has its events; the caps hold.
InStep ==
  /\ Len(order) <= MAX_SESSIONS
  /\ DOMAIN sessions = {order[i] : i \in DOMAIN order}
  /\ DOMAIN events = DOMAIN sessions
  /\ \A i, j \in DOMAIN order :
       i < j => sessions[order[i]].started < sessions[order[j]].started
  /\ \A s \in DOMAIN events : Len(events[s]) \in 1..MAX_EVENTS_PER_SESSION

\* index.rs:219 "a session that hits the per-session event cap still has accurate
\* counters": a view is what its events say, all of them, not only the kept ones;
\* the kept ones are the first, in order, none left out.
Number(h, K) == Cardinality({i \in DOMAIN h : h[i].kind \in K})
Values(h, k) == {h[i].val : i \in {j \in DOMAIN h : h[j].kind = k}}
ViewsAccurate ==
  \A s \in DOMAIN sessions :
    LET v == sessions[s]  h == since[s] IN
      /\ v.commands = Number(h, {"command"})
      /\ v.auths = Number(h, {"auth", "login"})
      /\ v.artifacts = Number(h, {"artifact"}) /\ v.urls = Values(h, "artifact")
      /\ v.requests = Number(h, {"request"})
      /\ v.attacks = Values(h, "request") \ {NoVal}
      /\ (v.ended # 0) = (Number(h, {"end"}) > 0)
      /\ v.src # NoVal => v.src \in Values(h, "start")
      /\ events[s] = SubSeq(h, 1, Len(events[s]))
      /\ Len(events[s]) < Len(h) => Len(events[s]) = MAX_EVENTS_PER_SESSION

\* api.rs:175 "Only sources that did something beyond spraying are published": an
\* address in the IOC feed started a session that, since then or before its start
\* arrived, ran a command, fetched an artifact or sent an attack.
FeedJustified ==
  \A ip \in SourceIocs \ {NoVal} :
    \E s \in DOMAIN sessions :
      LET h == since[s] IN
        /\ ip \in Values(h, "start")
        /\ Number(h, {"command", "artifact"}) > 0 \/ Values(h, "request") \ {NoVal} # {}
=============================================================================
