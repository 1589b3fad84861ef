------------------------------- MODULE Ingest -------------------------------
(***************************************************************************)
(* The collector's ingest path, collector/src/ingest.rs and the envelope   *)
(* checks of collector/src/normalize.rs: Ingestor::handle on one message   *)
(* after another, from any number of sensors, with the store failing and   *)
(* the process restarting.                                                 *)
(*                                                                         *)
(* A message is the subject it arrived on, which the broker authenticated, *)
(* and the fields of the envelope that decide its fate.                    *)
(***************************************************************************)
EXTENDS SeqTracker, FiniteSets

CONSTANTS
  Nodes,         \* sensors
  NoNode,        \* an empty node name
  MaxSeq,        \* bound: sequence numbers a sensor has used
  MaxReceived    \* bound: messages handled in one process life

ASSUME IngestAssumption ==
  /\ NoNode \notin Nodes
  /\ MaxSeq \in Nat /\ MaxReceived \in Nat

VARIABLES
  last,       \* SeqTracker.last: per node, 0 if absent
  stats,      \* IngestStats
  pending,    \* the event whose put_event is awaited, as {} or {<<node, seq>>}
  first,      \* history: per node, the number that was FirstSeen, or 0
  heard,      \* history: events a sensor sent in its own name, this process life
  seen        \* history: events given to the tracker, this process life

vars == <<last, stats, pending, first, heard, seen>>

Messages ==
  [subject : Nodes \cup {NoNode},       \* node_from_subject
   decodable : BOOLEAN,                 \* pb::Envelope::decode succeeds
   node_id : Nodes \cup {NoNode},
   seq : 0..MaxSeq,
   wellFormed : BOOLEAN]                \* schema version, session id and body pass

\* Mutant: the envelope's own node_id is believed.
NormalizeTrusting(msg) ==
  CASE msg.node_id = NoNode                       -> "MissingNodeId"
    [] msg.node_id # NoNode /\ msg.seq = 0        -> "MissingSeq"
    [] msg.node_id # NoNode /\ msg.seq # 0 /\ ~msg.wellFormed -> "Malformed"
    [] OTHER                                      -> "Ok"

\* normalize, check by check in the order of the code.
Normalize(msg) ==
  CASE msg.node_id = NoNode                          -> "MissingNodeId"
    [] msg.node_id # NoNode /\ msg.node_id # msg.subject -> "IdentityMismatch"
    [] msg.node_id = msg.subject /\ msg.seq = 0      -> "MissingSeq"
    [] msg.node_id = msg.subject /\ msg.seq # 0 /\ ~msg.wellFormed -> "Malformed"
    [] OTHER                                         -> "Ok"

\* The counter that handle charges a message to before the store, or "none".
Rejection(msg) ==
  IF msg.subject = NoNode THEN "rejected_other"
  ELSE IF ~msg.decodable THEN "rejected_decode"
  ELSE CASE Normalize(msg) = "IdentityMismatch" -> "rejected_identity"
         [] Normalize(msg) = "Ok"               -> "none"
         [] OTHER                               -> "rejected_other"

NoStats == [received |-> 0, stored |-> 0, rejected_identity |-> 0,
            rejected_decode |-> 0, rejected_other |-> 0,
            gaps |-> 0, replays |-> 0, missing_events |-> 0]

Init ==
  /\ last = [n \in Nodes |-> 0]
  /\ first = [n \in Nodes |-> 0]
  /\ stats = NoStats
  /\ pending = {} /\ heard = {} /\ seen = {}
-----------------------------------------------------------------------------
\* What a sensor sends in its own name, whatever handle makes of it.
Genuine(msg) ==
  IF msg.subject = msg.node_id /\ msg.decodable /\ msg.wellFormed /\ msg.seq # 0
     /\ msg.subject # NoNode
  THEN {<<msg.subject, msg.seq>>} ELSE {}

\* handle returns early: only the counters move.
Reject(msg) ==
  /\ pending = {}
  /\ stats.received < MaxReceived
  /\ Rejection(msg) # "none"
  /\ stats' = [stats EXCEPT !.received = @ + 1, ![Rejection(msg)] = @ + 1]
  /\ heard' = heard \cup Genuine(msg)
  /\ UNCHANGED <<last, first, pending, seen>>

\* handle up to the call of put_event, which is awaited.
Accept(msg) ==
  /\ pending = {}
  /\ stats.received < MaxReceived
  /\ Rejection(msg) = "none"
  /\ LET n == msg.node_id
         verdict == Observe(last[n], msg.seq)
     IN  /\ last' = [last EXCEPT ![n] = Advance(@, msg.seq)]
         /\ stats' = [stats EXCEPT
              !.received = @ + 1,
              !.gaps = @ + (IF verdict = "Gap" THEN 1 ELSE 0),
              !.missing_events = @ + Missing(last[n], msg.seq),
              !.replays = @ + (IF verdict = "Replay" THEN 1 ELSE 0)]
         /\ pending' = {<<n, msg.seq>>}
         /\ seen' = seen \cup {<<n, msg.seq>>}
         /\ first' = IF verdict = "FirstSeen" THEN [first EXCEPT ![n] = msg.seq] ELSE first
  /\ heard' = heard \cup Genuine(msg)

StoreOk ==
  /\ pending # {}
  /\ stats' = [stats EXCEPT !.stored = @ + 1]
  /\ pending' = {}
  /\ UNCHANGED <<last, first, heard, seen>>

\* Mutant: a failed write is logged but not counted.
StoreFailsUncounted ==
  /\ pending # {}
  /\ pending' = {}
  /\ UNCHANGED <<last, first, stats, heard, seen>>

StoreFails ==
  /\ pending # {}
  /\ stats' = [stats EXCEPT !.rejected_other = @ + 1]
  /\ pending' = {}
  /\ UNCHANGED <<last, first, heard, seen>>

\* The collector is restarted, possibly while put_event is awaited.
Restart ==
  /\ last' = [n \in Nodes |-> 0]
  /\ first' = [n \in Nodes |-> 0]
  /\ stats' = NoStats
  /\ pending' = {} /\ heard' = {} /\ seen' = {}

Next ==
  \/ \E msg \in Messages : Reject(msg) \/ Accept(msg)
  \/ StoreOk \/ StoreFails \/ Restart

Spec == Init /\ [][Next]_vars
-----------------------------------------------------------------------------
(* Properties *)

Events == Nodes \X (1..MaxSeq)

\* Every message received is counted once more: as stored, under one of the three
\* rejections, or it is the one whose put_event is awaited.
Conservation ==
  stats.received = stats.stored + stats.rejected_identity + stats.rejected_decode
                   + stats.rejected_other + Cardinality(pending)

\* ingest.rs:34 "a compromised sensor cannot attribute its output to a peer": the
\* tracker's entry for a node is the highest number that node itself sent, and
\* only such events go to the store.
IdentityIsolated ==
  /\ pending \subseteq heard
  /\ \A n \in Nodes :
       /\ last[n] # 0 => <<n, last[n]>> \in heard
       /\ \A e \in heard : e[1] = n => e[2] <= last[n]

\* Numbers above the first and below the last of a node that never arrived.
Holes == {e \in Events : /\ first[e[1]] < e[2] /\ e[2] < last[e[1]]
                         /\ first[e[1]] # 0 /\ e \notin seen}

\* ingest.rs:49 "Gaps mean events were lost ... both are recorded": missing_events
\* covers every hole, and a late arrival is a replay, so that the two counters
\* together are exact when nothing was replayed.
HolesRecorded ==
  /\ Cardinality(Holes) <= stats.missing_events
  /\ stats.missing_events <= Cardinality(Holes) + stats.replays
=============================================================================
