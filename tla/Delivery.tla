------------------------------ MODULE Delivery ------------------------------
(***************************************************************************)
(* From the sensor's spool to the collector's store: the publisher of      *)
(* node/internal/transport/nats.go on top of Spool, the NATS broker, and   *)
(* the subscription loop of collector/src/ingest.rs.                       *)
(*                                                                         *)
(* The broker and its client libraries are external; they are modelled     *)
(* from how the code uses them.  A publish goes into the outbound FIFO of  *)
(* one connection; a flush returns once the broker has consumed that FIFO; *)
(* a link failure loses what was in transit, while what the client still   *)
(* buffers is sent after the library reconnects.  Core NATS keeps nothing: *)
(* a message that finds no subscriber, or a full subscription, is gone.    *)
(***************************************************************************)
EXTENDS SeqTracker, Sequences, FiniteSets

CONSTANTS
  Writers, MaxSeq, MaxBytes, RecordSize, Growth, BatchSize,  \* as in Spool
  MaxFaults,    \* bound: failures of any kind in one behaviour
  InboxCap      \* capacity of the collector's subscription channel

ASSUME DeliveryAssumption ==
  /\ MaxFaults \in Nat
  /\ InboxCap \in Nat \ {0}

VARIABLES
  seq, events, size, dropped, reserved, batch,      \* Spool
  acked, evicted, fresh, abandoned,                 \* Spool's history
  pc,           \* where Publisher.drain is
  todo,         \* records of the batch not yet given to Publish
  conn,         \* p.nc: number of the current connection, 0 for nil
  link,         \* per connection: not dialled, up, down, or of a dead process
  wire,         \* per connection: published, not yet consumed by the broker
  subscribed,   \* the collector's subscription reaches the broker
  inbox,        \* messages waiting in the subscription channel
  last,         \* SeqTracker entry of this node, 0 if none
  missing,      \* IngestStats.missing_events
  stored,       \* events put_event accepted (durable)
  faults,       \* failures so far
  received,     \* history: consumed by the broker
  observed,     \* history: handed to SeqTracker since the collector started
  cut,          \* history: lost in transit when a link failed
  missed,       \* history: consumed by the broker with nobody to take it
  spilt,        \* history: lost in the collector (crash, store failure)
  overtaken,    \* history: numbers stored in the spool after a higher one
  misjudged     \* history: called a replay though never seen before

S == INSTANCE Spool

ASSUME DeliverySpoolAssumption == S!SpoolAssumption

spool == <<seq, events, size, dropped, reserved, batch,
           acked, evicted, fresh, abandoned>>
node == <<pc, todo>>
net == <<conn, link, wire>>
collector == <<subscribed, inbox, last, missing, stored>>
ghosts == <<received, observed, cut, missed, spilt, misjudged, overtaken>>
vars == <<spool, node, net, collector, faults, ghosts>>

Conns == 1..(MaxFaults + 1)   \* a new connection is dialled only after a fault

InTransit(C) == UNION {{wire[c][i] : i \in DOMAIN wire[c]} : c \in C}
Queued == {inbox[i] : i \in DOMAIN inbox}

\* p.nc != nil && p.nc.IsConnected()
Connected == conn # 0 /\ link[conn] = "up"

Fault == faults < MaxFaults /\ faults' = faults + 1
-----------------------------------------------------------------------------
Init ==
  /\ S!Init
  /\ pc = "idle" /\ todo = {}
  /\ conn = 0
  /\ link = [c \in Conns |-> "new"]
  /\ wire = [c \in Conns |-> <<>>]
  /\ subscribed = TRUE
  /\ inbox = <<>> /\ last = 0 /\ missing = 0 /\ stored = {}
  /\ faults = 0
  /\ received = {} /\ observed = {} /\ cut = {} /\ missed = {} /\ spilt = {}
  /\ misjudged = {} /\ overtaken = {}
-----------------------------------------------------------------------------
(* Mutants: plausible defects, each of which a property must detect. *)

\* The records of a batch are published in no particular order.
PublishUnordered ==
  /\ pc = "publish"
  /\ \E s \in todo :
       /\ wire' = [wire EXCEPT ![conn] = Append(@, s)]
       /\ todo' = todo \ {s}
  /\ pc' = IF todo' = {} THEN "flush" ELSE "publish"
  /\ UNCHANGED <<spool, conn, link, collector, faults, ghosts>>

\* drain acknowledges without waiting for the flush.
FlushSkipped ==
  /\ pc = "flush"
  /\ pc' = "ack"
  /\ UNCHANGED <<spool, todo, net, collector, faults, ghosts>>

\* drain goes round its loop without acknowledging.
AckForgotten ==
  /\ pc = "ack"
  /\ S!Unpeek
  /\ pc' = IF Cardinality(batch) < BatchSize THEN "idle" ELSE "peek"
  /\ UNCHANGED <<todo, net, collector, faults, ghosts>>

-----------------------------------------------------------------------------
(* The sensor process *)

\* A session goroutine appends; the publisher is not involved.
Write(w) ==
  /\ \/ S!NextSeq(w) /\ UNCHANGED overtaken
     \/ /\ S!Put(w)
        /\ overtaken' = IF \E s \in events \cup acked \cup evicted : s > reserved[w]
                        THEN overtaken \cup {reserved[w]} ELSE overtaken
  /\ UNCHANGED <<node, net, collector, faults, received, observed, cut, missed,
                 spilt, misjudged>>

WriteFails(w) ==
  /\ S!PutFails(w)
  /\ Fault
  /\ UNCHANGED <<node, net, collector, ghosts>>

(* Run's select wakes (tick or Notify) and drain calls connect.  A connection
   that is not up is not reused: a new one is dialled and the old one, which
   the library keeps trying to restore, is left behind with what it buffers.
   A failed dial ends this drain and changes nothing. *)
Connect ==
  /\ pc = "idle"
  /\ pc' = "peek"
  /\ IF Connected
     THEN UNCHANGED <<conn, link>>
     ELSE \E c \in Conns :
            /\ link[c] = "new" /\ \A d \in Conns : link[d] = "new" => c <= d
            /\ conn' = c
            /\ link' = [link EXCEPT ![c] = "up"]
  /\ UNCHANGED <<spool, todo, wire, collector, faults, ghosts>>

PeekBatch ==
  /\ pc = "peek"
  /\ S!Peek
  /\ todo' = batch'
  /\ pc' = "publish"
  /\ UNCHANGED <<net, collector, faults, ghosts>>

PeekNothing ==
  /\ pc = "peek"
  /\ events = {}
  /\ pc' = "idle"
  /\ UNCHANGED <<spool, todo, net, collector, faults, ghosts>>

\* Publish appends to the connection's buffer whether or not the link is up.
Publish ==
  /\ pc = "publish"
  /\ \E s \in todo :
       /\ \A t \in todo : s <= t
       /\ wire' = [wire EXCEPT ![conn] = Append(@, s)]
       /\ todo' = todo \ {s}
  /\ pc' = IF todo' = {} THEN "flush" ELSE "publish"
  /\ UNCHANGED <<spool, conn, link, collector, faults, ghosts>>

\* FlushTimeout's PONG came back: the broker consumed this connection's FIFO.
FlushOk ==
  /\ pc = "flush"
  /\ Connected
  /\ wire[conn] = <<>>
  /\ pc' = "ack"
  /\ UNCHANGED <<spool, todo, net, collector, faults, ghosts>>

AckBatch ==
  /\ pc = "ack"
  /\ S!Ack
  /\ pc' = IF Cardinality(batch) < BatchSize THEN "idle" ELSE "peek"
  /\ UNCHANGED <<todo, net, collector, faults, ghosts>>

\* Publish (reconnect buffer full), FlushTimeout or Ack returns an error: drain
\* returns and the batch stays in the spool.
DrainFails ==
  /\ pc \in {"publish", "flush", "ack"}
  /\ S!Unpeek
  /\ Fault
  /\ pc' = "idle" /\ todo' = {}
  /\ UNCHANGED <<net, collector, ghosts>>

\* The sensor dies and is restarted by systemd: its connections die with it.
\* What the kernel had of a live connection may still arrive, the rest is lost.
SensorRestarts ==
  /\ S!Reopen
  /\ Fault
  /\ pc' = "idle" /\ todo' = {}
  /\ conn' = 0
  /\ link' = [c \in Conns |-> IF link[c] = "new" THEN "new" ELSE "dead"]
  /\ \E keep \in SUBSET {c \in Conns : link[c] \in {"up", "dead"}} :
       /\ wire' = [c \in Conns |-> IF c \in keep THEN wire[c] ELSE <<>>]
       /\ cut' = cut \cup InTransit(Conns \ keep)
  /\ UNCHANGED <<collector, received, observed, missed, spilt, misjudged,
                 overtaken>>
-----------------------------------------------------------------------------
(* The broker and the links *)

LinkDown(c) ==
  /\ link[c] = "up"
  /\ Fault
  /\ link' = [link EXCEPT ![c] = "down"]
  /\ \E k \in 0..Len(wire[c]) :
       /\ cut' = cut \cup {wire[c][i] : i \in 1..k}
       /\ wire' = [wire EXCEPT ![c] = SubSeq(@, k + 1, Len(@))]
  /\ UNCHANGED <<spool, node, conn, collector, received, observed, missed,
                 spilt, misjudged, overtaken>>

\* nats.MaxReconnects(-1): the library restores every connection it knows of.
LinkUp(c) ==
  /\ link[c] = "down"
  /\ link' = [link EXCEPT ![c] = "up"]
  /\ UNCHANGED <<spool, node, conn, wire, collector, faults, ghosts>>

\* The broker consumes one message and passes it on, or has nobody to pass it to.
Route(c) ==
  /\ link[c] \in {"up", "dead"} /\ wire[c] # <<>>
  /\ wire' = [wire EXCEPT ![c] = Tail(@)]
  /\ received' = received \cup {Head(wire[c])}
  /\ IF subscribed /\ Len(inbox) < InboxCap
     THEN inbox' = Append(inbox, Head(wire[c])) /\ UNCHANGED missed
     ELSE missed' = missed \cup {Head(wire[c])} /\ UNCHANGED inbox
  /\ UNCHANGED <<spool, node, conn, link, subscribed, last, missing, stored,
                 faults, observed, cut, spilt, misjudged, overtaken>>
-----------------------------------------------------------------------------
(* The collector *)

\* Ingestor::handle on the next message: the tracker moves before put_event,
\* and does not move back when put_event fails.
Handle ==
  /\ inbox # <<>>
  /\ LET s == Head(inbox) IN
       /\ last' = Advance(last, s)
       /\ missing' = missing + Missing(last, s)
       /\ misjudged' = IF Observe(last, s) = "Replay" /\ s \notin observed
                       THEN misjudged \cup {s} ELSE misjudged
       /\ observed' = observed \cup {s}
       /\ \/ stored' = stored \cup {s} /\ UNCHANGED <<spilt, faults>>
          \/ Fault /\ spilt' = spilt \cup {s} /\ UNCHANGED stored
  /\ inbox' = Tail(inbox)
  /\ UNCHANGED <<spool, node, net, subscribed, received, cut, missed, overtaken>>

\* The collector process stops; what its subscription held is gone, and the
\* tracker and the counters start from nothing.
CollectorStops ==
  /\ subscribed
  /\ Fault
  /\ subscribed' = FALSE
  /\ inbox' = <<>> /\ last' = 0 /\ missing' = 0 /\ observed' = {}
  /\ spilt' = spilt \cup Queued
  /\ UNCHANGED <<spool, node, net, stored, received, cut, missed, misjudged,
                 overtaken>>

Subscribe ==
  /\ ~subscribed
  /\ subscribed' = TRUE
  /\ UNCHANGED <<spool, node, net, inbox, last, missing, stored, faults, ghosts>>
-----------------------------------------------------------------------------
Drain == Connect \/ PeekBatch \/ PeekNothing \/ Publish \/ FlushOk \/ AckBatch

Next ==
  \/ \E w \in Writers : Write(w) \/ WriteFails(w)
  \/ Drain \/ DrainFails \/ SensorRestarts
  \/ \E c \in Conns : LinkDown(c) \/ LinkUp(c) \/ Route(c)
  \/ Handle \/ CollectorStops \/ Subscribe

Spec == Init /\ [][Next]_vars

(* The publisher's goroutine keeps running, the library keeps reconnecting and the
   broker keeps consuming.  Nothing is assumed of the collector. *)
Fairness ==
  /\ WF_vars(Drain)
  /\ \A c \in Conns : WF_vars(LinkUp(c)) /\ WF_vars(Route(c))

FairSpec == Spec /\ Fairness
-----------------------------------------------------------------------------
(* Properties *)

\* Types of the publisher's, the network's and the collector's state.
TypeOK ==
  /\ S!TypeOK
  /\ pc \in {"idle", "peek", "publish", "flush", "ack"}
  /\ todo \subseteq batch
  /\ conn \in 0..(MaxFaults + 1)
  /\ link \in [Conns -> {"new", "up", "down", "dead"}]
  /\ wire \in [Conns -> Seq(1..seq)]
  /\ subscribed \in BOOLEAN
  /\ inbox \in Seq(1..seq) /\ Len(inbox) <= InboxCap
  /\ last \in 0..seq
  /\ missing \in Nat
  /\ faults \in 0..MaxFaults
  /\ stored \in SUBSET (1..seq)
  /\ \A g \in {received, observed, cut, missed, spilt, misjudged, overtaken} : g \subseteq 1..seq

\* nats.go:153 "Flush before acking": a record deleted from the spool has reached
\* the store or the collector's queue, or was lost in one of the four known ways
\* (link failure, no subscriber, collector crash, failed put_event).  It is never
\* still in a client buffer when it is deleted.
EveryLossHasACause ==
  acked \subseteq stored \cup Queued \cup cut \cup missed \cup spilt

\* Whatever failed before, the publisher empties the spool: no backlog stays pending
\* for ever, however the connections were lost and left behind.
DrainsEventually == events # {} ~> events = {}

\* ingest.rs:49 "Gaps mean events were lost; repeats mean a replay": as long as
\* nothing fails, a new number is called a replay only if a second session goroutine
\* overtook it between its two spool transactions; and unless that happened,
\* missing_events counts exactly the numbers skipped since the first, all of them
\* evicted by the spool, turned away by a full subscription, or being overtaken now.
Skipped == {s \in 1..last : s \notin observed /\ \E t \in observed : t < s}
VerdictsExact ==
  faults = 0 =>
    /\ misjudged \subseteq overtaken
    /\ overtaken = {} => /\ missing = Cardinality(Skipped)
                         /\ Skipped \subseteq missed \cup evicted \cup
                                       {reserved[w] : w \in Writers}
=============================================================================
