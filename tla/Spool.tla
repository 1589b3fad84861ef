------------------------------- MODULE Spool -------------------------------
(***************************************************************************)
(* The sensor node's write-ahead log, node/internal/spool/spool.go: a      *)
(* bbolt file with a persisted sequence counter and a bucket of pending    *)
(* records keyed by sequence number.                                       *)
(*                                                                         *)
(* Every session goroutine is a writer.  Append is two bbolt transactions, *)
(* NextSeq and the one that evicts and stores, so writers interleave, and  *)
(* the process can die, between them.  One publisher peeks a batch and     *)
(* later acknowledges it.  A record is identified by its sequence number;  *)
(* its size is RecordSize units of the file.                               *)
(***************************************************************************)
EXTENDS Naturals, FiniteSets

CONSTANTS
  Writers,     \* goroutines that call Append (session recorders, heartbeat)
  MaxSeq,      \* bound: sequence numbers handed out (uint64 in the code)
  MaxBytes,    \* Options.MaxBytes, in units of the file
  RecordSize,  \* len(blob) of one marshalled envelope, same unit
  Growth,      \* units by which one committed transaction may grow the file
  BatchSize    \* Config.BatchSize of the publisher that peeks

ASSUME SpoolAssumption ==
  /\ MaxSeq \in Nat
  /\ MaxBytes \in Nat
  /\ RecordSize \in Nat
  /\ Growth \subseteq Nat
  /\ BatchSize \in Nat \ {0}
  /\ IsFiniteSet(Writers)

VARIABLES
  seq,         \* meta bucket, key "seq": the last number handed out
  events,      \* events bucket: sequence numbers of the pending records
  size,        \* tx.Size(): high-water mark of the file, up to MaxBytes
  dropped,     \* Spool.dropped, an in-memory counter
  reserved,    \* per writer: number reserved by an Append under way, or 0
  batch,       \* keys the publisher peeked and has not yet acknowledged
  acked,       \* history: records deleted by Ack
  evicted,     \* history: records deleted by the eviction loop, ever
  fresh,       \* history: the part of evicted since the spool was opened
  abandoned    \* history: numbers reserved whose record was never stored

disk == <<seq, events, size>>
history == <<acked, evicted, fresh, abandoned>>
spoolVars == <<disk, dropped, reserved, batch, history>>
-----------------------------------------------------------------------------
(* Helpers *)

\* Sequence numbers reserved by an Append between its two transactions.
InFlight == {reserved[w] : w \in Writers} \ {0}

\* The first n keys of the bucket in key order, which is numeric order because
\* keys are big-endian (Peek's cursor walk).
FirstKeys(S, n) == {s \in S : Cardinality({t \in S : t < s}) < n}

\* A committed transaction copies pages on write: the file keeps its high-water
\* mark or grows, and never shrinks.  Beyond MaxBytes sizes are not told apart.
Grow == \E g \in Growth :
          size' = IF size + g < MaxBytes THEN size + g ELSE MaxBytes

\* What the eviction loop deletes.  Its condition reads tx.Size(), which no
\* Delete inside the transaction changes, so the loop either never runs or runs
\* until the bucket is empty.
Overflow == IF size + RecordSize > MaxBytes THEN events ELSE {}
-----------------------------------------------------------------------------
(* Initial state: Open on a path with no file. *)
Init ==
  /\ seq = 0
  /\ events = {}
  /\ size = 0
  /\ dropped = 0
  /\ reserved = [w \in Writers |-> 0]
  /\ batch = {}
  /\ acked = {}
  /\ evicted = {}
  /\ fresh = {}
  /\ abandoned = {}

(* Mutants: plausible defects, each of which a property must detect. *)

\* The number is derived from the last key of the bucket instead of the meta key.
NextSeqFromLastKey(w) ==
  /\ reserved[w] = 0
  /\ seq < MaxSeq
  /\ LET last == {s \in events : \A t \in events : t <= s}
         n == IF last = {} THEN 1 ELSE 1 + (CHOOSE s \in last : TRUE)
     IN  /\ reserved' = [reserved EXCEPT ![w] = n]
         /\ seq' = IF n > seq THEN n ELSE seq
  /\ Grow
  /\ UNCHANGED <<events, dropped, batch, history>>

\* The eviction loop counts one drop however many records it deletes.
PutCountsOnce(w) ==
  /\ reserved[w] # 0
  /\ events' = (events \ Overflow) \cup {reserved[w]}
  /\ evicted' = evicted \cup Overflow
  /\ fresh' = fresh \cup Overflow
  /\ dropped' = dropped + (IF Overflow = {} THEN 0 ELSE 1)
  /\ reserved' = [reserved EXCEPT ![w] = 0]
  /\ Grow
  /\ UNCHANGED <<seq, batch, acked, abandoned>>

\* Ack deletes the head of the bucket instead of the keys that were peeked.
AckHead ==
  /\ batch # {}
  /\ LET head == FirstKeys(events, Cardinality(batch))
     IN  /\ events' = events \ head
         /\ acked' = acked \cup head
  /\ batch' = {}
  /\ Grow
  /\ UNCHANGED <<seq, dropped, reserved, evicted, fresh, abandoned>>
-----------------------------------------------------------------------------
(* Append, first transaction: reserve and persist the next number. *)
NextSeq(w) ==
  /\ reserved[w] = 0
  /\ seq < MaxSeq
  /\ seq' = seq + 1
  /\ reserved' = [reserved EXCEPT ![w] = seq + 1]
  /\ Grow
  /\ UNCHANGED <<events, dropped, batch, history>>

(* Append, second transaction, committed: evict, then Put. *)
Put(w) ==
  /\ reserved[w] # 0
  /\ events' = (events \ Overflow) \cup {reserved[w]}
  /\ evicted' = evicted \cup Overflow
  /\ fresh' = fresh \cup Overflow
  /\ dropped' = dropped + Cardinality(Overflow)
  /\ reserved' = [reserved EXCEPT ![w] = 0]
  /\ Grow
  /\ UNCHANGED <<seq, batch, acked, abandoned>>

(* Append fails after the reservation: Marshal fails, or the transaction does
   and is rolled back.  The counter is not part of the transaction: whatever
   the loop had added to it by then stays.  Recorder.emit logs and goes on. *)
PutFails(w) ==
  /\ reserved[w] # 0
  /\ \E n \in 0..Cardinality(Overflow) : dropped' = dropped + n
  /\ reserved' = [reserved EXCEPT ![w] = 0]
  /\ abandoned' = abandoned \cup {reserved[w]}
  /\ UNCHANGED <<disk, batch, acked, evicted, fresh>>

(* Peek: the oldest records, without removing them. *)
Peek ==
  /\ batch = {}
  /\ events # {}
  /\ batch' = FirstKeys(events, BatchSize)
  /\ UNCHANGED <<disk, dropped, reserved, history>>

(* Ack: delete the peeked keys.  A key evicted since is already gone, and
   deleting a missing key is no error. *)
Ack ==
  /\ batch # {}
  /\ events' = events \ batch
  /\ acked' = acked \cup (events \cap batch)
  /\ batch' = {}
  /\ Grow
  /\ UNCHANGED <<seq, dropped, reserved, evicted, fresh, abandoned>>

(* The publisher gives the batch up (publish, flush or the Ack transaction
   failed): the records stay. *)
Unpeek ==
  /\ batch # {}
  /\ batch' = {}
  /\ UNCHANGED <<disk, dropped, reserved, history>>

(* The process dies and Open runs again on the same file: committed
   transactions survive, everything in memory is gone. *)
Reopen ==
  /\ dropped' = 0
  /\ reserved' = [w \in Writers |-> 0]
  /\ batch' = {}
  /\ abandoned' = abandoned \cup InFlight
  /\ fresh' = {}
  /\ UNCHANGED <<disk, acked, evicted>>

Next ==
  \/ \E w \in Writers : NextSeq(w) \/ Put(w) \/ PutFails(w)
  \/ Peek
  \/ Ack
  \/ Unpeek
  \/ Reopen

Spec == Init /\ [][Next]_spoolVars
-----------------------------------------------------------------------------
(* Properties *)

\* Every variable keeps the type of the Go value or bucket it stands for.
TypeOK ==
  /\ seq \in 0..MaxSeq
  /\ events \in SUBSET (1..seq)
  /\ size \in 0..MaxBytes
  /\ dropped \in Nat
  /\ reserved \in [Writers -> 0..seq]
  /\ batch \in SUBSET (1..seq)
  /\ acked \in SUBSET (1..seq)
  /\ evicted \in SUBSET (1..seq)
  /\ fresh \in SUBSET evicted
  /\ abandoned \in SUBSET (1..seq)

\* No number is held by two Appends at once, however their two transactions
\* interleave and wherever the process was killed (NextSeq persists first).
ReservedApart ==
  \A v, w \in Writers : v # w /\ reserved[v] = reserved[w] => reserved[v] = 0

\* Every number ever handed out has exactly one fate: being appended, pending,
\* acknowledged, evicted or abandoned.  So no Put overwrites a record, no
\* record leaves the bucket except by Ack or by eviction, and a number is never
\* reused, not even across a restart; and a peeked key still names the record
\* that was peeked, or one that has been evicted since.
Accounted ==
  /\ ReservedApart
  /\ 1..seq = events \cup InFlight \cup acked \cup evicted \cup abandoned
  /\ events \cap InFlight = {}
  /\ (events \cup InFlight) \cap (acked \cup evicted \cup abandoned) = {}
  /\ acked \cap evicted = {}
  /\ abandoned \cap (acked \cup evicted) = {}
  /\ batch \subseteq events \cup evicted

\* The counter that heartbeats report covers every eviction since the spool was
\* opened; a rolled-back transaction can only make it larger.
DropsCounted == Cardinality(fresh) <= dropped

-----------------------------------------------------------------------------
(* Refinement: the fate of each number, read off the spool's state. *)
FateOf(s) ==
  CASE s \in acked -> "acked"
    [] s \in evicted -> "evicted"
    [] s \in abandoned -> "abandoned"
    [] s \in events \cap batch -> "offered"
    [] s \in events \ batch -> "pending"
    [] s \in InFlight -> "reserved"
    [] OTHER -> "free"

Fate == INSTANCE RecordFate WITH fate <- [s \in 1..MaxSeq |-> FateOf(s)]

\* The spool implements the abstract life cycle of its records.
ImplementsRecordFate == Fate!Spec
=============================================================================
