----------------------------- MODULE EventStore -----------------------------
(***************************************************************************)
(* The collector's durable store, collector/src/store.rs: PostgresStore,   *)
(* with the JSONL export teed off it, written by every collector process.  *)
(*                                                                         *)
(* Each collector has its own plain subscription, so each of them stores   *)
(* every event, and a sensor may deliver an event again.  put_event is a   *)
(* sequence of statements, each its own transaction: collectors interleave *)
(* between them and an error or a crash leaves the earlier ones done.      *)
(* Before that, each collector applies the schema under an advisory lock.  *)
(*                                                                         *)
(* The events are those of one sensor and one session; Kind gives the      *)
(* payload of each number.  A time stamp is the tick at which the event    *)
(* was handed to put_event (ts_collector).                                 *)
(***************************************************************************)
EXTENDS Naturals, FiniteSets

CONSTANTS
  Collectors,   \* collector processes
  Kind,         \* payload kind of each sequence number
  MaxPuts,      \* bound: calls of put_event
  MaxFails      \* bound: statements that fail, processes that die

Kinds == {"session_start", "auth", "artifact", "command", "session_end", "heartbeat"}
Seqs == DOMAIN Kind

ASSUME StoreAssumption ==
  /\ Kind \in [Seqs -> Kinds]
  /\ Seqs \subseteq Nat \ {0}
  /\ MaxPuts \in Nat /\ MaxFails \in Nat

VARIABLES
  pc,          \* per collector: where migrate or put_event is
  cur,         \* per collector: the event being stored
  stamp,       \* per collector: its ts_collector
  lock,        \* holders of the advisory lock
  schema,      \* the tables exist
  sawNone,     \* per collector: CREATE TABLE IF NOT EXISTS found no table
  clash,       \* some CREATE TABLE failed on the catalogue's unique index
  session,     \* the sessions row: started_at, ended_at, details; 0 for null
  rows,        \* keys of the events table
  detail,      \* rows in credentials or artifacts per event
  lines,       \* lines in the JSONL export per event
  clock,       \* calls of put_event so far
  fails,       \* failures so far
  upserts,     \* history: events whose session upsert committed
  okd          \* history: events for which some put_event returned Ok

tables == <<session, rows, detail, lines>>
migration == <<lock, schema, sawNone, clash>>
storeVars == <<pc, cur, stamp, migration, tables, clock, fails, upserts, okd>>

InSession(s) == Kind[s] # "heartbeat"              \* session_id is not empty
HasDetail(s) == Kind[s] \in {"auth", "artifact"}

StoreInit ==
  /\ pc = [c \in Collectors |-> "boot"]
  /\ cur = [c \in Collectors |-> 0]
  /\ stamp = [c \in Collectors |-> 0]
  /\ lock = {} /\ schema = FALSE /\ clash = FALSE
  /\ sawNone = [c \in Collectors |-> FALSE]
  /\ session = [present |-> FALSE, started |-> 0, ended |-> 0, peer |-> FALSE]
  /\ rows = {}
  /\ detail = [s \in Seqs |-> 0]
  /\ lines = [s \in Seqs |-> 0]
  /\ clock = 0 /\ fails = 0
  /\ upserts = {} /\ okd = {}

Goto(c, l) == pc' = [pc EXCEPT ![c] = l]
Fail == fails < MaxFails /\ fails' = fails + 1
-----------------------------------------------------------------------------
(* Mutants: plausible defects, each of which a property must detect. *)

\* migrate without the advisory lock.
LockUnguarded(c) ==
  /\ pc[c] = "boot"
  /\ lock' = lock \cup {c}
  /\ Goto(c, "check")
  /\ UNCHANGED <<cur, stamp, schema, sawNone, clash, tables, clock, fails, upserts, okd>>

\* The error of the schema is returned before the unlock.
MigrateFailsKeepsLock(c) ==
  /\ pc[c] \in {"check", "create"}
  /\ Fail
  /\ Goto(c, "boot")
  /\ UNCHANGED <<cur, stamp, migration, tables, clock, upserts, okd>>

\* The upsert of a session_start is ON CONFLICT DO NOTHING.
UpsertedDoNothing(s, t) ==
  IF session.present /\ Kind[s] = "session_start" THEN session
  ELSE [present |-> TRUE,
        started |-> IF session.present THEN session.started ELSE t,
        ended   |-> IF Kind[s] = "session_end" THEN t ELSE session.ended,
        peer    |-> session.peer \/ Kind[s] = "session_start"]

\* An event already in the table is taken to be stored completely.
InsertEventSkipsKnown(c) ==
  /\ pc[c] = "event"
  /\ rows' = rows \cup {cur[c]}
  /\ Goto(c, IF HasDetail(cur[c]) /\ cur[c] \notin rows THEN "detail" ELSE "tee")
  /\ UNCHANGED <<cur, stamp, migration, session, detail, lines, clock, fails, upserts, okd>>
-----------------------------------------------------------------------------
(* PostgresStore::migrate *)

Lock(c) ==
  /\ pc[c] = "boot"
  /\ lock = {}
  /\ lock' = {c}
  /\ Goto(c, "check")
  /\ UNCHANGED <<cur, stamp, schema, sawNone, clash, tables, clock, fails, upserts, okd>>

\* CREATE TABLE IF NOT EXISTS looks the table up ...
CheckTables(c) ==
  /\ pc[c] = "check"
  /\ sawNone' = [sawNone EXCEPT ![c] = ~schema]
  /\ Goto(c, "create")
  /\ UNCHANGED <<cur, stamp, lock, schema, clash, tables, clock, fails, upserts, okd>>

\* ... and creates it; if another collector has in the meantime, this one fails.
CreateTables(c) ==
  /\ pc[c] = "create"
  /\ schema' = TRUE
  /\ clash' = (clash \/ (sawNone[c] /\ schema))
  /\ Goto(c, IF sawNone[c] /\ schema THEN "unlockFailed" ELSE "unlock")
  /\ UNCHANGED <<cur, stamp, lock, sawNone, tables, clock, fails, upserts, okd>>

\* The schema fails to apply: the lock is released all the same and main returns
\* the error; systemd starts the process again.
MigrateFails(c) ==
  /\ pc[c] \in {"check", "create"}
  /\ Fail
  /\ Goto(c, "unlockFailed")
  /\ UNCHANGED <<cur, stamp, migration, tables, clock, upserts, okd>>

Unlock(c) ==
  /\ pc[c] \in {"unlock", "unlockFailed"}
  /\ lock' = lock \ {c}
  /\ Goto(c, IF pc[c] = "unlock" THEN "idle" ELSE "boot")
  /\ UNCHANGED <<cur, stamp, schema, sawNone, clash, tables, clock, fails, upserts, okd>>
-----------------------------------------------------------------------------
(* PostgresStore::put_event, statement by statement, inside TeeStore::put_event *)

\* The subscription delivers event s, for the first time or again.
Begin(c, s) ==
  /\ pc[c] = "idle"
  /\ clock < MaxPuts
  /\ clock' = clock + 1
  /\ cur' = [cur EXCEPT ![c] = s]
  /\ stamp' = [stamp EXCEPT ![c] = clock + 1]
  /\ Goto(c, IF InSession(s) THEN "session" ELSE "event")
  /\ UNCHANGED <<migration, tables, fails, upserts, okd>>

\* What upsert_session leaves in the sessions row, by payload kind.
Upserted(s, t) ==
  LET new == [session EXCEPT !.present = TRUE,
                             !.started = IF session.present THEN @ ELSE t]
  IN  CASE Kind[s] = "session_start" -> [new EXCEPT !.started = t, !.peer = TRUE]
        [] Kind[s] = "session_end"   -> [new EXCEPT !.ended = t]
        [] OTHER                     -> new

UpsertSession(c) ==
  /\ pc[c] = "session"
  /\ session' = Upserted(cur[c], stamp[c])
  /\ upserts' = upserts \cup {cur[c]}
  /\ Goto(c, "event")
  /\ UNCHANGED <<cur, stamp, migration, rows, detail, lines, clock, fails, okd>>

\* INSERT INTO events ... ON CONFLICT DO NOTHING
InsertEvent(c) ==
  /\ pc[c] = "event"
  /\ rows' = rows \cup {cur[c]}
  /\ Goto(c, IF HasDetail(cur[c]) THEN "detail" ELSE "tee")
  /\ UNCHANGED <<cur, stamp, migration, session, detail, lines, clock, fails, upserts, okd>>

\* INSERT INTO credentials or artifacts: no key to conflict on
InsertDetail(c) ==
  /\ pc[c] = "detail"
  /\ detail' = [detail EXCEPT ![cur[c]] = @ + 1]
  /\ Goto(c, "tee")
  /\ UNCHANGED <<cur, stamp, migration, session, rows, lines, clock, fails, upserts, okd>>

\* The JSONL line, after the primary; a failure there is swallowed.
Tee(c) ==
  /\ pc[c] = "tee"
  /\ \/ lines' = [lines EXCEPT ![cur[c]] = @ + 1] /\ UNCHANGED fails
     \/ Fail /\ UNCHANGED lines
  /\ okd' = okd \cup {cur[c]}
  /\ Goto(c, "idle")
  /\ UNCHANGED <<cur, stamp, migration, session, rows, detail, clock, upserts>>

\* A statement fails: put_event returns the error, handle counts it and goes on.
PutFails(c) ==
  /\ pc[c] \in {"session", "event", "detail"}
  /\ Fail
  /\ Goto(c, "idle")
  /\ UNCHANGED <<cur, stamp, migration, tables, clock, upserts, okd>>

\* The process dies anywhere; its connection closes, which frees the lock.
Dies(c) ==
  /\ pc[c] # "boot"
  /\ Fail
  /\ lock' = lock \ {c}
  /\ Goto(c, "boot")
  /\ UNCHANGED <<cur, stamp, schema, sawNone, clash, tables, clock, upserts, okd>>
-----------------------------------------------------------------------------
Migrate(c) == Lock(c) \/ CheckTables(c) \/ CreateTables(c) \/ Unlock(c)
Put(c) == UpsertSession(c) \/ InsertEvent(c) \/ InsertDetail(c) \/ Tee(c)

StoreNext ==
  \E c \in Collectors :
    \/ Migrate(c) \/ MigrateFails(c)
    \/ \E s \in Seqs : Begin(c, s)
    \/ Put(c) \/ PutFails(c) \/ Dies(c)

StoreSpec == StoreInit /\ [][StoreNext]_storeVars

(* Every collector process keeps running its migration; the database grants the
   advisory lock to every waiter in turn. *)
StoreFairSpec ==
  /\ StoreSpec
  /\ \A c \in Collectors : WF_storeVars(CheckTables(c) \/ CreateTables(c) \/ Unlock(c))
                           /\ SF_storeVars(Lock(c)) /\ WF_storeVars(Put(c))
-----------------------------------------------------------------------------
(* Properties *)

\* store.rs:180 The advisory lock keeps two collectors that start on a fresh
\* database from both creating the tables, and no event is stored before they exist.
SchemaCreatedOnce ==
  /\ ~clash
  /\ \A c \in Collectors : pc[c] \notin {"boot", "check", "create", "unlockFailed"} => schema

\* Ok means complete: the event row, its session row and its detail row exist.
OkMeansStored ==
  \A s \in okd : /\ s \in rows
                 /\ InSession(s) => session.present
                 /\ HasDetail(s) => detail[s] >= 1

\* The session row is a function of the events seen, not of their order: the peer
\* is known exactly if the start was stored, the end exactly if the end was.
SessionReflectsEvents ==
  /\ session.peer = \E s \in upserts : Kind[s] = "session_start"
  /\ (session.ended # 0) = \E s \in upserts : Kind[s] = "session_end"
  /\ session.present = (upserts # {})

\* A migration under way ends, and a collector that waits for the lock gets it,
\* even when the holder's migration failed or the holder died.
EveryCollectorStarts == \A c \in Collectors : pc[c] = "boot" ~> pc[c] = "idle"
=============================================================================
