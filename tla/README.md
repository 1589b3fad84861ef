# Verification of honeynet

honeynet is a fleet of sensor nodes (Go, `src/node`) that imitate SSH, telnet, HTTP
and RDP hosts and record what visitors do, and a collector (Rust, `src/collector`) that
receives their events over NATS, stores them and serves them to operators. This directory
holds TLA+ modules of its core, the TLC configurations that check them on small instances,
and TLAPS proofs of the results that matter most.

`PROJECT.json` lists, for a machine, what this file tells a reader: components, runs,
mutants, the map from definitions to source lines, hazards and theorems.

    tlc -workers 2 -config SpoolMC.cfg SpoolMC        # one run
    tlapm SpoolProofs.tla                             # one module of proofs

## 1. Inventory

### How the parts interact

    client -> listener -> session recorder -> spool -> publisher -> NATS -> ingest -> store
              (ssh, telnet,   (numbers and     (bbolt   (batch,             |          | (Postgres, JSONL)
               http, rdp)      order of         file)    flush, ack)        |          v
                               a session)                              SeqTracker   live index -> API, IOC feed
                                                                                      ^
                                                                       profile report-+

Every visitor is served by its own goroutine. Each emits through a recorder, which calls
`spool.Append`. One publisher goroutine drains the spool to NATS. The collector handles one
message after another: check the envelope, update the sequence tracker, `put_event`, and
then hand the event to the observer, which feeds the live index and the event stream.
`src/node/cmd/honeynode/main.go` and `src/collector/src/main.rs` start, stop and restart the parts.

### Components

State, operations, what is hard, and what makes each correct.

| component (source) | state | operations | hard behaviour | correct if | modelled in |
|---|---|---|---|---|---|
| spool (`node/internal/spool`) | sequence counter, pending records, file size, drop counter | Open, NextSeq, Append, Peek, Ack, Dropped | two transactions per Append, eviction between Peek and Ack, process death anywhere, the size bound | every number has exactly one fate; drops are counted | `Spool`, `RecordFate` |
| publisher (`node/internal/transport`) | connection, batch | connect, drain, Run | lost links, flush timeouts, connections left behind | a record leaves the spool only after the broker has it; the backlog drains | `Delivery` |
| NATS broker (external) | none kept for a subscriber that is away | publish, route | at-most-once | as assumed in section 3 | `Delivery` |
| ingest, sequence tracking (`collector/src/ingest.rs`) | last number per node, counters, event being stored | handle, observe | replays, reordering, store failure after the tracker moved, restart | messages are conserved, nodes do not influence each other, holes are recorded | `Ingest`, `SeqTracker` |
| normalisation (`normalize.rs`) | none | normalize | order of checks | identity is checked before anything is believed | `Ingest` (the decision; the bounding of lengths is data) |
| durable store (`store.rs`, `migrations/`) | sessions, events, credentials, artifacts, JSONL | migrate, put_event, upsert_session | several statements per event, several collectors, redelivery, death in the middle | parents before children, Ok means complete, order does not matter | `EventStore` |
| live index (`index.rs`) | sessions, order, events, ring, totals, counts | ingest, apply_profile, queries | three structures evicted together; sessions re-created after eviction | structures in step, views accurate, oldest evicted | `LiveIndex` |
| operator API (`api.rs`) | broadcast stream | queries, IOC feed, profile upload | a slow subscriber lags | the feed lists only justified sources | `LiveIndex` (feed and profile) |
| session recorder (`node/internal/session`) | counters, start time | SessionStart, events, SessionEnd | no lock; shared by channels | one start, one end, nothing after the end | inside `SshSession`, `Telnet`, `WebSessions` |
| telnet listener | budget, deadlines, handlers, protocol reader | handle, authenticate, acquire, release, Read, readLine | panics, silent clients, shutdown, a stream cut anywhere | budget exact, no source crowds out the others, slots return, the payload arrives as it was sent | `Telnet`, `Limiter`, `Terminal` |
| SSH listener | context values, channels, close hook | recorderFor, handlePassword, handleSession, wrapConn, finishSession | callbacks, channels and closers in any order | one start, one end, reason kept | `SshSession`, `Limiter` |
| HTTP listener | session map | sessionFor, handle, sweepIdle, closeAllSessions | emission after unlock, sweeper, shutdown | every session in exactly one place, ended once | `WebSessions` |
| RDP listener | per-source budget | handle, parseConnectionRequest, acquire, release | partial requests, silent clients, texts cut inside a character, shutdown without waiting | places return once, stories whole, no part of a token recorded | `Rdp` |
| emulated shell (`node/internal/shell`) | working directory, environment, history, limits | readLine, Parse, execLine, runPipeline, some 150 command names | keys split over Reads, operators in any place, panics in a command, long sessions | lines do not depend on segmentation, what a session does is on record, drops are reported | `Terminal`, `ShellSyntax`, `CommandLine`, `ShellCommands`, `Shell` |
| virtual file system (`node/internal/vfs`) | tree, bytes written | lookup, ReadFile, WriteFile, Append, Mkdir, MkdirAll, Remove, Rename, Chmod, AttackerFiles | links, moves into oneself, shared arrays, the write quota | the tree stays a tree, changes are marked, the quota bounds it | `Vfs`, with `Shell` |
| credential policy, node secret, host keys (`node/internal/credentials`, `sshd`) | secret file, key files, policy in memory | LoadOrCreateSecret, NewPolicy, Accept, host key creation | death between create and write, the operator's tool racing the first start, restarts | one identity for ever, answers never contradict, the node comes up unless a file is short | `Identity` |
| canaries, request analysis | planted tokens | decoy, lookup | what is planted must be recognised | every planted token is known | not modelled, section 7 |
| profiling (`ml/`) | corpus | fold events into sessions | replays, order | fold independent of duplicates | not modelled, section 7 |
| personality, geo, proto, dashboard, deploy, attack simulator, vendored crypto | - | - | - | - | not modelled, section 6 |

### What is hard to test here

`PROJECT.json` "hazards" lists each at its line. In short: interleavings of session
goroutines inside `Append`, of SSH callbacks, channels and closers, of the web sweeper and
requests; process death between two transactions, two SQL statements or two system calls; flush
timeouts and redelivery; byte streams the network cuts anywhere; counters, quotas and caches at
their bounds; commands that panic in the middle of a line; and a few things that must eventually
happen (the backlog drains, a slot returns, a silent session ends, a waiting collector starts, a
node comes up again).

Each of these has a property. Four further points are known and have none. The code does the undesired thing for a reason (rows
of `credentials` and `artifacts` are duplicated under redelivery, `store.rs:263`), or the model
leaves it out (`last + 1` at 2^64 - 1, `ingest.rs:78`; counters per credential and source that are
never evicted, `index.rs:265`; which parts of a line run after mixed `&&`, `||` and `;`, below).

## 2. Modules

| module | what it is |
|---|---|
| `RecordFate` | abstract specification: the life of one spooled record, whatever the interleaving |
| `Spool` | `spool.go`, one action per bbolt transaction; `ImplementsRecordFate` is the refinement |
| `SpoolProofs` | proofs about `Spool` |
| `SeqTracker` | `SeqTracker::observe` as three operators, used by the next two |
| `Delivery` | composition: `Spool` (an INSTANCE on the same variables) + publisher + broker + collector |
| `DeliveryProofs` | lemmas about queues; proofs about `Delivery` |
| `Ingest` | the collector's decision on every message, from any number of sensors |
| `EventStore` | `migrate` and `put_event`, one action per SQL statement, several collectors |
| `CollectorProofs` | proofs about `Ingest` and `EventStore` |
| `LiveIndex`, `LiveIndexProofs` | the in-memory index and the IOC feed computed from it; proofs |
| `Limiter` | the concurrency budget, extended by the next two |
| `Telnet`, `TelnetProofs` | the telnet handler per connection; proofs |
| `SshSession` | one SSH connection: handshake, channels, closers |
| `WebSessions` | the HTTP listener's session map, sweeper and shutdown |
| `SessionProofs` | proofs about `SshSession` and `WebSessions` |
| `Rdp` | the RDP handler and the parser of its first packet |
| `Terminal` | from bytes to lines: telnet's protocol reader, login prompts, line editor, with the reference definitions of each |
| `ShellSyntax` | `parser.go`: tokens, pipelines, redirections, connectors |
| `CommandLine` | composition: `ShellSyntax` on the lines of `Terminal` |
| `WireProofs` | proofs about `Rdp`, `Terminal` and `CommandLine`, the three places where bytes of a client are parsed |
| `Vfs` | the session's file system as operators on a tree |
| `ShellCommands` | the command table: each command as a function of session, arguments and pipe; uses `Vfs` |
| `Shell` | a session: composition of `ShellSyntax`, `ShellCommands` and `Vfs` under `RunInteractive` and `RunExec` |
| `Identity`, `IdentityProofs` | secret, host keys and login policy over restarts; proofs |
| `*MC` | instances for TLC: payloads and sources as model values |

`EventStore`, `WebSessions` and `Terminal` prefix the names every specification has (`StoreInit`, `WebNext`, ...),
so that one module of proofs can extend them together with their neighbours.

How state and actions correspond to the code:

* **Spool.** `seq`, `events`, `size` are the bbolt file; `dropped` the in-memory counter;
  `reserved[w]` the local variable of an `Append` between its two transactions; `batch`
  what the publisher holds between `Peek` and `Ack`. `NextSeq`, `Put`, `PutFails`, `Peek`, `Ack`,
  `Unpeek` and `Reopen` are the transactions, the error paths and a death followed by `Open`.
  `size` follows bbolt's `Tx.Size`, the high-water mark of the file, so the eviction loop, whose
  condition no delete changes, deletes nothing or everything (`Overflow`). A record's size is a
  constant and its content is its number.
* **Delivery.** `pc` is where `drain` is (connect, peek, publish one message at a time, flush,
  ack). Each connection has its own FIFO; a connection that is down is replaced but not closed,
  as in `connect`, and the library restores it later. `DrainFails` is every error return.
  `Handle` is `Ingestor::handle`: the tracker moves before `put_event` and stays moved when that
  fails. A clean shutdown of the sensor is a drain followed by `SensorRestarts`.
* **Ingest.** A message is its subject, which the broker authenticated, and the envelope
  fields that decide its fate. `Reject` and `Accept` split `handle` at its early returns;
  `StoreOk`, `StoreFails` and `Restart` are what can happen at the `await`.
* **EventStore.** `pc[c]` is the statement collector `c` is about to run. `CREATE TABLE IF NOT
  EXISTS` is a lookup and a creation, which is the race the advisory lock is for. Death closes
  the connection, which frees the lock.
* **LiveIndex.** One mutex, hence one action per call: `Ingest`, `NodeTelemetry` (an event with an
  empty session id, of which only a heartbeat changes what is known of its node), `ApplyProfile`.
* **Telnet.** `pc[c]` is where `handle` is; the deferred `release` is `Release`; `Panic` is the
  recovered panic, which skips `SessionEnd` but not the deferred calls; `Deadline` is `maxEnd`,
  after which reads fail.
* **SshSession.** The handshake goroutine (`Offer` to `RecordAttempt`), one goroutine per channel
  and two closers share the context. `commandCount++` is a read and a write, as it is not
  synchronised. The hook of `wrapConn` runs once, when the first closer closes; `finishSession` looks for the recorder, reads
  the reason, reads the count and emits in four steps, between which channels go on. A channel that is
  refused emits the anomaly and notes its reason in two.
* **WebSessions.** What happens under the mutex is one action; emission after the unlock is
  another (`Observe`, `EndSession`). Sweeper and `closeAllSessions` are one goroutine.
* **Rdp.** `pc[c]` is where `handle` is. A request is a sequence of symbols: TPKT and X.224 headers,
  a cookie or routing token, a line end, a negotiation request. `ReadFirst` hands the handler any
  non-empty beginning of it (one `Read`, no loop) and `ParseConnectionRequest` is that function on
  that beginning. `Sanitize` drops control characters, writes the others as bytes (U+FFFD for a byte that is no
  character) and cuts at `MaxText` bytes, as the code does at 256, also inside a character. `Emit` appends
  to the record only what marshals: a string that is not valid UTF-8 is refused, which `emit` logs and no more.
  `RequestAssumption` says what a client's request is made of. `FirstFails` and `SecondFails` are
  the read deadlines and hang-ups. The
  listener does not wait for its handlers, so `Exit` may find them anywhere ("gone").
* **Terminal.** One goroutine reads. `conn` is `telnetConn`: where `Read` is in the protocol, the bytes
  it holds and those it has returned. `line` is its caller: the login prompts still to come, then
  `Shell.readLine`'s buffer, history and place in it. `Arrive` is a segment of any length up to `MaxSegment` put
  through `Read` byte by byte (`Feed`), each `Read` returning when its buffer is full or the buffered reader
  drained. `cut` remembers that a chunk ended inside a key or had bytes behind a line end, which
  `readLine` drops; `LinesFaithful` is about the other streams. The references are `Strip`, the payload
  of a stream by the telnet grammar, and `KeyByKey`, the lines when each key comes in a `Read` of its own.
* **ShellSyntax, CommandLine.** `tokenize` is an automaton that looks at one character in a turn; the inner
  loops over quoted text and the second character of an operator are modes of it. `Parse` is a turn of
  `ParseToken` for each token. Both are recursive functions on the position.
* **Vfs, ShellCommands.** A path is the sequence of its names, a tree a function from paths to nodes. File
  contents and output are sequences of units (a word, a name, `nl`, and `text` for whatever is only
  rendered). Go's slices matter: `ReadFile` returns the node's own array, so `cp` shares it and `Append`
  may write into its spare room; contents therefore carry an array id and a capacity. A command
  that would index out of range or assign into a nil map sets `down`, the panic. Aliases share
  one name; commands that differ only in what they print share one branch.
* **Shell.** `RunLine` is `observe` followed by `execLine`, in one step as one goroutine does it.
  `Interact` adds history and limits; `RunExec` is an exec request; `ReachLimit` the time and byte limits.
* **Identity.** Files are 0 (the secret) and the host keys; a value is the draw of random bytes, absent or
  short. `Start`, `ReadWhole`, `ReadShort`, `ReadAbsent`, `Create`, `Write` follow a process through its
  files, one system call a step (`os.WriteFile` is an open that truncates and a write); `Die` may come
  between any two. `raced` collects the files two processes made at the same time. `Login` is
  `Policy.Accept`, and every login it granted is remembered over the node's lives.

## 3. Assumptions about what is not in the repository

* NATS: a connection delivers in order; `FlushTimeout` returns nil only after the broker has
  consumed everything written to that connection; a message without a subscriber, or for a
  subscription whose channel is full, is discarded; the client reconnects for ever and then
  sends what it buffered; subjects are authenticated by account permissions.
* bbolt: a committed transaction survives a death, an uncommitted one leaves nothing;
  `Tx.Size` never decreases.
* Postgres: a statement is atomic; an advisory lock belongs to its connection.
* The SSH library calls `Close` on the connection from its transport goroutine as soon as a
  read fails, and again when its connection loop ends.
* The kernel delivers a client's bytes in order and cuts them into reads as it likes. MS-RDPBCGR
  says what a connection request consists of.
* The operating system: opening with truncation and writing are two steps, a write of 32 bytes
  arrives whole or not at all, and what was written survives the process (not a power failure:
  the code does not sync). The unit file restarts the node (`Restart=always`). An operator may remove
  a file that is too short, and need not.
* protobuf: `proto.Marshal` refuses a message with a string that is not valid UTF-8.
* HMAC and the folding of names are functions, and nothing else is assumed of them. Fresh random
  values are distinct.
* Go's `append` grows in place while there is capacity, and otherwise to twice the size.
* HTTP requests are answered in less than `SessionIdle` (two minutes by default).

## 4. Runs

| run | instance | shows |
|---|---|---|
| `spool` | 2 writers, 4 numbers, a file of 3 units, batches of 2 | one fate per number through crashes, evictions and failed transactions; drops covered by the counter; refinement of `RecordFate` |
| `delivery` | 2 writers, 3 numbers, any 2 faults, subscription of 1 | every record deleted from the spool is stored, queued, or lost in a known way; until something fails the gap and replay verdicts are exact; the backlog always drains |
| `ingest` | 2 sensors, 4 numbers, 4 messages per process life | conservation, isolation of nodes, holes recorded |
| `store` | 2 collectors, a session of 3 events and a heartbeat, 3 puts, 1 failure | the schema is created once, Ok means stored, the session row reflects its events, every collector starts |
| `index` | 3 sessions, 11 events, caps of 2, 4 ingests | structures in step, views accurate, feed justified |
| `telnet` | 3 connections, 2 sources, 1 panic | budget exact, no crowding out, whole transcripts (a command only after a login), slots return |
| `ssh_session` | 3 channels on 2 slots, 2 offers, 2 closers | one start, one end, no over-count; once a reason is noted the end does not say "client closed", unless its reason had been read already |
| `web` | 3 sources, 2 requests at a time, 3 recorders | every session in one place, ended last, quiet sessions end |
| `shell` | 25 lines that use every branch of the command table, 3 lines a session, a quota of 6 units, as root and as a user | `ChangesAreMarked`: what `AttackerFiles` does not name is as it was, and the tree is one; `QuotaHolds`; `OnRecordFirst`: nothing happens that is not on record, not even by a line that panics; `DropsAreUploads`: client bytes in a file were reported, `>>` excepted |
| `terminal` | 6 keyboards of 5 to 8 keys, streams of up to 5 or 6 bytes in every segmentation of up to 3 | `PayloadInOrder` against a reference stripper; `NothingWithheld`; `LinesFaithful`: lines do not depend on how bytes were cut; `PartsAreIndependent`: `;` outside quotes separates, unless it is right behind a redirection operator |
| `identity` | 2 host keys, a node and the operator's tool, 2 faults, 4 spellings of 3 names | `OneIdentity`, `NeverContradicts`; `ComesUp`: the node comes up and stays up, unless a file was left short |
| `rdp` | 2 connections of a source that may have 1, 7 requests cut anywhere, characters of 1 to 3 bytes and fields of 3, a shutdown | `StoryWhole`: only a connect whose cookie or token is cut inside a character is missing; `NeverHalfACookie`, `PlacesReturn` |

Every property of a passing run has a mutant in `PROJECT.json`: a plausible defect, written next
to the definition it replaces, under which the same run must fail.

**Bounds.** They are as small as lets each hazard occur. Spool: two writers are needed for a race
inside `Append`, four numbers for a full file with a batch of two peeked and one record behind
it. Delivery: two faults let a fault hit the recovery from another (a link lost, then the
flush of the retry timing out; a collector that stops while a batch is resent), and with them
up to three connections exist. Store: two collectors and a redelivery; the third put is the one
after a failure. Index: one session more than the cap, one event more than the per-session cap.
Telnet, SSH and RDP: one handler more than the slots; telnet also has a second source to crowd out.
Shell: three lines are enough to copy a file, write through the copy and look; to make a
directory, move into it and remove it; and to fill the quota by any two routes and try a third.
Terminal: six bytes hold an escape sequence on either side of a line end, five a subnegotiation
with a byte after it, and a segment of three with a buffer of three reaches the buffer's last
place. Identity: two faults let the recovery from a death in the middle of a write be hit by
another, or the tool race the node in between. RDP: every request is cut at
every symbol. A cookie and a routing token end inside a character when cut to a field, another cookie
between two, and there are control characters and a byte that is no character.
Where a theorem covers the property (section 5), the bound does not matter.

**Deadlock** is checked in `spool`, `delivery`, `ingest`, `index` and `identity`. The listener, shell,
terminal and store runs switch it off, because a session, or a finite number of connections,
channels or puts, ends.

**Fairness**, and why the code gives it:

* `Delivery`: `Run` wakes on a ticker for ever, so `Drain` is weakly fair; `MaxReconnects(-1)`
  makes `LinkUp` so; the broker consumes. Nothing is assumed of the collector.
* `EventStore`: a process goes on with its statements (weak). The lock is strongly fair, because
  Postgres queues waiters.
* `Telnet`: time passes and reads past the deadline fail; the handler's own steps happen.
  The client is not assumed to send anything.
* `WebSessions`: time passes, the ticker fires, handlers answer.
* `Identity`: a process goes on with its files; systemd starts the node again whenever it is down.
  Nothing is assumed of an operator, so `ComesUp` excepts a file that a death between its creation and its
  writing left short (`LeftShort`): the node then fails at every start until someone removes the file.
* `Rdp`: both reads have a deadline (`SetReadDeadline`), so they fail at some time if nothing comes; the
  handler's own steps happen. The client is not assumed to send anything.

Safety runs that have no liveness property use `Spec` alone.

### Where the code and its own words differ

These were met while modelling. The models do what the code does, so the properties of the runs are
stated such that they hold of it.

1. `spool.go:115` "Evict from the head until the new record fits": once the file has reached
   its bound, one `Append` deletes the whole backlog.
2. `spool.go:3`: sessions observed while the collector restarts must not be lost; they are
   flushed to a broker that discards them, then deleted.
3. `0001_init.sql:46`: ingest is "idempotent under replay"; rows of `credentials` and `artifacts`
   are duplicated.
4. `sshd/server.go:226`: `finishSession` emits the terminal event; a channel or the first
   authentication callback can still emit after it. A reason that a channel notes after `finishSession` read
   the reason (line 236) and before it emits (240) is in no record. `ReasonKept` is about those noted before.
5. `telnet/server.go`, in `Read`: "Return as soon as the buffered reader is drained". A packet that ends
   in a NUL or in a protocol sequence keeps the data before it back until more comes, and an end of
   the stream inside a sequence loses it. `NothingWithheld` and `PayloadInOrder` exclude exactly these.
6. `shell.go:374` "honouring ; && ||": after a failed `&&` or a successful `||` the rest of the line is
   skipped, a part behind a later `;` too.
7. `rdp/parse.go:35`: the parser is written to tolerate truncation, as one that did not "would discard the very
   cookies worth capturing". A cookie whose line end is not in the first `Read` is discarded: the rest of a request
   in two segments is only searched for a client-info marker. A negotiation request that did not come whole is
   recorded as one for plain RDP.
8. `main.go:76` says decoy tokens are keyed on the credential secret; `generateHoneyfiles` is given
   `PersonalitySeed` while the web listener recognises the tokens of `CredentialSecret`, so hits are
   recorded as unknown. `canary.go:92` likewise derives the actuator's token from the host name.
9. `policy.go:90`: names are folded because "the two have to agree"; `shell.go:126` compares the
   account's name without folding.
10. `recorder.go:89`: a failed append "must never kill the session", and does not; but `parse.go:183` cuts
   at byte 256, maybe inside a character, and `proto.Marshal` refuses the record, so such a connect is lost
   each time, and if it was the cookie the client information after it too. The error is only logged.
11. `secret.go:41` asks for a file that is too short to be removed; the error for a host key that does not parse
   (`sshd/server.go:494`) says nothing of the kind. Both keep the node in a restart loop after a death
   between the creation of the file and its writing.

Noted while reading:

* The drop counter is in memory (`spool.go:37`), so evictions before a restart are never
  reported by a heartbeat.
* A number appended out of order by a second goroutine is called a replay (`ingest.rs:69`);
  `VerdictsExact` states exactly when.
* A redelivered session start overwrites `started_at` (`store.rs:341`).
* The maps of credential, source and attack counts have no bound (`index.rs:265`), although
  the header speaks of a bounded index.
* A session re-created after eviction has no source address, and the IOC feed can list the
  empty one (`api.rs:182`).
* An SSH recorder created after the close hook ran gets no `SessionEnd` (`sshd/server.go:230`).
* On shutdown the web listener ends sessions before the server stops (`web/server.go:142`),
  so a last request can open a session that is not ended, or follow an end. `EndIsLastWhileUp`
  is therefore limited to a running server.
* `deploy/nats/nats-server.conf` allows publishing to `honeynet.events.<node>.>`, while the
  publisher uses `honeynet.events.<node>`.

* `honeynode -credentials` racing the node's first start: the later write wins, and what the tool printed
  need not be what the node accepts. `OneIdentity` names this case (`raced`).
* Shell: `readLine` drops what follows a line end in one chunk, takes a split escape sequence for text, and
  never reports a line the client did not end. `tee` reports an upload whose write failed; `>>` reports none.
  Directories made by `mkdir -p` are not marked. `sudo`, `nohup` and `xargs` drop the flags of what they run;
  `id -un` prints the number; `su` changes the name only.
* File system: a directory moved into its own subtree is lost. A copy shares its array with the
  original; since an append copies or marks, no unmarked file is changed through it (`ChangesAreMarked`).
* `echo a > ; ls`: the semicolon is taken for the target of the redirection (`parser.go:63`), and `ls` becomes an
  argument of `echo`. `PartsAreIndependent` leaves this out.
* Commands that panic: `head -n -1`, `cut -f 0`, `dd` with a negative count, a move onto a path below a file,
  `mkdir -p` through a file. Telnet recovers; the SSH listener has no recover of its own.

## 5. Proofs

TLAPS proves the following for every value of the constants, from the named assumptions next to
the constants (each is also evaluated by TLC). No bound of section 4 applies; `MaxSeq`, `MaxFaults`
and the like remain as parameters that may be any natural number.

**`SpoolProofs`** (`SpoolAssumption`)
* `SpoolTyped`: `[]TypeOK`, inductive as it stands. (Types are proved of every module below, as a part of its
  invariant; the runs spend their properties on what types do not say.)
* `SpoolAccounted`: `[]Accounted`. `Accounted` is a partition of `1..seq` into fates and needs
  `ReservedApart`, that no two writers hold the same number: otherwise the end of one `Append`
  would take the other's number out of flight. Inductive together with `TypeOK`.
* `SpoolDropsCounted`: `[]DropsCounted`. `fresh` is finite, each eviction adds exactly what it
  deletes, and a rolled back transaction only raises the counter.
* `SpoolImplementsRecordFate`: every transaction maps to one abstract step or a stutter. It rests
  on `Accounted` (so that the fate of a number is well defined) and on `Peek` returning an initial
  segment of the bucket (`FirstKeysDownward`).

**`DeliveryProofs`** (`DeliveryAssumption` and the spool's)
* `DeliveryImplementsSpool`: the pipeline's steps are spool steps or leave it alone; so
  `DeliveryAccounted` carries `SpoolAccounted` over to the composition.
* `DeliveryTyped`: types need `Control`: the rest of the batch is empty except while publishing,
  and a drain past `connect` has a connection.
* `DeliveryLosesNothingSilently`: `[]EveryLossHasACause`. The invariant alone is not inductive.
  `FlushedFirst` adds what holds at each point of `drain`: while publishing, the part of the batch
  already published is on the connection or past it; after the flush, all of it is past it; and
  what is past it is stored, queued or lost in a known way.
* `DeliveryVerdictsExact`: `[]VerdictsExact`. Its invariant, `Calm`, says that until something fails the
  records move in single file (`OneFile`): spool, batch, connection, subscription, tracker. Whatever goes
  before has the lower number, unless the later one was overtaken inside `Append`. A number below the
  tracker's is then one that was overtaken, and the tracker's jumps add up to the numbers skipped
  (`GapsCounted`, by counting an interval). `TrackerTrue` and `BatchHeld` hold through faults too.
  That a number skipped was evicted, turned away or is being overtaken comes from `Accounted` (through
  the refinement) and `FlushedFirst`.

**`CollectorProofs`** (`IngestAssumption`, `StoreAssumption`)
* `NothingUncounted`: `[]Conservation`, with the fact that at most one event is pending.
* `NobodySpeaksForAnother`: `[]IdentityIsolated`. `RejectionExact` shows that the order of the checks lets
  through exactly what a sensor says in its own name; `TrackerTrue` then ties the tracker to that.
* `LossIsRecorded`: `[]HolesRecorded`. An accepted number above the last opens exactly the holes that
  `missing_events` grows by; a late one closes at most one and is counted as a replay.
* `SchemaSafe`: `[]SchemaCreatedOnce`, from `LockExact` (who is inside the migration is the one
  holder of the lock, also when another died holding it) and `LookupFresh` (what CREATE TABLE IF NOT EXISTS
  found is still so when it creates).
* `OkIsComplete`: `[]OkMeansStored`, from `PutProgress`: what is in the database at each
  statement of `put_event`.
* `SessionRowExact`: `[]SessionReflectsEvents`, from what one upsert does to the row.

**`LiveIndexProofs`** (`IndexAssumption`)
* `IndexInStep`: `[]InStep`. `Ordered` adds that no view is from the future, so that a new one is the
  youngest and the head of `order` the oldest; eviction takes the head out of all three structures.
* `IndexViewsAccurate`: `[]ViewsAccurate`. `Says` states each counter of a view as a number of events of its
  session since its creation, `Kept` that the events kept are the first of those; one lemma per kind of event.
* `IndexFeedJustified`: `[]FeedJustified`, from `Says`: a source in the feed has a view whose counters
  name the events that justify it.

**`SessionProofs`** (`SshAssumption`, `LimiterAssumption`, `WebAssumption`)
* `OneStartOneEndAlways`: `[]OneStartOneEnd`. `OneOfEach` says which goroutine is between creating
  the recorder and emitting the start, and that the close hook runs once.
* `SummaryNeverOvercounts`: `[]NeverOvercounts`. A lost update makes the counter smaller, never larger, but
  only because a value that a channel has read and not yet written back is below the number of commands run;
  `CommandsCounted` states this for every channel, and counts the events and the channels that owe one.
* `ReasonSurvives`: `ReasonKept`, one box in another: from a state where a reason is noted and the hook has not
  read it, no state has an end that says "client closed". `NoDefault` is what holds from there on (the
  value stays set, and what the hook holds is not the default), shown by `NoDefaultStep`.
* `WebOnePlace`: `[]ExactlyOnePlace`. `InOnePlace` says it without cardinalities: no recorder is under two
  sources, one in the map or with the sweeper has no end, one in neither has one.
* `WebEndIsLast`: `[]EndIsLastWhileUp`. `HeldOpen` is what makes it true: a request's recorder is in the map
  under a source that is not quiet, so the sweeper does not take it. It fails once `closeAllSessions` runs.

**`TelnetProofs`** (`TelnetAssumption`, `LimiterAssumption`)
* `TelnetBudgetExact`: the counters equal the number of handlers between `acquire` and the deferred
  `release`, in all and per source. One lemma for a slot taken, one for a slot given back, one for
  all the moves in between.
* `TelnetNotCrowdedOut` follows with `WithinShare` (no source exceeds its share).
* `TelnetTyped`: needs `RoundsLeft`, that `authenticate` is at its prompt only with rounds left.
* `TelnetTranscriptsWhole`: `[]TranscriptsWhole`. `Script(c)` says what a transcript holds at each point of
  `handle`: the number of offers is one less than the attempt, a login is there exactly from
  the shell on, commands only behind it, an end only when the handler is done.

**`WireProofs`** (`RdpAssumption`, `WidthAssumption`, `RequestAssumption`, `TerminalAssumption`)
* `RdpStoriesWhole`: `[]StoryWhole`. `Stories` lists what may have been recorded at each point of `handle`;
  every step keeps the record or appends the next event of its story, and an exit leaves it as it is. `LInv`
  adds that a story without its connect is of a request that is `Lossy`, which needs the next but one: what is
  parsed of a request, and does not marshal, is its cookie or token as cut to a field.
* `RdpPlacesExact`: as long as the process lives, the count of each source is the number of its handlers
  between `acquire` and the deferred `release`, and within the limit. It is the safety half of `PlacesReturn`.
  That these handlers are finitely many is a part of the invariant (`PlacesOf`), not an assumption.
* `RdpNeverHalfACookie`: `[]NeverHalfACookie`, for every request, width of characters, size of header and field,
  and every cut.
  The invariant `HInv` ties what was heard to a beginning of what was asked. The rest is about
  the parser: what `LineEnd` finds in a beginning of a request is the end of its token or nothing, the
  negotiation request is only recognised where it is, and `Sanitize` leaves no control character.
* `TerminalPayloadInOrder`: `[]PayloadInOrder`, and `TerminalNothingWithheld`: `[]NothingWithheld`, for every
  stream, segmentation and buffer size. That the payload so far is right says nothing of a sequence that
  is only begun, so the invariant is `Taken`: for *every* continuation `u`, stripping what has come and
  then `u` gives what `Read` has, followed by what stripping `Before(phase)` and then `u` gives, where
  `Before` is the shortest beginning of a sequence that leads to the phase. It is shown byte by byte (`After`,
  `Gives`), then for a segment, then for the steps (`TInv`).
* `TerminalLinesFaithful`: `[]LinesFaithful`. `KInv` says (`Lined`) that for every continuation of what the
  caller has read, the reference shows the same line, history and place (`Same`) and is at the next key,
  unless `cut`. The loop of `readLine` and that of the reference are led abreast over a chunk (`Abreast`).
* `TerminalPartsAreIndependent`: `[]PartsAreIndependent`, for every line the terminal can hold. A line that
  is `Closed` ends with the tokenizer in mode "plain" and not behind a backslash (`ClosedPlain`), so the tokens of
  the whole are those of the part before, the semicolon, and those of the part behind (`TokensOfParts`, with
  `ScanBehind`: the tokens already found do not influence the next). A semicolon with no redirection pending
  leaves `Parse` as it started, with the earlier pipelines in front (`ParseSemicolon`), and what is in front
  does not influence what comes (`CommandsOfParts`). `Legible` is the typing of lines and history it needs.

**`IdentityProofs`** (`IdentityAssumption`)
* `IdentityIsOne`: `[]OneIdentity`, for any number of host keys and faults. What was shown is only known to be
  kept if the file still has it and no process is about to overwrite it, so the
  invariant adds `Placed` (a process is at a file it needs, has something to write when it writes, and
  has the secret once it is past it) and, for every file that was not raced, `Settled(f)`: what any
  process has loaded or shown of it is what the file holds, and only one process writes it, while it
  is short.
* `LoginsNeverContradict`: `[]NeverContradicts`, for any `Mac`, folding, roster and password lists. It
  needs `Earned`: every login granted is one of the policy that the secret on disk gives, unless the
  secret was raced.

Inductions over positions and lengths (the loops of `Read`, `readLine`, `sanitize`, `tokenize` and `Parse`)
are written with `NatMin`, that a set of numbers has a least one, applied to the set of counterexamples. The
loops are therefore recursive functions in the modules, and each such proof begins with a lemma
that the function exists and is the loop.

**Only model-checked**, and why:
* all liveness (`DrainsEventually`, `EveryCollectorStarts`, `SlotsReturn`, `QuietSessionsEnd`, `ComesUp`,
  `PlacesReturn`): the prover does not reason about fairness;
* the four invariants of `Shell` (`ChangesAreMarked`, `QuotaHolds`, `OnRecordFirst`, `DropsAreUploads`): some
  commands run their operands as a command (`sudo`, `nohup`, `timeout`, `xargs`, `busybox`), so `RunStage` and
  `Builtin` call each other, and the prover cannot use recursive operators; as functions they would have
  the set of all sessions as their domain. Most commands also fold an operator over their operands, and
  what a fold keeps is an induction with an operator as its parameter.

## 6. Not modelled, and why

* Data without control: marshalling, bounding of field lengths, decoy pages, patterns and
  header order, file contents, personalities, geo lookups, TLS options, and what a command prints
  beyond the words, names and contents a later stage can use.
* Numerical code: features and clustering of `ml/`.
* The dashboard (a read-only view), the shell scripts and unit files, the attack simulator, the
  generated protobuf code and vendored crypto.
* Overflow of sequence numbers (`ingest.rs:78`): a 64-bit counter incremented once per event.

## 7. Plan

1. *Done*: spool, delivery, ingest, store, index, telnet, SSH sessions, web sessions, RDP; bytes to
   lines, the shell's syntax, commands and sessions, the file system; the node's identity and
   logins; proofs of every safety property of the runs except the four of `Shell`.
2. Left to model: canary tokens planted against tokens recognised (first the disagreement 8 above has
   to be settled in the code); the KEXINIT sniffer's bounded buffer; the broadcast stream of the API
   with a lagging subscriber; the corpus fold of `ml/` under replays; an abstract
   specification of a session (start, events, one end) that telnet, RDP, SSH until its close and
   web sessions until shutdown each implement.
3. More proofs: the refinements of the session specification; the write quota and the marks of `Vfs` as
   lemmas about its operators, the part of `QuotaHolds` and `ChangesAreMarked` that needs no recursion.
