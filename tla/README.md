# A TLA+ model of liven

This directory models the core of liven, an embedded and networked
log-structured key-value and stream database written in Rust: what its write
path promises, how the code keeps the promise through crashes and damage, how
concurrent queries, maintenance, listeners and connections use the engine, and
where the code does not do what it says. Paths such as `storage.rs:3718` are
below `src/`; `PROJECT.json` names for every definition the lines it stands for.

How to run (inside this directory): `tlc -config MCSegmentLog.cfg MCSegmentLog`
model-checks one instance, `tlapm SegmentLogProofs.tla` checks the proofs of
one `...Proofs` module.

## 1. The system

| Component | State | Operations | Talks to |
|---|---|---|---|
| Write path (`storage.rs`, `storage/ring_buffer.rs`) | bounded channel, flusher thread, active file and its size, sequence counter, `failed` flag | `append_async`, `replace`, `append_batch`, `append_tombstone_batch`; the flusher's group commit and rollover | index, segment files, broadcast channel |
| Recovery (`recover`, `handle_tear`, `repair`) | none of its own | replay, choice of the active segment, torn tails, salvage | segment files, index |
| Compaction (`compact`) | `maintenance_lock`, `compaction_counter` | copy live frames, swap pointers, unlink | index, files, flusher's lock |
| Retention (`enforce_retention`) | retention policy, `maintenance_lock` | remove fully expired segments | index, files |
| Readers (`get`, scans, timestamp index) | file handle cache, per-stream timestamp index | `get`, live, historical and time-range scans | index, files |
| Query executor (`executor.rs`) | `write_lock`, `pending_inserts`, `streams_set` | insert, upsert, update, delete, drop, pipelines | all of the engine |
| Live queries (`executor.rs`, `server.rs`) | a broadcast receiver per listener | snapshot, subscribe, filter | broadcast channel |
| Server (`server.rs`, `security.rs`) | `active_connections`, sessions, connection semaphore | connect, query, revoke, the 500 ms checker, auto-compaction | executor, engine |
| Query plans (`executor.rs`) | none | choice of path, pipeline stages, sequence matcher, explain | index, scans |
| Other pure parts | none | parser, codec, configuration | |

**What is hard.** One flusher thread serialises all writes, but everything
else runs beside it: callers only share a channel with it, the compaction takes
its lock for a single step, readers take none. A crash can come between any two
file-system calls, and three different things must be durable for a write to
survive: the bytes, the directory entry of the file, and, after a compaction,
the *absence* of older files. Group commit answers many callers from one fsync,
so an error in the middle must be undone for all of them. Segment files, index,
sequence counter and segment ids are rebuilt from the files alone, and the files
may be damaged. Above the engine the same pattern returns again and again: look
something up, let go of the lock, act on what was seen - an insert and its
reservation, a reader and its pointer, retention and the key it removes, a
listener and its subscription, a connection and the key it was made with.

**What makes each component correct.**

- Write path: an answered write survives every crash; readers see exactly the
  replay of the log; one order of writes; each caller gets an answer.
- Recovery: it restores what was answered, cuts only what was torn and keeps a
  copy of it, never gives an id out twice, and writes where the log ends.
- Compaction and retention: nothing a reader can reach is removed, nothing
  deleted comes back, at any crash point.
- Readers: what is returned was the value at some moment of the read; a live key
  is found although its file moves.
- Query plans: a shortcut answers like the scan it replaces.
- Executor: read-check-write operations act on the value they have read.
- Live queries: snapshot and stream together show each record once.
- Server: a revoked key stops working; the connection limit holds.

`PROJECT.json` lists the hazards at their lines.

## 2. Modules

| Module | Models |
|---|---|
| `AckedLog` | what the engine promises: a log, a view, answers; no files |
| `SegmentLog` | write path, group commit, rollover, kill, power loss, failed I/O, reopen |
| `SegmentLogProofs` | theorems about `SegmentLog`: types, durability of what is acknowledged, order of the log, torn tails, replay |
| `AckedLogProofs` | the theorem that `SegmentLog` implements `AckedLog` |
| `Compaction` | `compact()` beside everything in `SegmentLog` |
| `CompactionProofs` | theorems about `Compaction`: types, pointers, live keys, deleted keys, what a restart shows |
| `Repair` | opening damaged segment files in the three recovery modes, salvage |
| `RepairProofs` | theorems about `Repair` |
| `LiveIndex` | skip list and timestamp index between flusher, compaction, retention and a reader |
| `LiveIndexProofs` | theorems about `LiveIndex` |
| `Executor` | concurrent mutating queries above the write path |
| `ExecutorProofs` | theorems about `Executor` |
| `QueryPlan` | planning and running a query that reads |
| `LiveQuery` | history, subscription and the bounded broadcast channel |
| `LiveQueryProofs` | the theorem about `LiveQuery` |
| `Server` | connections, sessions, key administration and the revocation checker |
| `ServerProofs` | theorems about `Server` |
| `MC...` | the instances TLC checks |

`SegmentLog` implements `AckedLog`, and `Compaction` extends `SegmentLog`. The
others stand by themselves, each over the part of the engine its subject can
notice: `Repair` takes acknowledged writes as durable, because that is what
`SegmentLog` shows; `LiveIndex` leaves crashes out, because `Compaction` has
them; `Executor` keeps a channel and one flusher that applies writes in channel
order; `LiveQuery` keeps the order of apply and broadcast; `QueryPlan` runs one
query on a store at rest; `Server` treats a query as something that keeps a
connection busy.

### SegmentLog

*The disk.* `segs` are the segment files, `files` the complete frames in them
(page cache included), `torn` the segments that end in an incomplete frame.
What is durable is kept apart: `entries` are the directory entries and `synced`
the frames an fsync covers. A frame is what replay reads from it: segment,
sequence id, key, tombstone bit; the request that wrote it stands for the value.
Within a segment sequence ids give the order of frames, so offsets are left out.

*The engine.* `up`, `failed`, `active` (`active_segment_id`), `nextSeg`
(`segment_id_counter`), `nextSeq` (`current_sequence_id`), and `index`, the set
of frames the skip list points at.

*The flusher.* `pc` is its place in `run_flusher_loop` and
`execute_batch_append`: `recv` (waiting), `plan` (numbering the drained
requests), `roll_sync`, `roll_id`, `roll_create`, `roll_dir` (the four steps of
a rollover), `write`, `sync`, `apply` (index and answers, request by request),
`exit` and `stopped` (after a failure). `group`, `plan` and `seq` are its locals.

| Action | Code |
|---|---|
| `Submit` | the four append calls up to the send on the channel |
| `Drain` | receive and drain window; how many are drained is open |
| `PlanRequest`, `RefuseRequest`, `EndPlan` | the planning loop with the authoritative index-budget check |
| `RollSync`, `RollId`, `RollCreate`, `RollDirSync` | rollover |
| `WriteGroup`, `SyncGroup`, `ApplyAndAck`, `EndGroup` | one `write_all`, one fsync, then index and answers |
| `FlushFails`, `FlusherExit` | a failing create, write or fsync; the end of the loop |
| `Close`, `Kill`, `LosePower` | drop, process death, power loss |
| `Recover` | `recover` and the counters of `new_with_tuning` |

`LosePower` keeps all that was synced, of the rest of a normal segment any
prefix, any subset of the directory changes that were not synced, and may leave
a torn frame: more than the tracker in `power_loss.rs` produces, so what holds
here holds for the crash tests' worlds too. After a power loss the page cache is
gone, so what is there is durable.

`exposed` and `acked` are observations, not state of the code. `exposed` turns
true when a reopen goes on with a segment file that exists while its directory
entry was never synced (section 4): the properties say what holds outside
such runs.

### Compaction

`Compaction` extends `SegmentLog` with the thread that runs `compact()`. `cpc`
is its place in the function: `list`, `collect`, `create`, `copy`, `publish`,
`swap`, `unlink`, `finish`; its locals are `seen` (the active id it read),
`victims`, `sources` (the frames its pointers named) and `target`. The flusher
holds its lock while it works on a group, so `SwapPointers` waits for it; every
other step interleaves freely. A kill or power loss hits it at any step; `Close`
cannot, since the compaction holds a reference to the engine. A file that was
unlinked but whose removal is not durable is in `entries` and not in `segs`, and
a power loss may bring it back.

`promised` is the newest acknowledged frame of each key. `mishaps` records which
of four events have occurred: `raced` (a rollover between the two readings of
what is active), `half_removed` (the removal of the sources was cut short,
failed or was not made durable), `unsynced_replay` (a reopen replayed frames
no fsync covers) and `reused_id` (a reopen replayed a delete over a record
written after it). The passing run shows that outside the event a property names
it holds; section 4 says what each event does.

### Executor

Each member of `Calls` is a thread that executes one mutating query. `pc` is its
place: `lock` (waiting for `write_lock`), `look` and `reserve` (checks), `check`
and `register` (stream limit), `send`, `wait`, `unlist` (the end of a drop). The
kinds of query differ in what they read and in when they hold the lock:

| Kind | Code | Lock |
|---|---|---|
| `insert`, `insert_batch` | `Insert`, `InsertBatch` | until its request is queued; then its `reserved` keys stay in `pending` |
| `upsert` | `Upsert`, `UpsertBatch` | none |
| `update`, `delete`, `empty`, `drop` | `Update`, `DeleteKey`, `Empty`, `Drop` | from the read to the answer |
| `pipeline_update`, `pipeline_delete` | the pipelines with a scan | from the scan to the answer |
| `keyed_delete` | `PipelineDelete` on a key | none |

Reading the index, marking a key, registering a stream, sending and receiving
are separate steps, as each is a critical section of its own. The flusher
applies one write per step (`ApplyWrite`), may refuse a request that brings a
new key (`Refuse`) or fail for good (`FlushFails`). `Reopen` rebuilds the list of
streams from `recorded`, the streams some frame names. What a filter selects and
what a merge computes depends on data and is left open; a scan is one step.

The stages of a pipeline either select records (any subset of the live keys) or,
with `count`, `group` and `window`, replace them by results of their own, whose
keys are `count`, the group's value or `window_<start>`. An update or a delete at
the end of such a pipeline writes those keys (`MadeUp`): any keys of the stream, at
most as many as there were records, or, for the count of no records, one in a
stream called `stream`. `made` in the query's `job` says so. Among them only those
that are live were scanned, as records of their own.

`seen`, `stale`, `made` and `races` are observations. `seen` are the keys a query
has read and is going to write, `stale` those another query has written since.
`races` records three events: `late` (an insert reserved a key that had become
live since it looked, section 4), `crossed` (a query without the lock wrote a key
another was working on) and `dropped_under` (a drop unlisted its stream while a
record was live or on its way). The passing run shows that nothing goes wrong
without one of them. `crossed` is a plain consequence of `upsert` and
`keyed_delete` taking no lock: an update that reads before an upsert and writes
after it undoes the upsert. The comments at `storage.rs:203` and
`executor.rs:1590`, which say that every mutating path takes the lock, are out of
date there; `executor.rs:1502` says so.

### Repair

A segment file is the sequence of its cells, and a cell is one frame with what
is wrong with it: `good`, `bad` (complete, checksum or payload wrong), `cut`
(longer than the rest of the file) or `stub` (less than a header). That is all
`recover` can tell apart, so an offset becomes a position. `Open` is the replay:
it chooses the active segment, merges frames by sequence id and leaves its
`tears`, at most one of each segment; then `pc` walks through
`process_deferred_tears` and `handle_tear`, in the order of segments.

| Action | Code |
|---|---|
| `IgnoreTrailing`, `RefuseToOpen`, `SkipRemainder` | a tear that is not repaired: leftover bytes, a refusal (`RecoveryRequired`, `StrictCrcMismatch`, no normal segment id left), an inactive segment |
| `StartSalvage`, `WriteMarker` | the marker of the tear is read and written anew |
| `CreateTarget`, `CopyFirstChunk`, `CopyFrame`, `SyncTarget`, `SyncDirectory` | `write_salvage_segment` |
| `PrepareCut`, `CreateSidecar`, `WriteSidecar`, `Truncate`, `RemoveMarker` | `backup_torn_region`, the cut, the end of the marker |
| `FinishOpen`, `Write`, `Close` | the engine after its recovery |
| `Kill`, `PowerLoss` | between any two of these |

`valid` are the frames no open may lose (readable, or stranded behind a tear),
`whole` all that were ever complete, `skipped` the keys dropped together with a
corrupt inactive segment. `mishaps` names what a rerun of an interrupted repair
may do, see section 4. `RepairServes` is `FALSE` in the run: the command line
repairs and exits. With `TRUE`, which the constructor allows,
`NextWriteIsReadable` fails: the sequence counter was set before the salvage, so
the ids of salvaged frames are given out again.

### LiveIndex

`index` is the skip list, `stamps` the timestamp index, `nodes` and `marks` what
`index_ram_bytes` counts for them. Three threads use them at once. The flusher
(`fpc`) holds the lock on the active file while it applies a frame, but takes
four steps to do so: prune the old timestamp entry (in `Write`), insert the
pointer, insert the timestamp entry, answer. The maintenance thread (`mpc`) runs
`compact` or `enforce_retention` under `maintenance_lock`; only the former takes
the flusher's lock, and only to move pointers. The reader (`rpc`) loads a pointer
and reads the file later: `get`, the live scan, which tries once more, and the
time-range scan, which visits a snapshot of the timestamp index and keeps an
entry only if the skip list still agrees.

With `IoErrors` a pass may fail wherever the code touches the disk. `ListSegments`
may find no directory; `KeepSegment` keeps a segment that cannot be read;
`CopyLive` may fail to create, read, write or sync, and leaves the copies it has
made; `UnlinkExpired` may fail to remove the file after its keys have left the
index, which ends the pass, and `UnlinkCompacted` passes over a source it cannot
remove. `orphans` (an observation) are the files such a removal has left; they are
listed again by later passes.

`shown`, `moves` and `touched` record what the index has shown of the reader's
key since the read began, and what has been moved under it; `newest` is the
newest acknowledged frame of each key. `mishaps` are `raced` (a rollover between
the active id and the directory listing), `stolen` (retention removed a newer
pointer than the one it looked at), `drift` (it removed one the flusher was
putting in, so the charge is wrong) and `uncovered` (retention removed a file, or
tried to, that superseded a record in a kept one).

### QueryPlan

`Init` picks a log and a query; the first step finds the records (`LookUpKey`,
`ScanTimeRange`, `ScanStream`, `ScanHistory`, or `RefuseUnknownStream`), then
`ApplyStage` applies one stage after the other, as
`try_apply_pipeline_stages_to_vec` does. Values keep what stages can tell apart:
numbers in halves, texts as ranks, vectors, objects as functions. The
properties compare with definitions of their own: the stages applied to the
whole stream, the set of matches of a pattern, the best `k` of a sorted list.

`KeyPlanExact` and `TimePlanExact` say when a shortcut is exact. They are a
result of the model, and the planner does not test them.

### LiveQuery

One flusher writes, applies and broadcasts (`Write`, `Apply`, `Broadcast`, in
this order per record); the channel keeps the last `Capacity` records. A listener
reads the history key by key and then subscribes (`listen`), subscribes at once
(`tail`), or subscribes anew in each call (`poll`, `subscribe_sync`). `missed`
collects the records it can never get: those broadcast between reading the
history and subscribing, those overwritten in the channel, those between two
polls. Everything else must reach it, in an order that leaves it with the same
value for each key as the index.

### Server

A native connection goes `open` -> `found` (the key was looked up) -> `sending` ->
`open` again when it is registered; a TLS connection `identified` -> `open`; a
listen or tail query makes it `listening`. Whatever the handler writes to its
client it awaits (`sending`, with the place to go on at in `next`): until the client
has read it (`Sent`) or has gone (`Leave`), the handler looks at neither its close
channel nor new frames.

A web socket has two tasks. The handler goes `upgrading` -> `looked` (the session's
key was looked up) -> `open` (registered), is `blocked` while the query channel is
full, and `replying` while it answers a ping or a refusal itself. The answering
task takes one query after the other from that channel (`queued`), and a live query
keeps it (`streaming`). The handler's end (`SocketEnds`) drops the registry entries
of its session and leaves the answering task alone: the socket is then `detached`,
or `left` when its client has gone, until `AnsweringEnds`.

`registry` is `active_connections`, `fired` the close channels that were sent on or
dropped, `permits` the semaphore.
Administrators' handlers (`request`) read the key's record, write it back,
update the identity cache, end sessions and close connections, one step each, so
two handlers interleave. The checker works on a snapshot of the registry.

Keys are numbered in the order in which they are issued; the checks of a query's
capabilities are left out. `late` marks a TLS client that was registered under a
newer role than the one it works with: the checker compares the registered role,
so it never notices.

## 3. Runs

| Run | Instance | Shows |
|---|---|---|
| `crash_safety` | 2 requests of up to 2 writes, 2 keys, groups of 2, segments of 2 frames, 2 restarts of any kind, I/O errors | `AckedDurableUnlessExposed`, `IndexIsReplay`, `SequenceIdsUnique`, `TornTailIsActive`, `LogHasNoHoles`, `ImplementsAckedLog` (the steps of `AckedLog`), `EveryRequestAnswered` |
| `compaction` | 3 requests, 2 keys, 2 compactions with I/O errors, 1 kill, power loss or close | `IndexReadable`, `LiveKeysSurvive`, `DeletedStaysDeletedUnlessHalfRemoved`, `RestartChangesNothing` |
| `compaction_rollover` | 3 requests, 1 compaction, no crash | violates `LiveKeysSurviveRollover` (finding 1) |
| `repair` | 1 or 2 damaged segments or a compacted one, 3 opens in any mode, 1 kill, 1 power loss, writes in between | `CutFramesAreKept`, `StrandedFramesStay`, `RepairedStoreOpens`, `NewestIsServed`, `NextWriteIsReadable` |
| `live_index` | 2 keys, 3 writes, 1 compaction, retention, passes that may fail at each of their steps, reads of the key that expires | `ChargesAreExact`, `ReadsAreCurrent`, `ReadsMissNothing`, `NewestKeysRemain`, `RestartShowsTheIndex` |
| `executor` | 3 queries of any kind, 3 streams, 4 keys, limit of 1 stream, channel of 2, I/O errors, 1 reopen | `ReservationsMatch`, `InsertsOverwriteNothing`, `HoldersWriteWhatTheyRead`, `LiveStreamsListed`, `StreamLimit`, `NobodyIsStuck` |
| `insert_uniqueness` | 2 inserts | violates `ReservationsSuffice` (finding 2) |
| `query_plan` | every case of `MCQueryPlan` | `AnswerIsThatOfTheWholeStream`, `ExplainNamesThePath`, `PagesVisitEveryRecord`, `PatternsAreReal`, `PatternsAreFound`, `SearchReturnsTheBest`, `GroupsCountEveryRecord` |
| `query_filters` | the same cases | violates `FiltersSelectByCondition` (finding 3) |
| `live_query` | 1 listener of any kind, 5 writes or deletes of 2 keys, channel of 2 | `ListenersFollowTheIndex` |
| `server` | with two roles and one request: a native client, one that registers twice, or a tab; with one role: a native client and two requests, or two tabs and a request; clear text or TLS | `EveryConnectionIsWatched`, `StaleConnectionsEnd` |
| `revoked_streams` | one tab and one request | violates `RevokedStreamsEnd` (finding 4) |

The type invariants `TypeOK` (`SegmentLog`), `CompactionTypeOK` and
`RepairTypeOK` are checked with them.

**Bounds: write path and compaction.** `Requests` bounds how many writes a run
makes, `MaxRestarts` how often the engine goes down, `MaxCompactions` how many
compactions start; `MaxSegment` is small so that almost every group rolls over,
`MaxGroup` 2 lets a group carry two requests, and `MaxWrites` 2 lets a batch be
torn between its writes. In the write path two batches make up to four frames: a
record, its overwrite or tombstone, and a group that no longer fits and rolls over;
two restarts are a crash whose result the next crash meets. What more requests, keys
and restarts could bring is left to `SegmentLogProofs` and `AckedLogProofs`, which
prove every safety property of this run. A compaction needs three single writes: a
record, what supersedes it, and one that rolls over; the second compaction is the one
that meets a compacted segment. Requests and keys are symmetric in the runs of the
compaction; `crash_safety`, which checks a liveness property, uses no symmetry.

**Repair.** Three frames let a good one lie behind, before and between damaged
ones, which is what the search for a place to read on distinguishes; every
combination of damage is a layout, so kinds of tear meet in all orders. Three
opens are a repair that is interrupted, its rerun, and the open that judges the
result. One kill and one power loss are enough to interrupt any step, and to lose
what the rerun trusted; `MaxSeq` lets two writes follow, so that a second tear
forms on a repaired file. `Large` lets a kill stop within a frame of the salvage
copy. In one more layout the last normal segment id is taken, so that a repair that
needs a new segment refuses. That nothing depends on these bounds is what
`RepairProofs` shows.

**LiveIndex.** `k1` expires after one tick, `k2` never and so holds its segment
back; every write fills a segment. Three writes are a version, its replacement
while somebody works on it, and the one that rolls the replacement's segment
over. A read begins before the last write, since a read of an index that no
longer changes shows nothing. Reads are about `k1` only: `k2` differs only in
that retention leaves it alone. The state
constraint `ReadsFirst` ends a behaviour in which somebody reads after a file could
not be removed: such a failure changes nothing a reader looks at, and what follows it
is explored without readers. Without readers the other properties have also been
checked with two compactions, of which the second meets what the first one left.

**Executor.** Three queries are one that reads, one that writes in between, and
one that waits for the lock or fills the channel; a stream with two keys lets a
batch be half reserved or half applied, and with a limit of one stream, two
further streams are what it takes to pass it by more than one. Keys that stages
make up are any of the four, each once: the model does not tell `count` from any
other key, since a client may have chosen that name. A reopen comes
between two queries, never before the first.

**QueryPlan.** Plans are tried on all logs of up to two versions of two keys (and
one of three) under all pairs of a filter from a small grammar and a tail of
stages; patterns on all logs of four events of three kinds with gaps of 0 to 2
and a window of 2, so that matches overlap, end on the edge and run out; other
stages on all orders of four records. `MaxScan` is larger than these logs: the
refusal at the limit is left to the code's tests (see section 4 for its edge).

**LiveQuery.** Five writes and a channel of two are enough to be overtaken twice
and to write in every gap; listeners do not affect one another.

**Server.** One key, one request of each administrator, each client in company of
one or two of them. The requests can be revocations, changes of role and a new key
under the same id. A client that registers twice is there because its first entry
stays; two tabs share a session because closing one drops the other's entry. Two
roles are there beside one request, where a role can change and return; with one
role two requests meet, or two tabs that close each other. Larger companies are left
to `ServerProofs`, for the invariant. The query channel holds one query, so that one
live query and one more fill it.

Deadlock is not checked where the system rests: an idle engine waits in `recv`
forever, the executor when its queries are done (`NobodyIsStuck` finds the
deadlocks in between), a query when it is answered, and the others when their
bounds are used up.

**Fairness.** `EveryRequestAnswered` assumes weak fairness of the flusher's steps
together: it is one thread that holds its own locks and never waits for a caller.
Nothing is assumed of callers, errors or crashes. A caller whose process is
killed gets the answer `lost`; `Close` drops the queue, and its callers get an
error. `StaleConnectionsEnd` assumes weak fairness of the server's own tasks: the
checker's loop, which wakes every 500 ms and never waits for a client; a
connection's or a socket's registration, which waits for nobody; a socket's task
taking its next query or ending. Of the reaction to a close channel it assumes strong
fairness: the handler looks at the channel only between two frames, but each time it
does, a fired channel and a waiting frame are both ready and `tokio::select!`, which
is not `biased` here, picks one at random, so a client that keeps sending does not
win for ever. Clients and administrators owe nothing: a client need not read what it
is sent (neither `Sent` nor `Replied` nor `StreamEnds` is fair), a query may last for
ever, and a role may be changed and never changed again. Hence the three exceptions
of the property: a client that never reads again, a socket whose handler waits for
ever for its answering task or in a reply, and a TLS client that was registered late.

## 4. Findings and known situations

Findings: a line of the repository says otherwise, and a run shows it.

1. *Rollover under a starting compaction* (`compaction_rollover`). `compact`
   reads the active id, then lists the directory. A rollover in between makes
   the new active file an "inactive" one; it is unlinked under the flusher.
2. *Lookup before reservation* (`insert_uniqueness`). An insert looks in the
   index, then reserves. Between the two the insert that held the key can be
   applied and give its reservation back; both inserts succeed and the second
   overwrites the first.
3. *Filters beside a key* (`query_filters`). A filter with an equality on the key
   anywhere in it is dropped as a whole once the key has been looked up:
   `key == "a" and n > 5` returns `a` whatever its `n`. The key is also taken from
   below a negation: `not (key == "a")` returns `a`.
4. *Revoked dashboards that go on streaming* (`revoked_streams`). A dashboard's
   queries are answered by a task of their own, which the close channel does not
   reach. A revocation ends the handler and takes the socket off the registry; a tail
   or listen query of that socket goes on while its client reads. `STATUS.md:83`
   says a key's connections are closed, and the comment at `server.rs:1240` that this
   is what the entry is for.

Known situations: the properties name them and hold outside them.

*Storage.*

- `exposed`: rollover syncs the directory after it creates a segment, recovery
  only when it creates one. Killed in between, the next open finds the file,
  keeps it as the active segment and never syncs its entry; a later power loss
  takes the file with all that was acknowledged into it. Two such reopens with a
  rollover between them leave two such files, and a power loss may take the first
  and keep the second: the log then has a hole, which is why `LogHasNoHoles` excepts
  these runs too.
- `half_removed`: a compaction's sources go by ascending id, normal segments
  first. A tombstone in a normal segment goes before the deleted record in an
  older compacted one; a crash between the two brings the key back.
- `reused_id`: the sequence counter restarts above the highest id in the files. A
  kill right after a rollover leaves an empty active segment; a compaction may then
  remove the tombstone with the highest id; a kill before its last directory fsync,
  and the next open gives that id out again; a power loss then brings the tombstone's
  file back, where its id now is that of a newer record of the key, which it hides at
  the next open and which a later compaction drops. It takes three outages, two more
  than the run has: it was found by the proof of `LiveKeysSurvive`, which does not go
  through without naming it.
- `unsynced_replay`: after a kill the reopened index may name frames only the
  page cache holds. A compaction removes the durable frames they supersede; a
  power loss takes the rest.
- Replay registers the stream of each active frame, dropped ones included: drop a
  stream at the limit and write another, and unless a compaction removes the old
  frames the database does not open with its own configuration.
- `raced`, `stolen`, `drift`, `uncovered` (retention, see `LiveIndex`): the first
  two make an acknowledged record disappear, the third leaves a wrong charge, the
  fourth lets an older version or a deleted record return at the next start.
- Retention takes the keys of an expired segment out of the index and then removes
  its file (`storage.rs:4219-4241`). If that fails the pass ends, and the next start
  shows the expired keys again, until a later pass removes them (`orphans`). A
  compaction says nothing of a source it cannot remove (`storage.rs:2503`).
- A time-range scan passes over keys that a compaction moves or a write replaces
  while it runs (`storage.rs:3195`), although the comment at `storage.rs:2475`
  counts on it to find them. The live scan loads the pointer once more.

*Repair.*

- `trusted`: a rerun reuses a salvage segment whose length fits, without syncing
  it, and cuts the source; a power loss takes both.
- `recut`: the rerun was planned when the interrupted copy was torn; it rewrites
  the target, then cuts it at the old tear. What it cuts stays in a sidecar file
  only (`CHANGELOG.md:20` calls repair idempotent).
- `overwritten`: a second tear at the same offset of the same file writes its
  sidecar over the first one.
- A good frame between two bad ones is not salvaged and stays in the sidecar
  only; a corrupt frame in an inactive segment drops all its keys from the index,
  the readable ones included; Strict refuses to open after such a repair.

*Queries.*

- An update or a delete after a `count`, `group` or `window` stage writes the keys
  the stage made up: `from("s").group("city").update(...)` writes one record for
  each city and none of those it grouped, and puts it over any record of that name,
  also over one an upsert has just written there.
- `timestamp < 5.5` becomes `timestamp <= 4`. The time-range scan orders by
  timestamp, which a later `limit` notices.
- `listen` gives its first limit to the scan, before its filters; a scan that
  finds exactly `max_scan_results` records is refused.
- `explain` announces what it derives itself: history, a negation or a key that
  is not a text make it wrong.
- `page_cursor` skips records unless they are sorted by key. A pattern of one step
  never matches; a match that starts after an expired start is missed when that
  start was kept. `group(..., ["count"])` as in the README names no aggregation.
- `scan_historical` returns deleted keys. `a:b` in stream `s` and `b` in stream
  `s:a` are the same compound key.
- Listeners: the gap between history and subscription, silent lag, and
  `subscribe_sync`, which makes a new receiver in each call, so that the loop at
  `README.md:284` loses what comes between two calls.

*Server.*

- A connection's entry stays in the registry when the client leaves
  (`server.rs:809`), until the key is revoked or changes its role.
- Closing one tab closes the other tabs of the session (`server.rs:1438`,
  contrary to the comment), and their live queries go on unregistered, as in
  finding 4. A socket whose query channel is full behind a live query does not see
  its close channel.
- A handler that sends to a client which does not read sees no close channel either
  (`server.rs:876`, `891`, `928`, `978`): the connection and its permit stay for as
  long as the TCP connection does.
- Revoke and change of role read, change and write a record without a lock: of two
  at once one is lost. A new key under an existing id replaces it
  (`server.rs:1875` says otherwise) and closes nothing by itself.
- The checker judges by a snapshot and may close a connection made meanwhile with
  the right role.

## 5. Proofs

`SegmentLogProofs` proves, for every value of the constants that satisfies
`SegmentLogAssumption` (a batch has at least one write, the channel and a group
hold at least one request, compaction ids lie above 1):

- `TypeCorrect`: `Spec => []TypeOK`. `TypeOK` is inductive as it stands; it holds
  more than types (`entries \subseteq segs`, `synced \subseteq files`), which
  the next proof needs.
- `NoAckedWriteLost`: `Spec => []AckedDurableUnlessExposed`. By itself that is
  not inductive: an answer is given in `apply`, for frames made durable two steps
  earlier. `DurabilityInv` adds `GroupDurable`, what the flusher's place says
  about its group (in `write` the active segment has a durable entry, in `sync`
  the frames are in the file, in `apply` they are synced), and `DownIsIdle`, so
  that a reopen starts at `recv`. The step that carries the weight of `exposed`
  is `Recover`: it establishes `active \in entries` or `exposed`.

It goes on with the order of the log, with no further assumption on the constants:

- `IdsNeverReused` (`SequenceIdsUnique`) and `OnlyActiveIsTorn`
  (`TornTailIsActive`) follow from one inductive invariant, `LogInv`. It orders
  everything by sequence id: the planned requests have adjacent ranges
  (`PlanInOrder`), all that is on the disk lies below them or belongs to them and
  what a failed write left is a first part of them (`IdsInOrder`), higher segments
  hold higher ids and the active one is the highest (`SegmentsInOrder`), and only
  the last segment has unsynced frames or a torn tail (`TailsInOrder`). Without the
  last part uniqueness is not inductive: a power loss in an older segment would
  let `Recover` hand out ids that a later segment still holds.
- `NoIdLeftOut` (`LogHasNoHoles`) adds `EntriesInOrder`, that in a run that is
  not exposed only a last and empty segment lacks a durable directory entry, and
  `NoneLeftOut`, that the disk has every id below the lowest that is planned. The
  attempt to prove the property without the exception for exposed runs failed for
  a good reason, see section 4.
- `IndexShowsTheLog` (`IndexIsReplay`): what `ApplyAndAck` does to the index, one
  request after the other, is what `Newest` computes from the longer log.

`AckedLogProofs` proves the refinement, `EngineKeepsItsPromise`: `Spec =>
ImplementsAckedLog`. `PromiseInv` adds `RequestsInOrder` to the invariants above:
a request waits at one place only, its caller has not been answered, and the
caller of a committed write has. Then every action of `SegmentLog` is mapped, as
`AckedLog` does it: `ApplyAndAck` to the commit of a whole request, crash and
recovery to the loss of a suffix that holds nothing acknowledged, `Recover`'s
index to the view of what is left, and planning, rollover, write and fsync to a
stutter.

`CompactionProofs` assumes no more than `CompactionAssumption`, that the number of
compactions is a number. The invariants of `SegmentLog` are of no use as they are:
a compaction writes into a segment that is not the active one, and removes files
with a durable entry, so `entries \subseteq segs`, the order of segments and the
absence of holes all end with it. What remains true of the flusher is restated
(`FlusherInOrder`, with `LooseTypes` for `TypeOK`), and `CompactionInv` adds what
the two threads owe each other, each part outside the events it names only:

- `CompactionTypes` (`CompactionTypeOK`) holds in every run, by `CompactorPlaced`:
  after a reopen too, `compaction_counter` is above every file.
- `NoDanglingPointer` (`IndexReadable`) by `PointersInOrder`, outside `raced`. While
  the compaction copies, the flusher may replace a pointer into a victim but never
  make a new one, since it writes to the active segment and to younger ones; so
  the pointers into victims are among those that are copied, and at the swap, under
  the lock, each is either moved or has already been replaced.
- `NoLiveKeyLost` (`LiveKeysSurvive`) by two invariants. `EntriesCover` says that a
  frame whose directory entry is not durable has a copy whose entry is, and that
  none is left before sources go. `LiveOnesCovered` says that each promised live
  record, or a newer one of its key, is in the index while the engine runs and on
  the part of the disk that any crash leaves while it does not; the index itself
  lies within that part. The two halves meet in `Recover`, where a replay must not
  prefer anything to what was promised: there `unsynced_replay` and `reused_id` had
  to be excluded.

A second invariant, `ReplayInv`, is about runs in which no removal was cut short. `LayersInOrder` sees the files as two layers, normal segments in the order
of ids and compacted copies of live frames; `IndexIsTop` says the index points at
the newest record of each key, both of all files and of those that stay when the
victims have gone.

- `RestartShowsTheSame` (`RestartChangesNothing`). The step that carries the weight
  is the first unlink: what is left must have the same newest record of each key.
  That is so because of `TombstonesOutlast`, that a tombstone among the victims has
  every older frame of its key among them too. A tombstone is in a normal segment,
  the older frames are in lower ones or in compacted ones, and all of these are
  victims, which is why `ListSegments` must list compacted segments too.
- `DeletedStaysDeleted` (`DeletedStaysDeletedUnlessHalfRemoved`) by `DeletesCovered`:
  a promised tombstone is where no crash takes it, or nothing acknowledged it ends
  is left.

`ExecutorProofs` needs of its constants that there are finitely many keys and
stream names, which is so since the record format gives each length 16 bits.
`ExecInv` is inductive: `ProtocolInv` says of each query that what it knows fits
the place it is at (`StageFits`), that the keys it has still to write are in one
stream (`ListFits`), that an insert has reserved a first part of its keys
(`PrefixReserved`), that what a query has still to write it has read or its stages
have made up (`InMind`), and of all of them that the lock is with the one query that
needs it, that reservations are disjoint and that the channel holds exactly the
requests of those who wait for an answer (`Queued`). Since a query may write a key
it has made up and never read, that its request is in front of any insert of that
key cannot come from the reservation; it comes from the channel: while a holder of
the lock has a request in it, no insert is behind. `RaceInv` says what a query has
read is still so, as long as neither `late` nor `crossed` has happened; `StreamsFit`
relates registered, listed and recorded streams. From it follow

- `InsertsShareNoKey`, `InsertsAreUnique`, `HoldersAreNotOvertaken`: the
  reservations and the lock do what they are there for, outside the races that
  section 2 names. `HoldersAreNotOvertaken` also bounds what a made-up key may do:
  it may go over a record its query has not read, not over a newer one than it has;
- `LiveStreamsStayListed` and `StreamsAreLimited`: the latter because a batch
  checks and registers under the lock, so at most one registration is based on a
  count that is out of date;
- `CallersAreNeverStuck`: the holder of the lock never waits for anyone but the
  flusher, and the flusher's channel then holds a request it can serve.

`LiveIndexProofs` needs that compaction ids lie above every id a rollover may
reach (2^63 in the code). `LiveInv` says how segment ids, index, timestamp index,
charges, maintenance and reader fit in every state; while a frame is being
applied, dropped or moved, `Unstamped` names exactly the frames that are in one
index only. It gives

- `BudgetIsExact` (`ChargesAreExact`): the steps that charge and discharge add up,
  outside the races `stolen` and `drift`. The steps that carry the weight are
  those of retention. It looks a pointer up, removes the timestamp entry of what it
  read and then whatever the key points at; the proof shows that a record it could
  not read is in no segment that expires, and that the flusher's own segment is
  never emptied, because what was written there since the pass began is younger
  than the pass (`ActiveSegmentIsSpared`).
- `AnswersWereTrue` (`ReadsAreCurrent`): a pointer is loaded in a step that shows
  it, and what is read from a file, however much later, is that frame.
- `MissesAreExplained` (`ReadsMissNothing`): outside `raced` no entry points into a
  file that has gone (`PlacesFit`), so a read that fails has met a removal since it
  loaded its pointer, and one that gives up has met two (`SearchFits`). A range scan
  has still to visit the entry of its key unless it was worked on or moved
  (`RangeFits`); that its snapshot holds this entry is `StampsCover`, which no race
  breaks.
- `NewestStaysReadable` (`NewestKeysRemain`): retention drops a key only when the
  frame it points at has expired; `AgesFit`, that of one key the frame with the
  higher id is the younger, carries this over to the acknowledged one.
- `RestartKeepsTheIndex` (`RestartShowsTheIndex`): `DiskFits` says of every frame on
  the disk why a restart would not show it by mistake: the index shows it or a newer
  one, a newer tombstone is there, its file is an orphan, or the flusher or a pass is
  about to bring them in line. It says the same of a pass that fails: a key leaves
  the index before its file goes, so the index is never ahead of the files, and the
  file is among the `orphans` as soon as nobody works on it (`UnlinkCases`). The
  case that costs most is a tombstone compaction removes: whatever older frame it
  hides goes with it or is in an orphan, since no tombstone outside the active
  segment is newer than a frame in it (`FilesFit`).

`ServerProofs` proves, from `ServerAssumption` (the clients of a run are among
the declared ones, the first role is a role, at least one permit):

- `ServerTypeCorrect`: `Spec => []ServerTypeOK`. Three conjuncts say more than
  types: a TLS connection that is registering has a key id, a session that is
  being stored or live has one, and a socket past `off` has one; without them
  `RegisterMutual`, `ValidateSession` and `LookUpSession` would look something up
  under no name.
- `ConnectionsStayWatched`: `Spec => []EveryConnectionIsWatched`, with the
  inductive `WatchInv == ServerTypeOK /\ OffIsKeyless /\ NativeWatched /\
  SocketsWatched`. `OffIsKeyless` is needed because a connection that is accepted
  is open at once, before any key is looked up. The argument has two halves:
  `NobodyForgotten`, that a step takes an entry off the registry only if it
  closes the entry's channel (a revocation, the checker, a tab that ends), and
  that a registration puts an entry under the very channel number the connection
  listens to from then on. The second half is what the mutant `RegisterOnly`
  breaks. The theorem is about handlers: the answering task of a socket whose handler
  has ended is in no registry (finding 4).

Where they go beyond the `server` run: any number of clients and
administrators at once, of keys, of registrations of each client and of
permits.

`LiveQueryProofs` proves `FollowersAgree` (`ListenersFollowTheIndex`) from
`LiveQueryAssumption`, that the channel holds at least one record. `FollowInv` says
that a listener's history is as new as its beginning (`HistoryFits`), that every
record since which its receiver has passed was given to it or counts as missed
(`StreamFits`), and that what it was given is in the order of the log (`SeenFits`).
A record that is applied and not yet broadcast may be in the history and come again;
that this does no harm is why the order is needed: the last record given is the
newest one. The flusher's order, apply before broadcast, enters through
`sent <= applied`: history that is read later than the beginning is never older
than it. That sorting keeps all records is `InOrderSorts`.

`RepairProofs` is over any damaged directory, any number of opens in any mode and
any number of kills and power losses. `RepairAssumption` says of a directory only
that its files are sequences of cells whose ids fit their range and that less than
a header is left at the end of a file or nowhere. `RepairInv` says at every place
of `handle_tear`

- what the files are (`FilesFit`): one that no fsync covers has at most its last
  cell broken, and there are entries that are not durable only until the damage they
  were made for is cut off;
- what is still to be done (`TearsFit`): each segment with stranded frames has its
  tear waiting, each tear is that of its file, or, after a rerun, of a copy that was
  torn when the rerun began and has been written anew since;
- what is being salvaged (`SalvageFits`): the target holds a first part of the
  stranded frames, all of them before the source is cut;
- what a marker says (`MarkersFit`): only the lowest damaged segment has one that
  counts, and the file it names holds nothing but what is salvaged from there, so a
  rerun that truncates that file destroys nothing else;
- where every frame is: in a durable segment or sidecar (`CutFramesAreKept`), or, if
  it must stay readable, in a durable file that shows or strands it (`Rescued`).

`MarkersFit` rests on the order in which tears are processed: otherwise a marker of
a later segment could name an id that an earlier one's salvage takes first. From the invariant follow

- `RepairTypes`, `CutFramesStay`, `StrandedStay` and `RepairedOpens`
  (`RepairTypeOK`, `CutFramesAreKept`, `StrandedFramesStay`, `RepairedStoreOpens`);
- with `IndexFits` and the assumption that a Repair open serves nobody,
  `NewestServed` (`NewestIsServed`) and `NextWriteReadable` (`NextWriteIsReadable`):
  after the replay each readable frame has an entry as new as itself
  (`ReplayKeeps`), and what `SkipRemainder` and `Truncate` take away is what they
  name. The assumption is needed: an engine that repaired and goes on hands the ids
  of salvaged frames out again.

The attempt to prove `RepairTypeOK` without a bound on segment ids showed that the
model had missed a refusal of `next_salvage_id`, that a salvage finds no normal id
left; it is part of `Refuses` now.

What is only model-checked, and why:

- Liveness (`EveryRequestAnswered`, `StaleConnectionsEnd`), which these provers do
  not reach; so too the part of `NobodyIsStuck` that says each query returns.
- `QueryPlan`: filters and pages are recursive, and what a recursive definition
  computes for every input needs induction over data.

## 6. What is not modelled

- An fsync that fails and later succeeds is taken to make all written data
  durable; the engine refuses writes after a failed one, so only a drop or a
  reopen comes after it.
- The millisecond clock is taken as monotone. A frame gets its timestamp when it is
  planned; `LiveIndex` takes it at the write, one step later, as no other thread reads
  it in between. Its readers find every file that exists readable, and failing writes
  of its flusher are the subject of `SegmentLog`.
- `Submit` is one step for `ensure_writable` and the send: a flusher that fails in
  between answers the request all the same.
- Group values are cut to 32 bytes in made-up keys; the model takes them as distinct.
- Exhaustion of the segment and compaction id spaces (2^63) in a rollover or a
  compaction; `Repair` models the refusal of a salvage that finds no normal id left.
- The index budget's arithmetic (`LiveIndex` counts nodes; a request that brings a
  new key may be refused at any time) and metrics.
- The copy of a whole corrupt file that Repair takes first (`maybe_backup`): no
  property needs what it keeps.
- The shutdown sentinel in the middle of a group: `drop` sends it when no caller
  is left.
- When the active segment was unlinked under the flusher (finding 1), frames
  written through the open handle are taken as lost at once; a power loss could
  bring some of them back.
- Updates of both indexes by one skip-list operation are atomic steps; the lock-free
  skip list and the broadcast channel are libraries.
- Of queries: operators on strings, averages, scalar values, trash and export. Of
  the server: the capability check of a query's text, TLS handshakes, HTTP, health
  and configuration handlers, and the tracker behind the power-loss tests.
- Parser, codec, configuration, clients, user interfaces, import and export,
  benchmarks: sequential code, or presentation, better served by tests.

## 7. Plan

1. `Compaction`: which of the events in `Mishaps` a change of the code would make
   impossible: a directory fsync after the normal segments are unlinked, one in
   recovery, and a sequence counter that is kept.
2. Composition: retention beside crashes, and listeners beside a reopen.
