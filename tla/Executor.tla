------------------------------- MODULE Executor -------------------------------
(***************************************************************************)
(* The query executor (execute_query) above the write path: client threads *)
(* run mutating queries concurrently.  Most of them read, check and then   *)
(* write under the global write_lock; insert gives the lock back before it *)
(* waits for the flusher and reserves its keys in pending_inserts instead; *)
(* upsert and the keyed form of a pipeline delete take no lock at all.     *)
(*                                                                         *)
(* Abstractions.  The flusher applies one queued write per step, in the    *)
(* order of the channel; what it does for durability is in SegmentLog.     *)
(* The value a query writes is identified with the query.  What a filter   *)
(* selects depends on data, so it may be any subset.  A stream listing or  *)
(* scan reads the index in one step.  The index-RAM budget may refuse any  *)
(* write of a key that is not in the index.  Keys that stages make up are  *)
(* any keys, each of them once (group values are cut to 32 bytes).         *)
(***************************************************************************)
EXTENDS Integers, Sequences, FiniteSets

CONSTANTS
  Calls,       \* the mutating queries, each executed by a thread of its own
  Nobody,      \* holder of a free lock, author of the records found at open
  Streams,
  Keys,        \* compound keys "stream:key"
  StreamOf,    \* the stream of each key
  Ops,         \* the kinds of query there are
  MaxBatch,    \* bound: most records in a batch query
  MaxStreams,  \* max_concurrent_streams
  QueueCap,    \* capacity of the channel to the flusher
  IoErrors,    \* may the flusher fail?
  MaxReopens   \* bound: how many times the database is closed and opened

\* Insert and insert_many; they reserve their keys.
Inserts == {"insert", "insert_batch"}

\* Queries that hold write_lock from their first read to their last answer.
Holders == {"update", "delete", "empty", "drop", "pipeline_update",
            "pipeline_delete"}

\* Queries that never take it: upsert (and its batch) and a pipeline delete
\* whose filter names one key.
Unlocked == {"upsert", "keyed_delete"}

ASSUME ExecutorAssumption ==
  /\ Nobody \notin Calls /\ StreamOf \in [Keys -> Streams]
  /\ IsFiniteSet(Keys) /\ IsFiniteSet(Streams)  \* names have 16-bit lengths
  /\ Ops \subseteq Inserts \cup Holders \cup Unlocked
  /\ MaxBatch \in Nat \ {0} /\ MaxStreams \in Nat /\ QueueCap \in Nat \ {0}
  /\ IoErrors \in BOOLEAN /\ MaxReopens \in Nat

VARIABLES
  (* shared by the callers and the flusher *)
  lock,      \* who holds write_lock
  pending,   \* pending_inserts
  streams,   \* streams_set
  index,     \* the live keys
  queue,     \* the channel: batches of writes, not yet applied to the index
  applied,   \* how many writes of its first batch the flusher has applied
  failed,    \* the engine has failed and its flusher has stopped
  recorded,  \* the streams that a segment holds a record of, live or not
  reopens,
  (* per call *)
  pc, job,   \* where it is, and what it does
  todo,      \* keys it goes through
  seen,      \* keys whose index entry it has read and not yet written
  stale,     \* those of them that another call has written since (observed)
  reserved,  \* keys of its PendingInsertGuard
  answer,    \* what the flusher has sent it
  (* observation *)
  races      \* which of the events in Races have happened

disk   == <<recorded, reopens>>
shared == <<lock, pending, streams, index, queue, applied, failed, disk>>
local  == <<pc, job, todo, seen, stale, reserved, answer>>
vars   == <<shared, local, races>>

\* late: an insert reserved a key that had become live since it looked.
\* crossed: a query without the lock wrote a key another query had looked at
\* and was going to write.
\* dropped_under: a drop took its stream off the list while a record of it was
\* live or on its way.
Races == {"late", "crossed", "dropped_under"}

-----------------------------------------------------------------------------
\* made: stages have made up the keys it writes.
Job == [kind : Ops, stream : Streams, made : BOOLEAN]

LiveKeys(s) == { k \in index : StreamOf[k] = s }

\* The sequences that list the set T.
Orders(T) ==
  { t \in [1..Cardinality(T) -> T] : \A k \in T : \E i \in DOMAIN t : t[i] = k }

\* The keys a query of the kind may name.  (Naming one twice only matters to an
\* insert.)
KeyLists(kind, s) ==
  LET K == { k \in Keys : StreamOf[k] = s } IN
  CASE kind = "insert_batch" -> UNION { [1..n -> K] : n \in 1..MaxBatch }
    [] kind = "upsert" ->
         UNION { Orders(T) :
                   T \in { U \in SUBSET K : Cardinality(U) \in 1..MaxBatch } }
    [] kind \in {"insert", "update", "delete", "keyed_delete"} -> [1..1 -> K]
    [] OTHER -> {<<>>}

\* A database just opened: some live keys, and the streams recovery found
\* records of.
Init ==
  /\ lock = Nobody /\ pending = {} /\ queue = <<>> /\ applied = 0
  /\ failed = FALSE
  /\ recorded \in SUBSET Streams /\ Cardinality(recorded) <= MaxStreams
  /\ index \in SUBSET { k \in Keys : StreamOf[k] \in recorded }
  /\ streams = recorded /\ reopens = 0
  /\ pc = [c \in Calls |-> "new"]
  /\ job = [c \in Calls |-> <<>>]
  /\ todo = [c \in Calls |-> <<>>]
  /\ seen = [c \in Calls |-> {}] /\ stale = [c \in Calls |-> {}]
  /\ reserved = [c \in Calls |-> {}]
  /\ answer = [c \in Calls |-> "none"]
  /\ races = {}

Note(what, happened) == races' = IF happened THEN races \cup {what} ELSE races

Goto(c, where) == pc' = [pc EXCEPT ![c] = where]

StayAt(c, where) ==
  /\ Goto(c, where)
  /\ UNCHANGED <<lock, pending, job, todo, seen, stale, reserved>>

Look(c, K) == seen' = [seen EXCEPT ![c] = @ \cup K]

-----------------------------------------------------------------------------
(* A query from its arrival to the lock.                                   *)

\* Update, delete and the pipelines check that the stream is listed before
\* they take the lock.
Start(c) ==
  /\ pc[c] = "new"
  /\ \E kind \in Ops, s \in Streams :
       /\ job' = [job EXCEPT ![c] = [kind |-> kind, stream |-> s, made |-> FALSE]]
       /\ \E t \in KeyLists(kind, s) : todo' = [todo EXCEPT ![c] = t]
       /\ Goto(c, CASE kind \notin Inserts \cup {"upsert", "empty", "drop"}
                         /\ s \notin streams -> "err"
                    [] kind = "upsert" -> "register"
                    [] kind = "keyed_delete" -> "look"
                    [] OTHER -> "lock")
  /\ UNCHANGED <<shared, seen, stale, reserved, answer, races>>

Lock(c) ==
  /\ pc[c] = "lock" /\ lock = Nobody
  /\ lock' = c /\ Goto(c, "look")
  /\ UNCHANGED <<pending, streams, index, queue, applied, failed, disk, job,
                 todo, seen, stale, reserved, answer, races>>

Released(c) == IF lock = c THEN Nobody ELSE lock

\* Fault: a path without the guard.
StillReserved(c) == pending

Unreserved(c) == pending \ reserved[c]

\* Leaving execute_query drops the lock guard and the PendingInsertGuard.
Leave(c, how) ==
  /\ Goto(c, how)
  /\ lock' = Released(c) /\ pending' = Unreserved(c)
  /\ reserved' = [reserved EXCEPT ![c] = {}]
  /\ seen' = [seen EXCEPT ![c] = {}] /\ stale' = [stale EXCEPT ![c] = {}]
  /\ todo' = [todo EXCEPT ![c] = <<>>]
  /\ job' = [job EXCEPT ![c] = <<>>]

-----------------------------------------------------------------------------
(* Reading and checking.                                                   *)

\* The key an insert checks next.
NextToReserve(c) == todo[c][Cardinality(reserved[c]) + 1]

\* Insert: a live key is an error ...
InsertLooks(c) ==
  /\ pc[c] = "look" /\ job[c].kind \in Inserts
  /\ LET k == NextToReserve(c) IN
       IF k \in index
         THEN Leave(c, "err")
         ELSE /\ Goto(c, "reserve") /\ Look(c, {k})
              /\ UNCHANGED <<lock, pending, reserved, stale, todo, job>>
  /\ UNCHANGED <<streams, index, queue, applied, failed, disk, answer, races>>

\* Fault: mark_insert_pending says yes to everybody.
NeverTaken(k) == FALSE

Taken(k) == k \in pending

\* ... and so is a key that another insert has reserved.
InsertReserves(c) ==
  /\ pc[c] = "reserve"
  /\ LET k == NextToReserve(c) IN
       IF Taken(k)
         THEN Leave(c, "err") /\ UNCHANGED races
         ELSE /\ pending' = pending \cup {k}
              /\ reserved' = [reserved EXCEPT ![c] = @ \cup {k}]
              /\ Goto(c, IF Cardinality(reserved'[c]) < Len(todo[c]) THEN "look"
                         ELSE IF job[c].kind = "insert" THEN "register"
                         ELSE "check")
              /\ Note("late", k \in index)
              /\ UNCHANGED <<lock, seen, stale, todo, job>>
  /\ UNCHANGED <<streams, index, queue, applied, failed, disk, answer>>

\* Update, delete and a keyed pipeline delete look their key up; the filter of
\* the last may turn the record down, and the record may be unreadable.
LookUp(c) ==
  /\ pc[c] = "look" /\ job[c].kind \in {"update", "delete", "keyed_delete"}
  /\ \/ /\ Head(todo[c]) \in index
        /\ Goto(c, "register") /\ Look(c, {Head(todo[c])})
        /\ UNCHANGED <<lock, pending, reserved, stale, todo, job>>
     \/ /\ Head(todo[c]) \notin index \/ job[c].kind = "keyed_delete"
        /\ Leave(c, "ok")
     \/ /\ Head(todo[c]) \in index /\ job[c].kind # "delete"
        /\ Leave(c, "err")
  /\ UNCHANGED <<streams, index, queue, applied, failed, disk, answer, races>>

\* With keys to write the query goes on, without any it is done.
GoOnWith(c, T) ==
  \/ /\ T # {} /\ Goto(c, "register") /\ Look(c, T)
     /\ \E t \in Orders(T) : todo' = [todo EXCEPT ![c] = t]
     /\ UNCHANGED <<lock, pending, reserved, stale, job>>
  \/ T = {} /\ job[c].kind = "drop" /\ StayAt(c, "unlist")
  \/ T = {} /\ job[c].kind # "drop" /\ Leave(c, "ok")

\* Empty and drop check the stream under the lock and list its keys ...
ListKeys(c) ==
  /\ pc[c] = "look" /\ job[c].kind \in {"empty", "drop"}
  /\ IF job[c].stream \in streams
       THEN GoOnWith(c, LiveKeys(job[c].stream))
       ELSE Leave(c, "err")
  /\ UNCHANGED <<streams, index, queue, applied, failed, disk, answer, races>>

\* A count, a group or a window stage replaces the records by its results, which
\* have keys of their own: a group or window stage one for each group, a count
\* one, which in the absence of records is in a stream called "stream" (an update
\* writes it there, a delete names it in its own stream).
MadeUp(c) ==
  LET K == { k \in Keys : StreamOf[k] = job[c].stream }
      groups == { T \in SUBSET K :
                    Cardinality(T) \in 1..Cardinality(LiveKeys(job[c].stream)) }
      counts == { {k} : k \in IF job[c].kind = "pipeline_update" THEN Keys ELSE K }
  IN groups \cup counts

\* Those of them that are live it has scanned, as records of their own.
GoOnWithMadeUp(c, T) ==
  /\ Goto(c, "register") /\ Look(c, T \cap LiveKeys(job[c].stream))
  /\ job' = [job EXCEPT ![c].made = TRUE]
  /\ \E t \in Orders(T) : todo' = [todo EXCEPT ![c] = t]
  /\ UNCHANGED <<lock, pending, reserved, stale>>

\* ... the other pipelines scan its records and take those that the stages
\* select, or what the stages make of them; the scan or a stage may fail.
Scan(c) ==
  /\ pc[c] = "look" /\ job[c].kind \in {"pipeline_update", "pipeline_delete"}
  /\ \/ \E T \in SUBSET LiveKeys(job[c].stream) : GoOnWith(c, T)
     \/ \E T \in MadeUp(c) : GoOnWithMadeUp(c, T)
     \/ Leave(c, "err")
  /\ UNCHANGED <<streams, index, queue, applied, failed, disk, answer, races>>

-----------------------------------------------------------------------------
(* Enqueueing (append_async, replace, append_batch_async,                  *)
(* append_tombstone_batch) and the answer.                                 *)

\* These write their keys with one request each, one after the other.
OneByOne(c) == job[c].kind \in {"upsert", "pipeline_update"}

NextWrites(c) == IF OneByOne(c) THEN <<Head(todo[c])>> ELSE todo[c]

Deletes(c) == job[c].kind \in {"delete", "empty", "drop", "pipeline_delete",
                               "keyed_delete"}

\* The keys of a list are in one stream, the one the query names unless they are
\* made up.
WriteStream(c) == StreamOf[Head(todo[c])]

\* Fault: off by one.
RoomForOneTooMany(s) == s \in streams \/ Cardinality(streams) <= MaxStreams

Room(s) == s \in streams \/ Cardinality(streams) < MaxStreams

\* A failed engine refuses; a new stream is registered if there is room for one
\* more; then a single record of a new key may find no room in the index.  The
\* stream stays registered.
Register(c) ==
  /\ pc[c] = "register"
  /\ \/ /\ failed \/ ~Room(WriteStream(c))
        /\ Leave(c, "err") /\ UNCHANGED streams
     \/ /\ ~failed /\ Room(WriteStream(c))
        /\ streams' = streams \cup {WriteStream(c)}
        /\ \/ StayAt(c, "send")
           \/ /\ ~Deletes(c) /\ Head(NextWrites(c)) \notin index
              /\ Leave(c, "err")
  /\ UNCHANGED <<index, queue, applied, failed, disk, answer, races>>

\* A batch insert checks the limit and lets streams_set go ...
CheckBatch(c) ==
  /\ pc[c] = "check"
  /\ IF failed \/ Cardinality(streams \cup {WriteStream(c)}) > MaxStreams
       THEN Leave(c, "err")
       ELSE StayAt(c, "register_batch")
  /\ UNCHANGED <<streams, index, queue, applied, failed, disk, answer, races>>

\* ... before it registers the stream.
RegisterBatch(c) ==
  /\ pc[c] = "register_batch"
  /\ streams' = streams \cup {WriteStream(c)}
  /\ StayAt(c, "send")
  /\ UNCHANGED <<index, queue, applied, failed, disk, answer, races>>

\* Fault: every query gives the lock back once its request is queued.
NobodyAfterSend(c) == Nobody

LockAfterSend(c) == IF job[c].kind \in Inserts THEN Nobody ELSE lock

\* The channel blocks while it is full and refuses once the flusher is gone.
\* An insert gives the lock back here, before it waits.
Send(c) ==
  /\ pc[c] = "send"
  /\ IF failed
       THEN Leave(c, "err") /\ UNCHANGED queue
       ELSE /\ Len(queue) < QueueCap
            /\ queue' = Append(queue, [call |-> c, del |-> Deletes(c),
                                       keys |-> NextWrites(c)])
            /\ Goto(c, "wait")
            /\ lock' = LockAfterSend(c)
            /\ UNCHANGED <<pending, reserved, seen, stale, todo, job>>
  /\ UNCHANGED <<streams, index, applied, failed, disk, answer, races>>

\* Fault: a drop does not look at the answer.
RefusedUnlessDrop(c) == answer[c] = "err" /\ job[c].kind # "drop"

Refused(c) == answer[c] = "err"

\* The answer arrives: an error ends the query, also in the middle of several
\* requests.
Answered(c) ==
  /\ pc[c] = "wait" /\ answer[c] # "none"
  /\ answer' = [answer EXCEPT ![c] = "none"]
  /\ IF Refused(c)
       THEN Leave(c, "err")
     ELSE IF OneByOne(c) /\ Len(todo[c]) > 1
       THEN /\ todo' = [todo EXCEPT ![c] = Tail(@)] /\ Goto(c, "register")
            /\ UNCHANGED <<lock, pending, reserved, seen, stale, job>>
     ELSE IF job[c].kind = "drop"
       THEN StayAt(c, "unlist")
       ELSE Leave(c, "ok")
  /\ UNCHANGED <<streams, index, queue, applied, failed, disk, races>>

\* Has a record of the stream that the drop did not list come, or is one on its
\* way past the registration of the stream?
UnderWay(s, listed) ==
  \/ LiveKeys(s) \ listed # {}
  \/ \E i \in DOMAIN queue :
       /\ ~queue[i].del
       /\ \E n \in DOMAIN queue[i].keys : StreamOf[queue[i].keys[n]] = s
  \/ \E d \in Calls : pc[d] = "send" /\ ~Deletes(d) /\ WriteStream(d) = s

\* Drop takes the stream off the list.
Unlist(c) ==
  /\ pc[c] = "unlist"
  /\ streams' = streams \ {job[c].stream}
  /\ Note("dropped_under", UnderWay(job[c].stream, seen[c]))
  /\ Leave(c, "ok")
  /\ UNCHANGED <<index, queue, applied, failed, disk, answer>>

-----------------------------------------------------------------------------
(* The flusher.                                                            *)

NextKey == Head(queue).keys[applied + 1]

\* It applies the next write; after the last one of a request it answers.
ApplyWrite ==
  /\ queue # <<>>
  /\ LET c == Head(queue).call IN
       /\ index' = IF Head(queue).del THEN index \ {NextKey}
                                    ELSE index \cup {NextKey}
       /\ recorded' = IF Head(queue).del THEN recorded
                       ELSE recorded \cup {StreamOf[NextKey]}
       /\ seen' = [seen EXCEPT ![c] = @ \ {NextKey}]
       /\ stale' = [d \in Calls |-> IF d = c THEN stale[d] \ {NextKey}
                                   ELSE stale[d] \cup ({NextKey} \cap seen[d])]
       /\ IF applied + 1 = Len(Head(queue).keys)
            THEN /\ applied' = 0 /\ queue' = Tail(queue)
                 /\ answer' = [answer EXCEPT ![c] = "ok"]
            ELSE applied' = applied + 1 /\ UNCHANGED <<queue, answer>>
       /\ Note("crossed",
               /\ job[c].kind \in Unlocked
               /\ \E d \in Calls \ {c} : NextKey \in seen[d])
  /\ UNCHANGED <<lock, pending, streams, failed, reopens, pc, job, todo,
                 reserved>>

\* A request that brings a new key may find no room in the index: it is
\* answered before those in front of it in its group, and none of it is written.
Refuse ==
  /\ \E i \in DOMAIN queue :
       /\ i > 1 \/ applied = 0
       /\ ~queue[i].del
       /\ \E n \in DOMAIN queue[i].keys :
            LET k == queue[i].keys[n] IN
            /\ k \notin index
            /\ \A j \in 1..(i - 1) :
                 \/ queue[j].del
                 \/ \A m \in DOMAIN queue[j].keys : queue[j].keys[m] # k
       /\ queue' = SubSeq(queue, 1, i - 1) \o SubSeq(queue, i + 1, Len(queue))
       /\ answer' = [answer EXCEPT ![queue[i].call] = "err"]
  /\ UNCHANGED <<lock, pending, streams, index, applied, failed, disk, pc, job,
                 todo, seen, stale, reserved, races>>

\* Fault: only the group is answered.
AnswersToTheFirst ==
  [c \in Calls |-> IF Head(queue).call = c THEN "err" ELSE answer[c]]

AnswersToAll ==
  [c \in Calls |-> IF \E i \in DOMAIN queue : queue[i].call = c
                     THEN "err" ELSE answer[c]]

\* A failed write or fsync answers the group with an error, and the end of the
\* loop everybody else who waits.
FlushFails ==
  /\ IoErrors /\ queue # <<>> /\ applied = 0
  /\ failed' = TRUE /\ queue' = <<>>
  /\ answer' = AnswersToAll
  /\ UNCHANGED <<lock, pending, streams, index, applied, disk, pc, job, todo,
                 seen, stale, reserved, races>>

-----------------------------------------------------------------------------
AtRest == {"new", "ok", "err"}

\* The database is closed and opened again: replay lists the stream of every
\* record it meets, superseded and deleted ones too, and gives up when there are
\* more than max_concurrent_streams.  (The reopen of a failed engine is in
\* SegmentLog.)  No query is under way, so no earlier race bears on a later one.
\* A bound: not before the first query, that would be the initial state again.
Reopen ==
  /\ reopens < MaxReopens /\ ~failed
  /\ \A c \in Calls : pc[c] \in AtRest
  /\ \E c \in Calls : pc[c] # "new"
  /\ Cardinality(recorded) <= MaxStreams
  /\ streams' = recorded
  /\ reopens' = reopens + 1 /\ races' = {}
  /\ UNCHANGED <<lock, pending, index, queue, applied, failed, recorded, local>>

-----------------------------------------------------------------------------
CallStep(c) ==
  \/ Lock(c) \/ InsertLooks(c) \/ InsertReserves(c) \/ LookUp(c)
  \/ ListKeys(c) \/ Scan(c)
  \/ Register(c) \/ CheckBatch(c) \/ RegisterBatch(c) \/ Send(c)
  \/ Answered(c) \/ Unlist(c)

Next ==
  \/ \E c \in Calls : Start(c) \/ CallStep(c)
  \/ ApplyWrite \/ Refuse \/ FlushFails \/ Reopen

Spec == Init /\ [][Next]_vars

-----------------------------------------------------------------------------
(* Properties.                                                             *)

\* A key is reserved exactly while one insert is under way for it: the guard
\* releases it on every exit path, and no two inserts ever share a key
\* (STATUS.md: "PendingInsertGuard releases reserved keys on every exit path").
ReservationsMatch ==
  /\ pending = UNION { reserved[c] : c \in Calls }
  /\ \A c, d \in Calls : c # d => reserved[c] \cap reserved[d] = {}
  /\ \A c \in Calls : reserved[c] # {} => pc[c] \notin {"ok", "err"}
  /\ \A i \in DOMAIN queue : job[queue[i].call].kind \in Inserts =>
       \A n \in DOMAIN queue[i].keys :
         queue[i].keys[n] \in reserved[queue[i].call]

\* The next write the flusher applies, if it is one of a call of these kinds.
NextWriteOf(kinds) == queue # <<>> /\ job[Head(queue).call].kind \in kinds

\* An insert never overwrites a record, whatever is written between its check
\* and its write, unless it reserved its key too late or a query without the
\* lock wrote the key meanwhile.
InsertsOverwriteNothing ==
  NextWriteOf(Inserts) /\ races \cap {"late", "crossed"} = {} =>
    NextKey \notin index

\* The same without the first exception: of the inserts of one key only one
\* wins (storage.rs: the set is "used to preserve insert uniqueness after the
\* executor releases write_lock"; tests/concurrency_tests.rs: "exactly one
\* insert must win").
ReservationsSuffice ==
  NextWriteOf(Inserts) /\ "crossed" \notin races => NextKey \notin index

\* An update, a delete or a pipeline writes over exactly the record it has read,
\* not over a later one, unless a query without the lock or a late insert came
\* between.  Under a key that its stages have made up a pipeline may write over
\* a record it has not read, but not over a later one than it has scanned
\* (executor.rs:1701-1721, 1756-1785).
HoldersWriteWhatTheyRead ==
  NextWriteOf(Holders) /\ races \cap {"late", "crossed"} = {} =>
    LET c == Head(queue).call IN
    NextKey \notin stale[c] /\ (NextKey \in seen[c] \/ job[c].made)

\* Queries refuse a stream that is not listed, so a live record is in a listed
\* stream, unless a drop came between its registration and its write.
LiveStreamsListed ==
  "dropped_under" \notin races =>
    \A k \in index : StreamOf[k] \in streams

\* However registrations interleave, max_concurrent_streams is exceeded by one
\* at the most: a batch checks and registers in two steps.
StreamLimit == Cardinality(streams) <= MaxStreams + 1


\* A call waits for the lock, for room in the channel or for its answer.
Waits(c) ==
  \/ pc[c] = "lock" /\ lock # Nobody
  \/ pc[c] = "send" /\ ~failed /\ Len(queue) >= QueueCap
  \/ pc[c] = "wait" /\ answer[c] = "none"

\* Callers and flusher never wait for each other in a circle: while a query is
\* under way the flusher has a request, which it can always serve, or some query
\* can go on, after an I/O error too.  A query takes finitely many steps, so
\* each one returns.
NobodyIsStuck ==
  (\E c \in Calls : pc[c] \notin AtRest) =>
    queue # <<>> \/ \E c \in Calls : pc[c] \notin AtRest /\ ~Waits(c)
=============================================================================
