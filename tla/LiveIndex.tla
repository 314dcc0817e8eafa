----------------------------- MODULE LiveIndex ------------------------------
(***************************************************************************)
(* The two in-memory indexes of the storage engine (the skip list and the  *)
(* timestamp index of each stream) and everybody who uses them at once:    *)
(*   - the flusher, which applies written frames to them step by step;     *)
(*   - the maintenance thread, which compacts the inactive segments or     *)
(*     removes those whose records have all expired (retention);           *)
(*   - a reader, which loads a pointer first and reads the file after.     *)
(* The flusher holds the lock on the active file while it applies a frame; *)
(* compaction takes it to move pointers, retention and readers never do.   *)
(*                                                                         *)
(* Abstractions.  A pointer is the frame it points at, as in SegmentLog.   *)
(* Groups are single writes, and nothing crashes here: the crashes are the *)
(* subject of SegmentLog and Compaction.  The charge of the index budget   *)
(* is counted in nodes of either kind.  A cached file handle makes a read  *)
(* from a removed file succeed or not.                                     *)
(***************************************************************************)
EXTENDS Integers, FiniteSets, Sequences, FiniteSetsExt

CONSTANTS
  Keys,            \* compound keys "stream:key"
  MaxAge,          \* the max-age that holds for a key's stream, 0: disabled
  MaxSegment,      \* max_segment_size, in frames
  CompactionBase,  \* COMPACTION_ID_BASE
  Writes,          \* the writes that may be asked for: [key, del] records
  ReadKeys,        \* the keys a read may be about
  IoErrors,        \* may a maintenance pass fail to list, read, write or remove files?
  MaxSeq,          \* bound: writes
  Instants,        \* bound: the readings of the clock
  MaxCompactions   \* bound: compactions

ASSUME LiveIndexAssumption ==
  /\ MaxAge \in [Keys -> Nat] /\ MaxSegment \in Nat \ {0}
  /\ Writes \subseteq [key : Keys, del : BOOLEAN] /\ ReadKeys \subseteq Keys
  /\ CompactionBase \in Nat \ {0, 1} /\ MaxSeq \in Nat
  /\ MaxSeq + 1 < CompactionBase  \* 2^63: the segment ids never reach it
  /\ IoErrors \in BOOLEAN
  /\ 0 \in Instants /\ Instants \subseteq Nat /\ MaxCompactions \in Nat

VARIABLES
  segs,     \* the segment files
  files,    \* the frames in them
  active,   \* active_segment_id
  nextSeg,  \* segment_id_counter
  now,      \* the wall clock
  index,    \* the skip list: the frame each live key points at
  stamps,   \* the timestamp index: the frames it points at
  nodes,    \* what index_ram_bytes counts for skip list nodes ...
  marks,    \* ... and for timestamp index nodes
  (* flusher *)
  fpc,      \* where it is
  frame,    \* the frame it writes and applies
  existed,  \* was its key in the index?
  (* maintenance thread *)
  mpc,      \* where it is
  mark,     \* the clock and the active id when it started
  victims,  \* the segments still to be checked, or to be unlinked
  todo,     \* retention: the keys still to be removed
  picked,   \* the pointer that is being removed, or moved by compaction
  sources,  \* compaction: the frames it copies
  nextCompact, \* compaction_counter
  (* reader *)
  rpc,      \* which read is going on, and where it is
  rkey,     \* the key it is about, as a set
  entries,  \* range: the timestamp index entries still to be visited
  held,     \* the pointer it has loaded
  found,    \* the frame it has read
  (* observation *)
  shown,    \* the versions of its key the index has shown since the read began
  moves,    \* moves of pointers and removals of files since then, 2 at most
  touched,  \* has its key been written or removed since then?
  newest,   \* the newest acknowledged frame of each key
  mishaps,  \* which of the known races have happened
  orphans   \* segments that are still there as they could not be removed

storage  == <<segs, files, active, nextSeg, now>>
indexes  == <<index, stamps, nodes, marks>>
flusher  == <<fpc, frame, existed>>
keeper   == <<mpc, mark, victims, todo, picked, sources, nextCompact>>
reader   == <<rpc, rkey, entries, held, found>>
history  == <<newest, mishaps, orphans>>
vars     == <<storage, indexes, flusher, keeper, reader, shown, moves, touched, history>>

FirstFrame == [seg |-> 0, seq |-> 0, key |-> CHOOSE k \in Keys : TRUE, ts |-> 0,
               del |-> FALSE]

InSeg(s)   == { f \in files : f.seg = s }
Entry(I, k) == { f \in I : f.key = k }

\* What the index shows of a key: a sequence id, 0 when there is no entry.
Version(k) == IF Entry(index, k) = {} THEN 0
              ELSE (CHOOSE f \in Entry(index, k) : TRUE).seq

\* The keys whose entries are being changed, step by step.
InProgress == { k \in Keys : \/ fpc \in {"insert", "stamp", "remove"} /\ frame.key = k
                             \/ mpc = "dropkey" /\ \E f \in picked : f.key = k }

\* A file that is there can be read; one that is gone may still be read, through
\* a cached handle.
MayFail(f) == f.seg \notin segs

Mishaps == {"raced", "stolen", "drift", "uncovered"}

Init ==
  /\ segs = {1} /\ files = {} /\ active = 1 /\ nextSeg = 2 /\ now = 0
  /\ index = {} /\ stamps = {} /\ nodes = 0 /\ marks = 0
  /\ fpc = "idle" /\ frame = FirstFrame /\ existed = FALSE
  /\ mpc = "idle" /\ mark = [now |-> 0, active |-> 0] /\ victims = {}
  /\ todo = {} /\ picked = {} /\ sources = {} /\ nextCompact = CompactionBase
  /\ rpc = "idle" /\ rkey = {} /\ entries = {} /\ held = {} /\ found = {}
  /\ shown = {} /\ moves = 0 /\ touched = FALSE /\ newest = {} /\ mishaps = {}
  /\ orphans = {}

-----------------------------------------------------------------------------
(* What a read may have seen since it began.                               *)

ReadOver == rpc \in {"done", "gaveup", "failed"} \/ (rpc = "range" /\ entries = {})

\* Part of every action.  The end of a read commutes with everything else: it
\* comes at once.
Observe ==
  /\ ~ReadOver
  /\ shown' = shown \cup { Version(k)' : k \in rkey' }
  /\ touched' = (touched \/ rkey' \cap InProgress' # {})
  /\ moves' = IF rpc = "idle" \/ (segs \subseteq segs' /\ mpc' # "movekey") THEN moves
              ELSE Min({moves + 1, 2})

-----------------------------------------------------------------------------
(* The flusher: roll over, write, then apply the frame.                    *)

Tick == /\ \E t \in Instants : t > now /\ now' = t
        /\ UNCHANGED <<segs, files, active, nextSeg, indexes, flusher, keeper,
                       reader, history>>
        /\ Observe

\* A full segment is left: the next id becomes the active one, and gets a file.
Receive(w) ==
  /\ fpc = "idle" /\ frame.seq < MaxSeq /\ mpc \notin {"movestamp", "movekey"}
  /\ fpc' = "write"
  /\ frame' = [seg |-> 0, seq |-> frame.seq + 1, key |-> w.key, ts |-> 0, del |-> w.del]
  /\ IF Cardinality(InSeg(active)) >= MaxSegment
     THEN active' = nextSeg /\ nextSeg' = nextSeg + 1 /\ segs' = segs \cup {nextSeg}
     ELSE UNCHANGED <<active, nextSeg, segs>>
  /\ UNCHANGED <<files, now, indexes, existed, keeper, reader, history>>
  /\ Observe

\* Written through the open handle, whether or not the name still exists.
Written == [frame EXCEPT !.seg = active, !.ts = now]

\* Fault: the timestamp entry of the superseded frame stays.
WriteAndPruneNothing ==
  /\ fpc = "write" /\ fpc' = IF frame.del THEN "remove" ELSE "insert"
  /\ frame' = Written
  /\ files' = IF active \in segs THEN files \cup {frame'} ELSE files
  /\ existed' = (Entry(index, frame.key) # {})
  /\ UNCHANGED <<segs, active, nextSeg, now, indexes, keeper, reader, history>>
  /\ Observe

\* The frame is written and synced; then its application begins: the timestamp
\* entry of the frame its key points at goes first.
Write ==
  /\ fpc = "write" /\ fpc' = IF frame.del THEN "remove" ELSE "insert"
  /\ frame' = Written
  /\ files' = IF active \in segs THEN files \cup {frame'} ELSE files
  /\ LET old == Entry(index, frame.key)
         gone == { f \in stamps : \E g \in old : f.seq = g.seq } IN
       /\ existed' = (old # {})
       /\ stamps' = stamps \ gone
       /\ marks' = marks - Cardinality(gone)
  /\ UNCHANGED <<segs, active, nextSeg, now, index, nodes, keeper, reader, history>>
  /\ Observe

InsertPointer ==
  /\ fpc = "insert" /\ fpc' = "stamp"
  /\ index' = (index \ Entry(index, frame.key)) \cup {frame}
  /\ nodes' = IF existed THEN nodes ELSE nodes + 1
  /\ marks' = marks + 1
  /\ UNCHANGED <<storage, stamps, frame, existed, keeper, reader, history>>
  /\ Observe

Acknowledged == { f \in newest : f.key # frame.key } \cup {frame}

\* The timestamp entry of the new frame, then the answer.
Stamp ==
  /\ fpc = "stamp" /\ fpc' = "idle"
  /\ stamps' = stamps \cup {frame}
  /\ newest' = Acknowledged
  /\ UNCHANGED <<storage, index, nodes, marks, frame, existed, keeper, reader, mishaps, orphans>>
  /\ Observe

RemovePointer ==
  /\ fpc = "remove" /\ fpc' = "idle"
  /\ LET gone == Entry(index, frame.key) IN
       /\ index' = index \ gone /\ nodes' = nodes - Cardinality(gone)
  /\ newest' = Acknowledged
  /\ UNCHANGED <<storage, stamps, marks, frame, existed, keeper, reader, mishaps, orphans>>
  /\ Observe

Flusher == \/ \E w \in Writes : Receive(w)
           \/ Write \/ InsertPointer \/ Stamp \/ RemovePointer

-----------------------------------------------------------------------------
(* Maintenance: one compaction or retention pass at a time.                *)

Done == /\ mpc' = "idle" /\ mark' = [now |-> 0, active |-> 0]
        /\ victims' = {} /\ todo' = {} /\ picked' = {} /\ sources' = {}

\* maintenance_lock, then the clock and the active id ...
StartTask(kind) ==
  /\ mpc = "idle"
  /\ kind = "compact" => nextCompact < CompactionBase + MaxCompactions
  /\ kind = "expire" => \E k \in Keys : MaxAge[k] # 0
  /\ mpc' = kind /\ mark' = [now |-> now, active |-> active]
  /\ UNCHANGED <<storage, indexes, flusher, victims, todo, picked, sources, nextCompact,
                 reader, history>>
  /\ Observe

\* ... then the directory.  An error ends the pass.
ListSegments ==
  /\ mpc \in {"expire", "compact"}
  /\ mishaps' = IF mark.active # active THEN mishaps \cup {"raced"} ELSE mishaps
  /\ \/ IoErrors /\ Done
     \/ segs \ {mark.active} = {} /\ Done
     \/ /\ segs \ {mark.active} # {}
        /\ victims' = segs \ {mark.active}
        /\ mpc' = IF mpc = "expire" THEN "check" ELSE "collect"
        /\ UNCHANGED <<mark, todo, picked, sources>>
  /\ UNCHANGED <<storage, indexes, flusher, nextCompact, reader, newest, orphans>>
  /\ Observe

\* segment_is_fully_expired: all its live frames are older than the max-age
\* of their stream; a segment of tombstones only is kept, an empty one not.
FullyExpired(s) ==
  /\ \A f \in InSeg(s) : f.del \/ (MaxAge[f.key] # 0 /\ f.ts < mark.now - MaxAge[f.key])
  /\ InSeg(s) = {} \/ \E f \in InSeg(s) : ~f.del

Victim == Min(victims)

\* Also when the segment cannot be read.
KeepSegment ==
  /\ mpc = "check" /\ victims # {} /\ (FullyExpired(Victim) => IoErrors)
  /\ victims' = victims \ {Victim}
  /\ UNCHANGED <<storage, indexes, flusher, mpc, mark, todo, picked, sources,
                 nextCompact, reader, history>>
  /\ Observe

\* The keys that point into it now.
ExpireSegment ==
  /\ mpc = "check" /\ victims # {} /\ FullyExpired(Victim)
  /\ mpc' = "drop" /\ todo' = { f.key : f \in { g \in index : g.seg = Victim } }
  /\ UNCHANGED <<storage, indexes, flusher, mark, victims, picked, sources,
                 nextCompact, reader, history>>
  /\ Observe

\* The pointer of a key is read again, and the record it leads to loses its
\* timestamp entry; a key that is gone is passed over.
DropStamp(k) ==
  /\ mpc = "drop" /\ k \in todo
  /\ todo' = todo \ {k}
  /\ picked' = Entry(index, k)
  /\ mpc' = IF picked' = {} THEN "drop" ELSE "dropkey"
  /\ LET gone == { f \in stamps : \E g \in picked' : f.seq = g.seq } IN
       \/ stamps' = stamps \ gone /\ marks' = marks - Cardinality(gone)
       \/ (\E g \in picked' : MayFail(g)) /\ UNCHANGED <<stamps, marks>>
  /\ UNCHANGED <<storage, index, nodes, flusher, mark, victims, sources,
                 nextCompact, reader, history>>
  /\ Observe

\* Then its entry goes, whatever it points at by now.
DropKey ==
  /\ mpc = "dropkey" /\ mpc' = "drop" /\ picked' = {}
  /\ LET k == (CHOOSE f \in picked : TRUE).key
         gone == Entry(index, k) IN
       /\ index' = index \ gone /\ nodes' = nodes - Cardinality(gone)
       /\ mishaps' = mishaps
            \cup (IF \E f \in gone : f.seg # Victim \/ f \notin picked THEN {"stolen"} ELSE {})
            \cup (IF fpc \in {"insert", "stamp"} /\ frame.key = k THEN {"drift"} ELSE {})
  /\ UNCHANGED <<storage, stamps, marks, flusher, mark, victims, todo, sources,
                 nextCompact, reader, newest, orphans>>
  /\ Observe

\* A kept file holds a record of this segment, or one that it superseded.
Covers(s) == \E f \in InSeg(s), g \in files :
               g.seg # s /\ g.key = f.key /\ g.seq <= f.seq /\ ~g.del

Uncovered == IF Covers(Victim) THEN mishaps \cup {"uncovered"} ELSE mishaps

\* Fault: the file goes while keys still point into it.
UnlinkFirst ==
  /\ mpc = "drop"
  /\ mpc' = "check" /\ victims' = victims \ {Victim} /\ todo' = {}
  /\ segs' = segs \ {Victim} /\ files' = files \ InSeg(Victim)
  /\ orphans' = orphans \ {Victim} /\ mishaps' = Uncovered
  /\ UNCHANGED <<active, nextSeg, now, indexes, flusher, mark, picked, sources,
                 nextCompact, reader, newest>>
  /\ Observe

\* The keys have left the index; then the file goes.  If it cannot be removed the
\* pass ends, and the file stays without them.
UnlinkExpired ==
  /\ mpc = "drop" /\ todo = {} /\ mishaps' = Uncovered
  /\ \/ /\ mpc' = "check" /\ victims' = victims \ {Victim}
        /\ segs' = segs \ {Victim} /\ files' = files \ InSeg(Victim)
        /\ orphans' = orphans \ {Victim}
        /\ UNCHANGED <<mark, todo, picked, sources>>
     \/ IoErrors /\ Done /\ orphans' = orphans \cup {Victim} /\ UNCHANGED <<segs, files>>
  /\ UNCHANGED <<active, nextSeg, now, indexes, flusher, nextCompact, reader, newest>>
  /\ Observe

EndRetention ==
  /\ mpc = "check" /\ victims = {}
  /\ Done
  /\ UNCHANGED <<storage, indexes, flusher, nextCompact, reader, history>>
  /\ Observe

CopyOf(f) == [f EXCEPT !.seg = nextCompact]

\* Compaction copies the live frames outside the active segment; if one cannot
\* be read, or the copies cannot be written or synced, they stay and nothing else
\* happens.
CopyLive ==
  /\ mpc = "collect"
  /\ LET live == { f \in index : f.seg # mark.active } IN \E copied \in SUBSET live :
       /\ \A f \in live \ copied : MayFail(f) \/ IoErrors
       /\ \/ /\ segs' = segs \cup {nextCompact}
             /\ files' = files \cup { CopyOf(f) : f \in copied }
          \/ IoErrors /\ copied = {} /\ UNCHANGED <<segs, files>>  \* not even created
       /\ \/ /\ copied = live /\ nextCompact \in segs'
             /\ mpc' = "swap" /\ sources' = live
             /\ UNCHANGED <<mark, victims, todo, picked, nextCompact>>
          \/ (copied # live \/ IoErrors) /\ Done /\ nextCompact' = nextCompact + 1
  /\ UNCHANGED <<active, nextSeg, now, indexes, flusher, reader, history>>
  /\ Observe

\* The flusher's lock.
LockIndexes ==
  /\ mpc = "swap" /\ fpc = "idle" /\ mpc' = "movestamp"
  /\ UNCHANGED <<storage, indexes, flusher, mark, victims, todo, picked, sources,
                 nextCompact, reader, history>>
  /\ Observe

\* Fault: the pointer of every frame that was copied is moved.
MoveStampOfAny(f) ==
  /\ mpc = "movestamp" /\ f \in sources
  /\ stamps' = { g \in stamps : g.seq # f.seq } \cup {CopyOf(f)}
  /\ mpc' = "movekey" /\ picked' = {f}
  /\ index' = (index \ Entry(index, f.key)) \cup {f}
  /\ UNCHANGED <<storage, nodes, marks, flusher, mark, victims, todo, sources,
                 nextCompact, reader, history>>
  /\ Observe

\* A frame that is no longer the one its key points at is passed over; the
\* timestamp entry of the others follows the copy ...
MoveStamp(f) ==
  /\ mpc = "movestamp" /\ f \in sources
  /\ IF f \in index
     THEN /\ stamps' = { g \in stamps : g.seq # f.seq } \cup {CopyOf(f)}
          /\ mpc' = "movekey" /\ picked' = {f} /\ UNCHANGED sources
     ELSE /\ sources' = sources \ {f}
          /\ UNCHANGED <<stamps, mpc, picked>>
  /\ UNCHANGED <<storage, index, nodes, marks, flusher, mark, victims, todo,
                 nextCompact, reader, history>>
  /\ Observe

\* ... and then the entry of its key.
MoveKey ==
  /\ mpc = "movekey" /\ mpc' = "movestamp"
  /\ index' = (index \ picked) \cup { CopyOf(f) : f \in picked }
  /\ sources' = sources \ picked /\ picked' = {}
  /\ UNCHANGED <<storage, stamps, nodes, marks, flusher, mark, victims, todo,
                 nextCompact, reader, history>>
  /\ Observe

UnlockIndexes ==
  /\ mpc = "movestamp" /\ sources = {}
  /\ mpc' = "unlink" /\ nextCompact' = nextCompact + 1
  /\ UNCHANGED <<storage, indexes, flusher, mark, victims, todo, picked, sources,
                 reader, history>>
  /\ Observe

\* A source that cannot be removed stays.
UnlinkCompacted ==
  /\ mpc = "unlink" /\ victims # {}
  /\ victims' = victims \ {Victim}
  /\ \/ /\ segs' = segs \ {Victim} /\ files' = files \ InSeg(Victim)
        /\ orphans' = orphans \ {Victim}
     \/ IoErrors /\ orphans' = orphans \cup {Victim} /\ UNCHANGED <<segs, files>>
  /\ UNCHANGED <<active, nextSeg, now, indexes, flusher, mpc, mark, todo, picked,
                 sources, nextCompact, reader, newest, mishaps>>
  /\ Observe

EndCompaction ==
  /\ mpc = "unlink" /\ victims = {}
  /\ Done
  /\ UNCHANGED <<storage, indexes, flusher, nextCompact, reader, history>>
  /\ Observe

Keeper == \/ \E kind \in {"expire", "compact"} : StartTask(kind)
          \/ ListSegments \/ KeepSegment \/ ExpireSegment
          \/ \E k \in Keys : DropStamp(k)
          \/ DropKey \/ UnlinkExpired \/ EndRetention
          \/ CopyLive \/ LockIndexes \/ \E f \in sources : MoveStamp(f)
          \/ MoveKey \/ UnlockIndexes \/ UnlinkCompacted \/ EndCompaction

-----------------------------------------------------------------------------
(* A reader.  What a scan does for one key does not depend on the others it *)
(* visits, so the model follows one key of each read.                      *)

Begin(kind, k) ==
  /\ rpc = "idle" /\ frame.seq < MaxSeq   \* bound: before the last write
  /\ rpc' = kind /\ rkey' = {k}
  /\ entries' = IF kind = "range" THEN Entry(stamps, k) ELSE {}
  /\ UNCHANGED <<storage, indexes, flusher, keeper, held, found, history>>
  /\ Observe

\* get and the live scan: load the pointer of the key ...
LoadPointer ==
  /\ rpc \in {"get", "scan"}
  /\ held' = { f \in index : f.key \in rkey }
  /\ rpc' = IF held' = {} THEN "done" ELSE IF rpc = "get" THEN "getfile" ELSE "scanfile"
  /\ UNCHANGED <<storage, indexes, flusher, keeper, rkey, entries, found, history>>
  /\ Observe

\* ... and read the frame it points at.
ReadHeld ==
  /\ rpc \in {"getfile", "scanfile", "scanagain"}
  /\ rpc' = "done" /\ found' = held /\ held' = {}
  /\ UNCHANGED <<storage, indexes, flusher, keeper, rkey, entries, history>>
  /\ Observe

\* get fails when the file has gone ...
GetFails ==
  /\ rpc = "getfile" /\ \E f \in held : MayFail(f)
  /\ rpc' = "failed" /\ held' = {}
  /\ UNCHANGED <<storage, indexes, flusher, keeper, rkey, entries, found, history>>
  /\ Observe

\* Fault: the scan gives the key up at once.
ScanDoesNotRetry ==
  /\ rpc = "scanfile" /\ \E f \in held : MayFail(f)
  /\ rpc' = "gaveup" /\ held' = {}
  /\ UNCHANGED <<storage, indexes, flusher, keeper, rkey, entries, found, history>>
  /\ Observe

\* ... the scan loads the pointer once more, and gives the key up after that.
ScanRetries ==
  /\ rpc = "scanfile" /\ \E f \in held : MayFail(f)
  /\ held' = { f \in index : f.key \in rkey }
  /\ rpc' = IF held' = {} THEN "done" ELSE "scanagain"
  /\ UNCHANGED <<storage, indexes, flusher, keeper, rkey, entries, found, history>>
  /\ Observe

ScanGivesUp ==
  /\ rpc = "scanagain" /\ \E f \in held : MayFail(f)
  /\ rpc' = "gaveup" /\ held' = {}
  /\ UNCHANGED <<storage, indexes, flusher, keeper, rkey, entries, found, history>>
  /\ Observe

\* Fault: the range scan takes what the timestamp index points at as live.
VisitUnchecked(f) ==
  /\ rpc = "range" /\ f \in entries
  /\ entries' = entries \ {f} /\ found' = {f}
  /\ UNCHANGED <<storage, indexes, flusher, keeper, rpc, rkey, held, history>>
  /\ Observe

\* The range scan reads the frames its snapshot of the timestamp index points
\* at and keeps one if the key still points there; the last one counts.
VisitStamp(f) ==
  /\ rpc = "range" /\ f \in entries
  /\ entries' = entries \ {f}
  /\ \/ found' = IF f \in index THEN {f} ELSE found
     \/ MayFail(f) /\ UNCHANGED found
  /\ UNCHANGED <<storage, indexes, flusher, keeper, rpc, rkey, held, history>>
  /\ Observe

EndRead ==
  /\ ReadOver
  /\ rpc' = "idle" /\ rkey' = {} /\ found' = {}
  /\ shown' = {} /\ moves' = 0 /\ touched' = FALSE
  /\ UNCHANGED <<storage, indexes, flusher, keeper, entries, held, history>>

Reader == \/ \E kind \in {"get", "scan", "range"}, k \in ReadKeys : Begin(kind, k)
          \/ LoadPointer \/ ReadHeld \/ GetFails \/ ScanRetries \/ ScanGivesUp
          \/ \E f \in entries : VisitStamp(f)

-----------------------------------------------------------------------------
Next == Tick \/ Flusher \/ Keeper \/ Reader \/ EndRead

Spec == Init /\ [][Next]_vars

-----------------------------------------------------------------------------
(* Properties                                                              *)

\* When nobody is changing the indexes, both have exactly the same live frames
\* and the memory charged to the index budget is what they hold - unless
\* retention has removed a key while the flusher was replacing it
\* (storage.rs:3829-3863, 4219-4237).
ChargesAreExact ==
  (fpc = "idle" /\ mpc \notin {"dropkey", "movekey"} /\ mishaps \cap {"stolen", "drift"} = {})
    => nodes = Cardinality(index) /\ marks = Cardinality(stamps) /\ stamps = index

\* Whatever a get or a scan returns was the value of its key at some moment of
\* the read, although pointers are read before files and both move under it
\* (storage.rs:1957-1976, 2051-2109, 3169-3220).
ReadsAreCurrent == \A f \in found : f.seq \in shown

\* The key was there all the time, and has not been found.
Missed == ReadOver /\ rpc # "failed" /\ found = {} /\ 0 \notin shown

\* A read misses only what was not there all the time: a get fails only when a
\* file has gone, a live scan gives up only a key whose file has gone twice, and
\* a time-range scan passes over only a key that was written meanwhile, or moved
\* by a compaction (storage.rs:1971-1975, 2073-2089, 3185-3217).
ReadsMissNothing ==
  "raced" \notin mishaps =>
    /\ rpc = "failed" => moves >= 1
    /\ rpc = "gaveup" => moves >= 2
    /\ Missed => \/ rpc = "gaveup"
                 \/ rpc = "range" /\ (touched \/ moves >= 1)

Expired(f) == MaxAge[f.key] # 0 /\ f.ts < now - MaxAge[f.key]

\* The newest acknowledged record of a key stays in the index, readable, until
\* its age has passed, whatever compaction and retention remove - unless one of
\* their two known races with the flusher has happened (storage.rs:4173-4260).
NewestKeysRemain ==
  \A f \in newest :
    ~f.del /\ ~Expired(f) /\ mishaps \cap {"raced", "stolen"} = {}
      => \E g \in index : g.key = f.key /\ g.seq >= f.seq /\ g \in files

\* What the files would give after a restart: of each key, the newest frame.
OnDisk == { f \in files : \A g \in files : g.key = f.key => g.seq <= f.seq }

\* A restart would show everything the index shows, in the same version; and what
\* it shows beyond that is in a file that was to be removed and could not be:
\* retention takes the keys out of the index before the file goes, so whatever
\* fails in between, the index is never ahead of the files.  Not so when a file was
\* removed that superseded a record in a kept one, or a race has happened
\* (storage.rs:4195-4243, 2490-2507).
RestartShowsTheIndex ==
  fpc = "idle" /\ mpc = "idle" /\ mishaps = {} =>
    LET same(f, g) == f.key = g.key /\ f.seq = g.seq IN
    /\ \A f \in index : \E g \in OnDisk : ~g.del /\ same(f, g)
    /\ \A g \in OnDisk : g.del \/ g.seg \in orphans \/ \E f \in index : same(f, g)
=============================================================================
