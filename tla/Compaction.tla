----------------------------- MODULE Compaction -----------------------------
(***************************************************************************)
(* Compaction (StorageEngine::compact) beside the flusher of SegmentLog: a *)
(* maintenance thread copies the live frames of the inactive segments into *)
(* a new compacted segment, makes it durable, moves the index pointers     *)
(* over and unlinks the inactive files, while the flusher goes on writing  *)
(* and rolling over.  It shares the index, the data directory and          *)
(* active_segment_id with the flusher and takes the flusher's lock only to *)
(* move the pointers.                                                      *)
(*                                                                         *)
(* `entries` and `synced` of SegmentLog say what is durable, so a file     *)
(* that was unlinked without a directory fsync is in `entries` and not in  *)
(* `segs`; a power loss may bring it back.                                 *)
(***************************************************************************)
EXTENDS SegmentLog

CONSTANTS
  CompactionErrors,  \* may an I/O call of the compaction fail?
  MaxCompactions     \* bound: how many compactions a run starts

ASSUME CompactionAssumption ==
  CompactionErrors \in BOOLEAN /\ MaxCompactions \in Nat

VARIABLES
  cpc,          \* where the compaction is
  seen,         \* the active segment id it read when it started
  victims,      \* the inactive segments it listed and has not removed yet
  sources,      \* the frames the index entries it rewrites pointed at
  target,       \* id of the compacted segment it writes
  nextCompact,  \* compaction_counter
  compactions,
  (* observation *)
  promised,     \* the newest acknowledged frame of each key
  mishaps       \* which of the events in Mishaps have happened in this run

\* raced: a rollover came between a compaction's two readings of what is active.
\* half_removed: the removal of a compaction's sources was cut short, failed, or
\* was not made durable.
\* unsynced_replay: a reopen replayed frames that no fsync covers.
\* reused_id: a reopen replayed an acknowledged delete over a record written
\* after it; once a compaction has removed the frames with the highest ids and
\* before that is durable, a reopen gives these ids out again.
Mishaps == {"raced", "half_removed", "unsynced_replay", "reused_id"}

Note(what, happened) ==
  mishaps' = IF happened THEN mishaps \cup {what} ELSE mishaps

compactor == <<cpc, seen, victims, sources, target>>
cvars == <<vars, compactor, nextCompact, compactions, promised, mishaps>>

CompactionInit ==
  /\ Init
  /\ cpc = "idle" /\ seen = 0 /\ victims = {} /\ sources = {} /\ target = 0
  /\ nextCompact = CompactionBase /\ compactions = 0
  /\ promised = {} /\ mishaps = {}

-----------------------------------------------------------------------------
(* The compaction thread.                                                  *)

Quit ==
  /\ cpc' = "idle" /\ seen' = 0 /\ victims' = {} /\ sources' = {} /\ target' = 0

\* One compaction at a time (maintenance_lock): read the active segment id ...
StartCompaction ==
  /\ up /\ cpc = "idle" /\ compactions < MaxCompactions
  /\ cpc' = "list" /\ seen' = active
  /\ compactions' = compactions + 1
  /\ UNCHANGED <<vars, victims, sources, target, nextCompact, promised, mishaps>>

\* Fault: only the normal segments are listed.
ListNormalSegments ==
  /\ up /\ cpc = "list"
  /\ LET inactive == NormalSegs \ {seen} IN
       /\ IF inactive = {}
            THEN Quit
            ELSE /\ cpc' = "collect" /\ victims' = inactive
                 /\ UNCHANGED <<seen, sources, target>>
       /\ Note("raced", seen # active)
  /\ UNCHANGED <<vars, nextCompact, compactions, promised>>

\* ... then list the directory: every other segment file is inactive ...
ListSegments ==
  /\ up /\ cpc = "list"
  /\ LET inactive == segs \ {seen} IN
       /\ IF inactive = {}
            THEN Quit
            ELSE /\ cpc' = "collect" /\ victims' = inactive
                 /\ UNCHANGED <<seen, sources, target>>
       /\ Note("raced", seen # active)
  /\ UNCHANGED <<vars, nextCompact, compactions, promised>>

\* ... and the index entries that do not point into the active segment.
CollectPointers ==
  /\ up /\ cpc = "collect"
  /\ cpc' = "create"
  /\ sources' = { f \in index : f.seg # seen }
  /\ UNCHANGED <<vars, seen, victims, target, nextCompact, compactions,
                 promised, mishaps>>

\* create_new on the next compaction id.
CreateCompacted ==
  /\ up /\ cpc = "create"
  /\ cpc' = "copy" /\ target' = nextCompact /\ nextCompact' = nextCompact + 1
  /\ segs' = segs \cup {nextCompact}
  /\ UNCHANGED <<entries, files, synced, torn, engine, flusher, callers,
                 observed, seen, victims, sources, compactions, promised,
                 mishaps>>

CopyOf(f) == [f EXCEPT !.seg = target]

Readable == sources \cap files

\* The next live frame is copied; a frame that cannot be read is passed over.
CopyFrame ==
  /\ up /\ cpc = "copy"
  /\ \E f \in Readable : CopyOf(f) \notin files /\ files' = files \cup {CopyOf(f)}
  /\ UNCHANGED <<segs, entries, synced, torn, engine, flusher, callers,
                 observed, compactor, nextCompact, compactions, promised,
                 mishaps>>

\* Fsync the copies.  If a frame could not be read nothing more is done.
SyncCopies ==
  /\ up /\ cpc = "copy" /\ \A f \in Readable : CopyOf(f) \in files
  /\ synced' = synced \cup InSegment(files, target)
  /\ IF sources \subseteq files
       THEN cpc' = "publish" /\ UNCHANGED <<seen, victims, sources, target>>
       ELSE Quit
  /\ UNCHANGED <<segs, entries, files, torn, engine, flusher, callers,
                 observed, nextCompact, compactions, promised, mishaps>>

\* Fault: the directory entry of the compacted segment is left to the end.
PublishWithoutSync ==
  /\ up /\ cpc = "publish"
  /\ cpc' = "swap"
  /\ UNCHANGED <<vars, seen, victims, sources, target, nextCompact,
                 compactions, promised, mishaps>>

\* Fsync the directory before any source may go.
PublishCompacted ==
  /\ up /\ cpc = "publish"
  /\ cpc' = "swap" /\ entries' = segs
  /\ UNCHANGED <<segs, files, synced, torn, engine, flusher, callers, observed,
                 seen, victims, sources, target, nextCompact, compactions,
                 promised, mishaps>>

\* The flusher holds the lock on the active file while it works on a group.
FlusherHoldsLock == pc \notin {"recv", "exit", "stopped"}

\* Fault: the pointers are moved without looking at what they point at now.
SwapBlindly ==
  /\ up /\ cpc = "swap" /\ ~FlusherHoldsLock
  /\ cpc' = "unlink"
  /\ index' = { f \in index : \A g \in sources : g.key # f.key }
                \cup { CopyOf(f) : f \in sources }
  /\ UNCHANGED <<disk, up, failed, active, nextSeg, nextSeq, flusher, callers,
                 observed, seen, victims, sources, target, nextCompact,
                 compactions, promised, mishaps>>

\* Fault: the sources go although no pointer was moved.
SwapNone ==
  /\ up /\ cpc = "swap" /\ ~FlusherHoldsLock
  /\ cpc' = "unlink"
  /\ UNCHANGED <<vars, seen, victims, sources, target, nextCompact,
                 compactions, promised, mishaps>>

\* Under that lock, move each pointer that still is the one that was copied.
SwapPointers ==
  /\ up /\ cpc = "swap" /\ ~FlusherHoldsLock
  /\ cpc' = "unlink"
  /\ index' = (index \ sources) \cup { CopyOf(f) : f \in index \cap sources }
  /\ UNCHANGED <<disk, up, failed, active, nextSeg, nextSeq, flusher, callers,
                 observed, seen, victims, sources, target, nextCompact,
                 compactions, promised, mishaps>>

\* Unlink the inactive files in the order of their ids, so normal ones come
\* before compacted ones; an error is ignored.
Unlink(s) ==
  /\ up /\ cpc = "unlink"
  /\ s \in victims /\ \A t \in victims : s <= t
  /\ victims' = victims \ {s}
  /\ cpc' = IF victims' = {} THEN "finish" ELSE "unlink"
  /\ \E removed \in {TRUE, ~CompactionErrors} :
       /\ segs' = IF removed THEN segs \ {s} ELSE segs
       /\ files' = { f \in files : f.seg \in segs' }
       /\ torn' = torn \cap segs'
       /\ Note("half_removed", ~removed)
  /\ UNCHANGED <<entries, synced, engine, flusher, callers, observed, seen,
                 sources, target, nextCompact, compactions, promised>>

\* The last directory fsync is best effort.
Finish ==
  /\ up /\ cpc = "finish"
  /\ Quit
  /\ \E ok \in {TRUE, ~CompactionErrors} :
       /\ entries' = IF ok THEN segs ELSE entries
       /\ Note("half_removed", ~ok)
  /\ synced' = { f \in synced : f.seg \in entries' }
  /\ UNCHANGED <<segs, files, torn, engine, flusher, callers, observed,
                 nextCompact, compactions, promised>>

\* An I/O error before the swap ends the compaction and leaves its file behind.
CompactionFails ==
  /\ CompactionErrors /\ up /\ cpc \in {"list", "create", "copy", "publish"}
  /\ Quit
  /\ UNCHANGED <<vars, nextCompact, compactions, promised, mishaps>>

CompactorStep ==
  \/ StartCompaction \/ ListSegments \/ CollectPointers \/ CreateCompacted
  \/ CopyFrame \/ SyncCopies \/ PublishCompacted \/ SwapPointers
  \/ \E s \in victims : Unlink(s)
  \/ Finish \/ CompactionFails

-----------------------------------------------------------------------------
(* The rest of the engine.                                                 *)

\* What callers may rely on after the frames F have been acknowledged.
Promised(F) ==
  { p \in promised : \A f \in F : f.key # p.key }
    \cup { f \in F : \A g \in F : g.key = f.key => g.seq <= f.seq }

EngineStep ==
  /\ (\E r \in Requests : Submit(r)) \/ FlusherStep \/ FlushFails
  /\ promised' = Promised(acked' \ acked)
  /\ UNCHANGED <<compactor, nextCompact, compactions, mishaps>>

\* The engine is not dropped under a compaction, which holds a reference to it;
\* a kill or a power loss ends the compaction wherever it is.
GoDownWithCompactor ==
  /\ Kill \/ LosePower \/ (cpc = "idle" /\ Close)
  /\ Quit
  /\ Note("half_removed", cpc \in {"unlink", "finish"})
  /\ UNCHANGED <<nextCompact, compactions, promised>>

Ends(g, p) == g.del /\ g.key = p.key /\ g.seq >= p.seq

\* A delete that was never acknowledged and is replayed ends what its key's
\* callers rely on.
ReplayPromises ==
  LET over(p) == { g \in files : Ends(g, p) }
      ok(g) == answer[g.req] = "ok"
  IN  /\ promised' = { p \in promised : \A g \in over(p) : ok(g) }
      /\ mishaps' = mishaps
           \cup (IF files \subseteq synced' THEN {} ELSE {"unsynced_replay"})
           \cup (IF \A p \in promised : p.del \/ \A g \in over(p) : ~ok(g)
                    THEN {} ELSE {"reused_id"})

\* Fault: the compaction counter starts over.
RecoverWithFirstId ==
  /\ Recover
  /\ nextCompact' = CompactionBase
  /\ ReplayPromises
  /\ UNCHANGED <<compactor, compactions>>

\* The compaction counter starts above every file that exists.
RecoverWithCompactor ==
  /\ Recover
  /\ \E c \in segs' \cup {CompactionBase - 1} :
       /\ c >= CompactionBase - 1 /\ \A s \in segs' : s <= c
       /\ nextCompact' = c + 1
  /\ ReplayPromises
  /\ UNCHANGED <<compactor, compactions>>

CompactionNext ==
  \/ CompactorStep \/ EngineStep \/ GoDownWithCompactor \/ RecoverWithCompactor

CompactionSpec == CompactionInit /\ [][CompactionNext]_cvars

-----------------------------------------------------------------------------
(* Properties.                                                             *)

\* The compactor's state has its type, and create_new never meets a file.
CompactionTypeOK ==
  /\ cpc \in {"idle", "list", "collect", "create", "copy", "publish", "swap",
              "unlink", "finish"}
  /\ seen \in Nat /\ victims \subseteq Nat /\ sources \subseteq Frame
  /\ target \in Nat /\ nextCompact \in Nat /\ nextCompact >= CompactionBase
  /\ cpc = "create" => nextCompact \notin segs
  /\ promised \subseteq acked /\ mishaps \subseteq Mishaps

\* A reader that follows an index pointer finds its frame: no file is unlinked
\* while the index points into it, although the flusher moves pointers and
\* rolls over while the compaction copies.
IndexReadable == up /\ "raced" \notin mishaps => index \subseteq files

\* The newest acknowledged write of each key is on the disk, or a newer one is,
\* if it is a live record.
LiveKept ==
  \A p \in promised : p.del \/ \E g \in files : g.key = p.key /\ g.seq >= p.seq

\* No step of a compaction, and no crash in one, takes the last record of a key
\* (compact: a crash "leaves either the old or the new copy on disk, never
\* neither"), in a run where no rollover came between its two readings, every
\* replayed frame was synced, no id was given out twice for a key and no reopen
\* was exposed.
LiveKeysSurvive ==
  mishaps \cap {"raced", "unsynced_replay", "reused_id"} = {} /\ ~exposed => LiveKept

\* The same with rollovers at any moment (README: compaction "rewrites live
\* records into a new segment and drops superseded" ones).
LiveKeysSurviveRollover ==
  "unsynced_replay" \notin mishaps /\ ~exposed => LiveKept

\* The records F show no acknowledged write of p's key older than p.
StaysDeleted(p, F) ==
  \A g \in F : g.key = p.key => g.seq > p.seq \/ answer[g.req] # "ok"

\* A key whose newest acknowledged write is a delete does not come back at the
\* next reopen, whenever that is, unless a compaction is cut short or fails
\* while it removes its sources.
DeletedStaysDeletedUnlessHalfRemoved ==
  mishaps = {} /\ ~exposed /\ cpc # "unlink" =>
    \A p \in promised : p.del => StaysDeleted(p, Newest(files))

Contents(F) == { <<f.key, f.seq>> : f \in F }

\* Between compactions and during them, up to the moment files are removed, a
\* restart would show readers exactly what they see now.
RestartChangesNothing ==
  up /\ mishaps \cap {"raced", "half_removed"} = {} /\ cpc # "unlink" =>
    Contents(index) = Contents(Newest(files \ PlannedFrames))
=============================================================================
