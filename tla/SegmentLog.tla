----------------------------- MODULE SegmentLog -----------------------------
(***************************************************************************)
(* The write path of the storage engine: callers enqueue write requests,   *)
(* one flusher thread drains them in groups, writes the frames of a group  *)
(* to the active segment file, fsyncs, updates the in-memory index and     *)
(* answers.  The active segment rolls over when it is full.  The process   *)
(* may be killed, the machine may lose power, an I/O call may fail; the    *)
(* next open replays the segment files.                                    *)
(*                                                                         *)
(* Abstractions.  A frame is the record of what replay reads from it; file *)
(* offsets are left out, because sequence ids order the frames of a        *)
(* segment.  A segment's size is its number of frames.  The value a write  *)
(* stores is identified with the request that wrote it.  An index pointer  *)
(* is the frame it points at.  The index-RAM budget only decides whether a *)
(* request that brings a new key is refused, so here it may or may not be. *)
(***************************************************************************)
EXTENDS Integers, Sequences, FiniteSets

CONSTANTS
  Requests,        \* identities of the write requests the callers make
  Keys,            \* compound keys "stream:key"
  MaxWrites,       \* most writes in one request (a batch)
  QueueCap,        \* capacity of the channel to the flusher (2048)
  MaxGroup,        \* commit_max_batch_size
  MaxSegment,      \* max_segment_size, in frames
  CompactionBase,  \* COMPACTION_ID_BASE: ids from here up are compacted files
  Kills,           \* may the process be killed with the page cache surviving?
  PowerLosses,     \* may the machine lose power?
  IoErrors,        \* may a write, create or fsync of the flusher fail?
  MaxRestarts      \* bound: how many times the engine goes down

ASSUME SegmentLogAssumption ==
  /\ MaxWrites \in Nat \ {0} /\ QueueCap \in Nat \ {0}
  /\ MaxGroup \in Nat \ {0} /\ MaxSegment \in Nat
  /\ CompactionBase \in Nat /\ CompactionBase > 1
  /\ Kills \in BOOLEAN /\ PowerLosses \in BOOLEAN /\ IoErrors \in BOOLEAN
  /\ MaxRestarts \in Nat

VARIABLES
  (* the disk *)
  segs,      \* ids of the segment files in the data directory
  entries,   \* those whose directory entry is durable
  files,     \* the complete frames the files hold (page cache included)
  synced,    \* the frames an fsync has made durable
  torn,      \* the segments that end in a torn frame
  (* the engine *)
  up,        \* between open() and drop, kill or power loss
  failed,    \* the engine's `failed` flag
  index,     \* the skip list: the frame each live key points at
  active,    \* active_segment_id
  nextSeg,   \* segment_id_counter
  nextSeq,   \* current_sequence_id
  (* the flusher thread *)
  pc,        \* where it is in run_flusher_loop / execute_batch_append
  group,     \* requests drained but not planned yet
  plan,      \* requests planned and not answered, with their first sequence id
  seq,       \* `current_seq`, the flusher's running copy of nextSeq
  (* the callers *)
  queue,     \* the bounded channel
  answer,    \* what each request's caller knows
  (* observation *)
  acked,     \* the frames of the requests answered with success
  exposed,   \* has a reopen gone on writing to a file it found on disk whose
             \* directory entry was never synced?
  restarts

disk    == <<segs, entries, files, synced, torn>>
engine  == <<up, failed, index, active, nextSeg, nextSeq>>
flusher == <<pc, group, plan, seq>>
callers == <<queue, answer>>
observed == <<acked, exposed, restarts>>
vars    == <<disk, engine, flusher, callers, observed>>

-----------------------------------------------------------------------------
(* Frames and requests.                                                    *)

SeqId == Nat \ {0}

Frame == [seg : Nat, seq : SeqId, key : Keys, del : BOOLEAN, req : Requests]

Write == [key : Keys, del : BOOLEAN]

\* A request is one write (insert, replace, tombstone) or a batch; a batch
\* holds only live records or only tombstones.
Writes == { w \in UNION { [1..n -> Write] : n \in 1..MaxWrites } :
              \A i, j \in DOMAIN w : w[i].del = w[j].del }

\* The frames of a planned request, once the segment they go to is known.
FramesOf(p, seg) ==
  { [seg |-> seg, seq |-> p.first + i - 1, key |-> p.writes[i].key,
     del |-> p.writes[i].del, req |-> p.req] : i \in DOMAIN p.writes }

PlannedFrames == UNION { FramesOf(plan[i], active) : i \in DOMAIN plan }

InSegment(F, s) == { f \in F : f.seg = s }

\* Replay: the newest frame of a key wins, by sequence id; of two copies of
\* one frame the one in the lower segment id is met first.  A key whose
\* newest frame is a tombstone is absent.
Supersedes(g, f) == /\ g.key = f.key
                    /\ \/ g.seq > f.seq
                       \/ g.seq = f.seq /\ g.seg < f.seg

Newest(F) == { f \in F : ~f.del /\ \A g \in F : ~Supersedes(g, f) }

\* Fault: a tombstone leaves the index entry of its key behind.
ApplyKeepsDeleted(I, F) ==
  { f \in I : \A g \in Newest(F) : g.key # f.key } \cup Newest(F)

\* The index after the writes F of one request have been applied to it.
Apply(I, F) == { f \in I : \A g \in F : g.key # f.key } \cup Newest(F)

-----------------------------------------------------------------------------
Init ==
  /\ segs = {1} /\ entries = {1} /\ files = {} /\ synced = {} /\ torn = {}
  /\ up = TRUE /\ failed = FALSE /\ index = {}
  /\ active = 1 /\ nextSeg = 2 /\ nextSeq = 1
  /\ pc = "recv" /\ group = <<>> /\ plan = <<>> /\ seq = 1
  /\ queue = <<>> /\ answer = [r \in Requests |-> "none"]
  /\ acked = {} /\ exposed = FALSE /\ restarts = 0

-----------------------------------------------------------------------------
(* Callers.                                                                *)

\* append_async, replace, append_batch_async, append_tombstone_batch: refused
\* by ensure_writable once the engine has failed, else queued; the channel
\* blocks when it is full.
Submit(r) ==
  /\ up /\ ~failed /\ pc # "stopped"
  /\ answer[r] = "none"
  /\ Len(queue) < QueueCap
  /\ \E w \in Writes : queue' = Append(queue, [req |-> r, writes |-> w])
  /\ answer' = [answer EXCEPT ![r] = "queued"]
  /\ UNCHANGED <<disk, engine, flusher, observed>>

-----------------------------------------------------------------------------
(* The flusher.                                                            *)

\* Drain between one and MaxGroup queued requests; how many depends on the
\* drain window.
Drain ==
  /\ up /\ pc = "recv" /\ queue # <<>>
  /\ \E n \in 1..MaxGroup :
       /\ n <= Len(queue)
       /\ group' = SubSeq(queue, 1, n)
       /\ queue' = SubSeq(queue, n + 1, Len(queue))
  /\ pc' = "plan" /\ plan' = <<>> /\ seq' = nextSeq
  /\ UNCHANGED <<disk, engine, answer, observed>>

\* Does the request bring a key that is neither indexed nor planned?
BringsNewKey(e) ==
  \E i \in DOMAIN e.writes :
    /\ ~e.writes[i].del
    /\ \A f \in index \cup PlannedFrames :
         f.key = e.writes[i].key => f.del

\* Fault: the ids are taken after the counter has moved past them.
PlanRequestLate ==
  /\ up /\ pc = "plan" /\ group # <<>>
  /\ plan' = Append(plan, [req    |-> Head(group).req,
                           writes |-> Head(group).writes,
                           first  |-> seq - Len(Head(group).writes)])
  /\ seq' = seq + Len(Head(group).writes)
  /\ group' = Tail(group)
  /\ UNCHANGED <<disk, engine, pc, callers, observed>>

\* The planning loop gives the next request of the group its sequence ids.
PlanRequest ==
  /\ up /\ pc = "plan" /\ group # <<>>
  /\ plan' = Append(plan, [req    |-> Head(group).req,
                           writes |-> Head(group).writes,
                           first  |-> seq])
  /\ seq' = seq + Len(Head(group).writes)
  /\ group' = Tail(group)
  /\ UNCHANGED <<disk, engine, pc, callers, observed>>

\* Fault: a refused request keeps the ids it was given.
RefuseRequestWithIds ==
  /\ up /\ pc = "plan" /\ group # <<>>
  /\ BringsNewKey(Head(group))
  /\ answer' = [answer EXCEPT ![Head(group).req] = "err"]
  /\ seq' = seq + Len(Head(group).writes)
  /\ group' = Tail(group)
  /\ UNCHANGED <<disk, engine, pc, plan, queue, observed>>

\* The authoritative index-budget check refuses a request that brings a new
\* key: it is answered at once and no frame of it is written.
RefuseRequest ==
  /\ up /\ pc = "plan" /\ group # <<>>
  /\ BringsNewKey(Head(group))
  /\ answer' = [answer EXCEPT ![Head(group).req] = "err"]
  /\ group' = Tail(group)
  /\ UNCHANGED <<disk, engine, pc, plan, seq, queue, observed>>

Full == Cardinality(InSegment(files, active)) + Cardinality(PlannedFrames)
          > MaxSegment

EndPlan ==
  /\ up /\ pc = "plan" /\ group = <<>>
  /\ pc' = IF Full THEN "roll_sync" ELSE "write"
  /\ UNCHANGED <<disk, engine, group, plan, seq, callers, observed>>

\* Fault: the old file is closed without an fsync.
RollWithoutSync ==
  /\ up /\ pc = "roll_sync"
  /\ pc' = "roll_id"
  /\ UNCHANGED <<disk, engine, group, plan, seq, callers, observed>>

\* Rollover: fsync the old file ...
RollSync ==
  /\ up /\ pc = "roll_sync"
  /\ synced' = synced \cup InSegment(files, active)
  /\ pc' = "roll_id"
  /\ UNCHANGED <<segs, entries, files, torn, engine, group, plan, seq, callers,
                 observed>>

\* ... take the next id and publish it as the active one ...
RollId ==
  /\ up /\ pc = "roll_id"
  /\ nextSeg < CompactionBase
  /\ active' = nextSeg /\ nextSeg' = nextSeg + 1
  /\ pc' = "roll_create"
  /\ UNCHANGED <<disk, up, failed, index, nextSeq, group, plan, seq, callers,
                 observed>>

\* ... create the file ...
RollCreate ==
  /\ up /\ pc = "roll_create"
  /\ segs' = segs \cup {active}
  /\ pc' = "roll_dir"
  /\ UNCHANGED <<entries, files, synced, torn, engine, group, plan, seq, callers,
                 observed>>

\* Fault: the directory is not synced after the file was created.
RollWithoutDirSync ==
  /\ up /\ pc = "roll_dir"
  /\ pc' = "write"
  /\ UNCHANGED <<disk, engine, group, plan, seq, callers, observed>>

\* ... and fsync the directory before anything is written to it.
RollDirSync ==
  /\ up /\ pc = "roll_dir"
  /\ entries' = segs
  /\ pc' = "write"
  /\ UNCHANGED <<segs, files, synced, torn, engine, group, plan, seq, callers,
                 observed>>

\* One write_all for the whole group.  Through its open handle a file takes
\* writes even when its directory entry is gone; nobody reads those again.
WriteGroup ==
  /\ up /\ pc = "write"
  /\ files' = files \cup { f \in PlannedFrames : f.seg \in segs }
  /\ pc' = "sync"
  /\ UNCHANGED <<segs, entries, synced, torn, engine, group, plan, seq, callers,
                 observed>>

\* Fault: the group is answered from the page cache.
SkipSync ==
  /\ up /\ pc = "sync"
  /\ pc' = "apply"
  /\ UNCHANGED <<disk, engine, group, plan, seq, callers, observed>>

\* sync_data, before any index entry or answer of the group.
SyncGroup ==
  /\ up /\ pc = "sync"
  /\ synced' = synced \cup InSegment(files, active)
  /\ pc' = "apply"
  /\ UNCHANGED <<segs, entries, files, torn, engine, group, plan, seq, callers,
                 observed>>

\* Apply the next request of the group to the index and answer its caller.
ApplyAndAck ==
  /\ up /\ pc = "apply" /\ plan # <<>>
  /\ LET F == FramesOf(Head(plan), active) IN
       /\ index' = Apply(index, F)
       /\ acked' = acked \cup F
  /\ answer' = [answer EXCEPT ![Head(plan).req] = "ok"]
  /\ plan' = Tail(plan)
  /\ UNCHANGED <<disk, up, failed, active, nextSeg, nextSeq, pc, group, seq,
                 queue, exposed, restarts>>

\* Fault: the running counter is not stored back.
EndGroupKeepsSeq ==
  /\ up /\ pc = "apply" /\ plan = <<>>
  /\ pc' = "recv"
  /\ UNCHANGED <<disk, engine, group, plan, seq, callers, observed>>

\* The group is done: the sequence counter moves on and the loop goes back to
\* the channel.
EndGroup ==
  /\ up /\ pc = "apply" /\ plan = <<>>
  /\ nextSeq' = seq
  /\ pc' = "recv"
  /\ UNCHANGED <<disk, up, failed, index, active, nextSeg, group, plan, seq,
                 callers, observed>>

-----------------------------------------------------------------------------
(* Failures of the flusher.                                                *)

Answered(reqs, with) ==
  [r \in Requests |-> IF r \in reqs THEN with ELSE answer[r]]

Pending == { r \in Requests : answer[r] = "queued" }

\* What an interrupted write_all has put in the file: the first frames of the
\* group, and maybe part of the next one.
PartialWrite(P, t) ==
  /\ P = {} \/ pc = "write"
  /\ \A f \in P, g \in PlannedFrames : g.seq < f.seq => g \in P
  /\ t \subseteq (IF pc = "write" THEN {active} \cap segs ELSE {})

\* A failed fsync, create or write answers the whole group with an error and
\* makes the engine refuse writes until it is reopened.  (`plan` is kept: it
\* names the frames of the group that may be on the disk.)
FlushFails ==
  /\ IoErrors /\ up
  /\ pc \in {"roll_sync", "roll_create", "roll_dir", "write", "sync"}
  /\ pc = "write" => PlannedFrames # {}
  /\ \E P \in SUBSET { f \in PlannedFrames : f.seg \in segs },
        t \in SUBSET {active} :
       /\ PartialWrite(P, t) /\ (pc = "write" => P # PlannedFrames)
       /\ files' = files \cup P
       /\ torn' = torn \cup t
  /\ failed' = TRUE
  /\ answer' = Answered({ plan[i].req : i \in DOMAIN plan }, "err")
  /\ pc' = "exit"
  /\ UNCHANGED <<segs, entries, synced, up, index, active, nextSeg, nextSeq,
                 group, plan, seq, queue, observed>>

\* Fault: the receiver outlives the loop.
FlusherExitKeepsQueue ==
  /\ up /\ pc = "exit"
  /\ pc' = "stopped"
  /\ UNCHANGED <<disk, engine, group, plan, seq, callers, observed>>

\* The loop ends and drops the receiver: whoever waits in the queue gets a
\* disconnected-channel error.
FlusherExit ==
  /\ up /\ pc = "exit"
  /\ queue' = <<>>
  /\ answer' = Answered({ queue[i].req : i \in DOMAIN queue }, "err")
  /\ pc' = "stopped"
  /\ UNCHANGED <<disk, engine, group, plan, seq, observed>>

-----------------------------------------------------------------------------
(* Going down and coming back.                                             *)

\* Whatever the process had in memory is gone.
GoDown ==
  /\ restarts < MaxRestarts /\ restarts' = restarts + 1
  /\ up' = FALSE /\ failed' = FALSE /\ index' = {}
  /\ active' = 1 /\ nextSeg' = 1 /\ nextSeq' = 1
  /\ pc' = "recv" /\ group' = <<>> /\ plan' = <<>> /\ seq' = 1 /\ queue' = <<>>
  /\ UNCHANGED <<acked, exposed>>

\* Drop: the flusher finishes its group and exits, what is still queued is
\* dropped, and the active file is synced, unless that last fsync fails.
Close ==
  /\ up /\ pc \in {"recv", "stopped"}
  /\ GoDown
  /\ answer' = Answered(Pending, "err")
  /\ synced' \in {synced, synced \cup InSegment(files, active)}
  /\ UNCHANGED <<segs, entries, files, torn>>

\* The process dies; everything it has written stays in the page cache.
Kill ==
  /\ Kills /\ up
  /\ GoDown
  /\ answer' = Answered(Pending, "lost")
  /\ \E P \in SUBSET { f \in PlannedFrames : f.seg \in segs },
        t \in SUBSET {active} :
       /\ PartialWrite(P, t)
       /\ files' = files \cup P
       /\ torn' = torn \cup t
  /\ UNCHANGED <<segs, entries, synced>>

\* What can be left of the frames F after a power loss: all that was synced,
\* and of each normal segment a prefix of the rest, since it is written by
\* appends.
Survives(S, F) ==
  /\ synced \cap F \subseteq S
  /\ \A f \in S, g \in F :
       g.seg = f.seg /\ g.seg < CompactionBase /\ g.seq < f.seq => g \in S

\* The machine stops: files are cut somewhere between their synced and their
\* written length; a file whose directory entry was not synced may be gone, and
\* an unlinked file whose directory entry is still durable may be back.
LosePower ==
  /\ PowerLosses
  /\ GoDown
  /\ answer' = Answered(Pending, "lost")
  /\ \E P \in SUBSET { f \in PlannedFrames : f.seg \in segs },
        t \in SUBSET {active},
        keep \in SUBSET ((segs \ entries) \cup (entries \ segs)) :
       /\ PartialWrite(P, t)
       /\ segs' = (segs \cap entries) \cup keep
       /\ LET F == { f \in files \cup synced \cup P : f.seg \in segs' } IN
            \E S \in { S \cup (synced \cap F) : S \in SUBSET (F \ synced) } :
              /\ Survives(S, F)
              /\ files' = S
              /\ torn' \in SUBSET ((torn \cup t \cup { f.seg : f \in F \ S })
                                     \cap segs')
  /\ entries' = segs' /\ synced' = files'

NormalSegs == { s \in segs : s < CompactionBase }

\* The write target of the next run: the newest normal segment if it holds no
\* complete frame, else the normal segment with the highest sequence id.
ActiveChoice(a) ==
  LET holding == { s \in NormalSegs : InSegment(files, s) # {} } IN
  \/ /\ a \in NormalSegs \ holding
     /\ \A s \in NormalSegs : s <= a
  \/ /\ a \in holding
     /\ \E s \in holding : \A t \in NormalSegs : t <= s
     /\ \E f \in InSegment(files, a) :
          \A g \in files : g.seg \in NormalSegs =>
            g.seq < f.seq \/ (g.seq = f.seq /\ g.seg <= a)
  \/ NormalSegs = {} /\ a = 1

\* recover and new_with_tuning: replay every segment, cut the torn tail of the
\* active one (after copying the tail aside, which syncs the directory), open
\* it, creating it if it is missing, and seed the counters.
Recover ==
  /\ ~up
  /\ \E a \in segs \cup {1}, top \in {0} \cup { f.seq : f \in files },
        last \in NormalSegs \cup {1} :
       /\ ActiveChoice(a)
       /\ \A f \in files : f.seq <= top
       /\ top = 0 => files = {}
       /\ \A s \in NormalSegs \cup {a} : s <= last
       /\ last \in NormalSegs \cup {a}
       /\ segs' = segs \cup {a}
       /\ entries' = IF a \notin segs \/ a \in torn THEN segs' ELSE entries
       /\ synced' = IF a \in torn THEN synced \cup InSegment(files, a)
                                  ELSE synced
       /\ torn' = torn \ {a}
       /\ exposed' = (exposed \/ (a \in segs \ entries /\ a \notin torn))
       /\ active' = a /\ nextSeq' = top + 1 /\ nextSeg' = last + 1
  /\ index' = Newest(files)
  /\ up' = TRUE
  /\ UNCHANGED <<files, failed, flusher, callers, acked, restarts>>

-----------------------------------------------------------------------------
FlusherStep ==
  \/ Drain \/ PlanRequest \/ RefuseRequest \/ EndPlan
  \/ RollSync \/ RollId \/ RollCreate \/ RollDirSync
  \/ WriteGroup \/ SyncGroup \/ ApplyAndAck \/ EndGroup
  \/ FlusherExit

GoingDown == Close \/ Kill \/ LosePower

Next ==
  \/ \E r \in Requests : Submit(r)
  \/ FlusherStep
  \/ FlushFails
  \/ GoingDown
  \/ Recover

Spec == Init /\ [][Next]_vars

\* The flusher is a thread of its own that never waits for a caller: while the
\* engine is up it keeps running.
FairSpec == Spec /\ WF_vars(FlusherStep)

-----------------------------------------------------------------------------
(* Properties.                                                             *)

Answers == {"none", "queued", "ok", "err", "lost"}

Entry == [req : Requests, writes : Writes]
Planned == [req : Requests, writes : Writes, first : SeqId]

\* Every variable of the engine, of its flusher and of the disk has its type.
TypeOK ==
  /\ segs \subseteq Nat /\ entries \subseteq segs
  /\ files \subseteq Frame /\ synced \subseteq files /\ torn \subseteq segs
  /\ up \in BOOLEAN /\ failed \in BOOLEAN /\ index \subseteq Frame
  /\ active \in Nat /\ nextSeg \in Nat /\ nextSeq \in SeqId /\ seq \in SeqId
  /\ pc \in {"recv", "plan", "roll_sync", "roll_id", "roll_create",
             "roll_dir", "write", "sync", "apply", "exit", "stopped"}
  /\ group \in Seq(Entry) /\ plan \in Seq(Planned) /\ queue \in Seq(Entry)
  /\ answer \in [Requests -> Answers]
  /\ acked \subseteq Frame /\ exposed \in BOOLEAN /\ restarts \in Nat

\* No power loss, kill, I/O error or reopen takes a write whose caller was
\* answered with success: its frames are on the disk, covered by an fsync, and
\* so is the directory entry of their segment (README: "acknowledged only
\* after the group-commit batch is fsynced").
AckedDurable == \A f \in acked : f \in synced /\ f.seg \in entries

\* That is so in every run in which no reopen has gone on with an active
\* segment that was created but whose directory entry was never synced.
AckedDurableUnlessExposed == exposed \/ AckedDurable

\* Where the flusher stands tells how much of the group is durable: it writes
\* only to a segment with a durable directory entry, and answers only for
\* frames that are written and then synced.
GroupDurable ==
  up /\ ~exposed =>
    /\ pc \in {"recv", "plan", "roll_sync", "write", "sync", "apply"}
         => active \in entries
    /\ pc = "roll_dir" => active \in segs
    /\ pc = "sync" => PlannedFrames \subseteq files
    /\ pc = "apply" => PlannedFrames \subseteq synced

\* An engine that is down has no group, so the next one starts afresh.
DownIsIdle == ~up => pc = "recv" /\ plan = <<>>

\* The strengthening of AckedDurableUnlessExposed that is inductive.
DurabilityInv == TypeOK /\ AckedDurableUnlessExposed /\ GroupDurable /\ DownIsIdle

\* What readers see is what the log says: while the engine is up, the index is
\* exactly the replay of the files without the group that is being committed,
\* through rollovers, refused requests, failed flushes and reopens.
IndexIsReplay == up => index = Newest(files \ PlannedFrames)

\* The frames on the disk are a gap-free prefix of the total order of sequence
\* ids: a torn group loses a suffix of itself and nothing older.  That is so in
\* every run that is not exposed: two exposed reopens with a rollover between
\* them leave two files without a durable directory entry, and a power loss may
\* then take the older one only.
LogHasNoHoles ==
  exposed \/ \A f \in files : \A n \in 1..f.seq : \E g \in files : g.seq = n

\* One sequence id never names two frames, although ids are reassigned after
\* a torn group has been cut.
SequenceIdsUnique == \A f, g \in files : f.seq = g.seq => f = g

\* Recovery only ever meets a torn tail in the segment it picks as the active
\* one, the only one it truncates.
TornTailIsActive == ~up => \A s \in torn : ActiveChoice(s)

\* A caller whose request entered the channel is answered sooner or later,
\* unless the process goes down under it.
EveryRequestAnswered ==
  \A r \in Requests : answer[r] = "queued" ~> answer[r] # "queued"

-----------------------------------------------------------------------------
(* SegmentLog implements AckedLog: segments, offsets, fsyncs, rollover and *)
(* replay hidden, the engine is a log of writes that loses no acknowledged *)
(* one.  The frames of the group being committed are not in that log yet.  *)

Hide(F) == { [seq |-> f.seq, key |-> f.key, del |-> f.del, req |-> f.req]
               : f \in F }

Promise == INSTANCE AckedLog WITH
             log    <- Hide(files \ PlannedFrames),
             view   <- Hide(index),
             open   <- up,
             answer <- answer,
             acked  <- Hide(acked)

\* Every step of the engine is a step of AckedLog or changes nothing that
\* AckedLog speaks of, as long as the run is not exposed.
ImplementsAckedLog ==
  Promise!Init /\ [][exposed \/ Promise!Next]_(Promise!vars)
=============================================================================
