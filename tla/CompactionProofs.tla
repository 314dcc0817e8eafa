-------------------------- MODULE CompactionProofs --------------------------
(***************************************************************************)
(* Proofs about Compaction, for every value of its constants: no pointer   *)
(* of the index dangles, no live key loses its last record, a deleted key  *)
(* stays deleted and a restart shows what readers saw, while a compaction  *)
(* copies, publishes and unlinks files beside the flusher and either goes  *)
(* down at any point.                                                      *)
(***************************************************************************)
EXTENDS Compaction, AckedLogProofs

(* The parts of the inductive invariant.  The first two hold in every run; *)
(* the others speak of the runs without the events they name.              *)

\* Where files, victims and copies are while the compaction is at each step.
CompactorPlaced ==
  /\ LooseTypes /\ CompactionTypeOK
  /\ \A f \in files : f.seg \in segs
  /\ ~up => cpc = "idle"
  /\ cpc \in {"idle", "list", "collect"} => sources = {}
  /\ cpc \in {"idle", "list"} => victims = {}
  /\ cpc \in {"copy", "publish", "swap"} => target \in segs /\ target < nextCompact
  /\ up => active < CompactionBase /\ \A s \in segs : s < nextCompact

\* The flusher plans, writes and answers in the order of the sequence ids, also
\* when the files are no longer in that order.
FlusherInOrder ==
  /\ Shape /\ PlanInOrder /\ WaitingInOrder
  /\ \A f \in acked : answer[f.req] = "ok"
  /\ \E b \in Nat : \A f \in files \cup synced : f.seq <= b
  /\ up => /\ \A f \in files : f.seq < Low \/ f \in PlannedFrames
           /\ pc \notin {"sync", "apply", "exit", "stopped"} =>
                \A f \in files : f.seq < Low
           /\ \A f \in index \cup sources :
                ~f.del /\ f.seq < Low /\ f.seg < nextCompact

\* Unless a rollover raced a compaction: the files it removes are never the
\* active one, and every pointer into them is one it has copied and will move.
PointersInOrder ==
  "raced" \notin mishaps /\ up =>
    /\ active \notin victims /\ victims \subseteq segs
    /\ cpc = "collect" => seen \notin victims
    /\ active < nextSeg /\ \A s \in segs : s < CompactionBase => s < nextSeg
    /\ pc \notin {"roll_create", "exit", "stopped"} => active \in segs
    /\ pc \in {"sync", "apply"} => PlannedFrames \subseteq files
    /\ index \subseteq files
    /\ cpc \in {"create", "copy", "publish", "swap"} =>
         \A f \in index : f.seg \in victims => f \in sources
    /\ cpc = "create" => \A f \in sources : f.seg < nextCompact
    /\ cpc \in {"copy", "publish", "swap"} =>
         /\ target \in segs /\ target \notin victims /\ target >= CompactionBase
         /\ \A f \in sources : f.seg < target
    /\ cpc \in {"publish", "swap"} => \A f \in sources : CopyOf(f) \in files
    /\ cpc = "unlink" => \A f \in index : f.seg \notin victims

\* The frame, or a copy of it in an older segment, has a durable entry.
HasEntry(f) ==
  \/ f.seg \in entries
  \/ \E g \in files : /\ g.seq = f.seq /\ g.key = f.key
                      /\ g.seg < f.seg /\ g.seg \in entries

\* Unless also exposed: nothing is written, and no source removed, before the
\* directory entries it relies on are durable.
EntriesCover ==
  "raced" \notin mishaps /\ ~exposed =>
    /\ up /\ pc \in {"recv", "plan", "roll_sync", "write", "sync", "apply"} =>
         active \in entries
    /\ up /\ pc = "apply" => PlannedFrames \subseteq synced
    /\ \A f \in files : HasEntry(f)
    /\ cpc \in {"swap", "unlink", "finish"} => \A f \in files : f.seg \in entries
    /\ cpc = "swap" => target \in entries
    /\ cpc \in {"publish", "swap"} => \A f \in sources : CopyOf(f) \in synced

\* Is there in F a record at least as new as p?
Covered(p, F) == \E g \in F : g.key = p.key /\ g.seq >= p.seq

\* The frames that any crash leaves.
Safe == { f \in synced : f.seg \in segs \cap entries }

\* The newest acknowledged live record of a key has a successor, or itself, in
\* the index while the engine runs, and on the safe part of the disk always.
LiveOnesCovered ==
  mishaps \cap {"raced", "unsynced_replay", "reused_id"} = {} /\ ~exposed =>
    /\ up => index \subseteq Safe /\ \A p \in promised : p.del \/ Covered(p, index)
    /\ ~up => \A p \in promised : p.del \/ Covered(p, files \cap Safe)

-----------------------------------------------------------------------------
(* What the steps do.                                                      *)

\* A step of the flusher and its callers that leaves the disk and the index.
Quietly ==
  /\ segs' = segs /\ entries' = entries /\ files' = files /\ synced' = synced
  /\ index' = index /\ active' = active /\ nextSeg' = nextSeg /\ acked' = acked
  /\ promised' = promised
  /\ \/ pc' = pc /\ (pc # "plan" => plan' = plan)
     \/ pc = "recv" /\ pc' = "plan"
     \/ pc = "plan" /\ pc' \in {"roll_sync", "write"}
     \/ pc = "apply" /\ pc' = "recv"
     \/ pc = "exit" /\ pc' = "stopped"

\* The steps of the flusher and its callers, as the compaction sees them.
LEMMA EngineEffect ==
  ASSUME EngineStep
  PROVE  /\ Next /\ up /\ up' /\ exposed' = exposed
         /\ cpc' = cpc /\ seen' = seen /\ victims' = victims /\ sources' = sources
         /\ target' = target /\ nextCompact' = nextCompact /\ mishaps' = mishaps
         /\ promised' = Promised(acked' \ acked)
         /\ ~ApplyAndAck => index' = index /\ acked' = acked /\ promised' = promised
         /\ \/ Quietly
            \/ RollSync \/ RollId \/ RollCreate \/ RollDirSync
            \/ WriteGroup \/ SyncGroup \/ FlushFails \/ ApplyAndAck
<1> USE DEF disk, engine, flusher, callers, observed, compactor
<1>1. /\ \/ \E r \in Requests : Submit(r)
         \/ FlusherStep \/ FlushFails
      /\ promised' = Promised(acked' \ acked)
      /\ cpc' = cpc /\ seen' = seen /\ victims' = victims /\ sources' = sources
      /\ target' = target /\ nextCompact' = nextCompact /\ mishaps' = mishaps
  BY DEF EngineStep
<1>2. acked' = acked => promised' = promised
  BY <1>1 DEF Promised
<1>3. Next
  BY <1>1 DEF Next
<1>4. ASSUME NEW r \in Requests, Submit(r)
      PROVE  Quietly /\ up /\ up' /\ exposed' = exposed
  BY <1>2, <1>4 DEF Submit, Quietly
<1>5. CASE Drain \/ PlanRequest \/ RefuseRequest \/ EndPlan \/ EndGroup \/ FlusherExit
  <2>1. up /\ up' /\ exposed' = exposed /\ acked' = acked
    BY <1>5 DEF Drain, PlanRequest, RefuseRequest, EndPlan, EndGroup, FlusherExit
  <2>2. Quietly
    BY <1>2, <1>5, <2>1
       DEF Drain, PlanRequest, RefuseRequest, EndPlan, EndGroup, FlusherExit, Quietly
  <2> QED BY <1>1, <1>3, <2>1, <2>2 DEF Quietly
<1>6. CASE RollSync \/ RollId \/ RollCreate \/ RollDirSync
  <2>1. up /\ up' /\ exposed' = exposed /\ acked' = acked /\ index' = index
    BY <1>6 DEF RollSync, RollId, RollCreate, RollDirSync
  <2> QED BY <1>1, <1>2, <1>3, <1>6, <2>1
<1>7. CASE WriteGroup \/ SyncGroup \/ FlushFails
  <2>1. up /\ up' /\ exposed' = exposed /\ acked' = acked /\ index' = index
    BY <1>7 DEF WriteGroup, SyncGroup, FlushFails
  <2> QED BY <1>1, <1>2, <1>3, <1>7, <2>1
<1>8. CASE ApplyAndAck
  <2>1. up /\ up' /\ exposed' = exposed
    BY <1>8 DEF ApplyAndAck
  <2> QED BY <1>1, <1>3, <1>8, <2>1
<1> QED BY <1>1, <1>3, <1>4, <1>5, <1>6, <1>7, <1>8 DEF FlusherStep, Quietly

\* A step of the compaction leaves the flusher, the callers and what they rely on.
LEMMA CompactorEffect ==
  ASSUME CompactorStep
  PROVE  /\ up /\ up' = up /\ exposed' = exposed /\ acked' = acked
         /\ active' = active /\ nextSeg' = nextSeg /\ nextSeq' = nextSeq
         /\ pc' = pc /\ group' = group /\ plan' = plan /\ seq' = seq
         /\ queue' = queue /\ answer' = answer /\ promised' = promised
         /\ failed' = failed /\ restarts' = restarts
         /\ mishaps \subseteq mishaps'
         /\ PlannedFrames' = PlannedFrames /\ Low' = Low /\ Top' = Top
<1> USE DEF disk, engine, flusher, callers, observed, compactor, vars
<1>1. /\ up /\ up' = up /\ exposed' = exposed /\ acked' = acked
      /\ active' = active /\ nextSeg' = nextSeg /\ nextSeq' = nextSeq
      /\ pc' = pc /\ group' = group /\ plan' = plan /\ seq' = seq
      /\ queue' = queue /\ answer' = answer /\ promised' = promised
      /\ failed' = failed /\ restarts' = restarts
      /\ mishaps \subseteq mishaps'
  <2>1. CASE StartCompaction \/ ListSegments \/ CollectPointers \/ CreateCompacted
    BY <2>1 DEF StartCompaction, ListSegments, CollectPointers, CreateCompacted, Note
  <2>2. CASE CopyFrame \/ SyncCopies \/ PublishCompacted \/ SwapPointers
    BY <2>2 DEF CopyFrame, SyncCopies, PublishCompacted, SwapPointers
  <2>3. ASSUME NEW s \in victims, Unlink(s)
        PROVE  /\ up /\ up' = up /\ exposed' = exposed /\ acked' = acked
               /\ active' = active /\ nextSeg' = nextSeg /\ nextSeq' = nextSeq
               /\ pc' = pc /\ group' = group /\ plan' = plan /\ seq' = seq
               /\ queue' = queue /\ answer' = answer /\ promised' = promised
               /\ failed' = failed /\ restarts' = restarts
               /\ mishaps \subseteq mishaps'
    BY <2>3 DEF Unlink, Note
  <2>4. CASE Finish \/ CompactionFails
    BY <2>4 DEF Finish, CompactionFails, Note
  <2> QED BY <2>1, <2>2, <2>3, <2>4 DEF CompactorStep
<1>2. PlannedFrames' = PlannedFrames /\ Top' = Top
  BY <1>1, PlannedFramesUnchanged DEF Top
<1> QED BY <1>1, <1>2 DEF Low

\* What going down leaves: nothing of the engine and of the compaction, and on
\* the disk at most a part of the group being written besides what was there.
LEMMA DownEffect ==
  ASSUME LooseTypes, GoDownWithCompactor
  PROVE  /\ Next /\ GoingDown /\ ~up' /\ cpc' = "idle" /\ victims' = {} /\ sources' = {}
         /\ index' = {} /\ acked' = acked /\ exposed' = exposed /\ promised' = promised
         /\ nextCompact' = nextCompact /\ seen' = 0 /\ target' = 0
         /\ pc' = "recv" /\ group' = <<>> /\ plan' = <<>> /\ queue' = <<>>
         /\ mishaps' = IF cpc \in {"unlink", "finish"} THEN mishaps \cup {"half_removed"}
                                                        ELSE mishaps
         /\ \A r \in Requests : IF answer[r] = "queued" THEN answer'[r] \in {"err", "lost"}
                                                        ELSE answer'[r] = answer[r]
         /\ \E P \in SUBSET { f \in PlannedFrames : f.seg \in segs } :
              /\ P # {} => pc = "write"
              /\ \/ /\ segs' = segs /\ entries' = entries /\ files' = files \cup P
                    /\ synced' = synced \/ synced' = synced \cup InSegment(files, active)
                 \/ /\ segs \cap entries \subseteq segs' /\ segs' \subseteq segs \cup entries
                    /\ entries' = segs' /\ synced' = files'
                    /\ files' \subseteq files \cup synced \cup P
                    /\ \A f \in files' : f.seg \in segs'
                    /\ \A f \in synced : f.seg \in segs' => f \in files'
<1> USE DEF GoDown
<1>1. /\ GoingDown /\ cpc' = "idle" /\ victims' = {} /\ sources' = {}
      /\ seen' = 0 /\ target' = 0
      /\ nextCompact' = nextCompact /\ promised' = promised
      /\ mishaps' = IF cpc \in {"unlink", "finish"} THEN mishaps \cup {"half_removed"}
                                                    ELSE mishaps
  BY DEF GoDownWithCompactor, GoingDown, Quit, Note
<1>2. /\ ~up' /\ index' = {} /\ acked' = acked /\ exposed' = exposed
      /\ pc' = "recv" /\ group' = <<>> /\ plan' = <<>> /\ queue' = <<>>
  BY <1>1 DEF GoingDown, Close, Kill, LosePower
<1>3. Next
  BY <1>1 DEF Next
<1>4. \A r \in Requests : IF answer[r] = "queued" THEN answer'[r] \in {"err", "lost"}
                                                  ELSE answer'[r] = answer[r]
  <2>1. answer' = Answered(Pending, "err") \/ answer' = Answered(Pending, "lost")
    BY <1>1 DEF GoingDown, Close, Kill, LosePower
  <2> QED BY <2>1 DEF Answered, Pending
<1> DEFINE Stays(P) == /\ segs' = segs /\ entries' = entries /\ files' = files \cup P
                       /\ synced' = synced \/ synced' = synced \cup InSegment(files, active)
           Lost(P) == /\ segs \cap entries \subseteq segs' /\ segs' \subseteq segs \cup entries
                      /\ entries' = segs' /\ synced' = files'
                      /\ files' \subseteq files \cup synced \cup P
                      /\ \A f \in files' : f.seg \in segs'
                      /\ \A f \in synced : f.seg \in segs' => f \in files'
<1>5. \E P \in SUBSET { f \in PlannedFrames : f.seg \in segs } :
        (P # {} => pc = "write") /\ (Stays(P) \/ Lost(P))
  <2>1. CASE Close
    <3>1. {} \in SUBSET { f \in PlannedFrames : f.seg \in segs } /\ Stays({})
      BY <2>1 DEF Close
    <3> QED BY <3>1
  <2>2. CASE Kill
    BY <2>2 DEF Kill, PartialWrite
  <2>3. CASE LosePower
    <3>1. PICK P \in SUBSET { f \in PlannedFrames : f.seg \in segs },
               t \in SUBSET {active},
               keep \in SUBSET ((segs \ entries) \cup (entries \ segs)) :
            /\ PartialWrite(P, t)
            /\ segs' = (segs \cap entries) \cup keep
            /\ LET F == { f \in files \cup synced \cup P : f.seg \in segs' } IN
                 \E S \in { S \cup (synced \cap F) : S \in SUBSET (F \ synced) } :
                   /\ Survives(S, F)
                   /\ files' = S
      BY <2>3 DEF LosePower
    <3>2. entries' = segs' /\ synced' = files'
      BY <2>3 DEF LosePower
    <3> DEFINE F == { f \in files \cup synced \cup P : f.seg \in segs' }
    <3>3. files' \subseteq F /\ synced \cap F \subseteq files'
      <4>1. PICK S \in { S \cup (synced \cap F) : S \in SUBSET (F \ synced) } : files' = S
        BY <3>1
      <4>2. PICK R \in SUBSET (F \ synced) : S = R \cup (synced \cap F)
        BY <4>1
      <4> QED BY <4>1, <4>2
    <3>4. Lost(P)
      BY <3>1, <3>2, <3>3
    <3>5. P # {} => pc = "write"
      BY <3>1 DEF PartialWrite
    <3> QED BY <3>4, <3>5
  <2> QED BY <1>1, <2>1, <2>2, <2>3 DEF GoingDown
<1> QED BY <1>1, <1>2, <1>3, <1>4, <1>5

-----------------------------------------------------------------------------
(* Types and places.                                                       *)

\* The compaction moves frames and never their contents.
LEMMA CopyType ==
  ASSUME NEW f \in Frame, target \in Nat
  PROVE  /\ CopyOf(f) \in Frame /\ CopyOf(f).seg = target
         /\ CopyOf(f).seq = f.seq /\ CopyOf(f).key = f.key
         /\ CopyOf(f).del = f.del /\ CopyOf(f).req = f.req
BY DEF CopyOf, Frame

\* Every step of the compaction keeps the types of the engine and the disk.
LEMMA CompactorTypes ==
  ASSUME CompactorPlaced, CompactorStep
  PROVE  LooseTypes'
<1> USE DEF disk, engine, flusher, callers, observed, compactor, vars
<1>1. LooseTypes /\ CompactionTypeOK
  BY DEF CompactorPlaced
<1>2. /\ segs' \subseteq Nat /\ entries' \subseteq Nat
      /\ files' \subseteq Frame /\ synced' \subseteq Frame /\ torn' \subseteq segs'
      /\ index' \subseteq Frame
  <2>1. CASE StartCompaction \/ ListSegments \/ CollectPointers \/ CompactionFails
    BY <1>1, <2>1 DEF StartCompaction, ListSegments, CollectPointers, CompactionFails, LooseTypes
  <2>2. CASE CreateCompacted
    BY <1>1, <2>2 DEF CreateCompacted, LooseTypes, CompactionTypeOK
  <2>3. CASE CopyFrame
    <3>1. PICK f \in Readable : files' = files \cup {CopyOf(f)}
      BY <2>3 DEF CopyFrame
    <3>2. CopyOf(f) \in Frame
      BY <1>1, <3>1, CopyType DEF CompactionTypeOK, Readable
    <3> QED BY <1>1, <2>3, <3>1, <3>2 DEF CopyFrame, LooseTypes
  <2>4. CASE SyncCopies \/ PublishCompacted
    BY <1>1, <2>4 DEF SyncCopies, PublishCompacted, LooseTypes, InSegment
  <2>5. CASE SwapPointers
    <3>1. \A f \in sources : CopyOf(f) \in Frame
      BY <1>1, CopyType DEF CompactionTypeOK
    <3> QED BY <1>1, <2>5, <3>1 DEF SwapPointers, LooseTypes
  <2>6. ASSUME NEW s \in victims, Unlink(s)
        PROVE  /\ segs' \subseteq Nat /\ entries' \subseteq Nat
               /\ files' \subseteq Frame /\ synced' \subseteq Frame /\ torn' \subseteq segs'
               /\ index' \subseteq Frame
    BY <1>1, <2>6 DEF Unlink, LooseTypes
  <2>7. CASE Finish
    BY <1>1, <2>7 DEF Finish, LooseTypes
  <2> QED BY <2>1, <2>2, <2>3, <2>4, <2>5, <2>6, <2>7 DEF CompactorStep
<1>3. /\ up' = up /\ exposed' = exposed /\ acked' = acked
      /\ active' = active /\ nextSeg' = nextSeg /\ nextSeq' = nextSeq
      /\ pc' = pc /\ group' = group /\ plan' = plan /\ seq' = seq
      /\ queue' = queue /\ answer' = answer
      /\ failed' = failed /\ restarts' = restarts
  BY CompactorEffect
<1> QED BY <1>1, <1>2, <1>3 DEF LooseTypes

\* What a step of the compaction does to the places of files and copies.
LEMMA CompactorPlaces ==
  ASSUME CompactorPlaced, CompactorStep
  PROVE  CompactorPlaced'
<1> USE DEF disk, engine, flusher, callers, observed, compactor, vars
<1>1. LooseTypes' /\ LooseTypes /\ CompactionTypeOK
  BY CompactorTypes DEF CompactorPlaced
<1>2. up /\ up' /\ active' = active /\ promised' = promised /\ acked' = acked
  BY CompactorEffect
<1>3. /\ \A f \in files : f.seg \in segs
      /\ cpc \in {"idle", "list", "collect"} => sources = {}
      /\ cpc \in {"idle", "list"} => victims = {}
      /\ cpc \in {"copy", "publish", "swap"} => target \in segs /\ target < nextCompact
      /\ active < CompactionBase /\ \A s \in segs : s < nextCompact
  BY <1>2 DEF CompactorPlaced
<1> DEFINE Goal ==
      /\ CompactionTypeOK'
      /\ \A f \in files' : f.seg \in segs'
      /\ cpc' \in {"idle", "list", "collect"} => sources' = {}
      /\ cpc' \in {"idle", "list"} => victims' = {}
      /\ cpc' \in {"copy", "publish", "swap"} =>
           target' \in segs' /\ target' < nextCompact'
      /\ \A s \in segs' : s < nextCompact'
<1> SUFFICES Goal
  BY <1>1, <1>2, <1>3 DEF CompactorPlaced
<1>4. CASE StartCompaction
  <2>1. CompactionTypeOK'
    BY <1>1, <1>2, <1>4 DEF StartCompaction, CompactionTypeOK, LooseTypes
  <2> QED BY <1>3, <1>4, <2>1 DEF StartCompaction
<1>5. CASE ListSegments
  <2>1. /\ files' = files /\ segs' = segs /\ nextCompact' = nextCompact
        /\ sources' = {} /\ target' \in Nat /\ seen' \in Nat
        /\ \/ cpc' = "idle" /\ victims' = {}
           \/ cpc' = "collect" /\ victims' \subseteq segs
        /\ mishaps' \subseteq mishaps \cup {"raced"}
    BY <1>1, <1>3, <1>5 DEF ListSegments, Note, Quit, CompactionTypeOK
  <2>2. CompactionTypeOK'
    BY <1>1, <1>2, <2>1 DEF CompactionTypeOK, Mishaps, LooseTypes
  <2> QED BY <1>3, <2>1, <2>2
<1>6. CASE CollectPointers
  <2>1. CompactionTypeOK'
    BY <1>1, <1>2, <1>3, <1>6 DEF CollectPointers, CompactionTypeOK, LooseTypes
  <2> QED BY <1>3, <1>6, <2>1 DEF CollectPointers
<1>7. CASE CreateCompacted
  <2>1. CompactionTypeOK'
    <3>1. cpc' = "copy" /\ target' = nextCompact /\ nextCompact' = nextCompact + 1
      BY <1>7 DEF CreateCompacted
    <3>2. nextCompact \in Nat /\ nextCompact >= CompactionBase
      BY <1>1 DEF CompactionTypeOK
    <3>3. target' \in Nat /\ nextCompact' \in Nat /\ nextCompact' >= CompactionBase
      BY <3>1, <3>2, SegmentLogAssumption
    <3> QED BY <1>1, <1>2, <1>7, <3>1, <3>3 DEF CreateCompacted, CompactionTypeOK
  <2>2. target' \in segs' /\ target' < nextCompact' /\ \A s \in segs' : s < nextCompact'
    BY <1>1, <1>3, <1>7 DEF CreateCompacted, CompactionTypeOK, LooseTypes
  <2> QED BY <1>3, <1>7, <2>1, <2>2 DEF CreateCompacted
<1>8. CASE CopyFrame
  <2>1. PICK f \in Readable : files' = files \cup {CopyOf(f)}
    BY <1>8 DEF CopyFrame
  <2>2. CopyOf(f).seg = target /\ target \in segs
    BY <1>1, <1>3, <1>8, <2>1, CopyType DEF CopyFrame, CompactionTypeOK, Readable
  <2>3. CompactionTypeOK'
    BY <1>1, <1>2, <1>8 DEF CopyFrame, CompactionTypeOK
  <2> QED BY <1>1, <1>3, <1>8, <2>1, <2>2, <2>3 DEF CopyFrame
<1>9. CASE SyncCopies
  <2>1. CompactionTypeOK'
    <3>1. /\ cpc' \in {"publish", "idle"} /\ seen' \in {seen, 0}
          /\ victims' \in {victims, {}} /\ sources' \in {sources, {}}
          /\ target' \in {target, 0}
          /\ nextCompact' = nextCompact /\ mishaps' = mishaps
      BY <1>9 DEF SyncCopies, Quit
    <3> QED BY <1>1, <1>2, <3>1 DEF CompactionTypeOK
  <2> QED BY <1>3, <1>9, <2>1 DEF SyncCopies, Quit
<1>10. CASE PublishCompacted \/ SwapPointers
  BY <1>1, <1>2, <1>3, <1>10 DEF PublishCompacted, SwapPointers, CompactionTypeOK
<1>11. ASSUME NEW s \in victims, Unlink(s)
       PROVE  Goal
  <2>1. CompactionTypeOK'
    BY <1>1, <1>2, <1>11 DEF Unlink, CompactionTypeOK, Note, Mishaps
  <2> QED BY <1>3, <1>11, <2>1 DEF Unlink
<1>12. CASE Finish \/ CompactionFails
  <2>1. CompactionTypeOK'
    <3>1. /\ Quit /\ nextCompact' = nextCompact
          /\ mishaps' = mishaps \/ mishaps' = mishaps \cup {"half_removed"}
      BY <1>12 DEF Finish, CompactionFails, Note
    <3> QED BY <1>1, <1>2, <3>1 DEF CompactionTypeOK, Mishaps, Quit
  <2> QED BY <1>3, <1>12, <2>1 DEF Finish, CompactionFails, Quit
<1> QED BY <1>4, <1>5, <1>6, <1>7, <1>8, <1>9, <1>10, <1>11, <1>12 DEF CompactorStep

\* What a step of the flusher does to them.
LEMMA EnginePlaces ==
  ASSUME CompactorPlaced, EngineStep
  PROVE  CompactorPlaced'
<1>1. /\ LooseTypes /\ CompactionTypeOK /\ up /\ up'
      /\ cpc' = cpc /\ seen' = seen /\ victims' = victims /\ sources' = sources
      /\ target' = target /\ nextCompact' = nextCompact /\ mishaps' = mishaps
      /\ promised' = Promised(acked' \ acked)
  BY EngineEffect DEF CompactorPlaced
<1>2. LooseTypes'
  BY <1>1, EngineEffect, NextTypes
<1>3. /\ \A f \in files : f.seg \in segs
      /\ active < CompactionBase /\ \A s \in segs : s < nextCompact
      /\ nextCompact \in Nat /\ nextCompact >= CompactionBase
  BY <1>1 DEF CompactorPlaced, CompactionTypeOK
<1>4. /\ active' < CompactionBase /\ segs \subseteq segs'
      /\ \A s \in segs' : s < nextCompact
      /\ \A f \in files' : f.seg \in segs'
      /\ acked \subseteq acked'
  <2> USE SegmentLogAssumption, <1>1, <1>3 DEF disk, engine, flusher, callers, observed, LooseTypes
  <2>1. CASE Quietly
    BY <2>1 DEF Quietly
  <2>2. CASE RollSync \/ RollDirSync \/ SyncGroup
    BY <2>2 DEF RollSync, RollDirSync, SyncGroup
  <2>3. CASE RollId
    BY <2>3 DEF RollId
  <2>4. CASE RollCreate
    BY <2>4 DEF RollCreate
  <2>5. CASE WriteGroup \/ FlushFails
    BY <2>5 DEF WriteGroup, FlushFails
  <2>6. CASE ApplyAndAck
    BY <2>6 DEF ApplyAndAck
  <2> QED BY <2>1, <2>2, <2>3, <2>4, <2>5, <2>6, EngineEffect
<1>5. CompactionTypeOK'
  <2>1. promised' \subseteq acked'
    BY <1>1, <1>4 DEF Promised, CompactionTypeOK
  <2>2. cpc' = "create" => nextCompact' \notin segs'
    BY <1>1, <1>2, <1>4 DEF LooseTypes, CompactionTypeOK
  <2> QED BY <1>1, <2>1, <2>2 DEF CompactionTypeOK
<1> QED BY <1>1, <1>2, <1>4, <1>5 DEF CompactorPlaced

\* The active segment that a reopen picks is a normal one.
LEMMA ChoiceIsNormal ==
  ASSUME NEW a, ActiveChoice(a)
  PROVE  a < CompactionBase
BY SegmentLogAssumption DEF ActiveChoice, NormalSegs

LEMMA NextPlaced == CompactorPlaced /\ [CompactionNext]_cvars => CompactorPlaced'
<1> SUFFICES ASSUME CompactorPlaced, [CompactionNext]_cvars
             PROVE  CompactorPlaced'
  OBVIOUS
<1>1. LooseTypes /\ CompactionTypeOK /\ \A f \in files : f.seg \in segs
  BY DEF CompactorPlaced
<1>2. CASE GoDownWithCompactor
  <2>1. LooseTypes'
    BY <1>1, <1>2, DownEffect, NextTypes
  <2>2. \A f \in files' : f.seg \in segs'
    <3>1. PICK P \in SUBSET { f \in PlannedFrames : f.seg \in segs } :
            \/ segs' = segs /\ files' = files \cup P
            \/ \A f \in files' : f.seg \in segs'
      BY <1>1, <1>2, DownEffect
    <3> QED BY <1>1, <3>1
  <2>3. CompactionTypeOK'
    <3>1. /\ cpc' = "idle" /\ victims' = {} /\ sources' = {}
          /\ acked' = acked /\ promised' = promised
          /\ nextCompact' = nextCompact /\ seen' = 0 /\ target' = 0
          /\ mishaps' \subseteq mishaps \cup {"half_removed"}
      BY <1>1, <1>2, DownEffect
    <3> QED BY <1>1, <3>1 DEF CompactionTypeOK, Mishaps
  <2> QED BY <1>2, <2>1, <2>2, <2>3, DownEffect DEF CompactorPlaced
<1>3. CASE RecoverWithCompactor
  <2>1. Recover /\ cpc' = cpc /\ victims' = victims /\ sources' = sources
        /\ seen' = seen /\ target' = target
    BY <1>3 DEF RecoverWithCompactor, compactor
  <2>2. LooseTypes'
    BY <1>1, <2>1, NextTypes DEF Next
  <2>3. ~up /\ cpc = "idle" /\ victims = {} /\ sources = {}
    BY <2>1 DEF Recover, CompactorPlaced
  <2>4. files' = files /\ segs \subseteq segs' /\ active' < CompactionBase /\ acked' = acked
    BY <2>1, ChoiceIsNormal DEF Recover
  <2>5. nextCompact' \in Nat /\ nextCompact' >= CompactionBase
        /\ \A s \in segs' : s < nextCompact'
    BY <1>3, <2>2, SegmentLogAssumption DEF RecoverWithCompactor, LooseTypes
  <2>6. promised' \subseteq promised /\ mishaps' \subseteq Mishaps
    BY <1>1, <1>3 DEF RecoverWithCompactor, ReplayPromises, CompactionTypeOK, Mishaps
  <2>7. CompactionTypeOK'
    BY <1>1, <2>1, <2>3, <2>4, <2>5, <2>6 DEF CompactionTypeOK
  <2> QED BY <1>1, <2>1, <2>2, <2>3, <2>4, <2>5, <2>7 DEF CompactorPlaced
<1>4. CASE UNCHANGED cvars
  BY <1>1, <1>4
     DEF CompactorPlaced, cvars, vars, disk, engine, flusher, callers, observed,
         compactor, LooseTypes, CompactionTypeOK
<1> QED BY <1>2, <1>3, <1>4, CompactorPlaces, EnginePlaces DEF CompactionNext

-----------------------------------------------------------------------------
(* The order of the sequence ids.                                          *)

\* An answer that settles a request stays, and only ApplyAndAck answers "ok".
LEMMA AnswersSettle ==
  ASSUME LooseTypes, WaitingInOrder, Next
  PROVE  /\ \A r \in Requests : answer'[r] = "ok" <=>
              answer[r] = "ok" \/ (ApplyAndAck /\ r = Head(plan).req)
         /\ \A r \in Requests : answer[r] \notin {"none", "queued"} =>
              answer'[r] \notin {"none", "queued"}
<1> DEFINE Settles == 
      /\ \A r \in Requests : answer'[r] = "ok" <=> answer[r] = "ok"
      /\ \A r \in Requests : answer[r] \notin {"none", "queued"} =>
           answer'[r] \notin {"none", "queued"}
<1> USE DEF callers
<1>1. answer \in [Requests -> Answers] /\ group \in Seq(Entry) /\ queue \in Seq(Entry)
  BY DEF LooseTypes
<1>2. CASE ApplyAndAck
  BY <1>1, <1>2, AnswersOfApply DEF ApplyAndAck
<1>3. ASSUME NEW r \in Requests, Submit(r)
      PROVE  Settles
  BY <1>1, <1>3 DEF Submit
<1>4. CASE RefuseRequest
  <2>1. Head(group).req \in ReqsOf(group)
    BY <1>1, <1>4, OnceTail DEF RefuseRequest
  <2>2. answer[Head(group).req] = "queued" /\ Head(group).req \in Requests
    BY <2>1, ReqsType DEF WaitingInOrder
  <2>3. Settles
    BY <1>1, <1>4, <2>2 DEF RefuseRequest
  <2> QED BY <1>4, <2>3 DEF RefuseRequest, ApplyAndAck
<1>5. CASE FlushFails
  <2>1. answer' = Answered(ReqsOf(plan), "err") /\ pc \notin {"exit", "stopped"}
    BY <1>5 DEF FlushFails, ReqsOf
  <2>2. \A r \in ReqsOf(plan) : answer[r] = "queued"
    BY <2>1 DEF WaitingInOrder
  <2>3. Settles
    BY <1>1, <2>1, <2>2 DEF Answered
  <2> QED BY <1>5, <2>3 DEF FlushFails, ApplyAndAck
<1>6. CASE FlusherExit
  <2>1. answer' = Answered(ReqsOf(queue), "err") /\ \A r \in ReqsOf(queue) : answer[r] = "queued"
    BY <1>6 DEF FlusherExit, ReqsOf, WaitingInOrder
  <2>2. Settles
    BY <1>1, <2>1 DEF Answered
  <2> QED BY <1>6, <2>2 DEF FlusherExit, ApplyAndAck
<1>7. CASE GoingDown
  <2>1. answer' = Answered(Pending, "err") \/ answer' = Answered(Pending, "lost")
    BY <1>7 DEF GoingDown, Close, Kill, LosePower
  <2>2. Settles
    BY <1>1, <2>1 DEF Answered, Pending
  <2> QED BY <1>2, <2>2
<1>8. CASE \/ Drain \/ PlanRequest \/ EndPlan \/ RollSync \/ RollId \/ RollCreate
           \/ RollDirSync \/ WriteGroup \/ SyncGroup \/ EndGroup \/ Recover
  <2>1. answer' = answer
    BY <1>8 DEF Drain, PlanRequest, EndPlan, RollSync, RollId, RollCreate,
                RollDirSync, WriteGroup, SyncGroup, EndGroup, Recover
  <2> QED BY <1>2, <2>1
<1> QED BY <1>2, <1>3, <1>4, <1>5, <1>6, <1>7, <1>8 DEF Next, FlusherStep

\* The group moves forward: Low only grows, and a planned frame stays planned
\* until it has been applied or its segment changes before it is written.
LEMMA EngineMoves ==
  ASSUME LooseTypes, Shape, PlanInOrder, EngineStep
  PROVE  /\ Shape' /\ PlanInOrder'
         /\ Low \in SeqId /\ Low' \in SeqId /\ Low <= Low'
         /\ ~ApplyAndAck => Low' = Low
         /\ ApplyAndAck => \A f \in FramesOf(Head(plan), active) : f.seq < Low'
         /\ \A f \in PlannedFrames : \/ f \in PlannedFrames' \/ pc = "roll_id"
                                     \/ ApplyAndAck /\ f.seq < Low'
         /\ pc' \notin {"sync", "apply", "exit", "stopped"} =>
              pc \notin {"sync", "apply", "exit", "stopped"} \/ PlannedFrames = {}
         /\ files \subseteq files' /\ files' \subseteq files \cup PlannedFrames
         /\ files' # files => pc = "write" /\ pc' \in {"sync", "exit"}
         /\ synced \subseteq synced' /\ synced' \subseteq synced \cup files
<1> USE DEF disk, engine, flusher, callers, observed
<1>1. LooseTypes' /\ PlannedInOrder /\ Low \in SeqId
  BY EngineEffect, NextTypes, PlannedIds, PlanRanges
<1> DEFINE Moves ==
         /\ Shape' /\ PlanInOrder' /\ Low <= Low'
         /\ ~ApplyAndAck => Low' = Low
         /\ ApplyAndAck => \A f \in FramesOf(Head(plan), active) : f.seq < Low'
         /\ \A f \in PlannedFrames : \/ f \in PlannedFrames' \/ pc = "roll_id"
                                     \/ ApplyAndAck /\ f.seq < Low'
         /\ pc' \notin {"sync", "apply", "exit", "stopped"} =>
              pc \notin {"sync", "apply", "exit", "stopped"} \/ PlannedFrames = {}
<1>2. /\ files \subseteq files' /\ files' \subseteq files \cup PlannedFrames
      /\ files' # files => pc = "write" /\ pc' \in {"sync", "exit"}
      /\ synced \subseteq synced' /\ synced' \subseteq synced \cup files
  <2>1. CASE Quietly \/ RollSync \/ RollId \/ RollCreate \/ RollDirSync \/ SyncGroup \/ ApplyAndAck
    BY <2>1 DEF Quietly, RollSync, RollId, RollCreate, RollDirSync, SyncGroup, ApplyAndAck, InSegment
  <2>2. CASE WriteGroup \/ FlushFails
    BY <2>2 DEF WriteGroup, FlushFails, PartialWrite
  <2> QED BY <2>1, <2>2, EngineEffect
<1> SUFFICES Moves
  BY <1>1, <1>2, PlannedIdsNext DEF PlannedInOrder
<1>3. CASE ApplyAndAck
  <2>1. /\ Head(plan) \in Planned /\ Low = Head(plan).first /\ Low' = End(Head(plan))
        /\ PlanInOrder'
        /\ PlannedFrames = FramesOf(Head(plan), active) \cup PlannedFrames'
    BY <1>3, PlanShrinks
  <2>2. \A f \in FramesOf(Head(plan), active) : f.seq < Low'
    BY <2>1, FrameIds DEF LooseTypes
  <2>3. Low <= Low'
    BY <2>1, PlannedRange DEF SeqId
  <2>4. Shape' /\ pc = "apply" /\ pc' = "apply"
    BY <1>3, EngineEffect DEF ApplyAndAck, Shape
  <2> QED BY <1>3, <2>1, <2>2, <2>3, <2>4
<1>4. CASE PlanRequest
  <2>1. Low' = Low /\ PlanInOrder' /\ PlannedFrames \subseteq PlannedFrames'
    BY <1>4, PlanGrows
  <2>2. Shape' /\ pc = "plan" /\ pc' = "plan"
    BY <1>4 DEF PlanRequest, Shape
  <2> QED BY <1>1, <1>4, <2>1, <2>2 DEF PlanRequest, ApplyAndAck, SeqId
<1>5. CASE Drain
  <2>1. plan = <<>> /\ plan' = <<>> /\ seq' = nextSeq /\ pc = "recv" /\ pc' = "plan" /\ up'
    BY <1>5 DEF Drain, Shape
  <2>2. Low' = Low /\ PlannedFrames = {}
    BY <1>1, <2>1 DEF Low, Top, PlannedInOrder
  <2> QED BY <1>1, <2>1, <2>2, PlanEmpty DEF Shape, ApplyAndAck, SeqId
<1>6. CASE EndGroup
  <2>1. plan = <<>> /\ plan' = <<>> /\ nextSeq' = seq /\ pc = "apply" /\ pc' = "recv" /\ up' /\ group' = group
    BY <1>6 DEF EndGroup
  <2>2. Low' = Low /\ PlannedFrames = {}
    BY <1>1, <2>1 DEF Low, Top, PlannedInOrder
  <2> QED BY <1>1, <2>1, <2>2, PlanEmpty DEF Shape, ApplyAndAck, SeqId
<1>7. CASE \/ \E r \in Requests : Submit(r)
           \/ RefuseRequest \/ EndPlan \/ FlusherExit \/ FlushFails
           \/ RollSync \/ RollId \/ RollCreate \/ RollDirSync \/ WriteGroup \/ SyncGroup
  <2>1. /\ plan' = plan /\ seq' = seq /\ up'
        /\ nextSeq' = nextSeq /\ (pc = "recv" <=> pc' = "recv")
        /\ pc # "apply" \/ pc' = "apply"
    BY <1>7 DEF Submit, RefuseRequest, EndPlan, FlusherExit, FlushFails, RollSync, RollId,
                RollCreate, RollDirSync, WriteGroup, SyncGroup
  <2>2. ~ApplyAndAck
    <3>1. plan # Tail(plan) \/ plan = <<>>
      BY DEF LooseTypes
    <3> QED BY <2>1, <3>1 DEF ApplyAndAck
  <2>3. Low' = Low
    BY <2>1 DEF Low, Top
  <2>4. pc = "roll_id" \/ active' = active
    BY <1>7 DEF Submit, RefuseRequest, EndPlan, FlusherExit, FlushFails, RollSync, RollId,
                RollCreate, RollDirSync, WriteGroup, SyncGroup
  <2>5. pc' \notin {"sync", "apply", "exit", "stopped"} =>
          pc \notin {"sync", "apply", "exit", "stopped"}
    BY <1>7 DEF Submit, RefuseRequest, EndPlan, FlusherExit, FlushFails, RollSync, RollId,
                RollCreate, RollDirSync, WriteGroup, SyncGroup
  <2>6. Shape'
    BY <1>7, <2>1
       DEF Shape, Submit, RefuseRequest, EndPlan, FlusherExit, FlushFails, RollSync, RollId,
           RollCreate, RollDirSync, WriteGroup, SyncGroup
  <2> QED BY <1>1, <2>1, <2>2, <2>3, <2>4, <2>5, <2>6, PlanStays, PlannedFramesUnchanged DEF SeqId
<1> QED BY <1>3, <1>4, <1>5, <1>6, <1>7 DEF EngineStep, FlusherStep

\* A bound on the sequence ids on the disk survives a step that adds frames
\* below another bound.
LEMMA BoundMoves ==
  ASSUME LooseTypes, NEW X \in SUBSET Frame,
         \E b \in Nat : \A f \in files \cup synced : f.seq <= b,
         \E b \in Nat : \A f \in X : f.seq <= b,
         files' \cup synced' \subseteq files \cup synced \cup X
  PROVE  \E b \in Nat : \A f \in files' \cup synced' : f.seq <= b
<1>1. PICK b \in Nat : \A f \in files \cup synced : f.seq <= b
  OBVIOUS
<1>2. PICK c \in Nat : \A f \in X : f.seq <= c
  OBVIOUS
<1>3. \A f \in files \cup synced \cup X : f.seq \in Nat
  BY DEF LooseTypes, Frame, SeqId
<1>4. \A f \in files' \cup synced' : f.seq <= b + c
  BY <1>1, <1>2, <1>3
<1> QED BY <1>4

\* While the engine is up, the frames below Low are those not being committed.
LEMMA CommittedIsLow ==
  ASSUME CompactorPlaced, FlusherInOrder, up
  PROVE  /\ PlannedInOrder /\ Low \in SeqId
         /\ Committed = { f \in files : f.seq < Low }
<1>1. PlannedInOrder /\ Low \in SeqId
  BY PlannedIds, PlanRanges DEF CompactorPlaced, FlusherInOrder
<1>2. \A f \in PlannedFrames : ~(f.seq < Low)
  BY <1>1 DEF PlannedInOrder, SeqId
<1>3. \A f \in files : f.seq < Low \/ f \in PlannedFrames
  BY DEF FlusherInOrder
<1> QED BY <1>1, <1>2, <1>3 DEF Committed

LEMMA CommittedIsLowNext ==
  ASSUME CompactorPlaced', FlusherInOrder', up'
  PROVE  /\ PlannedInOrder' /\ Low' \in SeqId
         /\ Committed' = { f \in files' : f.seq < Low' }
<1>1. PlannedInOrder' /\ Low' \in SeqId
  BY PlannedIdsNext DEF CompactorPlaced, FlusherInOrder, PlannedInOrder
<1>2. \A f \in PlannedFrames' : ~(f.seq < Low')
  BY <1>1 DEF PlannedInOrder, SeqId
<1>3. \A f \in files' : f.seq < Low' \/ f \in PlannedFrames'
  BY DEF FlusherInOrder
<1> QED BY <1>1, <1>2, <1>3 DEF Committed

\* Applying writes to the index brings in only frames of these writes.
LEMMA ApplyBrings ==
  ASSUME NEW I, NEW F
  PROVE  /\ Apply(I, F) \subseteq I \cup F
         /\ \A f \in Newest(F) : f \in F /\ ~f.del
         /\ \A f \in Apply(I, F) : f \in I \/ ~f.del
BY DEF Apply, Newest

LEMMA EngineOrder ==
  ASSUME CompactorPlaced, CompactorPlaced', FlusherInOrder, EngineStep
  PROVE  FlusherInOrder'
<1>1. /\ up /\ up' /\ LooseTypes /\ LooseTypes' /\ PlanInOrder /\ Shape /\ WaitingInOrder
      /\ Next /\ sources' = sources /\ nextCompact' = nextCompact
  BY EngineEffect DEF CompactorPlaced, FlusherInOrder
<1>2. PlannedInOrder /\ Low \in SeqId /\ PlannedInOrder' /\ Low' \in SeqId
  BY <1>1, EngineMoves, PlannedIds, PlannedIdsNext DEF PlannedInOrder
<1>3. WaitingInOrder' /\ Shape' /\ PlanInOrder'
  BY <1>1, NextWaiting, EngineMoves
<1>4. \A f \in acked' : answer'[f.req] = "ok"
  <2>1. \A f \in acked : f.req \in Requests /\ answer[f.req] = "ok"
    BY <1>1 DEF LooseTypes, Frame, FlusherInOrder
  <2>2. CASE ApplyAndAck
    <3>1. acked' = acked \cup FramesOf(Head(plan), active)
      BY <2>2 DEF ApplyAndAck
    <3> QED BY <1>1, <2>1, <2>2, <3>1, AnswersOfApply, AnswersSettle
  <2>3. CASE ~ApplyAndAck
    BY <1>1, <2>1, <2>3, AnswersSettle, EngineEffect
  <2> QED BY <2>2, <2>3
<1>5. \E b \in Nat : \A f \in files' \cup synced' : f.seq <= b
  <2>1. files' \cup synced' \subseteq files \cup synced \cup PlannedFrames
    BY <1>1, EngineMoves
  <2>2. PlannedFrames \in SUBSET Frame /\ \A f \in PlannedFrames : f.seq < seq /\ f.seq \in Nat
    BY <1>2 DEF PlannedInOrder, SeqId
  <2>3. \E b \in Nat : \A f \in PlannedFrames : f.seq <= b
    <3>1. seq \in Nat /\ \A f \in PlannedFrames : f.seq <= seq
      BY <1>1, <2>2 DEF LooseTypes, SeqId
    <3> QED BY <3>1
  <2> QED BY <1>1, <2>1, <2>2, <2>3, BoundMoves DEF FlusherInOrder
<1>6. \A f \in files' : f.seq \in Nat
  BY <1>1 DEF LooseTypes, Frame, SeqId
<1>7. \A f \in files' : f.seq < Low' \/ f \in PlannedFrames'
  <2> SUFFICES ASSUME NEW f \in files', f \notin PlannedFrames'
               PROVE  f.seq < Low'
    OBVIOUS
  <2>1. Low <= Low' /\ Low \in Nat /\ Low' \in Nat
    BY <1>1, <1>2, EngineMoves DEF SeqId
  <2>2. CASE f \in PlannedFrames /\ pc = "roll_id"
    <3>1. f \in files /\ f.seq < Low
      BY <1>1, <2>2, EngineMoves DEF FlusherInOrder
    <3> QED BY <1>6, <2>1, <3>1
  <2>3. CASE f \in PlannedFrames /\ pc # "roll_id"
    BY <1>1, <2>3, EngineMoves
  <2>4. CASE f \notin PlannedFrames
    <3>1. f \in files /\ f.seq < Low
      BY <1>1, <2>4, EngineMoves DEF FlusherInOrder
    <3> QED BY <1>6, <2>1, <3>1
  <2> QED BY <2>2, <2>3, <2>4
<1>8. pc' \notin {"sync", "apply", "exit", "stopped"} => \A f \in files' : f.seq < Low'
  <2> SUFFICES ASSUME pc' \notin {"sync", "apply", "exit", "stopped"}, NEW f \in files'
               PROVE  f.seq < Low'
    OBVIOUS
  <2>1. files' = files
    BY <1>1, EngineMoves
  <2>2. f.seq < Low
    BY <1>1, <2>1, EngineMoves DEF FlusherInOrder
  <2> QED BY <1>1, <1>2, <1>6, <2>2, EngineMoves DEF SeqId
<1>9. \A f \in index' \cup sources' : ~f.del /\ f.seq < Low' /\ f.seg < nextCompact'
  <2> SUFFICES ASSUME NEW f \in index' \cup sources'
               PROVE  ~f.del /\ f.seq < Low' /\ f.seg < nextCompact'
    OBVIOUS
  <2>1. CASE f \in index \cup sources
    <3>1. ~f.del /\ f.seq < Low /\ f.seg < nextCompact
      BY <1>1, <2>1 DEF FlusherInOrder
    <3>2. f.seq \in Nat
      BY <1>1, <2>1 DEF LooseTypes, CompactorPlaced, CompactionTypeOK, Frame, SeqId
    <3> QED BY <1>1, <1>2, <3>1, <3>2, EngineMoves DEF SeqId
  <2>2. CASE f \notin index \cup sources
    <3>1. ApplyAndAck
      BY <1>1, <2>2, EngineEffect
    <3>2. f \in FramesOf(Head(plan), active) /\ ~f.del
      BY <1>1, <2>2, <3>1, ApplyBrings DEF ApplyAndAck
    <3>3. f.seq < Low'
      BY <1>1, <3>1, <3>2, EngineMoves
    <3>4. f.seg = active
      BY <1>1, <3>1, <3>2, PlanShrinks, FramesOfType DEF LooseTypes
    <3>5. active < CompactionBase /\ CompactionBase <= nextCompact /\ active \in Nat
          /\ nextCompact \in Nat
      BY <1>1 DEF CompactorPlaced, CompactionTypeOK, LooseTypes
    <3> QED BY <1>1, <3>2, <3>3, <3>4, <3>5, SegmentLogAssumption
  <2> QED BY <2>1, <2>2
<1> QED BY <1>1, <1>3, <1>4, <1>5, <1>7, <1>8, <1>9 DEF FlusherInOrder

\* A step of the compaction on the disk and the index: what it adds are copies.
LEMMA CompactorAdds ==
  ASSUME CompactorPlaced, CompactorStep
  PROVE  /\ \A f \in files' : f \in files \/ (cpc = "copy" /\ \E g \in sources \cap files : f = CopyOf(g))
         /\ synced' \subseteq synced \cup files
         /\ \A f \in index' : f \in index \/ (cpc = "swap" /\ \E g \in sources \cap index : f = CopyOf(g))
         /\ sources' \subseteq sources \cup index
         /\ nextCompact' \in Nat /\ nextCompact <= nextCompact'
<1> USE DEF disk, engine, flusher, callers, observed, compactor, vars
<1>1. nextCompact \in Nat
  BY DEF CompactorPlaced, CompactionTypeOK
<1>2. CASE StartCompaction \/ CollectPointers \/ CreateCompacted \/ PublishCompacted
  BY <1>1, <1>2 DEF StartCompaction, CollectPointers, CreateCompacted, PublishCompacted
<1>3. CASE CopyFrame \/ SyncCopies
  BY <1>1, <1>3 DEF CopyFrame, Readable, SyncCopies, InSegment, Quit
<1>4. CASE SwapPointers
  BY <1>1, <1>4 DEF SwapPointers
<1>5. CASE ListSegments \/ Finish \/ CompactionFails
  BY <1>1, <1>5 DEF ListSegments, Finish, CompactionFails, Quit
<1>6. ASSUME NEW s \in victims, Unlink(s)
      PROVE  files' \subseteq files /\ synced' = synced /\ index' = index
             /\ sources' = sources /\ nextCompact' = nextCompact
  BY <1>6 DEF Unlink
<1> QED BY <1>1, <1>2, <1>3, <1>4, <1>5, <1>6 DEF CompactorStep

LEMMA CompactorOrder ==
  ASSUME CompactorPlaced, FlusherInOrder, CompactorStep
  PROVE  FlusherInOrder'
<1>1. /\ up /\ up' = up /\ acked' = acked /\ pc' = pc /\ group' = group /\ plan' = plan /\ seq' = seq
      /\ queue' = queue /\ answer' = answer
      /\ PlannedFrames' = PlannedFrames /\ Low' = Low
  BY CompactorEffect
<1>2. LooseTypes /\ LooseTypes' /\ sources \subseteq Frame /\ target \in Nat
  BY CompactorTypes DEF CompactorPlaced, CompactionTypeOK
<1>3. Shape' /\ PlanInOrder' /\ WaitingInOrder'
  BY <1>1, PlanStays, SameWaiting DEF FlusherInOrder, Shape
<1>4. \A f \in sources : /\ CopyOf(f).seq = f.seq /\ CopyOf(f).seg = target
                         /\ CopyOf(f).del = f.del
  BY <1>2, CopyType
<1>5. \E b \in Nat : \A f \in files' \cup synced' : f.seq <= b
  BY <1>4, CompactorAdds DEF FlusherInOrder
<1>6. Low \in Nat /\ \A f \in sources : f.seq < Low /\ ~f.del
  BY <1>1, <1>2, PlanRanges DEF FlusherInOrder, SeqId
<1>7. \A f \in files' : \/ f \in files
                        \/ f.seq < Low
  BY <1>4, <1>6, CompactorAdds
<1>8. \A f \in index' \cup sources' : ~f.del /\ f.seq < Low' /\ f.seg < nextCompact'
  <2> SUFFICES ASSUME NEW f \in index' \cup sources'
               PROVE  ~f.del /\ f.seq < Low' /\ f.seg < nextCompact'
    OBVIOUS
  <2>1. nextCompact \in Nat /\ nextCompact' \in Nat /\ nextCompact <= nextCompact'
    BY CompactorAdds DEF CompactorPlaced, CompactionTypeOK
  <2>2. CASE f \in index \cup sources
    <3>1. ~f.del /\ f.seq < Low /\ f.seg < nextCompact
      BY <1>1, <2>2 DEF FlusherInOrder
    <3>2. f.seg \in Nat
      BY <1>2, <2>2 DEF LooseTypes, Frame
    <3> QED BY <1>1, <2>1, <3>1, <3>2
  <2>3. CASE f \notin index \cup sources
    <3>1. PICK g \in sources \cap index : cpc = "swap" /\ f = CopyOf(g)
      BY <2>3, CompactorAdds
    <3>2. target < nextCompact
      BY <3>1 DEF CompactorPlaced
    <3> QED BY <1>1, <1>2, <1>4, <1>6, <2>1, <3>1, <3>2
  <2> QED BY <2>2, <2>3
<1> QED BY <1>1, <1>3, <1>5, <1>7, <1>8 DEF FlusherInOrder

LEMMA NextOrder ==
  CompactorPlaced /\ FlusherInOrder /\ [CompactionNext]_cvars => FlusherInOrder'
<1> SUFFICES ASSUME CompactorPlaced, FlusherInOrder, [CompactionNext]_cvars
             PROVE  FlusherInOrder'
  OBVIOUS
<1>1. LooseTypes /\ CompactorPlaced' /\ LooseTypes' /\ WaitingInOrder
  BY NextPlaced DEF CompactorPlaced, FlusherInOrder
<1>2. CASE GoDownWithCompactor
  <2>1. /\ Next /\ ~up' /\ pc' = "recv" /\ group' = <<>> /\ plan' = <<>> /\ queue' = <<>>
        /\ acked' = acked
    BY <1>1, <1>2, DownEffect
  <2>2. Shape' /\ PlanInOrder' /\ WaitingInOrder'
    BY <1>1, <2>1, PlanEmpty, NextWaiting DEF Shape
  <2>3. \A f \in acked' : answer'[f.req] = "ok"
    BY <1>1, <2>1, AnswersSettle DEF FlusherInOrder, LooseTypes, Frame
  <2>4. \E b \in Nat : \A f \in files' \cup synced' : f.seq <= b
    <3>1. PlannedInOrder
      BY <1>1, PlannedIds DEF FlusherInOrder
    <3>2. PlannedFrames \in SUBSET Frame /\ \A f \in PlannedFrames : f.seq < seq /\ f.seq \in Nat
      BY <3>1 DEF PlannedInOrder, SeqId
    <3>3. \E b \in Nat : \A f \in PlannedFrames : f.seq <= b
      <4>1. seq \in Nat /\ \A f \in PlannedFrames : f.seq <= seq
        BY <1>1, <3>2 DEF LooseTypes, SeqId
      <4> QED BY <4>1
    <3>4. PICK P \in SUBSET { f \in PlannedFrames : f.seg \in segs } :
              \/ /\ files' = files \cup P
                 /\ synced' = synced \/ synced' = synced \cup InSegment(files, active)
              \/ synced' = files' /\ files' \subseteq files \cup synced \cup P
      BY <1>1, <1>2, DownEffect
    <3>5. files' \cup synced' \subseteq files \cup synced \cup PlannedFrames
      BY <3>4 DEF InSegment
    <3> QED BY <1>1, <3>2, <3>3, <3>5, BoundMoves DEF FlusherInOrder
  <2> QED BY <2>1, <2>2, <2>3, <2>4 DEF FlusherInOrder
<1>3. CASE RecoverWithCompactor
  <2>1. Recover /\ sources' = sources
    BY <1>3 DEF RecoverWithCompactor, compactor
  <2>2. /\ ~up /\ up' /\ files' = files /\ pc' = pc /\ plan' = plan /\ group' = group
        /\ queue' = queue /\ answer' = answer /\ acked' = acked /\ index' = Newest(files)
        /\ synced' \subseteq synced \cup files
    BY <2>1 DEF Recover, flusher, callers, InSegment
  <2>3. pc = "recv" /\ plan = <<>> /\ group = <<>> /\ queue = <<>> /\ sources = {}
    BY <2>2 DEF FlusherInOrder, Shape, CompactorPlaced
  <2>4. Shape' /\ PlanInOrder' /\ WaitingInOrder'
    BY <2>2, <2>3, PlanEmpty, SameWaiting DEF Shape, FlusherInOrder
  <2>5. \A f \in files : f.seq < Low'
    <3>1. \E top \in {0} \cup { f.seq : f \in files } :
            nextSeq' = top + 1 /\ \A f \in files : f.seq <= top
      BY <2>1 DEF Recover
    <3>2. \A f \in files : f.seq \in Nat
      BY <1>1 DEF LooseTypes, Frame, SeqId
    <3>3. Low' = nextSeq'
      BY <2>2, <2>3 DEF Low, Top
    <3> QED BY <3>1, <3>2, <3>3
  <2>6. \A f \in files' : f.seg \in segs' /\ f.seg < nextCompact'
    BY <1>1, <2>2 DEF CompactorPlaced
  <2>7. \A f \in index' : f \in files /\ ~f.del
    BY <2>2 DEF Newest
  <2>8. \E b \in Nat : \A f \in files' \cup synced' : f.seq <= b
    BY <2>2 DEF FlusherInOrder
  <2> QED BY <2>1, <2>2, <2>3, <2>4, <2>5, <2>6, <2>7, <2>8 DEF FlusherInOrder
<1>4. CASE UNCHANGED cvars
  <2>1. /\ up' = up /\ pc' = pc /\ plan' = plan /\ group' = group /\ queue' = queue
        /\ answer' = answer /\ acked' = acked /\ files' = files /\ synced' = synced
        /\ index' = index /\ sources' = sources /\ seq' = seq /\ nextSeq' = nextSeq
        /\ active' = active /\ nextCompact' = nextCompact
    BY <1>4 DEF cvars, vars, disk, engine, flusher, callers, observed, compactor
  <2>2. Low' = Low /\ PlannedFrames' = PlannedFrames
    BY <2>1, PlannedFramesUnchanged DEF Low, Top
  <2> QED BY <2>1, <2>2, PlanStays, SameWaiting DEF FlusherInOrder, Shape
<1> QED BY <1>1, <1>2, <1>3, <1>4, EngineOrder, CompactorOrder DEF CompactionNext

-----------------------------------------------------------------------------
(* Pointers and the files they need.                                       *)

LEMMA EnginePointers ==
  ASSUME CompactorPlaced, CompactorPlaced', FlusherInOrder, PointersInOrder, EngineStep
  PROVE  PointersInOrder'
<1> SUFFICES ASSUME "raced" \notin mishaps'
             PROVE  PointersInOrder'
  BY DEF PointersInOrder
<1>1. /\ up /\ up' /\ LooseTypes /\ LooseTypes' /\ "raced" \notin mishaps
      /\ cpc' = cpc /\ seen' = seen /\ victims' = victims /\ sources' = sources
      /\ target' = target /\ nextCompact' = nextCompact
      /\ \A f \in sources : CopyOf(f)' = CopyOf(f)
  BY EngineEffect DEF CompactorPlaced, CopyOf
<1>2. /\ active \notin victims /\ victims \subseteq segs
      /\ cpc = "collect" => seen \notin victims
      /\ active < nextSeg /\ \A s \in segs : s < CompactionBase => s < nextSeg
      /\ pc \notin {"roll_create", "exit", "stopped"} => active \in segs
      /\ pc \in {"sync", "apply"} => PlannedFrames \subseteq files
      /\ index \subseteq files
      /\ cpc \in {"create", "copy", "publish", "swap"} =>
           \A f \in index : f.seg \in victims => f \in sources
      /\ cpc = "create" => \A f \in sources : f.seg < nextCompact
      /\ cpc \in {"copy", "publish", "swap"} =>
           /\ target \in segs /\ target \notin victims /\ target >= CompactionBase
           /\ \A f \in sources : f.seg < target
      /\ cpc \in {"publish", "swap"} => \A f \in sources : CopyOf(f) \in files
      /\ cpc = "unlink" => \A f \in index : f.seg \notin victims
  BY <1>1 DEF PointersInOrder
<1>3. files \subseteq files' /\ segs \subseteq segs'
  <2>1. segs \subseteq segs'
    BY EngineEffect
       DEF Quietly, RollSync, RollId, RollCreate, RollDirSync, WriteGroup, SyncGroup,
           FlushFails, ApplyAndAck, disk, engine, flusher, callers, observed
  <2> QED BY <1>1, <2>1, EngineMoves DEF FlusherInOrder
<1> DEFINE Kept ==
      /\ active' \notin victims
      /\ active' < nextSeg' /\ \A s \in segs' : s < CompactionBase => s < nextSeg'
      /\ pc' \notin {"roll_create", "exit", "stopped"} => active' \in segs'
      /\ pc' \in {"sync", "apply"} => PlannedFrames' \subseteq files'
      /\ \A f \in index' : f \in index \/ (f \in files' /\ f.seg = active)
<1> SUFFICES Kept
  BY <1>1, <1>2, <1>3 DEF PointersInOrder
<1> USE DEF disk, engine, flusher, callers, observed
<1>4. CASE Quietly
  <2>1. pc' \in {"sync", "apply"} => PlannedFrames' = PlannedFrames
    BY <1>4, PlannedFramesUnchanged DEF Quietly
  <2>2. pc' \in {"sync", "apply"} => pc' = pc
    BY <1>4 DEF Quietly
  <2> QED BY <1>2, <1>4, <2>1, <2>2 DEF Quietly
<1>5. CASE RollSync \/ RollDirSync
  BY <1>2, <1>5 DEF RollSync, RollDirSync
<1>6. CASE RollId
  <2>1. nextSeg \notin victims
    BY <1>1, <1>2, <1>6 DEF RollId, LooseTypes
  <2> QED BY <1>1, <1>2, <1>6, <2>1 DEF RollId, LooseTypes
<1>7. CASE RollCreate
  BY <1>2, <1>7 DEF RollCreate
<1>8. CASE WriteGroup
  <2>1. PlannedFrames' = PlannedFrames
    BY <1>8, PlannedFramesUnchanged DEF WriteGroup
  <2>2. \A f \in PlannedFrames : f.seg = active
    BY <1>1, PlannedFramesType DEF LooseTypes
  <2> QED BY <1>2, <1>8, <2>1, <2>2 DEF WriteGroup
<1>9. CASE SyncGroup
  <2>1. PlannedFrames' = PlannedFrames
    BY <1>9, PlannedFramesUnchanged DEF SyncGroup
  <2> QED BY <1>2, <1>9, <2>1 DEF SyncGroup
<1>10. CASE FlushFails
  BY <1>2, <1>10 DEF FlushFails
<1>11. CASE ApplyAndAck
  <2>1. PlannedFrames = FramesOf(Head(plan), active) \cup PlannedFrames'
    BY <1>1, <1>11, PlanShrinks DEF FlusherInOrder
  <2>2. \A f \in PlannedFrames : f.seg = active
    BY <1>1, PlannedFramesType DEF LooseTypes
  <2>3. index' \subseteq index \cup FramesOf(Head(plan), active)
    BY <1>11, ApplyBrings DEF ApplyAndAck
  <2> QED BY <1>2, <1>11, <2>1, <2>2, <2>3 DEF ApplyAndAck
<1> QED BY <1>4, <1>5, <1>6, <1>7, <1>8, <1>9, <1>10, <1>11, EngineEffect

LEMMA CompactorPointers ==
  ASSUME CompactorPlaced, CompactorPlaced', FlusherInOrder, PointersInOrder, CompactorStep
  PROVE  PointersInOrder'
<1> SUFFICES ASSUME "raced" \notin mishaps'
             PROVE  PointersInOrder'
  BY DEF PointersInOrder
<1>1. /\ up /\ up' /\ LooseTypes /\ CompactionTypeOK /\ "raced" \notin mishaps
      /\ active' = active /\ nextSeg' = nextSeg /\ pc' = pc /\ PlannedFrames' = PlannedFrames
      /\ \A f \in files : f.seg \in segs
      /\ \A f \in index : f.seg < nextCompact
  BY CompactorEffect DEF CompactorPlaced, FlusherInOrder
<1>2. /\ active \notin victims /\ victims \subseteq segs
      /\ cpc = "collect" => seen \notin victims
      /\ active < nextSeg /\ \A s \in segs : s < CompactionBase => s < nextSeg
      /\ pc \notin {"roll_create", "exit", "stopped"} => active \in segs
      /\ pc \in {"sync", "apply"} => PlannedFrames \subseteq files
      /\ index \subseteq files
      /\ cpc \in {"create", "copy", "publish", "swap"} =>
           \A f \in index : f.seg \in victims => f \in sources
      /\ cpc = "create" => \A f \in sources : f.seg < nextCompact
      /\ cpc \in {"copy", "publish", "swap"} =>
           /\ target \in segs /\ target \notin victims /\ target >= CompactionBase
           /\ \A f \in sources : f.seg < target
      /\ cpc \in {"publish", "swap"} => \A f \in sources : CopyOf(f) \in files
      /\ cpc = "unlink" => \A f \in index : f.seg \notin victims
  BY <1>1 DEF PointersInOrder
<1>3. active \in Nat /\ \A f \in PlannedFrames : f.seg = active
  BY <1>1, PlannedFramesType DEF LooseTypes
<1>4. nextCompact \in Nat /\ nextCompact >= CompactionBase /\ nextCompact \notin victims
      /\ ~(nextCompact < CompactionBase) /\ \A s \in segs : s # nextCompact \/ cpc # "create"
  BY <1>1, <1>2, SegmentLogAssumption DEF CompactionTypeOK, CompactorPlaced, LooseTypes
<1> DEFINE Kept ==
      /\ active \notin victims' /\ victims' \subseteq segs'
      /\ cpc' = "collect" => seen' \notin victims'
      /\ \A s \in segs' : s < CompactionBase => s \in segs
      /\ active \in segs => active \in segs'
      /\ \A f \in files : f.seg = active => f \in files'
      /\ index' \subseteq files'
      /\ cpc' \in {"create", "copy", "publish", "swap"} =>
           \A f \in index' : f.seg \in victims' => f \in sources'
      /\ cpc' = "create" => \A f \in sources' : f.seg < nextCompact'
      /\ cpc' \in {"copy", "publish", "swap"} =>
           /\ target' \in segs' /\ target' \notin victims' /\ target' >= CompactionBase
           /\ \A f \in sources' : f.seg < target'
      /\ cpc' \in {"publish", "swap"} => \A f \in sources' : CopyOf(f)' \in files'
      /\ cpc' = "unlink" => \A f \in index' : f.seg \notin victims'
<1> SUFFICES Kept
  BY <1>1, <1>2, <1>3 DEF PointersInOrder
<1> USE DEF disk, engine, flusher, callers, observed, compactor, vars
<1>5. CASE StartCompaction
  <2>1. victims = {}
    BY <1>5 DEF StartCompaction, CompactorPlaced
  <2> QED BY <1>2, <1>5, <2>1 DEF StartCompaction
<1>6. CASE ListSegments
  <2>1. seen = active
    BY <1>6 DEF ListSegments, Note
  <2> QED BY <1>2, <1>6, <2>1 DEF ListSegments, Quit
<1>7. CASE CollectPointers
  BY <1>1, <1>2, <1>7 DEF CollectPointers
<1>8. CASE CreateCompacted
  BY <1>2, <1>4, <1>8 DEF CreateCompacted
<1>9. CASE CopyFrame
  BY <1>2, <1>9 DEF CopyFrame
<1>10. CASE SyncCopies
  <2>1. CASE sources \subseteq files
    <3>1. \A f \in sources : CopyOf(f) \in files /\ CopyOf(f)' = CopyOf(f)
      BY <1>10, <2>1 DEF SyncCopies, Readable, CopyOf
    <3> QED BY <1>2, <1>10, <2>1, <3>1 DEF SyncCopies
  <2>2. CASE ~(sources \subseteq files)
    BY <1>2, <1>10, <2>2 DEF SyncCopies, Quit
  <2> QED BY <2>1, <2>2
<1>11. CASE PublishCompacted
  <2>1. \A f \in sources : CopyOf(f)' = CopyOf(f)
    BY <1>11 DEF PublishCompacted, CopyOf
  <2> QED BY <1>2, <1>11, <2>1 DEF PublishCompacted
<1>12. CASE SwapPointers
  <2>1. \A f \in sources : CopyOf(f) \in files /\ CopyOf(f).seg = target
    BY <1>1, <1>2, <1>12, CopyType DEF SwapPointers, CompactionTypeOK
  <2> QED BY <1>2, <1>12, <2>1 DEF SwapPointers
<1>13. ASSUME NEW s \in victims, Unlink(s)
       PROVE  Kept
  <2>1. /\ cpc = "unlink" /\ victims' = victims \ {s} /\ cpc' \in {"finish", "unlink"}
        /\ segs \ {s} \subseteq segs' /\ segs' \subseteq segs
        /\ files' = { f \in files : f.seg \in segs' } /\ index' = index
    BY <1>13 DEF Unlink
  <2>2. \A f \in index : f.seg \in segs'
    BY <1>1, <1>2, <2>1
  <2>3. \A f \in files : f.seg = active => f.seg \in segs'
    BY <1>1, <1>2, <2>1
  <2> QED BY <1>2, <2>1, <2>2, <2>3
<1>14. CASE Finish \/ CompactionFails
  BY <1>2, <1>14 DEF Finish, CompactionFails, Quit
<1> QED BY <1>5, <1>6, <1>7, <1>8, <1>9, <1>10, <1>11, <1>12, <1>13, <1>14 DEF CompactorStep

LEMMA NextPointers ==
  ASSUME CompactorPlaced, FlusherInOrder, PointersInOrder, [CompactionNext]_cvars
  PROVE  PointersInOrder'
<1>1. LooseTypes /\ CompactorPlaced' /\ LooseTypes'
  BY NextPlaced DEF CompactorPlaced
<1>2. CASE GoDownWithCompactor
  BY <1>1, <1>2, DownEffect DEF PointersInOrder
<1>3. CASE RecoverWithCompactor
  <2>1. /\ Recover /\ cpc = "idle" /\ cpc' = "idle" /\ sources' = {} /\ victims' = {}
        /\ pc = "recv"
    BY <1>3 DEF RecoverWithCompactor, compactor, Recover, CompactorPlaced, FlusherInOrder, Shape
  <2>2. \E a \in segs \cup {1}, last \in NormalSegs \cup {1} :
          /\ \A s \in NormalSegs \cup {a} : s <= last
          /\ last \in NormalSegs \cup {a}
          /\ segs' = segs \cup {a} /\ active' = a /\ nextSeg' = last + 1
    BY <2>1 DEF Recover
  <2>3. active' \in segs' /\ active' < nextSeg'
        /\ \A s \in segs' : s < CompactionBase => s < nextSeg'
    BY <1>1, <2>2 DEF LooseTypes, NormalSegs
  <2>4. index' \subseteq files' /\ pc' = "recv"
    BY <2>1 DEF Recover, Newest, flusher
  <2> QED BY <2>1, <2>3, <2>4 DEF PointersInOrder
<1>4. CASE UNCHANGED cvars
  <2>1. /\ UNCHANGED <<mishaps, up, active, victims, segs, cpc, seen, nextSeg, pc, files, index,
                       sources, nextCompact, target, plan>>
    BY <1>4 DEF cvars, vars, disk, engine, flusher, callers, observed, compactor
  <2>2. PlannedFrames' = PlannedFrames /\ \A f \in sources : CopyOf(f)' = CopyOf(f)
    BY <2>1, PlannedFramesUnchanged DEF CopyOf
  <2> QED BY <2>1, <2>2 DEF PointersInOrder
<1> QED BY <1>1, <1>2, <1>3, <1>4, EnginePointers, CompactorPointers DEF CompactionNext

-----------------------------------------------------------------------------
(* Durable directory entries.                                              *)

\* A frame keeps its entry, or its twin's, while files and entries only grow.
LEMMA EntryStays ==
  ASSUME files \subseteq files', entries \subseteq entries', NEW f, HasEntry(f)
  PROVE  HasEntry(f)'
BY DEF HasEntry

LEMMA EngineEntries ==
  ASSUME CompactorPlaced, FlusherInOrder, PointersInOrder, EntriesCover, EngineStep
  PROVE  EntriesCover'
<1> SUFFICES ASSUME "raced" \notin mishaps', ~exposed'
             PROVE  EntriesCover'
  BY DEF EntriesCover
<1>1. /\ up /\ up' /\ LooseTypes /\ "raced" \notin mishaps /\ ~exposed
      /\ cpc' = cpc /\ sources' = sources /\ target' = target
      /\ \A f \in sources : CopyOf(f)' = CopyOf(f)
      /\ \A f \in files : f.seg \in segs
  BY EngineEffect DEF CompactorPlaced, CopyOf
<1>2. /\ pc \notin {"roll_create", "exit", "stopped"} => active \in segs
      /\ pc \in {"sync", "apply"} => PlannedFrames \subseteq files
      /\ cpc = "swap" => target \in segs
      /\ \A f \in PlannedFrames : f.seg = active
  BY <1>1, PlannedFramesType DEF PointersInOrder, LooseTypes
<1>3. /\ pc \in {"recv", "plan", "roll_sync", "write", "sync", "apply"} => active \in entries
      /\ pc = "apply" => PlannedFrames \subseteq synced
      /\ \A f \in files : HasEntry(f)
      /\ cpc \in {"swap", "unlink", "finish"} => \A f \in files : f.seg \in entries
      /\ cpc = "swap" => target \in entries
      /\ cpc \in {"publish", "swap"} => \A f \in sources : CopyOf(f) \in synced
  BY <1>1 DEF EntriesCover
<1> DEFINE Kept ==
      /\ pc' \in {"recv", "plan", "roll_sync", "write", "sync", "apply"} => active' \in entries'
      /\ pc' = "apply" => PlannedFrames' \subseteq synced'
      /\ entries' = entries \/ entries' = segs
      /\ \A f \in files' : f \in files \/ f.seg \in entries'
<1> SUFFICES Kept
  <2>1. files \subseteq files' /\ synced \subseteq synced'
    BY <1>1, EngineMoves DEF FlusherInOrder
  <2>2. \A f \in files' : HasEntry(f)'
    BY <1>1, <1>3, <2>1, EntryStays DEF HasEntry
  <2>3. cpc' \in {"swap", "unlink", "finish"} => \A f \in files' : f.seg \in entries'
    BY <1>1, <1>3
  <2> QED BY <1>1, <1>2, <1>3, <2>1, <2>2, <2>3 DEF EntriesCover
<1> USE DEF disk, engine, flusher, callers, observed
<1>4. CASE Quietly
  <2>1. pc' = "apply" => pc = "apply" /\ PlannedFrames' = PlannedFrames
    BY <1>4, PlannedFramesUnchanged DEF Quietly
  <2> QED BY <1>3, <1>4, <2>1 DEF Quietly
<1>5. CASE RollSync \/ RollId \/ RollCreate
  BY <1>3, <1>5 DEF RollSync, RollId, RollCreate
<1>6. CASE RollDirSync
  BY <1>2, <1>6 DEF RollDirSync
<1>7. CASE WriteGroup
  BY <1>2, <1>3, <1>7 DEF WriteGroup
<1>8. CASE SyncGroup
  <2>1. PlannedFrames' = PlannedFrames
    BY <1>8, PlannedFramesUnchanged DEF SyncGroup
  <2> QED BY <1>2, <1>3, <1>8, <2>1 DEF SyncGroup, InSegment
<1>9. CASE FlushFails
  BY <1>2, <1>3, <1>9 DEF FlushFails, PartialWrite
<1>10. CASE ApplyAndAck
  <2>1. PlannedFrames = FramesOf(Head(plan), active) \cup PlannedFrames'
    BY <1>1, <1>10, PlanShrinks DEF FlusherInOrder
  <2> QED BY <1>3, <1>10, <2>1 DEF ApplyAndAck
<1> QED BY <1>4, <1>5, <1>6, <1>7, <1>8, <1>9, <1>10, EngineEffect

LEMMA CompactorEntries ==
  ASSUME CompactorPlaced, FlusherInOrder, PointersInOrder, EntriesCover, CompactorStep
  PROVE  EntriesCover'
<1> SUFFICES ASSUME "raced" \notin mishaps', ~exposed'
             PROVE  EntriesCover'
  BY DEF EntriesCover
<1>1. /\ up /\ up' /\ LooseTypes /\ CompactionTypeOK /\ "raced" \notin mishaps /\ ~exposed
      /\ active' = active /\ pc' = pc /\ PlannedFrames' = PlannedFrames
      /\ \A f \in files : f.seg \in segs
  BY CompactorEffect DEF CompactorPlaced
<1>2. /\ pc \notin {"roll_create", "exit", "stopped"} => active \in segs
      /\ cpc \in {"copy", "publish", "swap"} =>
           target \in segs /\ \A f \in sources : f.seg < target
      /\ cpc \in {"publish", "swap"} => \A f \in sources : CopyOf(f) \in files
      /\ \A f \in PlannedFrames : f.seg = active
  BY <1>1, PlannedFramesType DEF PointersInOrder, LooseTypes
<1>3. /\ pc \in {"recv", "plan", "roll_sync", "write", "sync", "apply"} => active \in entries
      /\ pc = "apply" => PlannedFrames \subseteq synced
      /\ \A f \in files : HasEntry(f)
      /\ cpc \in {"swap", "unlink", "finish"} => \A f \in files : f.seg \in entries
      /\ cpc = "swap" => target \in entries
      /\ cpc \in {"publish", "swap"} => \A f \in sources : CopyOf(f) \in synced
  BY <1>1 DEF EntriesCover
<1>4. \A f \in sources : /\ CopyOf(f).seg = target /\ CopyOf(f).seq = f.seq
                         /\ CopyOf(f).key = f.key
  BY <1>1, CopyType DEF CompactionTypeOK
<1> DEFINE Kept ==
      /\ pc \in {"recv", "plan", "roll_sync", "write", "sync", "apply"} => active \in entries'
      /\ pc = "apply" => PlannedFrames \subseteq synced'
      /\ \A f \in files' : HasEntry(f)'
      /\ cpc' \in {"swap", "unlink", "finish"} => \A f \in files' : f.seg \in entries'
      /\ cpc' = "swap" => target' \in entries'
      /\ cpc' \in {"publish", "swap"} => \A f \in sources' : CopyOf(f)' \in synced'
<1> SUFFICES Kept
  BY <1>1 DEF EntriesCover
<1> USE DEF disk, engine, flusher, callers, observed, compactor, vars
<1>5. CASE StartCompaction \/ ListSegments \/ CollectPointers \/ CompactionFails
  <2>1. files' = files /\ entries' = entries /\ synced' = synced
        /\ cpc' \in {"idle", "list", "collect", "create"}
    BY <1>5 DEF StartCompaction, ListSegments, CollectPointers, CompactionFails, Quit
  <2> QED BY <1>3, <2>1, EntryStays
<1>6. CASE CreateCompacted
  BY <1>3, <1>6, EntryStays DEF CreateCompacted
<1>7. CASE CopyFrame
  <2>1. PICK f \in sources \cap files, c \in Frame : c = CopyOf(f) /\ files' = files \cup {c}
    BY <1>1, <1>7, CopyType DEF CopyFrame, Readable, CompactionTypeOK
  <2>2. entries' = entries /\ f.seg < target /\ cpc' = "copy" /\ synced' = synced
    BY <1>2, <1>7, <2>1 DEF CopyFrame
  <2>3. f \in Frame /\ target \in Nat /\ files \subseteq Frame
    BY <1>1, <2>1 DEF LooseTypes, CompactionTypeOK
  <2>4. HasEntry(c)'
    <3>1. CASE f.seg \in entries
      BY <1>4, <2>1, <2>2, <3>1 DEF HasEntry
    <3>2. CASE f.seg \notin entries
      <4>1. PICK g \in files : /\ g.seq = f.seq /\ g.key = f.key
                               /\ g.seg < f.seg /\ g.seg \in entries
        BY <1>3, <2>1, <3>2 DEF HasEntry
      <4>2. g.seg < target
        BY <2>2, <2>3, <4>1 DEF Frame
      <4> QED BY <1>4, <2>1, <2>2, <4>1, <4>2 DEF HasEntry
    <3> QED BY <3>1, <3>2
  <2> QED BY <1>3, <2>1, <2>2, <2>4, EntryStays
<1>8. CASE SyncCopies
  <2>1. files' = files /\ entries' = entries /\ synced \subseteq synced'
        /\ cpc' \in {"publish", "idle"}
    BY <1>8 DEF SyncCopies, Quit
  <2>2. cpc' = "publish" => \A f \in sources' : CopyOf(f)' \in synced'
    <3> SUFFICES ASSUME cpc' = "publish", NEW f \in sources'
                 PROVE  CopyOf(f)' \in synced'
      OBVIOUS
    <3>1. sources' = sources /\ target' = target /\ sources \subseteq files
      BY <1>8 DEF SyncCopies, Quit
    <3>2. CopyOf(f) \in InSegment(files, target) /\ CopyOf(f)' = CopyOf(f)
      BY <1>4, <1>8, <3>1 DEF SyncCopies, Readable, InSegment, CopyOf
    <3> QED BY <1>8, <3>2 DEF SyncCopies
  <2> QED BY <1>3, <2>1, <2>2, EntryStays
<1>9. CASE PublishCompacted
  <2>1. \A f \in sources : CopyOf(f)' = CopyOf(f)
    BY <1>9 DEF PublishCompacted, CopyOf
  <2> QED BY <1>1, <1>2, <1>3, <1>9, <2>1 DEF PublishCompacted, HasEntry
<1>10. CASE SwapPointers
  BY <1>3, <1>10, EntryStays DEF SwapPointers
<1>11. ASSUME NEW s \in victims, Unlink(s)
       PROVE  Kept
  <2>1. /\ cpc = "unlink" /\ entries' = entries /\ synced' = synced /\ files' \subseteq files
        /\ cpc' \in {"unlink", "finish"}
    BY <1>11 DEF Unlink
  <2> QED BY <1>3, <2>1 DEF HasEntry
<1>12. CASE Finish
  <2>1. /\ cpc = "finish" /\ cpc' = "idle" /\ entries' \in {segs, entries} /\ files' = files
        /\ synced' = { f \in synced : f.seg \in entries' }
    BY <1>12 DEF Finish, Quit
  <2>2. pc \in {"recv", "plan", "roll_sync", "write", "sync", "apply"} => active \in entries'
    BY <1>2, <1>3, <2>1
  <2>3. \A f \in files : f.seg \in entries'
    BY <1>1, <1>3, <2>1
  <2> QED BY <1>2, <1>3, <2>1, <2>2, <2>3 DEF HasEntry
<1> QED BY <1>5, <1>6, <1>7, <1>8, <1>9, <1>10, <1>11, <1>12 DEF CompactorStep

LEMMA NextEntriesCover ==
  ASSUME CompactorPlaced, FlusherInOrder, PointersInOrder, EntriesCover,
         [CompactionNext]_cvars
  PROVE  EntriesCover'
<1>1. LooseTypes /\ \A f \in files : f.seg \in segs
  BY DEF CompactorPlaced
<1>2. CASE GoDownWithCompactor
  <2> SUFFICES ASSUME "raced" \notin mishaps', ~exposed'
               PROVE  \A f \in files' : HasEntry(f)'
    BY <1>1, <1>2, DownEffect DEF EntriesCover
  <2>1. "raced" \notin mishaps /\ ~exposed
    BY <1>1, <1>2, DownEffect
  <2>2. PICK P \in SUBSET { f \in PlannedFrames : f.seg \in segs } :
          /\ P # {} => pc = "write"
          /\ \/ entries' = entries /\ files' = files \cup P
             \/ entries' = segs' /\ \A f \in files' : f.seg \in segs'
    BY <1>1, <1>2, DownEffect
  <2>3. \A f \in P : f.seg = active /\ active \in entries
    <3>1. P # {} => up
      BY <2>2 DEF FlusherInOrder, Shape
    <3> QED BY <1>1, <2>1, <2>2, <3>1, PlannedFramesType DEF LooseTypes, EntriesCover
  <2>4. \A f \in files : HasEntry(f)
    BY <2>1 DEF EntriesCover
  <2> QED BY <2>2, <2>3, <2>4, EntryStays DEF HasEntry
<1>3. CASE RecoverWithCompactor
  <2>1. Recover /\ cpc' = "idle" /\ mishaps \subseteq mishaps'
    BY <1>3 DEF RecoverWithCompactor, compactor, Recover, CompactorPlaced, ReplayPromises
  <2>2. PICK a \in segs \cup {1} :
          /\ segs' = segs \cup {a} /\ active' = a
          /\ entries' = IF a \notin segs \/ a \in torn THEN segs' ELSE entries
          /\ exposed' = (exposed \/ (a \in segs \ entries /\ a \notin torn))
    BY <2>1 DEF Recover
  <2>3. pc' = "recv" /\ files' = files
    BY <2>1 DEF Recover, flusher, FlusherInOrder, Shape
  <2> SUFFICES ASSUME "raced" \notin mishaps', ~exposed'
               PROVE  active' \in entries' /\ \A f \in files' : HasEntry(f)'
    BY <2>1, <2>3 DEF EntriesCover
  <2>4. \A f \in files : HasEntry(f)
    BY <2>1, <2>2 DEF EntriesCover
  <2>5. active' \in entries'
    BY <2>2
  <2>6. \A f \in files : f.seg \in segs'
    BY <1>1, <2>2
  <2> QED BY <2>2, <2>3, <2>4, <2>5, <2>6, EntryStays DEF HasEntry
<1>4. CASE UNCHANGED cvars
  <2>1. /\ UNCHANGED <<mishaps, exposed, up, active, entries, synced, cpc, pc, files,
                       sources, target, plan>>
    BY <1>4 DEF cvars, vars, disk, engine, flusher, callers, observed, compactor
  <2>2. PlannedFrames' = PlannedFrames /\ \A f \in sources : CopyOf(f)' = CopyOf(f)
    BY <2>1, PlannedFramesUnchanged DEF CopyOf
  <2> QED BY <2>1, <2>2 DEF EntriesCover, HasEntry
<1> QED BY <1>2, <1>3, <1>4, EngineEntries, CompactorEntries DEF CompactionNext

-----------------------------------------------------------------------------
(* The last record of a live key.                                          *)

\* Of the frames of a key one supersedes all others, however many there are,
\* if their sequence ids are bounded.
LEMMA HasNewest ==
  ASSUME NEW C \in SUBSET Frame, \E b \in Nat : \A f \in C : f.seq <= b, NEW h \in C
  PROVE  \E t \in C : /\ t.key = h.key /\ t.seq >= h.seq
                      /\ \A g \in C : ~Supersedes(g, t)
                      /\ \A g \in C : g.key = h.key => g.seq <= t.seq
<1> DEFINE Ids == { f.seq : f \in { f \in C : f.key = h.key } }
<1>1. \A f \in C : f.seq \in Nat /\ f.seg \in Nat
  BY DEF Frame, SeqId
<1>2. PICK n \in Ids : \A m \in Ids : m <= n
  <2>1. Ids \subseteq Nat /\ h.seq \in Ids /\ \E b \in Nat : \A m \in Ids : m <= b
    BY <1>1
  <2> HIDE DEF Ids
  <2> QED BY <2>1, HasHighest
<1> DEFINE Segs == { f.seg : f \in { f \in C : f.key = h.key /\ f.seq = n } }
<1>3. PICK s \in Segs : \A r \in Segs : s <= r
  <2>1. Segs \subseteq Nat /\ Segs # {}
    BY <1>1, <1>2
  <2> HIDE DEF Segs
  <2> QED BY <2>1, HasLowest
<1>4. PICK t \in C : t.key = h.key /\ t.seq = n /\ t.seg = s
  BY <1>3
<1>5. \A g \in C : g.key = h.key => g.seq <= t.seq
  BY <1>2, <1>4
<1>6. \A g \in C : g.key = h.key /\ g.seq = t.seq => t.seg <= g.seg
  BY <1>3, <1>4
<1>7. \A g \in C : ~Supersedes(g, t)
  BY <1>1, <1>4, <1>5, <1>6 DEF Supersedes
<1> QED BY <1>1, <1>4, <1>5, <1>7

\* The frames of the request that is applied are the newly acknowledged ones.
LEMMA NewlyAcked ==
  ASSUME CompactorPlaced, FlusherInOrder, ApplyAndAck
  PROVE  LET F == FramesOf(Head(plan), active) IN
         /\ acked' \ acked = F /\ F \subseteq PlannedFrames /\ F \subseteq Frame
         /\ index' = Apply(index, F) /\ \A f \in F : f.seg = active
<1> DEFINE F == FramesOf(Head(plan), active)
<1>1. LooseTypes /\ PlanInOrder /\ WaitingInOrder
  BY DEF CompactorPlaced, FlusherInOrder
<1>2. acked' = acked \cup F /\ index' = Apply(index, F)
  BY DEF ApplyAndAck
<1>3. Head(plan) \in Planned /\ F \subseteq PlannedFrames
  BY <1>1, PlanShrinks
<1>4. F \subseteq Frame /\ \A f \in F : f.seg = active
  BY <1>1, <1>3, FramesOfType DEF LooseTypes
<1>5. \A f \in F : f \notin acked
  BY <1>1, AnswersOfApply DEF FlusherInOrder
<1> QED BY <1>2, <1>3, <1>4, <1>5

LEMMA EngineCovers ==
  ASSUME CompactorPlaced, FlusherInOrder, PointersInOrder, EntriesCover, LiveOnesCovered,
         EngineStep
  PROVE  LiveOnesCovered'
<1> SUFFICES ASSUME mishaps' \cap {"raced", "unsynced_replay", "reused_id"} = {}, ~exposed'
             PROVE  LiveOnesCovered'
  BY DEF LiveOnesCovered
<1>1. /\ up /\ up' /\ LooseTypes /\ ~exposed /\ "raced" \notin mishaps
      /\ mishaps \cap {"raced", "unsynced_replay", "reused_id"} = {}
      /\ promised' = Promised(acked' \ acked)
  BY EngineEffect DEF CompactorPlaced
<1>2. index \subseteq Safe /\ \A p \in promised : p.del \/ Covered(p, index)
  BY <1>1 DEF LiveOnesCovered
<1> SUFFICES index' \subseteq Safe' /\ \A p \in promised' : p.del \/ Covered(p, index')
  BY <1>1 DEF LiveOnesCovered
<1>3. Safe \subseteq Safe'
  <2>1. segs \subseteq segs' /\ (entries' = entries \/ entries' = segs)
    BY EngineEffect
       DEF Quietly, RollSync, RollId, RollCreate, RollDirSync, WriteGroup, SyncGroup,
           FlushFails, ApplyAndAck, disk, engine, flusher, callers, observed
  <2>2. synced \subseteq synced'
    BY <1>1, EngineMoves DEF FlusherInOrder
  <2> QED BY <2>1, <2>2 DEF Safe
<1>4. CASE ~ApplyAndAck
  BY <1>2, <1>3, <1>4, EngineEffect DEF Covered
<1>5. CASE ApplyAndAck
  <2> DEFINE F == FramesOf(Head(plan), active)
  <2>1. /\ acked' \ acked = F /\ F \subseteq PlannedFrames /\ F \subseteq Frame
        /\ index' = Apply(index, F) /\ \A f \in F : f.seg = active
    BY <1>5, NewlyAcked
  <2>2. F \subseteq Safe
    <3>1. pc = "apply"
      BY <1>5 DEF ApplyAndAck
    <3>2. F \subseteq synced /\ active \in segs /\ active \in entries
      BY <1>1, <2>1, <3>1 DEF EntriesCover, PointersInOrder
    <3> QED BY <2>1, <3>2 DEF Safe
  <2>3. index' \subseteq Safe'
    BY <1>2, <1>3, <2>1, <2>2, ApplyBrings
  <2>4. ASSUME NEW p \in promised', ~p.del
        PROVE  Covered(p, index')
    <3>1. CASE p \in F
      <4>1. \A g \in F : g.key = p.key => g.seq <= p.seq
        BY <1>1, <2>1, <3>1, <2>4 DEF Promised
      <4>2. \A g \in F : g.seq \in Nat /\ g.seg \in Nat
        BY <2>1 DEF Frame, SeqId
      <4>3. \A g \in F : ~Supersedes(g, p)
        BY <2>1, <3>1, <4>1, <4>2 DEF Supersedes
      <4>4. p \in index'
        BY <2>1, <2>4, <3>1, <4>3 DEF Apply, Newest
      <4> QED BY <3>1, <4>2, <4>4 DEF Covered
    <3>2. CASE p \notin F
      <4>1. p \in promised /\ \A f \in F : f.key # p.key
        BY <1>1, <2>1, <2>4, <3>2 DEF Promised
      <4>2. PICK g \in index : g.key = p.key /\ g.seq >= p.seq
        BY <1>2, <2>4, <4>1 DEF Covered
      <4>3. g \in index'
        BY <2>1, <4>1, <4>2 DEF Apply
      <4> QED BY <4>2, <4>3 DEF Covered
    <3> QED BY <3>1, <3>2
  <2> QED BY <2>3, <2>4
<1> QED BY <1>4, <1>5

LEMMA CompactorCovers ==
  ASSUME CompactorPlaced, FlusherInOrder, PointersInOrder, EntriesCover, LiveOnesCovered,
         CompactorStep
  PROVE  LiveOnesCovered'
<1> SUFFICES ASSUME mishaps' \cap {"raced", "unsynced_replay", "reused_id"} = {}, ~exposed'
             PROVE  LiveOnesCovered'
  BY DEF LiveOnesCovered
<1>1. /\ up /\ up' /\ LooseTypes /\ CompactionTypeOK /\ ~exposed /\ "raced" \notin mishaps
      /\ mishaps \cap {"raced", "unsynced_replay", "reused_id"} = {}
      /\ promised' = promised
  BY CompactorEffect DEF CompactorPlaced
<1>2. index \subseteq Safe /\ \A p \in promised : p.del \/ Covered(p, index)
  BY <1>1 DEF LiveOnesCovered
<1> SUFFICES index' \subseteq Safe' /\ \A f \in index : Covered(f, index')
  <2>1. ASSUME NEW p \in promised, ~p.del, \A f \in index : Covered(f, index')
        PROVE  Covered(p, index')
    <3>1. PICK f \in index : f.key = p.key /\ f.seq >= p.seq
      BY <1>2, <2>1 DEF Covered
    <3>2. PICK g \in index' : g.key = f.key /\ g.seq >= f.seq
      BY <2>1 DEF Covered
    <3>3. p.seq \in Nat /\ f.seq \in Nat /\ g.seq \in Nat
      BY <1>1, CompactorTypes DEF LooseTypes, CompactionTypeOK, Frame, SeqId
    <3> QED BY <3>1, <3>2, <3>3 DEF Covered
  <2> QED BY <1>1, <2>1 DEF LiveOnesCovered
<1>3. \A f \in index : f.seq >= f.seq
  BY <1>1 DEF LooseTypes, Frame, SeqId
<1>4. index' = index => \A f \in index : Covered(f, index')
  BY <1>3 DEF Covered
<1> USE DEF disk, engine, flusher, callers, observed, compactor, vars
<1>5. CASE StartCompaction \/ ListSegments \/ CollectPointers \/ CompactionFails \/ CopyFrame
  <2>1. segs' = segs /\ entries' = entries /\ synced' = synced /\ index' = index
    BY <1>5 DEF StartCompaction, ListSegments, CollectPointers, CompactionFails, CopyFrame
  <2> QED BY <1>2, <1>4, <2>1 DEF Safe
<1>6. CASE CreateCompacted \/ SyncCopies \/ PublishCompacted
  <2>1. /\ segs \subseteq segs' /\ segs \cap entries \subseteq entries'
        /\ synced \subseteq synced' /\ index' = index
    BY <1>6 DEF CreateCompacted, SyncCopies, PublishCompacted
  <2> QED BY <1>2, <1>4, <2>1 DEF Safe
<1>7. CASE SwapPointers
  <2>1. /\ cpc = "swap" /\ segs' = segs /\ entries' = entries /\ synced' = synced
        /\ index' = (index \ sources) \cup { CopyOf(f) : f \in index \cap sources }
    BY <1>7 DEF SwapPointers
  <2>2. target \in segs /\ target \in entries /\ \A f \in sources : CopyOf(f) \in synced
    BY <1>1, <2>1 DEF PointersInOrder, EntriesCover
  <2>3. \A f \in sources : /\ CopyOf(f).seg = target /\ CopyOf(f).seq = f.seq
                           /\ CopyOf(f).key = f.key
    BY <1>1, CopyType DEF CompactionTypeOK
  <2>4. index' \subseteq Safe'
    BY <1>2, <2>1, <2>2, <2>3 DEF Safe
  <2>5. ASSUME NEW f \in index
        PROVE  Covered(f, index')
    <3>1. CASE f \in sources
      BY <1>3, <2>1, <2>3, <3>1 DEF Covered
    <3>2. CASE f \notin sources
      BY <1>3, <2>1, <3>2 DEF Covered
    <3> QED BY <3>1, <3>2
  <2> QED BY <2>4, <2>5
<1>8. ASSUME NEW s \in victims, Unlink(s)
      PROVE  index' \subseteq Safe' /\ index' = index
  <2>1. /\ cpc = "unlink" /\ segs \ {s} \subseteq segs' /\ entries' = entries
        /\ synced' = synced /\ index' = index
    BY <1>8 DEF Unlink
  <2>2. \A f \in index : f.seg # s
    BY <1>1, <2>1 DEF PointersInOrder
  <2> QED BY <1>2, <2>1, <2>2 DEF Safe
<1>9. CASE Finish
  <2>1. /\ segs' = segs /\ entries' \in {segs, entries} /\ index' = index
        /\ synced' = { f \in synced : f.seg \in entries' }
    BY <1>9 DEF Finish
  <2> QED BY <1>2, <1>4, <2>1 DEF Safe
<1> QED BY <1>4, <1>5, <1>6, <1>7, <1>8, <1>9 DEF CompactorStep

LEMMA NextCovers ==
  ASSUME CompactorPlaced, FlusherInOrder, PointersInOrder, EntriesCover, LiveOnesCovered,
         [CompactionNext]_cvars
  PROVE  LiveOnesCovered'
<1>1. LooseTypes /\ CompactionTypeOK /\ \A f \in files : f.seg \in segs
  BY DEF CompactorPlaced
<1>2. CASE GoDownWithCompactor
  <2> SUFFICES ASSUME mishaps' \cap {"raced", "unsynced_replay", "reused_id"} = {}, ~exposed',
                      NEW p \in promised', ~p.del
               PROVE  Covered(p, files' \cap Safe')
    BY <1>1, <1>2, DownEffect DEF LiveOnesCovered
  <2>1. /\ mishaps \cap {"raced", "unsynced_replay", "reused_id"} = {} /\ ~exposed
        /\ p \in promised
    BY <1>1, <1>2, DownEffect
  <2>2. up => index \subseteq files
    BY <2>1 DEF PointersInOrder
  <2>3. Covered(p, files \cap Safe)
    BY <1>1, <2>1, <2>2 DEF LiveOnesCovered, Covered, LooseTypes
  <2>4. PICK P \in SUBSET { f \in PlannedFrames : f.seg \in segs } :
              \/ /\ segs' = segs /\ entries' = entries /\ files' = files \cup P
                 /\ synced' = synced \/ synced' = synced \cup InSegment(files, active)
              \/ /\ segs \cap entries \subseteq segs' /\ entries' = segs' /\ synced' = files'
                 /\ \A f \in synced : f.seg \in segs' => f \in files'
    BY <1>1, <1>2, DownEffect
  <2>5. files \cap Safe \subseteq files' \cap Safe'
    BY <2>4 DEF Safe
  <2> QED BY <2>3, <2>5 DEF Covered
<1>3. CASE RecoverWithCompactor
  <2> SUFFICES ASSUME mishaps' \cap {"raced", "unsynced_replay", "reused_id"} = {}, ~exposed'
               PROVE  LiveOnesCovered'
    BY DEF LiveOnesCovered
  <2>1. Recover /\ ReplayPromises /\ mishaps \subseteq mishaps'
    BY <1>3 DEF RecoverWithCompactor, ReplayPromises
  <2>2. PICK a \in segs \cup {1} :
          /\ segs' = segs \cup {a}
          /\ entries' = IF a \notin segs \/ a \in torn THEN segs' ELSE entries
          /\ exposed' = (exposed \/ (a \in segs \ entries /\ a \notin torn))
    BY <2>1 DEF Recover
  <2>3. ~up /\ up' /\ index' = Newest(files) /\ files' = files
    BY <2>1 DEF Recover
  <2>4. /\ mishaps \cap {"raced", "unsynced_replay", "reused_id"} = {} /\ ~exposed
        /\ "raced" \notin mishaps
    BY <2>1, <2>2
  <2>5. /\ files \subseteq synced'
        /\ \A p \in promised : p.del \/ \A g \in files : Ends(g, p) => answer[g.req] # "ok"
        /\ promised' = { p \in promised : \A g \in files : Ends(g, p) => answer[g.req] = "ok" }
    BY <2>1 DEF ReplayPromises
  <2>6. ASSUME NEW t \in Newest(files)
        PROVE  t \in Safe'
    <3>1. t \in files /\ \A g \in files : ~Supersedes(g, t)
      BY DEF Newest
    <3>2. HasEntry(t)
      BY <2>4, <3>1 DEF EntriesCover
    <3>3. t.seg \in entries
      BY <3>1, <3>2 DEF HasEntry, Supersedes
    <3>4. t.seg \in segs' /\ t.seg \in entries'
      BY <1>1, <2>2, <3>1, <3>3
    <3> QED BY <2>5, <3>1, <3>4 DEF Safe
  <2>7. ASSUME NEW p \in promised', ~p.del
        PROVE  Covered(p, index')
    <3>1. p \in promised /\ \A g \in files : ~Ends(g, p)
      BY <2>5, <2>7
    <3>2. PICK h \in files : h.key = p.key /\ h.seq >= p.seq
      BY <2>3, <2>4, <2>7, <3>1 DEF LiveOnesCovered, Covered
    <3>3. files \in SUBSET Frame /\ \E b \in Nat : \A f \in files : f.seq <= b
      BY <1>1 DEF LooseTypes, FlusherInOrder
    <3>4. PICK t \in files : t.key = h.key /\ t.seq >= h.seq /\ \A g \in files : ~Supersedes(g, t)
      BY <3>3, HasNewest
    <3>5. t.seq >= p.seq
      <4>1. p.seq \in Nat /\ h.seq \in Nat /\ t.seq \in Nat
        BY <1>1, <3>1 DEF LooseTypes, CompactionTypeOK, Frame, SeqId
      <4> QED BY <3>2, <3>4, <4>1
    <3>6. t.del \in BOOLEAN
      BY <1>1 DEF LooseTypes, Frame
    <3>7. ~t.del
      BY <3>1, <3>2, <3>4, <3>5 DEF Ends
    <3>8. t \in index'
      BY <2>3, <3>4, <3>7 DEF Newest
    <3> QED BY <3>2, <3>4, <3>5, <3>8 DEF Covered
  <2> QED BY <2>3, <2>6, <2>7 DEF LiveOnesCovered
<1>4. CASE UNCHANGED cvars
  <2>1. /\ UNCHANGED <<mishaps, exposed, up, segs, entries, synced, files, index, promised>>
    BY <1>4 DEF cvars, vars, disk, engine, flusher, callers, observed, compactor
  <2> QED BY <2>1 DEF LiveOnesCovered, Covered, Safe
<1> QED BY <1>2, <1>3, <1>4, EngineCovers, CompactorCovers DEF CompactionNext

-----------------------------------------------------------------------------
(* The theorems.                                                           *)

\* The inductive invariant.
CompactionInv ==
  /\ CompactorPlaced /\ FlusherInOrder /\ PointersInOrder /\ EntriesCover
  /\ LiveOnesCovered

LEMMA InitCompactionInv == CompactionInit => CompactionInv
<1> SUFFICES ASSUME CompactionInit
             PROVE  CompactionInv
  OBVIOUS
<1>1. TypeOK /\ Init
  BY InitTypeOK DEF CompactionInit
<1>2. /\ segs = {1} /\ entries = {1} /\ files = {} /\ synced = {} /\ up /\ index = {}
      /\ active = 1 /\ nextSeg = 2 /\ nextSeq = 1 /\ pc = "recv" /\ group = <<>> /\ plan = <<>>
      /\ queue = <<>> /\ acked = {}
      /\ cpc = "idle" /\ seen = 0 /\ victims = {} /\ sources = {} /\ target = 0
      /\ nextCompact = CompactionBase /\ promised = {} /\ mishaps = {}
  BY DEF CompactionInit, Init
<1>3. CompactorPlaced
  BY <1>1, <1>2, TypesSplit, SegmentLogAssumption
     DEF CompactorPlaced, CompactionTypeOK, Mishaps
<1>4. PlannedFrames = {} /\ PlanInOrder
  BY <1>2 DEF PlannedFrames, PlanInOrder
<1>5. WaitingInOrder
  BY <1>2 DEF WaitingInOrder, Once, ReqsOf
<1>6. FlusherInOrder
  BY <1>2, <1>4, <1>5 DEF FlusherInOrder, Shape
<1>7. PointersInOrder
  BY <1>2, <1>4, SegmentLogAssumption DEF PointersInOrder
<1>8. EntriesCover /\ LiveOnesCovered
  BY <1>2, <1>4 DEF EntriesCover, LiveOnesCovered
<1> QED BY <1>3, <1>6, <1>7, <1>8 DEF CompactionInv

LEMMA NextCompactionInv == CompactionInv /\ [CompactionNext]_cvars => CompactionInv'
BY NextPlaced, NextOrder, NextPointers, NextEntriesCover, NextCovers DEF CompactionInv

LEMMA CompactionInvariant == CompactionSpec => []CompactionInv
BY InitCompactionInv, NextCompactionInv, PTL DEF CompactionSpec

\* The compaction's variables keep their types, and create_new never meets a
\* file: the compaction ids never collide, also after a reopen (compact,
\* compaction_counter).
THEOREM CompactionTypes == CompactionSpec => []CompactionTypeOK
<1>1. CompactionInv => CompactionTypeOK
  BY DEF CompactionInv, CompactorPlaced
<1> QED BY <1>1, CompactionInvariant, PTL

\* No index pointer dangles: while the compaction copies, swaps and unlinks and
\* the flusher applies groups and rolls over, every file the index points into
\* is there and holds the frame, unless a rollover came between the two readings
\* of what is active (compact, execute_batch_append).
THEOREM NoDanglingPointer == CompactionSpec => []IndexReadable
<1>1. CompactionInv => IndexReadable
  BY DEF CompactionInv, PointersInOrder, IndexReadable
<1> QED BY <1>1, CompactionInvariant, PTL

\* No step of a compaction, no failure of it and no crash at any point of it
\* takes the last record of a key: the copies and their directory entry are
\* durable before a source goes (compact: "leaves either the old or the new copy
\* on disk, never neither").
THEOREM NoLiveKeyLost == CompactionSpec => []LiveKeysSurvive
<1>1. CompactionInv => LiveKeysSurvive
  <2> SUFFICES ASSUME CompactionInv, NEW p \in promised, ~p.del,
                      mishaps \cap {"raced", "unsynced_replay", "reused_id"} = {}, ~exposed
               PROVE  \E g \in files : g.key = p.key /\ g.seq >= p.seq
    BY DEF LiveKeysSurvive, LiveKept
  <2>1. CASE up
    <3>1. index \subseteq files
      BY <2>1 DEF CompactionInv, PointersInOrder
    <3> QED BY <2>1, <3>1 DEF CompactionInv, LiveOnesCovered, Covered
  <2>2. CASE ~up
    BY <2>2 DEF CompactionInv, LiveOnesCovered, Covered
  <2> QED BY <2>1, <2>2
<1> QED BY <1>1, CompactionInvariant, PTL

-----------------------------------------------------------------------------
(* What a restart would show.  In a run in which no removal of sources was *)
(* cut short, the files are a log in two layers: the normal segments, in   *)
(* the order of their ids, and compacted ones with copies of live frames.  *)
(* Replaying it gives what readers see, and gives back no key that was     *)
(* deleted.                                                                *)

\* The normal segments hold the frames in the order of their ids and every
\* tombstone; a compacted segment holds live copies.  What is durable and no
\* longer in a file is about to be forgotten by the last directory fsync.
LayersInOrder ==
  mishaps \cap {"raced", "half_removed"} = {} =>
    /\ \A f \in synced : \/ f \in files
                         \/ /\ cpc \in {"unlink", "finish"} /\ f.seg \notin segs
                            /\ f.seg < active \/ f.seg >= CompactionBase
    /\ \A f, g \in files : f.seq = g.seq => f.key = g.key /\ f.del = g.del
    /\ \A f, g \in files : g.seg < CompactionBase /\ f.seg < g.seg => f.seq < g.seq
    /\ \A f \in files : f.del => f.seg < CompactionBase
    /\ \A f \in Committed : answer[f.req] \notin {"none", "queued"}
    /\ up => \A s \in segs : s < CompactionBase => s <= active

\* The segments that are being removed, and the committed frames in others.
Going == IF cpc = "unlink" THEN victims ELSE {}
Staying == { f \in Committed : f.seg \notin Going }

TopOf(h, C) == h \in C /\ \A g \in C : g.key = h.key => g.seq <= h.seq

\* A tombstone goes in the same compaction as the records it ends, or after them.
TombstonesOutlast ==
  /\ cpc \in {"collect", "create", "copy", "publish", "swap"} =>
       \A t, h \in files : t.del /\ t.seg \in victims /\ h.key = t.key /\ h.seq < t.seq
                              => h.seg \in victims
  /\ cpc \in {"create", "copy"} =>
       \A t \in files, f \in sources : t.del /\ t.seg \in victims /\ f.key = t.key
                              => t.seq <= f.seq

\* The index points at the newest record of each key, also when the segments
\* that are being removed are left out.
IndexIsTop ==
  mishaps \cap {"raced", "half_removed"} = {} /\ up =>
    /\ \A f \in index : TopOf(f, Committed)
    /\ \A h \in Staying : ~h.del /\ TopOf(h, Staying) => \E f \in index : f.key = h.key
    /\ TombstonesOutlast

\* A promised tombstone is on the safe part of the disk, or no acknowledged
\* record it ends is left.
DeletesCovered ==
  mishaps = {} /\ ~exposed =>
    \A p \in promised : p.del =>
      \/ p \in files /\ p \in Safe /\ p.seg \notin Going
      \/ \A g \in files : g.key = p.key /\ ~g.del /\ g.seg \notin Going
                            /\ answer[g.req] = "ok" => g.seq > p.seq

-----------------------------------------------------------------------------
(* The frames that are not being committed.                                *)

\* Only ApplyAndAck moves frames of the group into the committed ones.
LEMMA CommittedMoves ==
  ASSUME CompactorPlaced, CompactorPlaced', FlusherInOrder, FlusherInOrder', EngineStep
  PROVE  /\ ~ApplyAndAck => Committed' = Committed
         /\ ApplyAndAck /\ PlannedFrames \subseteq files =>
              Committed' = Committed \cup FramesOf(Head(plan), active)
<1>1. /\ up /\ up' /\ LooseTypes /\ LooseTypes' /\ PlanInOrder /\ Shape
  BY EngineEffect DEF CompactorPlaced, FlusherInOrder
<1>2. /\ PlannedInOrder /\ Committed = { f \in files : f.seq < Low }
      /\ Committed' = { f \in files' : f.seq < Low' } /\ Low \in Nat /\ Low' \in Nat
  BY <1>1, CommittedIsLow, CommittedIsLowNext DEF SeqId
<1>3. CASE ~ApplyAndAck
  <2>1. /\ Low' = Low /\ files \subseteq files' /\ files' \subseteq files \cup PlannedFrames
    BY <1>1, <1>3, EngineMoves
  <2>2. \A f \in PlannedFrames : ~(f.seq < Low)
    BY <1>2 DEF PlannedInOrder, SeqId
  <2> QED BY <1>2, <1>3, <2>1, <2>2
<1>4. CASE ApplyAndAck /\ PlannedFrames \subseteq files
  <2> DEFINE F == FramesOf(Head(plan), active)
  <2>1. /\ PlannedFrames = F \cup PlannedFrames'
    BY <1>1, <1>4, PlanShrinks
  <2>2. \A f \in F : f.seq < Low' /\ Low <= Low'
    BY <1>1, <1>4, EngineMoves
  <2>3. files' = files
    BY <1>4 DEF ApplyAndAck, disk
  <2>4. \A f \in PlannedFrames' : ~(f.seq < Low')
    BY <1>1, CommittedIsLowNext DEF PlannedInOrder, SeqId
  <2>5. Low <= Low' /\ \A f \in files : f.seq \in Nat
    BY <1>1, EngineMoves DEF LooseTypes, Frame, SeqId
  <2>6. \A f \in files : f.seq < Low' <=> f.seq < Low \/ f \in F
    BY <1>1, <1>2, <2>1, <2>2, <2>4, <2>5 DEF FlusherInOrder
  <2> QED BY <1>2, <1>4, <2>1, <2>3, <2>6
<1> QED BY <1>3, <1>4

\* The frames of the group are written all at once to the active segment, above
\* everything that is committed.
LEMMA GroupOnTop ==
  ASSUME CompactorPlaced, FlusherInOrder, up
  PROVE  /\ \A f \in PlannedFrames : f.seg = active /\ f \in Frame
         /\ \A f, g \in PlannedFrames : f.seq = g.seq => f = g
         /\ \A f \in Committed, g \in PlannedFrames : f.seq < g.seq
         /\ \A f \in PlannedFrames : f.req \in Requests /\ answer[f.req] \in {"queued", "err"}
         /\ pc \notin {"sync", "apply", "exit", "stopped"} => Committed = files
<1>1. /\ PlannedInOrder /\ Low \in SeqId /\ Committed = { f \in files : f.seq < Low }
  BY CommittedIsLow
<1>2. \A f \in PlannedFrames : f.req \in Requests /\ answer[f.req] \in {"queued", "err"}
  <2>1. LooseTypes /\ WaitingInOrder
    BY DEF CompactorPlaced, FlusherInOrder
  <2> QED BY <2>1, ReqsType DEF WaitingInOrder
<1>3. \A f \in Committed, g \in PlannedFrames : f.seq < g.seq
  <2>1. \A f \in files : f.seq \in Nat
    BY DEF CompactorPlaced, LooseTypes, Frame, SeqId
  <2> QED BY <1>1, <2>1 DEF PlannedInOrder, SeqId
<1>4. pc \notin {"sync", "apply", "exit", "stopped"} => Committed = files
  BY <1>1 DEF FlusherInOrder
<1> QED BY <1>1, <1>2, <1>3, <1>4 DEF PlannedInOrder

-----------------------------------------------------------------------------
(* The two layers.                                                         *)

\* Putting frames of the group behind the log keeps the normal segments in order.
LEMMA LayersGrow ==
  ASSUME CompactorPlaced, FlusherInOrder, LayersInOrder,
         mishaps \cap {"raced", "half_removed"} = {},
         NEW P \in SUBSET { f \in PlannedFrames : f.seg \in segs }, 
         P # {} => up /\ pc = "write"
  PROVE  LET F == files \cup P IN
         /\ \A f, g \in F : f.seq = g.seq => f.key = g.key /\ f.del = g.del
         /\ \A f, g \in F : g.seg < CompactionBase /\ f.seg < g.seg => f.seq < g.seq
         /\ \A f \in F : f.del => f.seg < CompactionBase
<1>1. CASE P = {}
  BY <1>1 DEF LayersInOrder
<1>2. CASE P # {}
  <2>1. /\ \A f \in P : f.seg = active /\ f \in Frame
        /\ \A f, g \in P : f.seq = g.seq => f = g
        /\ \A f \in files, g \in P : f.seq < g.seq
    BY <1>2, GroupOnTop
  <2>2. /\ active \in Nat /\ active < CompactionBase
        /\ \A f \in files : f.seq \in Nat /\ f.seg \in Nat /\ f.seg \in segs
    BY <1>2 DEF CompactorPlaced, LooseTypes, Frame, SeqId
  <2>3. \A f \in files : f.seg < CompactionBase => f.seg <= active
    BY <1>2, <2>2 DEF LayersInOrder
  <2>4. \A f \in P : f.seq \in Nat
    BY <2>1 DEF Frame, SeqId
  <2>5. \A f \in files, g \in P : f.seq # g.seq
    BY <2>1, <2>2, <2>4
  <2> QED BY <2>1, <2>2, <2>3, <2>4, <2>5, SegmentLogAssumption DEF LayersInOrder
<1> QED BY <1>1, <1>2

LEMMA EngineLayers ==
  ASSUME CompactorPlaced, CompactorPlaced', FlusherInOrder, FlusherInOrder',
         PointersInOrder, LayersInOrder, EngineStep
  PROVE  LayersInOrder'
<1> SUFFICES ASSUME mishaps' \cap {"raced", "half_removed"} = {}
             PROVE  LayersInOrder'
  BY DEF LayersInOrder
<1>1. /\ up /\ up' /\ LooseTypes /\ LooseTypes' /\ mishaps \cap {"raced", "half_removed"} = {}
      /\ "raced" \notin mishaps /\ cpc' = cpc /\ Next /\ WaitingInOrder /\ Shape /\ PlanInOrder
      /\ active < CompactionBase
  BY EngineEffect DEF CompactorPlaced, FlusherInOrder
<1>2. /\ active < nextSeg /\ active \in Nat /\ nextSeg \in Nat /\ segs \subseteq Nat
      /\ \A f \in synced : f.seg \in Nat
  BY <1>1 DEF PointersInOrder, LooseTypes, Frame
<1>3. /\ active' \in {active, nextSeg}
      /\ segs \subseteq segs' /\ segs' \subseteq segs \cup {active} 
      /\ segs' # segs => active' = active
  BY EngineEffect
     DEF Quietly, RollSync, RollId, RollCreate, RollDirSync, WriteGroup, SyncGroup,
         FlushFails, ApplyAndAck, disk, engine, flusher, callers, observed
<1>4. \A f \in synced' : \/ f \in files'
                         \/ /\ cpc \in {"unlink", "finish"} /\ f.seg \notin segs'
                            /\ f.seg < active' \/ f.seg >= CompactionBase
  <2> SUFFICES ASSUME NEW f \in synced', f \notin files'
               PROVE  /\ cpc \in {"unlink", "finish"} /\ f.seg \notin segs'
                      /\ f.seg < active' \/ f.seg >= CompactionBase
    OBVIOUS
  <2>1. f \in synced /\ f \notin files
    BY <1>1, EngineMoves
  <2>2. /\ cpc \in {"unlink", "finish"} /\ f.seg \notin segs
        /\ f.seg < active \/ f.seg >= CompactionBase
    BY <1>1, <2>1 DEF LayersInOrder
  <2> QED BY <1>1, <1>2, <1>3, <2>1, <2>2, SegmentLogAssumption
<1>5. /\ \A f, g \in files' : f.seq = g.seq => f.key = g.key /\ f.del = g.del
      /\ \A f, g \in files' : g.seg < CompactionBase /\ f.seg < g.seg => f.seq < g.seq
      /\ \A f \in files' : f.del => f.seg < CompactionBase
  <2>1. PICK P \in SUBSET { f \in PlannedFrames : f.seg \in segs } :
          files' = files \cup P /\ (P # {} => pc = "write")
    <3>1. files' = files \/ WriteGroup \/ FlushFails
      BY EngineEffect
         DEF Quietly, RollSync, RollId, RollCreate, RollDirSync, SyncGroup, ApplyAndAck, disk
    <3>2. {} \in SUBSET { f \in PlannedFrames : f.seg \in segs }
      OBVIOUS
    <3> QED BY <3>1, <3>2 DEF WriteGroup, FlushFails, PartialWrite
  <2> QED BY <1>1, <2>1, LayersGrow
<1>6. \A f \in Committed' : answer'[f.req] \notin {"none", "queued"}
  <2>1. \A f \in Committed : f.req \in Requests /\ answer[f.req] \notin {"none", "queued"}
    BY <1>1 DEF LayersInOrder, LooseTypes, Frame, Committed
  <2>2. CASE ~ApplyAndAck
    BY <1>1, <2>1, <2>2, CommittedMoves, AnswersSettle
  <2>3. CASE ApplyAndAck
    <3>1. PlannedFrames \subseteq files
      BY <1>1, <2>3 DEF ApplyAndAck, PointersInOrder
    <3> QED BY <1>1, <2>1, <2>3, <3>1, CommittedMoves, AnswersSettle, AnswersOfApply
  <2> QED BY <2>2, <2>3
<1>7. \A s \in segs' : s < CompactionBase => s <= active'
  <2>1. \A s \in segs : s < CompactionBase => s <= active
    BY <1>1 DEF LayersInOrder
  <2> QED BY <1>2, <1>3, <2>1
<1> QED BY <1>1, <1>4, <1>5, <1>6, <1>7 DEF LayersInOrder

\* The compaction commits nothing but copies, and removes nothing but sources.
LEMMA CommittedCopies ==
  ASSUME CompactorPlaced, FlusherInOrder, CompactorStep
  PROVE  /\ \A f \in Committed' :
              \/ f \in Committed
              \/ /\ cpc = "copy" /\ cpc' = "copy" /\ f \in files'
                 /\ \E g \in sources \cap Committed : f = CopyOf(g)
         /\ \A f \in Committed : f \in files' => f \in Committed'
<1>1. up /\ PlannedFrames' = PlannedFrames /\ Low \in SeqId /\ PlannedInOrder
      /\ Committed = { f \in files : f.seq < Low } /\ sources \subseteq Frame /\ target \in Nat
  BY CompactorEffect, CommittedIsLow DEF CompactorPlaced, CompactionTypeOK
<1>2. ASSUME NEW f \in Committed', f \notin files
      PROVE  /\ cpc = "copy" /\ cpc' = "copy"
             /\ \E g \in sources \cap Committed : f = CopyOf(g)
  <2>1. f \in files'
    BY <1>2 DEF Committed
  <2>2. PICK g \in sources \cap files : cpc = "copy" /\ f = CopyOf(g)
    BY <1>2, <2>1, CompactorAdds
  <2>3. g \in Committed
    BY <1>1, <2>2 DEF FlusherInOrder
  <2>4. files' # files /\ cpc = "copy"
    BY <1>2, <2>1, <2>2
  <2>5. cpc' = "copy"
    BY <2>4 DEF CompactorStep, StartCompaction, ListSegments, CollectPointers, CreateCompacted,
                CopyFrame, SyncCopies, PublishCompacted, SwapPointers, Unlink, Finish,
                CompactionFails, disk, vars, compactor
  <2> QED BY <2>2, <2>3, <2>5
<1>3. \A f \in Committed' : f \in files => f \in Committed
  BY <1>1 DEF Committed
<1> QED BY <1>1, <1>2, <1>3 DEF Committed

LEMMA CompactorLayers ==
  ASSUME CompactorPlaced, FlusherInOrder, PointersInOrder, LayersInOrder, CompactorStep
  PROVE  LayersInOrder'
<1> SUFFICES ASSUME mishaps' \cap {"raced", "half_removed"} = {}
             PROVE  LayersInOrder'
  BY DEF LayersInOrder
<1>1. /\ up /\ up' /\ LooseTypes /\ CompactionTypeOK
      /\ mishaps \cap {"raced", "half_removed"} = {} /\ "raced" \notin mishaps
      /\ active' = active /\ answer' = answer
      /\ \A f \in files : f.seg \in segs
  BY CompactorEffect DEF CompactorPlaced
<1>2. \A f \in sources : /\ CopyOf(f).seg = target /\ CopyOf(f).seq = f.seq
                         /\ CopyOf(f).key = f.key /\ CopyOf(f).del = f.del
                         /\ CopyOf(f).req = f.req
  BY <1>1, CopyType DEF CompactionTypeOK
<1>3. \A f \in Committed' : answer'[f.req] \notin {"none", "queued"}
  BY <1>1, <1>2, CommittedCopies DEF LayersInOrder
<1>4. /\ \A f, g \in files : f.seq = g.seq => f.key = g.key /\ f.del = g.del
      /\ \A f, g \in files : g.seg < CompactionBase /\ f.seg < g.seg => f.seq < g.seq
      /\ \A f \in files : f.del => f.seg < CompactionBase
      /\ \A s \in segs : s < CompactionBase => s <= active
      /\ \A f \in synced : \/ f \in files
                           \/ /\ cpc \in {"unlink", "finish"} /\ f.seg \notin segs
                              /\ f.seg < active \/ f.seg >= CompactionBase
  BY <1>1 DEF LayersInOrder
<1> DEFINE Kept ==
      /\ \A f \in synced' : \/ f \in files'
                            \/ /\ cpc' \in {"unlink", "finish"} /\ f.seg \notin segs'
                               /\ f.seg < active \/ f.seg >= CompactionBase
      /\ \A f, g \in files' : f.seq = g.seq => f.key = g.key /\ f.del = g.del
      /\ \A f, g \in files' : g.seg < CompactionBase /\ f.seg < g.seg => f.seq < g.seq
      /\ \A f \in files' : f.del => f.seg < CompactionBase
      /\ \A s \in segs' : s < CompactionBase => s <= active
<1> SUFFICES Kept
  BY <1>1, <1>3 DEF LayersInOrder
<1> USE DEF disk, engine, flusher, callers, observed, compactor, vars
<1>5. CASE StartCompaction \/ ListSegments \/ CollectPointers \/ CompactionFails
  <2>1. segs' = segs /\ files' = files /\ synced' = synced /\ cpc \notin {"unlink", "finish"}
    BY <1>5 DEF StartCompaction, ListSegments, CollectPointers, CompactionFails
  <2> QED BY <1>4, <2>1
<1>6. CASE CreateCompacted
  <2>1. ~(nextCompact < CompactionBase)
    BY <1>1, SegmentLogAssumption DEF CompactionTypeOK
  <2> QED BY <1>4, <1>6, <2>1 DEF CreateCompacted
<1>7. CASE CopyFrame
  <2>1. PICK f \in sources \cap files : files' = files \cup {CopyOf(f)}
    BY <1>7 DEF CopyFrame, Readable
  <2>2. /\ cpc = "copy" /\ cpc' = "copy" /\ segs' = segs /\ synced' = synced
        /\ target >= CompactionBase /\ ~f.del
    BY <1>1, <1>7, <2>1 DEF CopyFrame, PointersInOrder, FlusherInOrder
  <2>3. PICK c : /\ c = CopyOf(f) /\ c.seg = target /\ c.seq = f.seq /\ c.key = f.key
                 /\ c.del = f.del
    BY <1>2, <2>1
  <2>4. \A g \in files : g.seg \in Nat
    BY <1>1 DEF LooseTypes, Frame
  <2>5. files' = files \cup {c} /\ target \in Nat
    BY <1>1, <2>1, <2>3 DEF CompactionTypeOK
  <2>6. \A h, g \in files' : h.seq = g.seq => h.key = g.key /\ h.del = g.del
    BY <1>4, <2>1, <2>3, <2>5
  <2>7. \A h, g \in files' : g.seg < CompactionBase /\ h.seg < g.seg => h.seq < g.seq
    BY <1>4, <2>2, <2>3, <2>4, <2>5, SegmentLogAssumption
  <2> QED BY <1>4, <2>2, <2>3, <2>5, <2>6, <2>7
<1>8. CASE SyncCopies \/ PublishCompacted \/ SwapPointers
  <2>1. segs' = segs /\ files' = files /\ synced' \subseteq synced \cup files
        /\ cpc \notin {"unlink", "finish"}
    BY <1>8 DEF SyncCopies, PublishCompacted, SwapPointers, InSegment
  <2> QED BY <1>4, <2>1
<1>9. ASSUME NEW s \in victims, Unlink(s)
      PROVE  Kept
  <2>1. /\ cpc = "unlink" /\ cpc' \in {"unlink", "finish"} /\ synced' = synced
        /\ segs' = segs \ {s} /\ files' = { f \in files : f.seg \in segs' }
    BY <1>9 DEF Unlink, Note
  <2>2. s \in segs /\ s # active /\ s \in Nat /\ active \in Nat
    BY <1>1 DEF PointersInOrder, LooseTypes
  <2>3. s < active \/ s >= CompactionBase
    BY <1>4, <2>2, SegmentLogAssumption
  <2>4. \A f \in files : f \notin files' => f.seg = s
    BY <1>1, <2>1
  <2> QED BY <1>4, <2>1, <2>3, <2>4
<1>10. CASE Finish
  <2>1. segs' = segs /\ files' = files /\ synced' = { f \in synced : f.seg \in segs }
    BY <1>10 DEF Finish, Note
  <2> QED BY <1>4, <2>1
<1> QED BY <1>5, <1>6, <1>7, <1>8, <1>9, <1>10 DEF CompactorStep

\* The reopened engine writes behind every normal segment.
LEMMA ChoiceIsLast ==
  ASSUME LooseTypes, NEW a, ActiveChoice(a), \A f \in files : f.seg \in segs,
         \A f, g \in files : g.seg < CompactionBase /\ f.seg < g.seg => f.seq < g.seq
  PROVE  \A s \in NormalSegs : s <= a
<1> DEFINE holding == { s \in NormalSegs : InSegment(files, s) # {} }
<1>1. CASE a \in NormalSegs \ holding /\ \A s \in NormalSegs : s <= a
  BY <1>1
<1>2. CASE NormalSegs = {}
  BY <1>2
<1>3. ASSUME a \in holding,
             \E s \in holding : \A t \in NormalSegs : t <= s,
             \E f \in InSegment(files, a) :
               \A g \in files : g.seg \in NormalSegs =>
                 g.seq < f.seq \/ (g.seq = f.seq /\ g.seg <= a)
      PROVE  \A s \in NormalSegs : s <= a
  <2>1. PICK s \in holding : \A t \in NormalSegs : t <= s
    BY <1>3
  <2>2. PICK g \in files : g.seg = s
    BY <2>1 DEF InSegment
  <2>3. PICK f \in files : f.seg = a /\ (g.seq < f.seq \/ (g.seq = f.seq /\ g.seg <= a))
    BY <1>3, <2>1, <2>2 DEF InSegment
  <2>4. /\ f.seq \in Nat /\ g.seq \in Nat /\ a \in Nat /\ s \in Nat /\ s < CompactionBase
        /\ \A t \in NormalSegs : t \in Nat
    BY <1>3, <2>1, <2>2, <2>3 DEF LooseTypes, Frame, SeqId, NormalSegs
  <2>5. ~(a < s)
    BY <2>2, <2>3, <2>4
  <2> QED BY <2>1, <2>4, <2>5
<1> QED BY <1>1, <1>2, <1>3 DEF ActiveChoice

LEMMA NextLayers ==
  ASSUME CompactorPlaced, CompactorPlaced', FlusherInOrder, FlusherInOrder',
         PointersInOrder, LayersInOrder, [CompactionNext]_cvars
  PROVE  LayersInOrder'
<1>1. LooseTypes /\ WaitingInOrder /\ \A f \in files : f.seg \in segs
  BY DEF CompactorPlaced, FlusherInOrder
<1>2. CASE GoDownWithCompactor
  <2> SUFFICES ASSUME mishaps' \cap {"raced", "half_removed"} = {}
               PROVE  LayersInOrder'
    BY DEF LayersInOrder
  <2>1. /\ mishaps \cap {"raced", "half_removed"} = {} /\ cpc \notin {"unlink", "finish"}
        /\ ~up' /\ Next /\ plan' = <<>>
    BY <1>1, <1>2, DownEffect
  <2>2. synced \subseteq files
    BY <2>1 DEF LayersInOrder
  <2>3. PICK P \in SUBSET { f \in PlannedFrames : f.seg \in segs } :
          /\ P # {} => pc = "write"
          /\ \/ /\ files' = files \cup P
                /\ synced' = synced \/ synced' = synced \cup InSegment(files, active)
             \/ synced' = files' /\ files' \subseteq files \cup synced \cup P
    BY <1>1, <1>2, DownEffect
  <2>4. files' \subseteq files \cup P /\ synced' \subseteq files'
    BY <2>2, <2>3 DEF InSegment
  <2>5. P # {} => up
    BY <2>3 DEF FlusherInOrder, Shape
  <2>6. /\ \A f, g \in files' : f.seq = g.seq => f.key = g.key /\ f.del = g.del
        /\ \A f, g \in files' : g.seg < CompactionBase /\ f.seg < g.seg => f.seq < g.seq
        /\ \A f \in files' : f.del => f.seg < CompactionBase
    BY <2>1, <2>3, <2>4, <2>5, LayersGrow
  <2>7. ASSUME NEW f \in Committed'
        PROVE  answer'[f.req] \notin {"none", "queued"}
    <3>1. f \in files \cup P
      BY <2>4 DEF Committed
    <3>2. CASE f \in Committed
      <4>1. f.req \in Requests /\ answer[f.req] \notin {"none", "queued"}
        BY <1>1, <2>1, <3>2 DEF LayersInOrder, Committed, LooseTypes, Frame
      <4> QED BY <1>1, <2>1, <4>1, AnswersSettle
    <3>3. CASE f \in PlannedFrames
      <4>1. f.req \in Requests /\ answer[f.req] \in {"queued", "err"}
        BY <1>1, <3>3, ReqsType DEF WaitingInOrder
      <4>2. IF answer[f.req] = "queued" THEN answer'[f.req] \in {"err", "lost"}
                                        ELSE answer'[f.req] = answer[f.req]
        BY <1>1, <1>2, <4>1, DownEffect
      <4> QED BY <4>1, <4>2
    <3> QED BY <3>1, <3>2, <3>3 DEF Committed
  <2> QED BY <2>1, <2>4, <2>6, <2>7 DEF LayersInOrder
<1>3. CASE RecoverWithCompactor
  <2> SUFFICES ASSUME mishaps' \cap {"raced", "half_removed"} = {}
               PROVE  LayersInOrder'
    BY DEF LayersInOrder
  <2>1. Recover /\ mishaps \subseteq mishaps'
    BY <1>3 DEF RecoverWithCompactor, ReplayPromises
  <2>2. /\ ~up /\ cpc = "idle" /\ files' = files /\ synced' \subseteq synced \cup files
        /\ answer' = answer /\ plan' = <<>> /\ plan = <<>>
    BY <2>1 DEF Recover, CompactorPlaced, FlusherInOrder, Shape, InSegment, flusher, callers
  <2>3. /\ synced \subseteq files
        /\ \A f, g \in files : f.seq = g.seq => f.key = g.key /\ f.del = g.del
        /\ \A f, g \in files : g.seg < CompactionBase /\ f.seg < g.seg => f.seq < g.seq
        /\ \A f \in files : f.del => f.seg < CompactionBase
        /\ \A f \in Committed : answer[f.req] \notin {"none", "queued"}
    BY <2>1, <2>2 DEF LayersInOrder
  <2>4. PlannedFrames = {} /\ PlannedFrames' = {}
    BY <2>2 DEF PlannedFrames
  <2>5. PICK a \in segs \cup {1} : ActiveChoice(a) /\ segs' = segs \cup {a} /\ active' = a
    BY <2>1 DEF Recover
  <2>6. \A s \in NormalSegs : s <= a
    BY <1>1, <2>3, <2>5, ChoiceIsLast
  <2>7. \A s \in segs' : s < CompactionBase => s <= active'
    BY <1>1, <2>5, <2>6 DEF NormalSegs, LooseTypes
  <2> QED BY <2>2, <2>3, <2>4, <2>7 DEF LayersInOrder, Committed
<1>4. CASE UNCHANGED cvars
  <2>1. UNCHANGED <<mishaps, synced, files, cpc, segs, active, plan, answer, up>>
    BY <1>4 DEF cvars, vars, disk, engine, flusher, callers, observed, compactor
  <2>2. Committed' = Committed
    BY <2>1, PlannedFramesUnchanged DEF Committed
  <2> QED BY <2>1, <2>2 DEF LayersInOrder
<1> QED BY <1>2, <1>3, <1>4, EngineLayers, CompactorLayers DEF CompactionNext

-----------------------------------------------------------------------------
(* The index and the newest records.                                       *)

\* The newest frame of a key is one of its tops; when equal ids mean equal
\* frames, all its tops are live or none is.
LEMMA HasTop ==
  ASSUME CompactorPlaced, FlusherInOrder, LayersInOrder,
         mishaps \cap {"raced", "half_removed"} = {},
         NEW C \in SUBSET files, NEW h \in C
  PROVE  \E t \in C : /\ t.key = h.key /\ TopOf(t, C) /\ t.seq >= h.seq
                      /\ \A g \in C : ~Supersedes(g, t)
                      /\ TopOf(h, C) => t.seq = h.seq /\ t.del = h.del
<1>1. files \subseteq Frame /\ \E b \in Nat : \A f \in C : f.seq <= b
  BY DEF CompactorPlaced, LooseTypes, FlusherInOrder
<1>2. C \in SUBSET Frame /\ \A f \in C : f.seq \in Nat
  BY <1>1 DEF Frame, SeqId
<1>3. PICK t \in C : /\ t.key = h.key /\ t.seq >= h.seq
                     /\ \A g \in C : ~Supersedes(g, t)
                     /\ \A g \in C : g.key = h.key => g.seq <= t.seq
  BY <1>1, <1>2, HasNewest
<1>4. TopOf(h, C) => t.seq = h.seq
  BY <1>2, <1>3 DEF TopOf
<1>5. t.seq = h.seq => t.del = h.del
  BY <1>3 DEF LayersInOrder
<1> QED BY <1>3, <1>4, <1>5 DEF TopOf

LEMMA EngineTop ==
  ASSUME CompactorPlaced, CompactorPlaced', FlusherInOrder, FlusherInOrder',
         PointersInOrder, IndexIsTop, EngineStep
  PROVE  IndexIsTop'
<1> SUFFICES ASSUME mishaps' \cap {"raced", "half_removed"} = {}
             PROVE  IndexIsTop'
  BY DEF IndexIsTop
<1>1. /\ up /\ up' /\ LooseTypes /\ mishaps \cap {"raced", "half_removed"} = {}
      /\ "raced" \notin mishaps /\ cpc' = cpc /\ victims' = victims /\ sources' = sources
  BY EngineEffect DEF CompactorPlaced
<1>2. /\ \A f \in index : TopOf(f, Committed)
      /\ \A h \in Staying : ~h.del /\ TopOf(h, Staying) => \E f \in index : f.key = h.key
      /\ TombstonesOutlast
  BY <1>1 DEF IndexIsTop
<1>3. /\ files \subseteq files' /\ files' \subseteq files \cup PlannedFrames
      /\ files' # files => pc = "write"
  BY <1>1, EngineMoves DEF FlusherInOrder
<1>4. active \notin victims /\ \A f \in files : f.seq \in Nat
  BY <1>1 DEF PointersInOrder, LooseTypes, Frame, SeqId
<1>5. TombstonesOutlast'
  <2>1. ASSUME NEW t \in files', t.del, t.seg \in victims
        PROVE  t \in files
    BY <1>1, <1>3, <1>4, <2>1, GroupOnTop
  <2>2. ASSUME NEW t \in files, NEW h \in files', h.seq < t.seq
        PROVE  h \in files
    <3> SUFFICES ASSUME h \notin files
                 PROVE  FALSE
      OBVIOUS
    <3>1. h \in PlannedFrames /\ t \in Committed
      BY <1>1, <1>3, GroupOnTop
    <3>2. t.seq < h.seq /\ h \in Frame
      BY <1>1, <3>1, GroupOnTop
    <3> QED BY <1>4, <2>2, <3>2 DEF Frame, SeqId
  <2> QED BY <1>1, <1>2, <2>1, <2>2 DEF TombstonesOutlast
<1>6. CASE ~ApplyAndAck
  <2>1. Committed' = Committed /\ index' = index /\ Staying' = Staying
    BY <1>1, <1>6, CommittedMoves, EngineEffect DEF Staying, Going
  <2> QED BY <1>1, <1>2, <1>5, <2>1 DEF IndexIsTop, TopOf
<1>7. CASE ApplyAndAck
  <2> DEFINE F == FramesOf(Head(plan), active)
  <2>1. F \subseteq PlannedFrames /\ index' = Apply(index, F) /\ F \subseteq Frame
        /\ \A f \in F : f.seg = active
    BY <1>7, NewlyAcked
  <2>2. PlannedFrames \subseteq files
    BY <1>1, <1>7 DEF PointersInOrder, ApplyAndAck
  <2>3. Committed' = Committed \cup F
    BY <1>7, <2>2, CommittedMoves
  <2>4. Staying' = Staying \cup F
    <3>1. Going' = Going /\ active \notin Going
      BY <1>1, <1>4 DEF Going
    <3> QED BY <2>1, <2>3, <3>1 DEF Staying
  <2>5. \A f \in Committed, g \in F : f.seq < g.seq
    BY <1>1, <2>1, GroupOnTop
  <2>6. \A f \in Committed \cup F : f.seq \in Nat /\ f.seg \in Nat
    BY <1>1, <2>1 DEF Committed, LooseTypes, Frame, SeqId
  <2>7. ASSUME NEW f \in index'
        PROVE  TopOf(f, Committed')
    <3>1. CASE f \in Newest(F)
      <4>1. f \in F /\ \A g \in F : g.key = f.key => g.seq <= f.seq
        BY <2>6, <3>1 DEF Newest, Supersedes
      <4> QED BY <2>3, <2>5, <2>6, <4>1 DEF TopOf
    <3>2. CASE f \notin Newest(F)
      <4>1. f \in index /\ \A g \in F : g.key # f.key
        BY <2>1, <2>7, <3>2 DEF Apply
      <4> QED BY <1>2, <2>3, <4>1 DEF TopOf
    <3> QED BY <3>1, <3>2
  <2>8. ASSUME NEW h \in Staying', ~h.del, TopOf(h, Staying')
        PROVE  \E f \in index' : f.key = h.key
    <3>1. CASE h \in F
      <4>1. \A g \in F : ~Supersedes(g, h)
        BY <2>1, <2>4, <2>6, <2>8, <3>1 DEF TopOf, Supersedes
      <4> QED BY <2>1, <2>8, <3>1, <4>1 DEF Apply, Newest
    <3>2. CASE h \notin F
      <4>1. h \in Staying /\ h \in Committed
        BY <2>4, <2>8, <3>2 DEF Staying
      <4>2. \A g \in F : g.key # h.key
        <5> SUFFICES ASSUME NEW g \in F, g.key = h.key
                     PROVE  FALSE
          OBVIOUS
        <5>1. g.seq <= h.seq
          BY <2>4, <2>8 DEF TopOf
        <5> QED BY <2>5, <2>6, <4>1, <5>1
      <4>3. PICK f \in index : f.key = h.key
        BY <1>2, <2>4, <2>8, <4>1 DEF TopOf
      <4> QED BY <2>1, <4>2, <4>3 DEF Apply
    <3> QED BY <3>1, <3>2
  <2> QED BY <1>1, <1>5, <2>7, <2>8 DEF IndexIsTop
<1> QED BY <1>6, <1>7

\* What lists and collects pointers puts no record behind its tombstone.
LEMMA CompactorOutlast ==
  ASSUME CompactorPlaced, FlusherInOrder, PointersInOrder, LayersInOrder, IndexIsTop,
         CompactorStep, mishaps' \cap {"raced", "half_removed"} = {}
  PROVE  TombstonesOutlast'
<1>1. /\ up /\ LooseTypes /\ CompactionTypeOK /\ TombstonesOutlast
      /\ mishaps \cap {"raced", "half_removed"} = {} /\ "raced" \notin mishaps
      /\ \A f \in files : f.seg \in segs
      /\ \A f \in index : TopOf(f, Committed)
  BY CompactorEffect DEF CompactorPlaced, IndexIsTop
<1>2. /\ active \notin victims /\ active \in Nat
      /\ \A f \in PlannedFrames : f.seg = active
      /\ \A f \in files : f.seq \in Nat /\ f.seg \in Nat
  BY <1>1, GroupOnTop DEF PointersInOrder, LooseTypes, Frame, SeqId
<1> USE DEF disk, engine, flusher, callers, observed, compactor, vars
<1>3. CASE ListSegments
  <2>1. /\ seen = active /\ files' = files
        /\ cpc' \in {"idle", "collect"} /\ (cpc' = "collect" => victims' = segs \ {active})
    BY <1>3 DEF ListSegments, Note, Quit
  <2>2. ASSUME NEW t \in files, NEW h \in files, t.del, t.seg # active, h.seq < t.seq
        PROVE  h.seg # active
    <3>1. t.seg < CompactionBase /\ t.seg <= active /\ active < CompactionBase
      BY <1>1, <2>2 DEF LayersInOrder, CompactorPlaced
    <3> SUFFICES ASSUME h.seg = active
                 PROVE  FALSE
      OBVIOUS
    <3>2. t.seg < h.seg
      BY <1>2, <2>2, <3>1
    <3>3. t.seq < h.seq
      BY <1>1, <3>1, <3>2 DEF LayersInOrder
    <3> QED BY <1>2, <2>2, <3>3
  <2> QED BY <1>1, <2>1, <2>2 DEF TombstonesOutlast
<1>4. CASE CollectPointers
  <2>1. /\ cpc = "collect" /\ cpc' = "create" /\ files' = files /\ victims' = victims
        /\ sources' \subseteq index
    BY <1>4 DEF CollectPointers
  <2>2. ASSUME NEW t \in files, NEW f \in index, t.seg \in victims, f.key = t.key
        PROVE  t.seq <= f.seq
    <3>1. t \in Committed
      BY <1>2, <2>2 DEF Committed
    <3> QED BY <1>1, <2>2, <3>1 DEF TopOf
  <2> QED BY <1>1, <2>1, <2>2 DEF TombstonesOutlast
<1>5. CASE CopyFrame
  <2>1. PICK f \in sources \cap files, c \in Frame :
            files' = files \cup {c} /\ c.seq = f.seq /\ c.key = f.key /\ c.del = f.del
    BY <1>1, <1>5, CopyType DEF CopyFrame, Readable, CompactionTypeOK
  <2>2. ~f.del /\ cpc = "copy" /\ cpc' = "copy" /\ victims' = victims /\ sources' = sources
    BY <1>1, <1>5, <2>1 DEF CopyFrame, FlusherInOrder
  <2>3. \A t \in files, g \in sources : t.del /\ t.seg \in victims /\ g.key = t.key
                                          => t.seq <= g.seq
    BY <1>1, <2>2 DEF TombstonesOutlast
  <2>4. \A t \in files : t.del /\ t.seg \in victims /\ c.key = t.key => ~(c.seq < t.seq)
    <3> SUFFICES ASSUME NEW t \in files, t.del, t.seg \in victims, c.key = t.key
                 PROVE  ~(c.seq < t.seq)
      OBVIOUS
    <3>1. t.seq <= f.seq
      BY <2>1, <2>3
    <3> QED BY <1>2, <2>1, <3>1
  <2>5. \A t \in files' : t.del => t \in files
    BY <2>1, <2>2
  <2>6. \A t, h \in files : t.del /\ t.seg \in victims /\ h.key = t.key /\ h.seq < t.seq
                                => h.seg \in victims
    BY <1>1, <2>2 DEF TombstonesOutlast
  <2>7. \A t, h \in files' : t.del /\ t.seg \in victims /\ h.key = t.key /\ h.seq < t.seq
                                => h.seg \in victims
    BY <2>1, <2>4, <2>5, <2>6
  <2> QED BY <2>2, <2>3, <2>5, <2>7 DEF TombstonesOutlast
<1>6. CASE CreateCompacted \/ SyncCopies \/ PublishCompacted
  <2>1. /\ files' = files /\ cpc \in {"create", "copy", "publish"}
        /\ \/ cpc' = "idle"
           \/ cpc' \in {"copy", "publish", "swap"} /\ victims' = victims /\ sources' = sources
    BY <1>6 DEF CreateCompacted, SyncCopies, PublishCompacted, Quit
  <2>2. cpc' = "copy" => cpc = "create"
    BY <1>6 DEF CreateCompacted, SyncCopies, PublishCompacted, Quit
  <2> QED BY <1>1, <2>1, <2>2 DEF TombstonesOutlast
<1>7. CASE StartCompaction \/ SwapPointers \/ Finish \/ CompactionFails
  BY <1>7 DEF StartCompaction, SwapPointers, Finish, CompactionFails, Quit, TombstonesOutlast
<1>8. ASSUME NEW s \in victims, Unlink(s)
      PROVE  TombstonesOutlast'
  BY <1>8 DEF Unlink, TombstonesOutlast
<1> QED BY <1>3, <1>4, <1>5, <1>6, <1>7, <1>8 DEF CompactorStep

LEMMA CompactorTop ==
  ASSUME CompactorPlaced, CompactorPlaced', FlusherInOrder, FlusherInOrder', PointersInOrder,
         PointersInOrder', LayersInOrder, IndexIsTop, CompactorStep
  PROVE  IndexIsTop'
<1> SUFFICES ASSUME mishaps' \cap {"raced", "half_removed"} = {}
             PROVE  IndexIsTop'
  BY DEF IndexIsTop
<1>1. /\ up /\ up' /\ LooseTypes /\ CompactionTypeOK /\ active' = active
      /\ mishaps \cap {"raced", "half_removed"} = {} /\ "raced" \notin mishaps
      /\ "raced" \notin mishaps'
      /\ PlannedFrames' = PlannedFrames
      /\ \A f \in files : f.seg \in segs
  BY CompactorEffect DEF CompactorPlaced
<1>2. /\ \A f \in index : TopOf(f, Committed)
      /\ \A h \in Staying : ~h.del /\ TopOf(h, Staying) => \E f \in index : f.key = h.key
      /\ TombstonesOutlast
  BY <1>1 DEF IndexIsTop
<1>3. /\ \A f \in sources : /\ CopyOf(f).seg = target /\ CopyOf(f).seq = f.seq
                            /\ CopyOf(f).key = f.key /\ CopyOf(f).del = f.del
      /\ index \subseteq files /\ index' \subseteq files'
      /\ \A f \in files : f.seq \in Nat /\ f.key \in Keys
  BY <1>1, CopyType DEF CompactionTypeOK, PointersInOrder, LooseTypes, Frame, SeqId
<1>4. TombstonesOutlast'
  BY CompactorOutlast
<1>5. \A f \in index : f \in files' => TopOf(f, Committed')
  <2>1. ASSUME NEW f \in index, f \in files', NEW g \in Committed', g.key = f.key
        PROVE  g.seq <= f.seq
    <3>1. TopOf(f, Committed)
      BY <1>2
    <3>2. PICK h \in Committed : h.seq = g.seq /\ h.key = g.key
      BY <1>3, CommittedCopies
    <3> QED BY <2>1, <3>1, <3>2 DEF TopOf
  <2>2. \A f \in index : f \in files' => f \in Committed'
    BY <1>2, CommittedCopies DEF TopOf
  <2> QED BY <2>1, <2>2 DEF TopOf
<1> DEFINE Kept ==
      /\ \A f \in index' : TopOf(f, Committed')
      /\ \A h \in Staying' : ~h.del /\ TopOf(h, Staying') => \E f \in index' : f.key = h.key
<1> SUFFICES Kept
  BY <1>1, <1>4 DEF IndexIsTop
<1> USE DEF disk, engine, flusher, callers, observed, compactor, vars
<1>6. CASE \/ StartCompaction \/ ListSegments \/ CollectPointers \/ CreateCompacted
           \/ SyncCopies \/ PublishCompacted \/ Finish \/ CompactionFails
  <2>1. index' = index /\ files' = files /\ cpc # "unlink" /\ cpc' # "unlink"
    BY <1>6 DEF StartCompaction, ListSegments, CollectPointers, CreateCompacted,
                SyncCopies, PublishCompacted, Finish, CompactionFails, Quit
  <2>2. Committed' = Committed /\ Staying' = Staying
    BY <1>1, <2>1 DEF Committed, Staying, Going
  <2> QED BY <1>2, <2>1, <2>2 DEF TopOf
<1>7. CASE CopyFrame
  <2>1. index' = index /\ cpc = "copy" /\ cpc' = "copy" /\ files \subseteq files'
    BY <1>7 DEF CopyFrame
  <2>2. Staying = Committed /\ Staying' = Committed'
    BY <2>1 DEF Staying, Going
  <2>3. Committed \subseteq Committed'
    BY <2>1, CommittedCopies DEF Committed
  <2>4. ASSUME NEW h \in Committed', ~h.del, TopOf(h, Committed')
        PROVE  \E f \in index : f.key = h.key
    <3>1. PICK g \in Committed : g.seq = h.seq /\ g.key = h.key /\ g.del = h.del
      BY <1>3, CommittedCopies
    <3>2. TopOf(g, Committed)
      BY <2>3, <2>4, <3>1 DEF TopOf
    <3> QED BY <1>2, <2>2, <2>4, <3>1, <3>2
  <2> QED BY <1>3, <1>5, <2>1, <2>2, <2>4
<1>8. CASE SwapPointers
  <2>1. /\ cpc = "swap" /\ cpc' = "unlink" /\ files' = files /\ victims' = victims
        /\ index' = (index \ sources) \cup { CopyOf(f) : f \in index \cap sources }
    BY <1>8 DEF SwapPointers
  <2>2. Committed' = Committed /\ Staying = Committed
        /\ Staying' = { f \in Committed : f.seg \notin victims }
    BY <1>1, <2>1 DEF Committed, Staying, Going
  <2>3. ASSUME NEW f \in index \cap sources
        PROVE  TopOf(CopyOf(f), Committed)
    <3>1. CopyOf(f) \in files /\ TopOf(f, Committed)
      BY <1>1, <1>2, <2>1 DEF PointersInOrder
    <3>2. CopyOf(f) \in Committed
      <4>1. Committed = { g \in files : g.seq < Low }
        BY <1>1, CommittedIsLow
      <4> QED BY <1>3, <3>1, <4>1 DEF TopOf
    <3> QED BY <1>3, <3>1, <3>2 DEF TopOf
  <2>4. \A k \in Keys : (\E f \in index : f.key = k) => \E f \in index' : f.key = k
    BY <1>3, <2>1
  <2>5. ASSUME NEW h \in Staying', ~h.del, TopOf(h, Staying')
        PROVE  \E f \in index' : f.key = h.key
    <3>1. h \in Committed /\ h \in files /\ h.seg \notin victims
      BY <2>2, <2>5 DEF Committed
    <3>2. PICK x \in Committed : x.key = h.key /\ TopOf(x, Committed) /\ x.seq >= h.seq
      BY <1>1, <3>1, HasTop DEF Committed
    <3>3. x \in files /\ x.seq \in Nat /\ h.seq \in Nat /\ x.del \in BOOLEAN
      BY <1>1, <1>3, <3>1, <3>2 DEF Committed, LooseTypes, Frame
    <3>4. CASE ~x.del
      BY <1>2, <1>3, <2>2, <2>4, <3>1, <3>2, <3>4
    <3>5. CASE x.del
      <4>1. x.seq # h.seq
        BY <1>1, <2>5, <3>1, <3>2, <3>3, <3>5 DEF LayersInOrder
      <4>2. h.seq < x.seq
        BY <3>2, <3>3, <4>1
      <4>3. x.seg \notin victims
        BY <1>2, <2>1, <3>1, <3>2, <3>3, <3>5, <4>2 DEF TombstonesOutlast
      <4>4. x.seq <= h.seq
        BY <2>2, <2>5, <3>2, <4>3 DEF TopOf
      <4> QED BY <3>3, <4>2, <4>4
    <3> QED BY <3>3, <3>4, <3>5
  <2> QED BY <1>3, <1>5, <2>1, <2>2, <2>3, <2>5
<1>9. ASSUME NEW s \in victims, Unlink(s)
      PROVE  Kept
  <2>1. /\ cpc = "unlink" /\ victims' = victims \ {s} /\ index' = index
        /\ cpc' = IF victims' = {} THEN "finish" ELSE "unlink"
        /\ segs' = segs \ {s} /\ files' = { f \in files : f.seg \in segs' }
    BY <1>9 DEF Unlink, Note
  <2>2. Staying' = Staying
    BY <1>1, <2>1 DEF Staying, Going, Committed
  <2> QED BY <1>2, <1>3, <1>5, <2>1, <2>2
<1> QED BY <1>6, <1>7, <1>8, <1>9 DEF CompactorStep

LEMMA NextTop ==
  ASSUME CompactorPlaced, CompactorPlaced', FlusherInOrder, FlusherInOrder', PointersInOrder,
         PointersInOrder', LayersInOrder, LayersInOrder', IndexIsTop, [CompactionNext]_cvars
  PROVE  IndexIsTop'
<1>1. LooseTypes
  BY DEF CompactorPlaced
<1>2. CASE GoDownWithCompactor
  BY <1>1, <1>2, DownEffect DEF IndexIsTop
<1>3. CASE RecoverWithCompactor
  <2> SUFFICES ASSUME mishaps' \cap {"raced", "half_removed"} = {}
               PROVE  IndexIsTop'
    BY DEF IndexIsTop
  <2>1. Recover /\ mishaps \subseteq mishaps' /\ cpc' = cpc
    BY <1>3 DEF RecoverWithCompactor, ReplayPromises, compactor
  <2>2. /\ ~up /\ cpc = "idle" /\ files' = files /\ plan' = <<>> /\ index' = Newest(files)
    BY <2>1 DEF Recover, CompactorPlaced, FlusherInOrder, Shape, flusher
  <2>3. Committed' = files /\ Staying' = files
    BY <2>1, <2>2 DEF PlannedFrames, Committed, Staying, Going
  <2>4. mishaps \cap {"raced", "half_removed"} = {} /\ \A f \in files : f.seq \in Nat
    BY <1>1, <2>1 DEF LooseTypes, Frame, SeqId
  <2>5. ASSUME NEW f \in index'
        PROVE  TopOf(f, files)
    BY <2>2, <2>4 DEF Newest, Supersedes, TopOf
  <2>6. ASSUME NEW h \in files, ~h.del, TopOf(h, files)
        PROVE  \E f \in index' : f.key = h.key
    <3>1. PICK t \in files : t.key = h.key /\ t.del = h.del /\ \A g \in files : ~Supersedes(g, t)
      BY <2>4, <2>6, HasTop
    <3> QED BY <2>2, <2>6, <3>1 DEF Newest
  <2>7. TombstonesOutlast'
    BY <2>1, <2>2 DEF TombstonesOutlast
  <2> QED BY <2>3, <2>5, <2>6, <2>7 DEF IndexIsTop
<1>4. CASE UNCHANGED cvars
  <2>1. UNCHANGED <<mishaps, files, cpc, victims, sources, active, plan, index, up>>
    BY <1>4 DEF cvars, vars, disk, engine, flusher, callers, observed, compactor
  <2>2. Committed' = Committed /\ Staying' = Staying
    BY <2>1, PlannedFramesUnchanged DEF Committed, Staying, Going
  <2> QED BY <2>1, <2>2 DEF IndexIsTop, TopOf, TombstonesOutlast
<1> QED BY <1>2, <1>3, <1>4, EngineTop, CompactorTop DEF CompactionNext

-----------------------------------------------------------------------------
(* Deleted keys.                                                           *)

LEMMA EngineDeletes ==
  ASSUME CompactorPlaced, CompactorPlaced', FlusherInOrder, FlusherInOrder', PointersInOrder,
         EntriesCover, LayersInOrder, DeletesCovered, EngineStep
  PROVE  DeletesCovered'
<1> SUFFICES ASSUME mishaps' = {}, ~exposed'
             PROVE  DeletesCovered'
  BY DEF DeletesCovered
<1>1. /\ up /\ up' /\ LooseTypes /\ LooseTypes' /\ mishaps = {} /\ ~exposed /\ Next
      /\ WaitingInOrder /\ Going' = Going
      /\ promised' = Promised(acked' \ acked)
  BY EngineEffect DEF CompactorPlaced, FlusherInOrder, Going
<1>2. /\ files \subseteq files' /\ files' \subseteq files \cup PlannedFrames
  BY <1>1, EngineMoves DEF FlusherInOrder
<1>3. Safe \subseteq Safe'
  <2>1. segs \subseteq segs' /\ (entries' = entries \/ entries' = segs)
    BY EngineEffect
       DEF Quietly, RollSync, RollId, RollCreate, RollDirSync, WriteGroup, SyncGroup,
           FlushFails, ApplyAndAck, disk, engine, flusher, callers, observed
  <2>2. synced \subseteq synced'
    BY <1>1, EngineMoves DEF FlusherInOrder
  <2> QED BY <2>1, <2>2 DEF Safe
<1> DEFINE F == FramesOf(Head(plan), active)
<1>4. ASSUME NEW g \in files', answer'[g.req] = "ok"
      PROVE  \/ g \in files /\ answer[g.req] = "ok"
             \/ ApplyAndAck /\ g \in F
  <2>1. g.req \in Requests
    BY <1>1 DEF LooseTypes, Frame
  <2>2. answer[g.req] = "ok" \/ (ApplyAndAck /\ g.req = Head(plan).req)
    BY <1>1, <1>4, <2>1, AnswersSettle
  <2>3. CASE answer[g.req] = "ok"
    BY <1>1, <1>2, <2>3, GroupOnTop
  <2>4. CASE ApplyAndAck /\ answer[g.req] # "ok"
    <3>1. PlannedFrames = F \cup PlannedFrames' /\ answer[Head(plan).req] = "queued"
      BY <1>1, <2>4, PlanShrinks, AnswersOfApply DEF FlusherInOrder
    <3>2. g \notin Committed
      BY <1>1, <2>2, <2>4, <3>1 DEF LayersInOrder
    <3>3. g \in PlannedFrames
      BY <1>2, <3>2 DEF Committed
    <3>4. g \notin PlannedFrames'
      <4>1. \A f \in PlannedFrames' : answer'[f.req] \in {"queued", "err"}
        <5>1. PlannedInOrder' /\ WaitingInOrder' /\ \A f \in PlannedFrames' : f.req \in ReqsOf(plan')
          <6>1. ReqsOf(plan') = ReqsOf(Tail(plan)) /\ plan' = Tail(plan) /\ active' = active
            BY <2>4 DEF ApplyAndAck
          <6>2. \A i \in DOMAIN plan' : \A f \in FramesOf(plan'[i], active') : f.req = plan'[i].req
            BY DEF FramesOf
          <6>3. \A f \in PlannedFrames' : f.req \in ReqsOf(plan')
            BY <6>2 DEF PlannedFrames, ReqsOf
          <6> QED BY <1>1, <6>3, PlannedIdsNext DEF FlusherInOrder
        <5> QED BY <5>1 DEF WaitingInOrder
      <4> QED BY <1>4, <4>1
    <3> QED BY <2>4, <3>1, <3>3, <3>4
  <2> QED BY <2>2, <2>3, <2>4
<1>5. ASSUME NEW p \in promised, p.del, ApplyAndAck => \A f \in F : f.key # p.key
      PROVE  \/ p \in files' /\ p \in Safe' /\ p.seg \notin Going'
             \/ \A g \in files' : g.key = p.key /\ ~g.del /\ g.seg \notin Going'
                                   /\ answer'[g.req] = "ok" => g.seq > p.seq
  <2>1. \/ p \in files /\ p \in Safe /\ p.seg \notin Going
        \/ \A g \in files : g.key = p.key /\ ~g.del /\ g.seg \notin Going
                              /\ answer[g.req] = "ok" => g.seq > p.seq
    BY <1>1, <1>5 DEF DeletesCovered
  <2> QED BY <1>1, <1>2, <1>3, <1>4, <1>5, <2>1
<1>6. CASE ~ApplyAndAck
  BY <1>1, <1>5, <1>6, EngineEffect DEF DeletesCovered
<1>7. CASE ApplyAndAck
  <2>1. acked' \ acked = F /\ F \subseteq PlannedFrames /\ \A f \in F : f.seg = active
    BY <1>7, NewlyAcked
  <2>2. ASSUME NEW p \in F
        PROVE  p \in files' /\ p \in Safe' /\ p.seg \notin Going'
    <3>1. pc = "apply"
      BY <1>7 DEF ApplyAndAck
    <3>2. /\ PlannedFrames \subseteq files /\ PlannedFrames \subseteq synced
          /\ active \in segs /\ active \in entries /\ active \notin Going
      BY <1>1, <3>1 DEF PointersInOrder, EntriesCover, Going
    <3> QED BY <1>1, <1>2, <1>3, <2>1, <3>2 DEF Safe
  <2>3. \A p \in promised' : p \in F \/ (p \in promised /\ \A f \in F : f.key # p.key)
    BY <1>1, <2>1 DEF Promised
  <2> QED BY <1>5, <2>2, <2>3 DEF DeletesCovered
<1> QED BY <1>6, <1>7

LEMMA CompactorDeletes ==
  ASSUME CompactorPlaced, FlusherInOrder, PointersInOrder, LayersInOrder, IndexIsTop,
         DeletesCovered, CompactorStep
  PROVE  DeletesCovered'
<1> SUFFICES ASSUME mishaps' = {}, ~exposed', NEW p \in promised, p.del
             PROVE  \/ p \in files' /\ p \in Safe' /\ p.seg \notin Going'
                    \/ \A g \in files' : g.key = p.key /\ ~g.del /\ g.seg \notin Going'
                                           /\ answer[g.req] = "ok" => g.seq > p.seq
  <2>1. promised' = promised /\ answer' = answer
    BY CompactorEffect
  <2> QED BY <2>1 DEF DeletesCovered
<1>1. /\ up /\ LooseTypes /\ CompactionTypeOK /\ mishaps = {} /\ ~exposed
      /\ p \in Frame
  BY CompactorEffect DEF CompactorPlaced, LooseTypes, CompactionTypeOK
<1>2. \/ p \in files /\ p \in Safe /\ p.seg \notin Going
      \/ \A g \in files : g.key = p.key /\ ~g.del /\ g.seg \notin Going
                            /\ answer[g.req] = "ok" => g.seq > p.seq
  BY <1>1 DEF DeletesCovered
<1> USE DEF disk, engine, flusher, callers, observed, compactor, vars
<1>3. CASE \/ StartCompaction \/ ListSegments \/ CollectPointers \/ CompactionFails
           \/ CreateCompacted \/ SyncCopies \/ PublishCompacted
  <2>1. /\ files' = files /\ segs \subseteq segs' /\ segs \cap entries \subseteq entries'
        /\ synced \subseteq synced' /\ Going' = Going
    BY <1>3 DEF StartCompaction, ListSegments, CollectPointers, CompactionFails,
                CreateCompacted, SyncCopies, PublishCompacted, Quit, Going
  <2> QED BY <1>2, <2>1 DEF Safe
<1>4. CASE CopyFrame
  <2>1. PICK f \in sources \cap files, c \in Frame :
            files' = files \cup {c} /\ c.seq = f.seq /\ c.key = f.key /\ c.del = f.del
            /\ c.req = f.req
    BY <1>1, <1>4, CopyType DEF CopyFrame, Readable, CompactionTypeOK
  <2>2. /\ segs' = segs /\ entries' = entries /\ synced' = synced
        /\ Going = {} /\ Going' = {}
    BY <1>4 DEF CopyFrame, Going
  <2> QED BY <1>2, <2>1, <2>2 DEF Safe
<1>5. CASE SwapPointers
  <2>1. /\ cpc = "swap" /\ files' = files /\ Safe' = Safe /\ Going = {} /\ Going' = victims
    BY <1>5 DEF SwapPointers, Safe, Going
  <2>2. CASE p \in files /\ p \in Safe
    <3>1. CASE p.seg \notin victims
      BY <2>1, <2>2, <3>1
    <3>2. CASE p.seg \in victims
      <4>1. \A g \in files : g.key = p.key /\ g.seq < p.seq => g.seg \in victims
        BY <1>1, <2>1, <2>2, <3>2 DEF IndexIsTop, TombstonesOutlast
      <4>2. \A g \in files : g.key = p.key /\ g.seq = p.seq => g.del
        BY <1>1, <2>2 DEF LayersInOrder
      <4>3. p.seq \in Nat /\ \A g \in files : g.seq \in Nat
        BY <1>1 DEF LooseTypes, Frame, SeqId
      <4> QED BY <2>1, <4>1, <4>2, <4>3
    <3> QED BY <3>1, <3>2
  <2> QED BY <1>2, <2>1, <2>2
<1>6. ASSUME NEW s \in victims, Unlink(s)
      PROVE  \/ p \in files' /\ p \in Safe' /\ p.seg \notin Going'
             \/ \A g \in files' : g.key = p.key /\ ~g.del /\ g.seg \notin Going'
                                    /\ answer[g.req] = "ok" => g.seq > p.seq
  <2>1. /\ cpc = "unlink" /\ victims' = victims \ {s} /\ synced' = synced /\ entries' = entries
        /\ cpc' = IF victims' = {} THEN "finish" ELSE "unlink"
        /\ segs' = segs \ {s} /\ files' = { f \in files : f.seg \in segs' }
    BY <1>6 DEF Unlink, Note
  <2>2. Going = victims /\ Going' = victims \ {s}
    BY <2>1 DEF Going
  <2>3. \A f \in files' : f \in files /\ f.seg # s
    BY <2>1
  <2>4. p \in files /\ p \in Safe /\ p.seg \notin Going => p \in files' /\ p \in Safe' /\ p.seg \notin Going'
    BY <2>1, <2>2 DEF Safe
  <2> QED BY <1>2, <2>2, <2>3, <2>4
<1>7. CASE Finish
  <2>1. /\ files' = files /\ segs' = segs /\ entries' = segs /\ Going = {} /\ Going' = {}
        /\ synced' = { f \in synced : f.seg \in segs }
    BY <1>7 DEF Finish, Note, Going, Quit
  <2> QED BY <1>2, <2>1 DEF Safe
<1> QED BY <1>3, <1>4, <1>5, <1>6, <1>7 DEF CompactorStep

LEMMA NextDeletes ==
  ASSUME CompactorPlaced, CompactorPlaced', FlusherInOrder, FlusherInOrder', PointersInOrder,
         EntriesCover, LayersInOrder, IndexIsTop, DeletesCovered, [CompactionNext]_cvars
  PROVE  DeletesCovered'
<1>1. LooseTypes /\ WaitingInOrder
  BY DEF CompactorPlaced, FlusherInOrder
<1>2. CASE GoDownWithCompactor
  <2> SUFFICES ASSUME mishaps' = {}, ~exposed', NEW p \in promised, p.del
               PROVE  \/ p \in files' /\ p \in Safe' /\ p.seg \notin Going'
                      \/ \A g \in files' : g.key = p.key /\ ~g.del /\ g.seg \notin Going'
                                             /\ answer'[g.req] = "ok" => g.seq > p.seq
    BY <1>1, <1>2, DownEffect DEF DeletesCovered
  <2>1. /\ mishaps = {} /\ ~exposed /\ cpc \notin {"unlink", "finish"} /\ cpc' = "idle"
        /\ ~up' /\ Next
    BY <1>1, <1>2, DownEffect
  <2>2. Going = {} /\ Going' = {} /\ synced \subseteq files
    BY <2>1 DEF Going, LayersInOrder
  <2>3. PICK P \in SUBSET { f \in PlannedFrames : f.seg \in segs } :
              \/ /\ segs' = segs /\ entries' = entries /\ files' = files \cup P
                 /\ synced' = synced \/ synced' = synced \cup InSegment(files, active)
              \/ /\ segs \cap entries \subseteq segs' /\ entries' = segs' /\ synced' = files'
                 /\ files' \subseteq files \cup synced \cup P
                 /\ \A f \in synced : f.seg \in segs' => f \in files'
    BY <1>1, <1>2, DownEffect
  <2>4. p \in files /\ p \in Safe => p \in files' /\ p \in Safe'
    BY <2>3 DEF Safe
  <2>5. ASSUME NEW g \in files', answer'[g.req] = "ok"
        PROVE  g \in files /\ answer[g.req] = "ok"
    <3>1. g \in files \cup PlannedFrames
      BY <2>2, <2>3
    <3>2. g.req \in Requests /\ ~ApplyAndAck
      BY <1>1, <2>1, <3>1, ReqsType DEF LooseTypes, Frame, ApplyAndAck, engine
    <3>3. answer[g.req] = "ok"
      BY <1>1, <2>1, <2>5, <3>2, AnswersSettle
    <3>4. \A f \in PlannedFrames : answer[f.req] # "ok"
      BY <1>1, ReqsType DEF WaitingInOrder
    <3> QED BY <3>1, <3>3, <3>4
  <2>6. \/ p \in files /\ p \in Safe /\ p.seg \notin Going
        \/ \A g \in files : g.key = p.key /\ ~g.del /\ g.seg \notin Going
                              /\ answer[g.req] = "ok" => g.seq > p.seq
    BY <2>1 DEF DeletesCovered
  <2> QED BY <2>2, <2>4, <2>5, <2>6
<1>3. CASE RecoverWithCompactor
  <2>1. Recover /\ mishaps \subseteq mishaps' /\ cpc' = cpc /\ promised' \subseteq promised
    BY <1>3 DEF RecoverWithCompactor, ReplayPromises, compactor
  <2>2. PICK a \in segs \cup {1} :
          /\ segs' = segs \cup {a}
          /\ entries' = IF a \notin segs \/ a \in torn THEN segs' ELSE entries
          /\ synced' = IF a \in torn THEN synced \cup InSegment(files, a) ELSE synced
          /\ exposed' = (exposed \/ (a \in segs \ entries /\ a \notin torn))
    BY <2>1 DEF Recover
  <2>3. /\ cpc = "idle" /\ files' = files /\ answer' = answer
    BY <2>1 DEF Recover, CompactorPlaced, callers
  <2>4. Safe \subseteq Safe' /\ Going = {} /\ Going' = {}
    BY <2>1, <2>2, <2>3 DEF Safe, Going
  <2> QED BY <2>1, <2>2, <2>3, <2>4 DEF DeletesCovered
<1>4. CASE UNCHANGED cvars
  <2>1. UNCHANGED <<mishaps, exposed, files, cpc, victims, answer, promised, synced, segs, entries>>
    BY <1>4 DEF cvars, vars, disk, engine, flusher, callers, observed, compactor
  <2> QED BY <2>1 DEF DeletesCovered, Safe, Going
<1> QED BY <1>2, <1>3, <1>4, EngineDeletes, CompactorDeletes DEF CompactionNext

-----------------------------------------------------------------------------
(* The theorems.                                                           *)

\* The inductive invariant of what a restart shows.
ReplayInv == CompactionInv /\ LayersInOrder /\ IndexIsTop /\ DeletesCovered

LEMMA InitReplayInv == CompactionInit => ReplayInv
<1> SUFFICES ASSUME CompactionInit
             PROVE  ReplayInv
  OBVIOUS
<1>1. /\ segs = {1} /\ files = {} /\ synced = {} /\ active = 1 /\ index = {}
      /\ cpc = "idle" /\ promised = {}
  BY DEF CompactionInit, Init
<1>2. Committed = {} /\ Staying = {}
  BY <1>1 DEF Committed, Staying
<1> QED BY <1>1, <1>2, InitCompactionInv
        DEF ReplayInv, LayersInOrder, IndexIsTop, DeletesCovered, TombstonesOutlast

LEMMA NextReplayInv == ReplayInv /\ [CompactionNext]_cvars => ReplayInv'
<1> SUFFICES ASSUME ReplayInv, [CompactionNext]_cvars
             PROVE  ReplayInv'
  OBVIOUS
<1>1. CompactionInv /\ CompactionInv'
  BY NextCompactionInv DEF ReplayInv
<1>2. LayersInOrder'
  BY <1>1, NextLayers DEF ReplayInv, CompactionInv
<1>3. IndexIsTop'
  BY <1>1, <1>2, NextTop DEF ReplayInv, CompactionInv
<1>4. DeletesCovered'
  BY <1>1, NextDeletes DEF ReplayInv, CompactionInv
<1> QED BY <1>1, <1>2, <1>3, <1>4 DEF ReplayInv

LEMMA ReplayInvariant == CompactionSpec => []ReplayInv
BY InitReplayInv, NextReplayInv, PTL DEF CompactionSpec

\* While a compaction rewrites the log under the flusher, a restart would show
\* readers exactly what they see: the record with the highest id of each key, and
\* no key whose newest record is a delete (recover against what compact leaves).
THEOREM RestartShowsTheSame == CompactionSpec => []RestartChangesNothing
<1>1. ReplayInv => RestartChangesNothing
  <2> SUFFICES ASSUME ReplayInv, up, mishaps \cap {"raced", "half_removed"} = {},
                      cpc # "unlink"
               PROVE  Contents(index) = Contents(Newest(Committed))
    BY DEF RestartChangesNothing, Committed
  <2>1. /\ CompactorPlaced /\ FlusherInOrder /\ LayersInOrder
        /\ Staying = Committed /\ Committed \in SUBSET files
        /\ \A f \in files : f.seq \in Nat
    BY DEF ReplayInv, CompactionInv, Staying, Going, Committed, CompactorPlaced,
           LooseTypes, Frame, SeqId
  <2>2. /\ \A f \in index : TopOf(f, Committed) /\ ~f.del
        /\ \A h \in Committed : ~h.del /\ TopOf(h, Committed) => \E f \in index : f.key = h.key
    BY <2>1 DEF ReplayInv, IndexIsTop, FlusherInOrder
  <2>3. ASSUME NEW f \in index
        PROVE  \E t \in Newest(Committed) : t.key = f.key /\ t.seq = f.seq
    <3>1. f \in Committed /\ TopOf(f, Committed) /\ ~f.del
      BY <2>2 DEF TopOf
    <3>2. PICK t \in Committed : /\ t.key = f.key /\ t.seq = f.seq /\ t.del = f.del
                                 /\ \A g \in Committed : ~Supersedes(g, t)
      BY <2>1, <3>1, HasTop
    <3> QED BY <3>1, <3>2 DEF Newest
  <2>4. ASSUME NEW t \in Newest(Committed)
        PROVE  \E f \in index : f.key = t.key /\ f.seq = t.seq
    <3>1. t \in Committed /\ ~t.del /\ TopOf(t, Committed)
      BY <2>1 DEF Newest, Supersedes, TopOf
    <3>2. PICK f \in index : f.key = t.key
      BY <2>2, <3>1
    <3>3. f.seq <= t.seq /\ t.seq <= f.seq /\ f \in Committed
      BY <2>2, <3>1, <3>2 DEF TopOf
    <3>4. f.seq = t.seq
      BY <2>1, <3>1, <3>3
    <3> QED BY <3>2, <3>4
  <2> QED BY <2>3, <2>4 DEF Contents
<1> QED BY <1>1, ReplayInvariant, PTL

\* A key whose newest acknowledged write is a delete stays deleted over every
\* reopen: no compaction removes a tombstone and leaves behind a record it ends
\* (compact, recover), in a run without the events in Mishaps.
THEOREM DeletedStaysDeleted == CompactionSpec => []DeletedStaysDeletedUnlessHalfRemoved
<1>1. ReplayInv => DeletedStaysDeletedUnlessHalfRemoved
  <2> SUFFICES ASSUME ReplayInv, mishaps = {}, ~exposed, cpc # "unlink",
                      NEW p \in promised, p.del,
                      NEW g \in Newest(files), g.key = p.key, answer[g.req] = "ok"
               PROVE  g.seq > p.seq
    BY DEF DeletedStaysDeletedUnlessHalfRemoved, StaysDeleted
  <2>1. g \in files /\ ~g.del /\ \A f \in files : ~Supersedes(f, g)
    BY DEF Newest
  <2>2. Going = {} /\ g.seq \in Nat /\ p.seq \in Nat
    BY <2>1 DEF Going, ReplayInv, CompactionInv, CompactorPlaced, CompactionTypeOK, LooseTypes,
                Frame, SeqId
  <2>3. CASE p \in files
    <3>1. ~(p.seq > g.seq)
      BY <2>1, <2>3 DEF Supersedes
    <3>2. p.seq # g.seq
      BY <2>1, <2>3 DEF ReplayInv, LayersInOrder
    <3> QED BY <2>2, <3>1, <3>2
  <2> QED BY <2>1, <2>2, <2>3 DEF ReplayInv, DeletesCovered
<1> QED BY <1>1, ReplayInvariant, PTL
=============================================================================
