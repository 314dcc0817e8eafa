-------------------------- MODULE SegmentLogProofs --------------------------
(***************************************************************************)
(* Proofs about SegmentLog, for every value of its constants: the type     *)
(* invariant; that no acknowledged write is lost in a run that is not      *)
(* exposed; and the order of the log.  Sequence ids are unique and grow    *)
(* with the segments, only the newest segment has frames that are not      *)
(* synced or a torn tail, no id is left out, and the index shows what a    *)
(* replay of the files would show.                                         *)
(***************************************************************************)
EXTENDS SegmentLog, TLAPS, WellFoundedInduction

-----------------------------------------------------------------------------
(* Lemmas about frames.                                                    *)

\* The frames of a planned request are frames, in the segment they go to.
LEMMA FramesOfType ==
  ASSUME NEW p \in Planned, NEW s \in Nat
  PROVE  /\ FramesOf(p, s) \subseteq Frame
         /\ \A f \in FramesOf(p, s) : f.seg = s
<1>1. \A i \in DOMAIN p.writes : i \in Nat \ {0} /\ p.writes[i] \in Write
  BY DEF Planned, Writes
<1>2. p.first \in SeqId /\ p.req \in Requests
  BY DEF Planned
<1>3. \A i \in DOMAIN p.writes : p.first + i - 1 \in SeqId
  BY <1>1, <1>2 DEF SeqId
<1> QED BY <1>1, <1>2, <1>3 DEF FramesOf, Frame, Write

\* All planned frames are frames of the active segment.
LEMMA PlannedFramesType ==
  ASSUME plan \in Seq(Planned), active \in Nat
  PROVE  /\ PlannedFrames \subseteq Frame
         /\ \A f \in PlannedFrames : f.seg = active
<1>1. \A i \in DOMAIN plan : plan[i] \in Planned
  OBVIOUS
<1> QED BY <1>1, FramesOfType DEF PlannedFrames

\* The requests a caller may hand over have at least one write.
LEMMA WritesHaveLength ==
  ASSUME NEW w \in Writes
  PROVE  Len(w) \in Nat \ {0} /\ DOMAIN w = 1..Len(w)
<1>1. PICK n \in 1..MaxWrites : w \in [1..n -> Write]
  BY DEF Writes
<1>2. n \in Nat \ {0}
  BY SegmentLogAssumption
<1>3. Len(w) = n
  BY <1>1, <1>2
<1> QED BY <1>1, <1>2, <1>3

-----------------------------------------------------------------------------
(* The type invariant.                                                     *)

\* The types alone: what TypeOK says, without that durable directory entries
\* are those of existing files and that synced frames are on the disk, which a
\* process that unlinks files does not keep.
LooseTypes ==
  /\ segs \subseteq Nat /\ entries \subseteq Nat
  /\ files \subseteq Frame /\ synced \subseteq Frame /\ torn \subseteq segs
  /\ up \in BOOLEAN /\ failed \in BOOLEAN /\ index \subseteq Frame
  /\ active \in Nat /\ nextSeg \in Nat /\ nextSeq \in SeqId /\ seq \in SeqId
  /\ pc \in {"recv", "plan", "roll_sync", "roll_id", "roll_create",
             "roll_dir", "write", "sync", "apply", "exit", "stopped"}
  /\ group \in Seq(Entry) /\ plan \in Seq(Planned) /\ queue \in Seq(Entry)
  /\ answer \in [Requests -> Answers]
  /\ acked \subseteq Frame /\ exposed \in BOOLEAN /\ restarts \in Nat

\* What TypeOK adds to the types.
LEMMA TypesSplit ==
  TypeOK <=> LooseTypes /\ entries \subseteq segs /\ synced \subseteq files
<1>1. TypeOK => LooseTypes /\ entries \subseteq segs /\ synced \subseteq files
  <2> SUFFICES ASSUME TypeOK
               PROVE  LooseTypes /\ entries \subseteq segs /\ synced \subseteq files
    OBVIOUS
  <2>1. entries \subseteq segs /\ segs \subseteq Nat
        /\ synced \subseteq files /\ files \subseteq Frame
    BY DEF TypeOK
  <2>2. entries \subseteq Nat /\ synced \subseteq Frame
    BY <2>1
  <2> QED BY <2>1, <2>2 DEF TypeOK, LooseTypes
<1>2. LooseTypes /\ entries \subseteq segs /\ synced \subseteq files => TypeOK
  BY DEF TypeOK, LooseTypes
<1> QED BY <1>1, <1>2

LEMMA TypesSplitNext ==
  TypeOK' <=> LooseTypes' /\ entries' \subseteq segs' /\ synced' \subseteq files'
<1>1. TypeOK' <=> (LooseTypes /\ entries \subseteq segs /\ synced \subseteq files)'
  BY TypesSplit, PTL
<1> QED BY <1>1

LEMMA InitTypeOK == Init => TypeOK
<1> SUFFICES ASSUME Init PROVE TypeOK
  OBVIOUS
<1>1. group \in Seq(Entry) /\ plan \in Seq(Planned) /\ queue \in Seq(Entry)
  BY DEF Init
<1>2. answer \in [Requests -> Answers]
  BY DEF Init, Answers
<1>3. /\ segs \subseteq Nat /\ entries \subseteq segs
      /\ files \subseteq Frame /\ synced \subseteq files /\ torn \subseteq segs
  BY DEF Init
<1>4. /\ index \subseteq Frame /\ acked \subseteq Frame
      /\ active \in Nat /\ nextSeg \in Nat /\ nextSeq \in SeqId /\ seq \in SeqId
  BY DEF Init, SeqId
<1>5. /\ up \in BOOLEAN /\ failed \in BOOLEAN /\ exposed \in BOOLEAN
      /\ pc = "recv" /\ restarts \in Nat
  BY DEF Init
<1> QED BY <1>1, <1>2, <1>3, <1>4, <1>5 DEF TypeOK

\* Going down empties the engine and leaves the disk to the caller.
LEMMA GoDownTypes ==
  ASSUME LooseTypes, GoDown,
         segs' \subseteq Nat, entries' \subseteq Nat,
         files' \subseteq Frame, synced' \subseteq Frame,
         torn' \subseteq segs', answer' \in [Requests -> Answers]
  PROVE  LooseTypes'
<1>1. group' \in Seq(Entry) /\ plan' \in Seq(Planned) /\ queue' \in Seq(Entry)
  BY DEF GoDown
<1>2. restarts' \in Nat
  BY DEF GoDown, LooseTypes
<1>3. active' \in Nat /\ nextSeg' \in Nat /\ nextSeq' \in SeqId /\ seq' \in SeqId
  BY DEF GoDown, SeqId
<1> QED BY <1>1, <1>2, <1>3 DEF LooseTypes, GoDown

LEMMA AnsweredType ==
  ASSUME LooseTypes, NEW reqs, NEW with \in Answers
  PROVE  Answered(reqs, with) \in [Requests -> Answers]
BY DEF Answered, LooseTypes

LEMMA NextTypes == LooseTypes /\ [Next]_vars => LooseTypes'
<1> SUFFICES ASSUME LooseTypes, [Next]_vars PROVE LooseTypes'
  OBVIOUS
<1>p. /\ PlannedFrames \subseteq Frame
      /\ \A f \in PlannedFrames : f.seg = active
  BY PlannedFramesType DEF LooseTypes
<1>1. ASSUME NEW r \in Requests, Submit(r) PROVE LooseTypes'
  <2>1. PICK w \in Writes :
          queue' = Append(queue, [req |-> r, writes |-> w])
    BY <1>1 DEF Submit
  <2>2. [req |-> r, writes |-> w] \in Entry
    BY DEF Entry
  <2>3. queue' \in Seq(Entry)
    BY <2>1, <2>2 DEF LooseTypes
  <2>4. answer' \in [Requests -> Answers]
    BY <1>1 DEF Submit, LooseTypes, Answers
  <2> QED BY <1>1, <2>3, <2>4
        DEF Submit, LooseTypes, disk, engine, flusher, observed
<1>2. CASE Drain
  <2>1. PICK n \in 1..MaxGroup :
          /\ n <= Len(queue)
          /\ group' = SubSeq(queue, 1, n)
          /\ queue' = SubSeq(queue, n + 1, Len(queue))
    BY <1>2 DEF Drain
  <2>2. n \in Nat /\ queue \in Seq(Entry) /\ Len(queue) \in Nat
    BY <2>1, SegmentLogAssumption DEF LooseTypes
  <2>3. group' \in Seq(Entry) /\ queue' \in Seq(Entry)
    BY <2>1, <2>2
  <2> QED BY <1>2, <2>3 DEF Drain, LooseTypes, disk, engine, observed
<1>3. CASE PlanRequest
  <2>1. Head(group) \in Entry /\ Tail(group) \in Seq(Entry)
    BY <1>3 DEF PlanRequest, LooseTypes
  <2>2. [req |-> Head(group).req, writes |-> Head(group).writes,
         first |-> seq] \in Planned
    BY <2>1 DEF Entry, Planned, LooseTypes
  <2>3. plan' \in Seq(Planned)
    BY <1>3, <2>2 DEF PlanRequest, LooseTypes
  <2>4. Len(Head(group).writes) \in Nat
    BY <2>1, WritesHaveLength DEF Entry
  <2>5. seq' \in SeqId
    BY <1>3, <2>4 DEF PlanRequest, LooseTypes, SeqId
  <2> QED BY <1>3, <2>1, <2>3, <2>5
        DEF PlanRequest, LooseTypes, disk, engine, callers, observed
<1>4. CASE RefuseRequest
  <2>1. Tail(group) \in Seq(Entry)
    BY <1>4 DEF RefuseRequest, LooseTypes
  <2>2. answer' \in [Requests -> Answers]
    BY <1>4 DEF RefuseRequest, LooseTypes, Answers
  <2> QED BY <1>4, <2>1, <2>2
        DEF RefuseRequest, LooseTypes, disk, engine, observed
<1>5. CASE EndPlan
  BY <1>5 DEF EndPlan, LooseTypes, disk, engine, callers, observed
<1>6. CASE RollSync
  BY <1>6 DEF RollSync, InSegment, LooseTypes, engine, callers, observed
<1>7. CASE RollId
  BY <1>7 DEF RollId, LooseTypes, disk, callers, observed
<1>8. CASE RollCreate
  BY <1>8 DEF RollCreate, LooseTypes, engine, callers, observed
<1>9. CASE RollDirSync
  BY <1>9 DEF RollDirSync, LooseTypes, engine, callers, observed
<1>10. CASE WriteGroup
  BY <1>10, <1>p DEF WriteGroup, LooseTypes, engine, callers, observed
<1>11. CASE SyncGroup
  BY <1>11 DEF SyncGroup, InSegment, LooseTypes, engine, callers, observed
<1>12. CASE ApplyAndAck
  <2>1. Head(plan) \in Planned /\ Tail(plan) \in Seq(Planned)
    BY <1>12 DEF ApplyAndAck, LooseTypes
  <2>2. FramesOf(Head(plan), active) \subseteq Frame
    BY <2>1, FramesOfType DEF LooseTypes
  <2>3. index' \subseteq Frame /\ acked' \subseteq Frame
    BY <1>12, <2>2 DEF ApplyAndAck, Apply, Newest, LooseTypes
  <2>4. answer' \in [Requests -> Answers]
    BY <1>12 DEF ApplyAndAck, LooseTypes, Answers
  <2> QED BY <1>12, <2>1, <2>3, <2>4
        DEF ApplyAndAck, LooseTypes, disk
<1>13. CASE EndGroup
  BY <1>13 DEF EndGroup, LooseTypes, disk, callers, observed
<1>14. CASE FlusherExit
  <2>1. answer' \in [Requests -> Answers]
    BY <1>14, AnsweredType DEF FlusherExit, Answers
  <2>2. queue' \in Seq(Entry)
    BY <1>14 DEF FlusherExit
  <2> QED BY <1>14, <2>1, <2>2
        DEF FlusherExit, LooseTypes, disk, engine, observed
<1>15. CASE FlushFails
  <2>1. PICK P \in SUBSET { f \in PlannedFrames : f.seg \in segs },
             t \in SUBSET {active} :
          /\ t \subseteq (IF pc = "write" THEN {active} \cap segs ELSE {})
          /\ files' = files \cup P
          /\ torn' = torn \cup t
    BY <1>15 DEF FlushFails, PartialWrite
  <2>2. files' \subseteq Frame /\ torn' \subseteq segs
    BY <2>1, <1>p DEF LooseTypes
  <2>3. answer' \in [Requests -> Answers]
    BY <1>15, AnsweredType DEF FlushFails, Answers
  <2> QED BY <1>15, <2>2, <2>3 DEF FlushFails, LooseTypes, observed
<1>16. CASE Close
  <2>1. answer' \in [Requests -> Answers]
    BY <1>16, AnsweredType DEF Close, Answers
  <2>2. synced' \subseteq Frame
    BY <1>16 DEF Close, InSegment, LooseTypes
  <2> QED BY <1>16, <2>1, <2>2, GoDownTypes DEF Close, LooseTypes
<1>17. CASE Kill
  <2>1. PICK P \in SUBSET { f \in PlannedFrames : f.seg \in segs },
             t \in SUBSET {active} :
          /\ t \subseteq (IF pc = "write" THEN {active} \cap segs ELSE {})
          /\ files' = files \cup P
          /\ torn' = torn \cup t
    BY <1>17 DEF Kill, PartialWrite
  <2>2. files' \subseteq Frame /\ torn' \subseteq segs
    BY <2>1, <1>p DEF LooseTypes
  <2>3. answer' \in [Requests -> Answers]
    BY <1>17, AnsweredType DEF Kill, Answers
  <2> QED BY <1>17, <2>2, <2>3, GoDownTypes DEF Kill, LooseTypes
<1>18. CASE LosePower
  <2>1. answer' \in [Requests -> Answers]
    BY <1>18, AnsweredType DEF LosePower, Answers
  <2>2. /\ segs' \subseteq Nat /\ files' \subseteq Frame /\ torn' \subseteq segs'
    BY <1>18, <1>p DEF LosePower, LooseTypes
  <2> QED BY <1>18, <2>1, <2>2, GoDownTypes DEF LosePower
<1>19. CASE Recover
  <2>1. PICK a \in segs \cup {1}, top \in {0} \cup { f.seq : f \in files },
             last \in NormalSegs \cup {1} :
          /\ last \in NormalSegs \cup {a}
          /\ segs' = segs \cup {a}
          /\ entries' = IF a \notin segs \/ a \in torn THEN segs' ELSE entries
          /\ synced' = IF a \in torn THEN synced \cup InSegment(files, a)
                                     ELSE synced
          /\ torn' = torn \ {a}
          /\ exposed' = (exposed \/ (a \in segs \ entries /\ a \notin torn))
          /\ active' = a /\ nextSeq' = top + 1 /\ nextSeg' = last + 1
    BY <1>19 DEF Recover
  <2>2. a \in Nat /\ top \in Nat /\ last \in Nat
    BY <2>1 DEF LooseTypes, NormalSegs, Frame, SeqId
  <2>3. nextSeq' \in SeqId /\ nextSeg' \in Nat
    BY <2>1, <2>2 DEF SeqId
  <2>4. segs' \subseteq Nat /\ entries' \subseteq Nat /\ torn' \subseteq segs'
    BY <2>1, <2>2 DEF LooseTypes
  <2>5. synced' \subseteq Frame
    BY <2>1 DEF LooseTypes, InSegment
  <2>6. index' \subseteq Frame
    BY <1>19 DEF Recover, Newest, LooseTypes
  <2>7. exposed' \in BOOLEAN
    BY <2>1 DEF LooseTypes
  <2> QED BY <1>19, <2>1, <2>2, <2>3, <2>4, <2>5, <2>6, <2>7
        DEF Recover, LooseTypes, flusher, callers
<1>20. CASE UNCHANGED vars
  BY <1>20 DEF vars, disk, engine, flusher, callers, observed, LooseTypes
<1> QED BY <1>1, <1>2, <1>3, <1>4, <1>5, <1>6, <1>7, <1>8, <1>9, <1>10, <1>11,
           <1>12, <1>13, <1>14, <1>15, <1>16, <1>17, <1>18, <1>19, <1>20
        DEF Next, FlusherStep, GoingDown

\* A step keeps the types, and adds no durable entry and no synced frame of a
\* file that is not there.
LEMMA NextTypeOK == TypeOK /\ [Next]_vars => TypeOK'
<1> SUFFICES ASSUME TypeOK, [Next]_vars
             PROVE  entries' \subseteq segs' /\ synced' \subseteq files'
  BY NextTypes, TypesSplit, TypesSplitNext
<1>1. entries \subseteq segs /\ synced \subseteq files
  BY DEF TypeOK
<1> USE DEF disk, engine, flusher, callers, observed
<1>2. ASSUME NEW r \in Requests, Submit(r)
      PROVE  entries' \subseteq segs' /\ synced' \subseteq files'
  BY <1>1, <1>2 DEF Submit
<1>3. CASE Drain \/ PlanRequest \/ RefuseRequest \/ EndPlan \/ FlusherExit
  BY <1>1, <1>3 DEF Drain, PlanRequest, RefuseRequest, EndPlan, FlusherExit
<1>4. CASE RollSync \/ RollId \/ RollCreate \/ RollDirSync
  BY <1>1, <1>4 DEF RollSync, RollId, RollCreate, RollDirSync, InSegment
<1>5. CASE WriteGroup \/ SyncGroup \/ ApplyAndAck \/ EndGroup \/ FlushFails
  BY <1>1, <1>5 DEF WriteGroup, SyncGroup, ApplyAndAck, EndGroup, FlushFails, InSegment
<1>6. CASE Close \/ Kill \/ LosePower
  BY <1>1, <1>6 DEF Close, Kill, LosePower, InSegment
<1>7. CASE Recover
  <2>1. PICK a \in segs \cup {1} :
          /\ segs' = segs \cup {a}
          /\ entries' = IF a \notin segs \/ a \in torn THEN segs' ELSE entries
          /\ synced' = IF a \in torn THEN synced \cup InSegment(files, a)
                                     ELSE synced
    BY <1>7 DEF Recover
  <2>2. files' = files
    BY <1>7 DEF Recover
  <2> QED BY <1>1, <2>1, <2>2 DEF InSegment
<1>8. CASE UNCHANGED vars
  BY <1>1, <1>8 DEF vars
<1> QED BY <1>2, <1>3, <1>4, <1>5, <1>6, <1>7, <1>8 DEF Next, FlusherStep, GoingDown

\* Every reachable state of the engine is well-typed: in particular only
\* existing segments have durable entries, only written frames are synced and
\* sequence ids start at 1.
THEOREM TypeCorrect == Spec => []TypeOK
<1>1. Init => TypeOK
  BY InitTypeOK
<1>2. TypeOK /\ [Next]_vars => TypeOK'
  BY NextTypeOK
<1> QED BY <1>1, <1>2, PTL DEF Spec

-----------------------------------------------------------------------------
(* Durability.                                                             *)

\* A step that leaves the group and the segment alone leaves its frames alone.
LEMMA PlannedFramesUnchanged ==
  ASSUME plan' = plan, active' = active
  PROVE  PlannedFrames' = PlannedFrames
BY DEF PlannedFrames, FramesOf

\* The first planned request is part of the group, and so is the rest.
LEMMA PlannedFramesSplit ==
  ASSUME plan \in Seq(Planned), plan # <<>>
  PROVE  /\ FramesOf(Head(plan), active) \subseteq PlannedFrames
         /\ UNION { FramesOf(Tail(plan)[i], active) : i \in DOMAIN Tail(plan) }
              \subseteq PlannedFrames
<1>1. 1 \in DOMAIN plan /\ Head(plan) = plan[1]
  OBVIOUS
<1>2. \A i \in DOMAIN Tail(plan) :
        i + 1 \in DOMAIN plan /\ Tail(plan)[i] = plan[i + 1]
  OBVIOUS
<1>3. \A i \in DOMAIN Tail(plan) :
        FramesOf(Tail(plan)[i], active) \subseteq PlannedFrames
  BY <1>2 DEF PlannedFrames
<1> QED BY <1>1, <1>3 DEF PlannedFrames

\* With nothing acknowledged or taken away, durability stays as it is.
LEMMA AckedStaysDurable ==
  ASSUME AckedDurableUnlessExposed, acked' = acked, exposed => exposed',
         synced \subseteq synced', entries \subseteq entries'
  PROVE  AckedDurableUnlessExposed'
BY DEF AckedDurableUnlessExposed, AckedDurable

LEMMA NextDurability == DurabilityInv /\ [Next]_vars => DurabilityInv'
<1> SUFFICES ASSUME DurabilityInv, [Next]_vars PROVE DurabilityInv'
  OBVIOUS
<1>t. TypeOK /\ TypeOK'
  BY NextTypeOK DEF DurabilityInv
<1>a. AckedDurableUnlessExposed /\ GroupDurable /\ DownIsIdle
  BY DEF DurabilityInv
<1>p. \A f \in PlannedFrames : f.seg = active
  BY <1>t, PlannedFramesType DEF TypeOK
<1> SUFFICES AckedDurableUnlessExposed' /\ GroupDurable' /\ DownIsIdle'
  BY <1>t DEF DurabilityInv
<1> USE DEF disk, engine, flusher, callers, observed
<1>1. ASSUME NEW r \in Requests, Submit(r)
      PROVE  AckedDurableUnlessExposed' /\ GroupDurable' /\ DownIsIdle'
  BY <1>1, <1>a, AckedStaysDurable, PlannedFramesUnchanged
     DEF Submit, GroupDurable, DownIsIdle
<1>2. CASE Drain
  BY <1>2, <1>a, AckedStaysDurable DEF Drain, GroupDurable, DownIsIdle
<1>3. CASE PlanRequest
  BY <1>3, <1>a, AckedStaysDurable DEF PlanRequest, GroupDurable, DownIsIdle
<1>4. CASE RefuseRequest
  BY <1>4, <1>a, AckedStaysDurable DEF RefuseRequest, GroupDurable, DownIsIdle
<1>5. CASE EndPlan
  BY <1>5, <1>a, AckedStaysDurable DEF EndPlan, GroupDurable, DownIsIdle
<1>6. CASE RollSync
  BY <1>6, <1>a, AckedStaysDurable DEF RollSync, GroupDurable, DownIsIdle
<1>7. CASE RollId
  BY <1>7, <1>a, AckedStaysDurable DEF RollId, GroupDurable, DownIsIdle
<1>8. CASE RollCreate
  BY <1>8, <1>a, AckedStaysDurable DEF RollCreate, GroupDurable, DownIsIdle
<1>9. CASE RollDirSync
  \* The new file is in the directory when the directory is synced.
  <2>1. entries \subseteq entries'
    BY <1>9, <1>t DEF RollDirSync, TypeOK
  <2>2. ~exposed => active \in entries'
    BY <1>9, <1>a DEF RollDirSync, GroupDurable
  <2> QED BY <1>9, <1>a, <2>1, <2>2, AckedStaysDurable
        DEF RollDirSync, GroupDurable, DownIsIdle
<1>10. CASE WriteGroup
  \* The active segment has a durable entry, so it exists and takes the frames.
  <2>1. ~exposed => active \in entries /\ active \in segs
    BY <1>10, <1>a, <1>t DEF WriteGroup, GroupDurable, TypeOK
  <2>2. ~exposed => PlannedFrames \subseteq files'
    BY <1>10, <2>1, <1>p DEF WriteGroup
  <2>3. PlannedFrames' = PlannedFrames
    BY <1>10, PlannedFramesUnchanged DEF WriteGroup
  <2> QED BY <1>10, <1>a, <2>1, <2>2, <2>3, AckedStaysDurable
        DEF WriteGroup, GroupDurable, DownIsIdle
<1>11. CASE SyncGroup
  \* The frames of the group are in the active file, which is synced.
  <2>1. ~exposed => active \in entries /\ PlannedFrames \subseteq files
    BY <1>11, <1>a DEF SyncGroup, GroupDurable
  <2>2. ~exposed => PlannedFrames \subseteq synced'
    BY <1>11, <2>1, <1>p DEF SyncGroup, InSegment
  <2>3. PlannedFrames' = PlannedFrames
    BY <1>11, PlannedFramesUnchanged DEF SyncGroup
  <2> QED BY <1>11, <1>a, <2>1, <2>2, <2>3, AckedStaysDurable
        DEF SyncGroup, GroupDurable, DownIsIdle
<1>12. CASE ApplyAndAck
  \* What is acknowledged now was synced before.
  <2> DEFINE F == FramesOf(Head(plan), active)
  <2>1. plan \in Seq(Planned) /\ plan # <<>> /\ plan' = Tail(plan)
    BY <1>12, <1>t DEF ApplyAndAck, TypeOK
  <2>2. F \subseteq PlannedFrames
    BY <2>1, PlannedFramesSplit
  <2>3. ~exposed => active \in entries /\ PlannedFrames \subseteq synced
    BY <1>12, <1>a DEF ApplyAndAck, GroupDurable
  <2>4. acked' = acked \cup F
    BY <1>12 DEF ApplyAndAck
  <2>5. AckedDurableUnlessExposed'
    <3>1. CASE exposed
      BY <1>12, <3>1 DEF ApplyAndAck, AckedDurableUnlessExposed
    <3>2. CASE ~exposed
      <4>1. \A f \in F : f \in synced /\ f.seg \in entries
        BY <3>2, <2>2, <2>3, <1>p
      <4>2. synced' = synced /\ entries' = entries
        BY <1>12 DEF ApplyAndAck
      <4>3. \A f \in acked : f \in synced /\ f.seg \in entries
        BY <3>2, <1>a DEF AckedDurableUnlessExposed, AckedDurable
      <4> HIDE DEF F
      <4> QED BY <4>1, <4>2, <4>3, <2>4 DEF AckedDurableUnlessExposed, AckedDurable
    <3> QED BY <3>1, <3>2
  <2>6. PlannedFrames' \subseteq PlannedFrames
    <3>1. PlannedFrames'
            = UNION { FramesOf(Tail(plan)[i], active) : i \in DOMAIN Tail(plan) }
      BY <1>12, <2>1 DEF ApplyAndAck, PlannedFrames, FramesOf
    <3> QED BY <3>1, <2>1, PlannedFramesSplit
  <2> QED BY <1>12, <1>a, <2>3, <2>5, <2>6
        DEF ApplyAndAck, GroupDurable, DownIsIdle
<1>13. CASE EndGroup
  BY <1>13, <1>a, AckedStaysDurable DEF EndGroup, GroupDurable, DownIsIdle
<1>14. CASE FlusherExit
  BY <1>14, <1>a, AckedStaysDurable DEF FlusherExit, GroupDurable, DownIsIdle
<1>15. CASE FlushFails
  BY <1>15, <1>a, AckedStaysDurable DEF FlushFails, GroupDurable, DownIsIdle
<1>16. CASE Close
  BY <1>16, <1>a, AckedStaysDurable DEF Close, GoDown, GroupDurable, DownIsIdle
<1>17. CASE Kill
  BY <1>17, <1>a, AckedStaysDurable DEF Kill, GoDown, GroupDurable, DownIsIdle
<1>18. CASE LosePower
  \* Synced frames survive in the segments whose entries are durable.
  <2>1. PICK P \in SUBSET { f \in PlannedFrames : f.seg \in segs },
             keep \in SUBSET ((segs \ entries) \cup (entries \ segs)) :
          /\ segs' = (segs \cap entries) \cup keep
          /\ \E S \in SUBSET { f \in files \cup synced \cup P : f.seg \in segs' } :
               /\ synced \cap { f \in files \cup synced \cup P : f.seg \in segs' }
                    \subseteq S
               /\ files' = S
    BY <1>18 DEF LosePower, Survives
  <2>2. entries \subseteq segs' /\ \A f \in synced : f.seg \in segs' => f \in files'
    BY <2>1, <1>t DEF TypeOK
  <2>3. /\ entries' = segs' /\ synced' = files' /\ acked' = acked
        /\ exposed' = exposed /\ up' = FALSE /\ pc' = "recv" /\ plan' = <<>>
    BY <1>18 DEF LosePower, GoDown
  <2>4. AckedDurableUnlessExposed'
    BY <1>a, <2>2, <2>3 DEF AckedDurableUnlessExposed, AckedDurable
  <2> QED BY <2>3, <2>4 DEF GroupDurable, DownIsIdle
<1>19. CASE Recover
  \* Either the segment written from now on has a durable entry, or the run
  \* is exposed.
  <2>1. PICK a \in segs \cup {1} :
          /\ segs' = segs \cup {a}
          /\ entries' = IF a \notin segs \/ a \in torn THEN segs' ELSE entries
          /\ synced' = IF a \in torn THEN synced \cup InSegment(files, a)
                                     ELSE synced
          /\ exposed' = (exposed \/ (a \in segs \ entries /\ a \notin torn))
          /\ active' = a
    BY <1>19 DEF Recover
  <2>2. /\ ~up /\ up' = TRUE /\ pc' = pc /\ plan' = plan /\ acked' = acked
    BY <1>19 DEF Recover
  <2>3. synced \subseteq synced' /\ entries \subseteq entries'
    BY <2>1, <1>t DEF TypeOK
  <2>4. AckedDurableUnlessExposed'
    BY <1>a, <2>1, <2>2, <2>3, AckedStaysDurable
  <2>5. exposed' \/ active' \in entries'
    BY <2>1
  <2>6. pc' = "recv"
    BY <1>a, <2>2 DEF DownIsIdle
  <2> QED BY <2>2, <2>4, <2>5, <2>6 DEF GroupDurable, DownIsIdle
<1>20. CASE UNCHANGED vars
  BY <1>20, <1>a, AckedStaysDurable, PlannedFramesUnchanged
     DEF vars, GroupDurable, DownIsIdle
<1> QED BY <1>1, <1>2, <1>3, <1>4, <1>5, <1>6, <1>7, <1>8, <1>9, <1>10, <1>11,
           <1>12, <1>13, <1>14, <1>15, <1>16, <1>17, <1>18, <1>19, <1>20
        DEF Next, FlusherStep, GoingDown

\* No kill, power loss, I/O error or reopen takes a write that was answered
\* with success, in a run whose reopens never continue a segment file with an
\* unsynced directory entry: for any number of requests, keys, restarts and
\* any segment and group size.
THEOREM NoAckedWriteLost == Spec => []AckedDurableUnlessExposed
<1>1. Init => DurabilityInv
  BY InitTypeOK DEF Init, DurabilityInv, AckedDurableUnlessExposed, AckedDurable,
                    GroupDurable, DownIsIdle
<1>2. DurabilityInv /\ [Next]_vars => DurabilityInv'
  BY NextDurability
<1>3. DurabilityInv => AckedDurableUnlessExposed
  BY DEF DurabilityInv
<1> QED BY <1>1, <1>2, <1>3, PTL DEF Spec

-----------------------------------------------------------------------------
(* The order of the log.                                                   *)

\* The next sequence id that no planned frame has, and the lowest one that no
\* frame on the disk of an earlier request has.
Top == IF pc = "recv" THEN nextSeq ELSE seq
Low == IF plan = <<>> THEN Top ELSE plan[1].first
End(p) == p.first + Len(p.writes)

\* A group is only there while it is planned, and nobody waits for an engine
\* that is down.
Shape ==
  /\ pc # "plan" => group = <<>>
  /\ pc = "recv" => plan = <<>>
  /\ ~up => pc = "recv" /\ queue = <<>>

\* The planned requests have adjacent ranges of ids, up to the running counter.
PlanInOrder ==
  /\ \A i \in DOMAIN plan : End(plan[i]) = IF i = Len(plan) THEN seq
                                                            ELSE plan[i + 1].first
  /\ \A i, j \in DOMAIN plan : i < j => End(plan[i]) <= plan[j].first
  /\ plan # <<>> => \A n \in Low..(seq - 1) :
       \E i \in DOMAIN plan : plan[i].first <= n /\ n < End(plan[i])

\* Before the group is written, its ids are above all on the disk; a frame with
\* a higher id is one of the group; of a failed group a first part is written.
IdsInOrder ==
  /\ up /\ pc \notin {"sync", "apply", "exit", "stopped"} => \A f \in files : f.seq < Low
  /\ up => \A f \in files : f.seq < Low \/ f \in PlannedFrames
  /\ up /\ pc \in {"sync", "apply"} => PlannedFrames \subseteq files
  /\ up => \A f \in files \cap PlannedFrames, g \in PlannedFrames :
             g.seq < f.seq => g \in files

\* The segments are in the order of their ids, the active one is the last.
SegmentsInOrder ==
  /\ \A f \in files : f.seg \in segs
  /\ \A f, g \in files : f.seg < g.seg => f.seq < g.seq
  /\ \A s \in segs : s < CompactionBase
  /\ up => /\ \A s \in segs : s <= active
           /\ active < nextSeg /\ active < CompactionBase
           /\ pc = "roll_create" => active \notin segs
           /\ pc \in {"roll_create", "roll_dir"} => \A f \in files : f.seg # active
           /\ pc \notin {"roll_create", "exit", "stopped"} => active \in segs

\* Only the last segment has unsynced frames or a torn tail.
TailsInOrder ==
  /\ up => \A f \in files \ synced : f.seg = active
  /\ up /\ pc = "roll_id" => files \subseteq synced
  /\ ~up => \A f \in files \ synced, s \in segs : s <= f.seg
  /\ \A t \in torn, s \in segs : s <= t
  /\ up /\ torn # {} => pc \in {"exit", "stopped"}

LogOrder == /\ Shape /\ PlanInOrder /\ IdsInOrder /\ SequenceIdsUnique
            /\ SegmentsInOrder /\ TailsInOrder

LogInv == TypeOK /\ LogOrder

\* While no reopen has been exposed, only the last segment can lack a durable
\* directory entry, and then no frame is in it.
EntriesInOrder ==
  ~exposed =>
    /\ \A s \in segs \ entries : (\A t \in segs : t <= s) /\ (\A f \in files : f.seg # s)
    /\ up /\ pc \notin {"roll_dir", "exit", "stopped"} => segs \subseteq entries

\* While no reopen has been exposed, the disk has every id below the lowest one.
NoneLeftOut ==
  /\ LogHasNoHoles
  /\ ~exposed /\ up => \A n \in 1..(Low - 1) : \E f \in files : f.seq = n

\* What a well-formed plan says of its frames.
PlannedInOrder ==
  /\ Low \in SeqId /\ Top \in SeqId
  /\ \A f \in PlannedFrames : f \in Frame /\ f.seg = active /\ f.seq \in SeqId
                              /\ Low <= f.seq /\ f.seq < seq
  /\ \A f, g \in PlannedFrames : f.seq = g.seq => f = g
  /\ plan # <<>> => /\ Low < seq
                    /\ \A n \in Low..(seq - 1) : \E f \in PlannedFrames : f.seq = n
  /\ plan = <<>> => PlannedFrames = {}

-----------------------------------------------------------------------------
(* The ids of the planned frames.                                          *)

\* The ids of a planned request are a range, one for each of its frames.
LEMMA PlannedRange ==
  ASSUME NEW p \in Planned
  PROVE  /\ p.first \in SeqId /\ p.writes \in Writes /\ p.req \in Requests
         /\ Len(p.writes) \in Nat \ {0} /\ DOMAIN p.writes = 1..Len(p.writes)
         /\ End(p) \in SeqId /\ p.first < End(p)
<1>1. p.first \in SeqId /\ p.writes \in Writes /\ p.req \in Requests
  BY DEF Planned
<1>2. Len(p.writes) \in Nat \ {0} /\ DOMAIN p.writes = 1..Len(p.writes)
  BY <1>1, WritesHaveLength
<1>3. End(p) = p.first + Len(p.writes)
  BY DEF End
<1>4. End(p) \in SeqId /\ p.first < End(p)
  BY <1>1, <1>2, <1>3 DEF SeqId
<1> QED BY <1>1, <1>2, <1>4

\* The frames of a planned request have the ids of its range, one each.
LEMMA FrameIds ==
  ASSUME NEW p \in Planned, NEW s \in Nat
  PROVE  /\ \A f \in FramesOf(p, s) : p.first <= f.seq /\ f.seq < End(p)
                                      /\ f.req = p.req
         /\ \A f, g \in FramesOf(p, s) : f.seq = g.seq => f = g
         /\ \A n \in p.first..(End(p) - 1) : \E f \in FramesOf(p, s) : f.seq = n
<1> DEFINE fr(i) == [seg |-> s, seq |-> p.first + i - 1, key |-> p.writes[i].key,
                     del |-> p.writes[i].del, req |-> p.req]
<1>1. FramesOf(p, s) = { fr(i) : i \in 1..Len(p.writes) }
  BY PlannedRange DEF FramesOf
<1>2. p.first \in Nat /\ Len(p.writes) \in Nat /\ End(p) = p.first + Len(p.writes)
  BY PlannedRange DEF SeqId, End
<1>3. \A i \in 1..Len(p.writes) : fr(i).seq = p.first + i - 1 /\ fr(i).req = p.req
  OBVIOUS
<1> HIDE DEF fr
<1>4. \A f \in FramesOf(p, s) : p.first <= f.seq /\ f.seq < End(p) /\ f.req = p.req
  BY <1>1, <1>2, <1>3
<1>5. \A f, g \in FramesOf(p, s) : f.seq = g.seq => f = g
  <2> SUFFICES ASSUME NEW i \in 1..Len(p.writes), NEW j \in 1..Len(p.writes),
                      fr(i).seq = fr(j).seq
               PROVE  fr(i) = fr(j)
    BY <1>1
  <2>1. i = j
    BY <1>2, <1>3
  <2> QED BY <2>1
<1>6. ASSUME NEW n \in p.first..(End(p) - 1)
      PROVE  \E f \in FramesOf(p, s) : f.seq = n
  <2>1. n - p.first + 1 \in 1..Len(p.writes)
    BY <1>2
  <2>2. fr(n - p.first + 1).seq = n
    BY <1>2, <1>3, <2>1
  <2> QED BY <1>1, <2>1, <2>2
<1> QED BY <1>4, <1>5, <1>6

\* The planned requests have ranges between Low and seq.
LEMMA PlanRanges ==
  ASSUME LooseTypes, PlanInOrder
  PROVE  /\ Low \in SeqId /\ Top \in SeqId /\ seq \in SeqId
         /\ \A i \in DOMAIN plan : i \in Nat /\ plan[i] \in Planned
                                   /\ Low <= plan[i].first /\ End(plan[i]) <= seq
         /\ plan # <<>> => Low < seq
<1>1. plan \in Seq(Planned) /\ seq \in SeqId /\ nextSeq \in SeqId
  BY DEF LooseTypes
<1>2. \A i \in DOMAIN plan : plan[i] \in Planned /\ i \in 1..Len(plan) /\ i \in Nat
  BY <1>1
<1>3. Len(plan) \in Nat /\ DOMAIN plan = 1..Len(plan)
  BY <1>1
<1>4. ASSUME NEW i \in DOMAIN plan PROVE Low <= plan[i].first /\ End(plan[i]) <= seq
  <2>1. plan # <<>> /\ 1 \in DOMAIN plan /\ Len(plan) \in DOMAIN plan
    BY <1>2, <1>3
  <2>2. Low = plan[1].first
    BY <2>1 DEF Low
  <2>3. plan[1] \in Planned /\ plan[i] \in Planned /\ plan[Len(plan)] \in Planned
    BY <2>1, <1>2
  <2>4. /\ plan[1].first \in Nat /\ plan[i].first \in Nat
        /\ plan[Len(plan)].first \in Nat
        /\ End(plan[1]) \in Nat /\ End(plan[i]) \in Nat /\ seq \in Nat
        /\ plan[1].first < End(plan[1]) 
        /\ plan[Len(plan)].first < End(plan[Len(plan)])
    BY <2>3, <1>1, PlannedRange DEF SeqId
  <2>5. i = 1 \/ End(plan[1]) <= plan[i].first
    BY <1>2, <1>3, <2>1 DEF PlanInOrder
  <2>6. Low <= plan[i].first
    BY <2>2, <2>4, <2>5
  <2>7. End(plan[Len(plan)]) = seq
    BY <2>1 DEF PlanInOrder
  <2>8. i = Len(plan) \/ End(plan[i]) <= plan[Len(plan)].first
    BY <1>2, <1>3, <2>1 DEF PlanInOrder
  <2>9. End(plan[i]) <= seq
    BY <2>4, <2>7, <2>8
  <2> QED BY <2>6, <2>9
<1>5. plan # <<>> => 1 \in DOMAIN plan
  BY <1>1
<1>6. Top \in SeqId
  BY <1>1 DEF Top
<1>7. CASE plan = <<>>
  <2>1. Low = Top
    BY <1>7 DEF Low
  <2> QED BY <1>1, <1>2, <1>6, <1>7, <2>1
<1>8. CASE plan # <<>>
  <2>1. plan[1] \in Planned /\ Low = plan[1].first /\ End(plan[1]) <= seq
    BY <1>2, <1>4, <1>5, <1>8 DEF Low
  <2>2. plan[1].first \in SeqId /\ End(plan[1]) \in SeqId /\ plan[1].first < End(plan[1])
    BY <2>1, PlannedRange
  <2>3. Low < seq
    BY <1>1, <2>1, <2>2 DEF SeqId
  <2> QED BY <1>1, <1>2, <1>4, <1>6, <2>1, <2>2, <2>3
<1> QED BY <1>7, <1>8

\* A planned frame is one of the active segment, its id is between Low and seq,
\* it is the only planned frame with it, and no id between them is left out.
LEMMA PlannedIds == LooseTypes /\ PlanInOrder => PlannedInOrder
<1> SUFFICES ASSUME LooseTypes, PlanInOrder PROVE PlannedInOrder
  OBVIOUS
<1>1. plan \in Seq(Planned) /\ seq \in SeqId /\ active \in Nat
  BY DEF LooseTypes
<1>2. /\ PlannedFrames \subseteq Frame
      /\ \A f \in PlannedFrames : f.seg = active /\ f.seq \in SeqId
  BY <1>1, PlannedFramesType DEF Frame
<1>3. \A f \in PlannedFrames : Low <= f.seq /\ f.seq < seq
  <2> SUFFICES ASSUME NEW i \in DOMAIN plan, NEW f \in FramesOf(plan[i], active)
               PROVE  Low <= f.seq /\ f.seq < seq
    BY DEF PlannedFrames
  <2>1. f \in PlannedFrames
    BY DEF PlannedFrames
  <2>2. f.seq \in SeqId /\ Low \in SeqId /\ plan[i] \in Planned
        /\ Low <= plan[i].first /\ End(plan[i]) <= seq
    BY <1>2, <2>1, PlanRanges
  <2>3. plan[i].first \in SeqId /\ End(plan[i]) \in SeqId
    BY <2>2, PlannedRange
  <2>4. plan[i].first <= f.seq /\ f.seq < End(plan[i])
    BY <1>1, <2>2, FrameIds
  <2> QED BY <1>1, <2>2, <2>3, <2>4 DEF SeqId
<1>4. ASSUME NEW f \in PlannedFrames, NEW g \in PlannedFrames, f.seq = g.seq
      PROVE  f = g
  <2>1. PICK i \in DOMAIN plan : f \in FramesOf(plan[i], active)
    BY DEF PlannedFrames
  <2>2. PICK j \in DOMAIN plan : g \in FramesOf(plan[j], active)
    BY DEF PlannedFrames
  <2>3. /\ f.seq \in Nat /\ i \in Nat /\ j \in Nat
        /\ plan[i] \in Planned /\ plan[j] \in Planned
    BY <1>2, PlanRanges DEF SeqId
  <2>4. /\ plan[i].first \in Nat /\ End(plan[i]) \in Nat
        /\ plan[j].first \in Nat /\ End(plan[j]) \in Nat
        /\ plan[i].first <= f.seq /\ f.seq < End(plan[i])
        /\ plan[j].first <= g.seq /\ g.seq < End(plan[j])
    BY <1>1, <2>1, <2>2, <2>3, FrameIds, PlannedRange DEF SeqId
  <2>5. (i < j => End(plan[i]) <= plan[j].first)
        /\ (j < i => End(plan[j]) <= plan[i].first)
    BY DEF PlanInOrder
  <2>6. i = j
    BY <1>4, <2>3, <2>4, <2>5
  <2> QED BY <1>1, <1>4, <2>1, <2>2, <2>3, <2>6, FrameIds
<1>5. ASSUME plan # <<>>, NEW n \in Low..(seq - 1)
      PROVE  \E f \in PlannedFrames : f.seq = n
  <2>1. PICK i \in DOMAIN plan : plan[i].first <= n /\ n < End(plan[i])
    BY <1>5 DEF PlanInOrder
  <2>2. plan[i] \in Planned
    BY PlanRanges
  <2>3. plan[i].first \in SeqId /\ End(plan[i]) \in SeqId /\ n \in Int
    BY <2>2, PlannedRange, PlanRanges DEF SeqId
  <2>4. n \in plan[i].first..(End(plan[i]) - 1)
    BY <2>1, <2>3 DEF SeqId
  <2>5. \E f \in FramesOf(plan[i], active) : f.seq = n
    BY <1>1, <2>2, <2>4, FrameIds
  <2> QED BY <2>5 DEF PlannedFrames
<1>6. plan = <<>> => PlannedFrames = {}
  BY DEF PlannedFrames
<1> QED BY <1>2, <1>3, <1>4, <1>5, <1>6, PlanRanges DEF PlannedInOrder

\* The planned frames carry ascending ids after a step as well.
LEMMA PlannedIdsNext == LooseTypes' /\ PlanInOrder' => PlannedInOrder'
BY PlannedIds, PTL

-----------------------------------------------------------------------------
(* The plan stays in order.                                                *)

\* What Append does to the elements of a sequence.
LEMMA AppendElements ==
  ASSUME NEW T, NEW q \in Seq(T), NEW e \in T
  PROVE  \E m \in Nat : /\ Len(q) = m /\ DOMAIN q = 1..m
                        /\ q = <<>> <=> m = 0
                        /\ Append(q, e) \in Seq(T) /\ Append(q, e) # <<>>
                        /\ Len(Append(q, e)) = m + 1
                        /\ DOMAIN Append(q, e) = 1..(m + 1)
                        /\ Append(q, e)[m + 1] = e
                        /\ \A i \in 1..m : Append(q, e)[i] = q[i]
OBVIOUS

\* What Tail does to the elements of a sequence.
LEMMA TailElements ==
  ASSUME NEW T, NEW q \in Seq(T), q # <<>>
  PROVE  \E m \in Nat : /\ Len(q) = m + 1 /\ DOMAIN q = 1..(m + 1)
                        /\ Head(q) = q[1] /\ q[1] \in T
                        /\ Tail(q) \in Seq(T) /\ Tail(q) = <<>> <=> m = 0
                        /\ Len(Tail(q)) = m /\ DOMAIN Tail(q) = 1..m
                        /\ \A i \in 1..m : Tail(q)[i] = q[i + 1]
<1> DEFINE m == Len(q) - 1
<1>1. m \in Nat /\ Len(q) = m + 1
  OBVIOUS
<1>2. /\ DOMAIN q = 1..(m + 1) /\ Head(q) = q[1] /\ q[1] \in T
      /\ Tail(q) \in Seq(T) /\ Len(Tail(q)) = m /\ DOMAIN Tail(q) = 1..m
  BY <1>1
<1>3. Tail(q) = <<>> <=> m = 0
  <2>1. \A s \in Seq(T) : s = <<>> <=> Len(s) = 0
    OBVIOUS
  <2> QED BY <1>2, <2>1
<1>4. \A i \in 1..m : Tail(q)[i] = q[i + 1]
  OBVIOUS
<1> HIDE DEF m
<1> QED BY <1>1, <1>2, <1>3, <1>4

\* A step that changes neither the plan nor the counters keeps it in order.
LEMMA PlanStays ==
  ASSUME PlanInOrder, plan' = plan, seq' = seq, Low' = Low
  PROVE  PlanInOrder'
BY DEF PlanInOrder

\* An empty plan is in order.
LEMMA PlanEmpty ==
  ASSUME plan' = <<>>
  PROVE  PlanInOrder'
BY DEF PlanInOrder

\* The request planned next takes the ids from the running counter on; the
\* lowest planned id stays.
LEMMA PlanGrows ==
  ASSUME LooseTypes, PlanInOrder, PlanRequest
  PROVE  /\ Low' = Low /\ PlanInOrder'
         /\ PlannedFrames \subseteq PlannedFrames'
<1> DEFINE p == [req |-> Head(group).req, writes |-> Head(group).writes, first |-> seq]
<1>1. /\ plan \in Seq(Planned) /\ seq \in SeqId
      /\ pc = "plan" /\ pc' = "plan" /\ active' = active
  BY DEF LooseTypes, PlanRequest, engine
<1>2. Head(group) \in Entry
  BY DEF PlanRequest, LooseTypes
<1>3. p \in Planned
  BY <1>1, <1>2 DEF Entry, Planned
<1>4. plan' = Append(plan, p)
  BY DEF PlanRequest
<1>5. seq' = End(p) /\ p.first = seq
  BY DEF PlanRequest, End
<1> HIDE DEF p
<1>6. PICK m \in Nat : /\ Len(plan) = m /\ DOMAIN plan = 1..m
                       /\ plan = <<>> <=> m = 0
                       /\ plan' # <<>>
                       /\ Len(plan') = m + 1 /\ DOMAIN plan' = 1..(m + 1)
                       /\ plan'[m + 1] = p
                       /\ \A i \in 1..m : plan'[i] = plan[i]
  <2>1. plan' = Append(plan, p) /\ plan \in Seq(Planned) /\ p \in Planned
    BY <1>1, <1>3, <1>4
  <2> QED BY <2>1, AppendElements
<1>7. Low' = Low
  <2>1. CASE m = 0
    <3>1. Low = seq /\ plan'[1] = p
      BY <1>1, <1>6, <2>1 DEF Low, Top
    <3> QED BY <1>5, <1>6, <3>1 DEF Low
  <2>2. CASE m # 0
    <3>1. 1 \in 1..m /\ plan # <<>>
      BY <1>6, <2>2
    <3> QED BY <1>6, <3>1 DEF Low
  <2> QED BY <2>1, <2>2
<1>8. ASSUME NEW i \in 1..(m + 1)
      PROVE  End(plan'[i]) = IF i = m + 1 THEN seq' ELSE plan'[i + 1].first
  <2>1. CASE i = m + 1
    BY <1>5, <1>6, <2>1
  <2>2. CASE i = m /\ i # m + 1
    <3>1. m \in 1..m
      BY <2>2
    <3>2. End(plan[m]) = seq
      BY <1>6, <3>1 DEF PlanInOrder
    <3> QED BY <1>5, <1>6, <2>2, <3>1, <3>2
  <2>3. CASE i # m /\ i # m + 1
    <3>1. i \in 1..m /\ i + 1 \in 1..m
      BY <2>3
    <3>2. End(plan[i]) = plan[i + 1].first
      BY <1>6, <2>3, <3>1 DEF PlanInOrder
    <3> QED BY <1>6, <2>3, <3>1, <3>2
  <2> QED BY <2>1, <2>2, <2>3
<1>9. ASSUME NEW i \in 1..(m + 1), NEW j \in 1..(m + 1), i < j
      PROVE  End(plan'[i]) <= plan'[j].first
  <2>1. i \in 1..m
    BY <1>9
  <2>2. CASE j = m + 1
    BY <1>5, <1>6, <2>1, <2>2, PlanRanges
  <2>3. CASE j # m + 1
    <3>1. j \in 1..m
      BY <2>3
    <3> QED BY <1>6, <1>9, <2>1, <3>1 DEF PlanInOrder
  <2> QED BY <2>2, <2>3
<1>10. ASSUME NEW n \in Low..(seq' - 1)
       PROVE  \E i \in 1..(m + 1) : plan'[i].first <= n /\ n < End(plan'[i])
  <2>1. Low \in Nat /\ seq \in Nat /\ seq' \in Nat /\ n \in Int
    BY <1>3, <1>5, PlannedRange, PlanRanges DEF SeqId
  <2>2. CASE n < seq
    <3>1. plan # <<>>
      BY <1>1, <2>1, <2>2 DEF Low, Top
    <3>2. n \in Low..(seq - 1)
      BY <2>1, <2>2
    <3>3. PICK i \in 1..m : plan[i].first <= n /\ n < End(plan[i])
      BY <1>6, <3>1, <3>2 DEF PlanInOrder
    <3>4. i \in 1..(m + 1) /\ plan'[i] = plan[i]
      BY <1>6
    <3> QED BY <3>3, <3>4
  <2>3. CASE seq <= n
    <3>1. m + 1 \in 1..(m + 1)
      OBVIOUS
    <3>2. n < seq'
      <4>1. PICK t \in Nat : t = seq'
        BY <2>1
      <4>2. n \in Low..(t - 1)
        BY <4>1
      <4>3. n < t
        BY <2>1, <4>2
      <4> QED BY <4>1, <4>3
    <3> QED BY <1>5, <1>6, <2>3, <3>1, <3>2
  <2> QED BY <2>1, <2>2, <2>3
<1>11. PlannedFrames \subseteq PlannedFrames'
  <2>1. \A i \in 1..m : i \in 1..(m + 1) /\ plan'[i] = plan[i]
    BY <1>6
  <2>2. PlannedFrames' = UNION { FramesOf(plan'[i], active) : i \in 1..(m + 1) }
    BY <1>1, <1>6 DEF PlannedFrames, FramesOf
  <2> QED BY <1>6, <2>1, <2>2 DEF PlannedFrames
<1> QED BY <1>6, <1>7, <1>8, <1>9, <1>10, <1>11 DEF PlanInOrder

\* When the first request of the group is answered, its ids and its frames are
\* below those of the others.
LEMMA PlanShrinks ==
  ASSUME LooseTypes, PlanInOrder, ApplyAndAck
  PROVE  /\ Head(plan) \in Planned /\ Low = Head(plan).first /\ Low' = End(Head(plan))
         /\ PlanInOrder'
         /\ PlannedFrames = FramesOf(Head(plan), active) \cup PlannedFrames'
<1>1. /\ plan \in Seq(Planned) /\ plan # <<>> /\ seq \in SeqId
      /\ pc = "apply" /\ pc' = "apply"
      /\ active' = active /\ active \in Nat /\ seq' = seq /\ plan' = Tail(plan)
  BY DEF LooseTypes, ApplyAndAck
<1>2. PICK m \in Nat : /\ Len(plan) = m + 1 /\ DOMAIN plan = 1..(m + 1)
                       /\ Head(plan) = plan[1] /\ plan[1] \in Planned
                       /\ plan' = <<>> <=> m = 0
                       /\ Len(plan') = m /\ DOMAIN plan' = 1..m
                       /\ \A i \in 1..m : plan'[i] = plan[i + 1]
  BY <1>1, TailElements
<1>3. 1 \in 1..(m + 1)
  OBVIOUS
<1>4. Low = Head(plan).first
  BY <1>1, <1>2 DEF Low
<1>5. Low' = End(Head(plan))
  <2>1. CASE m = 0
    <3>1. End(plan[1]) = seq
      BY <1>2, <1>3, <2>1 DEF PlanInOrder
    <3> QED BY <1>1, <1>2, <2>1, <3>1 DEF Low, Top
  <2>2. CASE m # 0
    <3>1. 1 \in 1..m /\ plan' # <<>> /\ 1 # m + 1 /\ 1 + 1 = 2
      BY <1>2, <2>2
    <3>2. End(plan[1]) = plan[2].first
      BY <1>2, <1>3, <3>1 DEF PlanInOrder
    <3>3. plan'[1] = plan[2]
      BY <1>2, <3>1
    <3> QED BY <1>2, <3>1, <3>2, <3>3 DEF Low
  <2> QED BY <2>1, <2>2
<1>6. ASSUME NEW i \in 1..m
      PROVE  End(plan'[i]) = IF i = m THEN seq' ELSE plan'[i + 1].first
  <2>1. i + 1 \in 1..(m + 1) /\ plan'[i] = plan[i + 1]
    BY <1>2
  <2>2. End(plan[i + 1]) = IF i + 1 = m + 1 THEN seq ELSE plan[(i + 1) + 1].first
    BY <1>2, <2>1 DEF PlanInOrder
  <2>3. CASE i = m
    BY <1>1, <2>1, <2>2, <2>3
  <2>4. CASE i # m
    <3>1. i + 1 \in 1..m /\ i + 1 # m + 1
      BY <2>4
    <3>2. plan'[i + 1] = plan[(i + 1) + 1]
      BY <1>2, <3>1
    <3> QED BY <2>1, <2>2, <2>4, <3>1, <3>2
  <2> QED BY <2>3, <2>4
<1>7. ASSUME NEW i \in 1..m, NEW j \in 1..m, i < j
      PROVE  End(plan'[i]) <= plan'[j].first
  <2>1. i + 1 \in 1..(m + 1) /\ j + 1 \in 1..(m + 1) /\ i + 1 < j + 1
    BY <1>7
  <2>2. plan'[i] = plan[i + 1] /\ plan'[j] = plan[j + 1]
    BY <1>2
  <2> QED BY <1>2, <2>1, <2>2 DEF PlanInOrder
<1>8. ASSUME NEW n \in End(plan[1])..(seq - 1)
      PROVE  \E i \in 1..m : plan'[i].first <= n /\ n < End(plan'[i])
  <2>1. /\ End(plan[1]) \in Nat /\ n \in Int /\ seq \in Nat
        /\ plan[1].first \in Nat /\ plan[1].first < End(plan[1])
    BY <1>1, <1>2, PlannedRange DEF SeqId
  <2>2. n \in Low..(seq - 1)
    BY <1>2, <1>4, <2>1
  <2>3. PICK i \in 1..(m + 1) : plan[i].first <= n /\ n < End(plan[i])
    BY <1>1, <1>2, <2>2 DEF PlanInOrder
  <2>4. i # 1
    BY <2>1, <2>3
  <2>5. i - 1 \in 1..m /\ (i - 1) + 1 = i
    BY <2>4
  <2>6. plan'[i - 1] = plan[i]
    BY <1>2, <2>5
  <2> QED BY <2>3, <2>5, <2>6
<1>9. PlannedFrames = FramesOf(Head(plan), active) \cup PlannedFrames'
  <2>1. ASSUME NEW i \in 1..(m + 1), i # 1
        PROVE  i - 1 \in 1..m /\ plan'[i - 1] = plan[i]
    <3>1. i - 1 \in 1..m /\ (i - 1) + 1 = i
      BY <2>1
    <3> QED BY <1>2, <3>1
  <2>2. ASSUME NEW i \in 1..m PROVE i + 1 \in 1..(m + 1) /\ plan'[i] = plan[i + 1]
    BY <1>2
  <2>3. DOMAIN plan' = 1..m /\ active' = active
    BY <1>1, <1>2
  <2>4. PlannedFrames' = UNION { FramesOf(plan'[i], active) : i \in 1..m }
    BY <2>3 DEF PlannedFrames, FramesOf
  <2>5. PlannedFrames = UNION { FramesOf(plan[i], active) : i \in 1..(m + 1) }
    BY <1>2 DEF PlannedFrames
  <2>6. ASSUME NEW f \in PlannedFrames
        PROVE  f \in FramesOf(plan[1], active) \/ f \in PlannedFrames'
    <3>1. PICK i \in 1..(m + 1) : f \in FramesOf(plan[i], active)
      BY <2>5
    <3>2. CASE i # 1
      <4>1. i - 1 \in 1..m /\ plan'[i - 1] = plan[i]
        BY <2>1, <3>2
      <4> QED BY <2>4, <3>1, <4>1
    <3> QED BY <3>1, <3>2
  <2>7. FramesOf(plan[1], active) \subseteq PlannedFrames
    BY <1>3, <2>5
  <2>8. PlannedFrames' \subseteq PlannedFrames
    BY <2>2, <2>4, <2>5
  <2> QED BY <1>2, <2>6, <2>7, <2>8
<1> QED BY <1>1, <1>2, <1>4, <1>5, <1>6, <1>7, <1>8, <1>9 DEF PlanInOrder

-----------------------------------------------------------------------------
(* The steps of the flusher.                                               *)

\* A step that leaves alone the disk, the plan and the engine's counters leaves
\* everything the order of the log speaks of, except where the flusher is.
LEMMA QuietStep ==
  ASSUME LogInv, TypeOK', UNCHANGED <<disk, up, active, nextSeg, plan>>,
         Low' = Low, seq' = seq
  PROVE  /\ PlannedFrames' = PlannedFrames /\ PlanInOrder' /\ SequenceIdsUnique'
         /\ segs' = segs /\ entries' = entries /\ files' = files
         /\ synced' = synced /\ torn' = torn
<1>1. /\ plan' = plan /\ active' = active /\ segs' = segs /\ entries' = entries
      /\ files' = files /\ synced' = synced /\ torn' = torn
  BY DEF disk
<1> QED BY <1>1, PlannedFramesUnchanged, PlanStays
        DEF LogInv, LogOrder, SequenceIdsUnique

\* Steps that only queue, refuse or count, and those that only say where the
\* flusher goes next.
LEMMA QuietActions ==
  ASSUME LogInv, TypeOK',
         \/ \E r \in Requests : Submit(r)
         \/ RefuseRequest \/ EndPlan \/ FlusherExit \/ UNCHANGED vars
  PROVE  LogOrder'
<1> USE DEF disk, engine, flusher, callers, observed, vars
<1>1. CASE \E r \in Requests : Submit(r)
  <2>1. PICK r \in Requests : Submit(r)
    BY <1>1
  <2>2. UNCHANGED <<disk, engine, flusher>> /\ up
    BY <2>1 DEF Submit
  <2>3. Low' = Low
    BY <2>2 DEF Low, Top
  <2> QED BY <2>2, <2>3, QuietStep
        DEF LogInv, LogOrder, Shape, IdsInOrder, SegmentsInOrder, TailsInOrder
<1>2. CASE RefuseRequest
  <2>1. Low' = Low
    BY <1>2 DEF RefuseRequest, Low, Top
  <2> QED BY <1>2, <2>1, QuietStep
        DEF RefuseRequest, LogInv, LogOrder, Shape, IdsInOrder, SegmentsInOrder,
            TailsInOrder
<1>3. CASE EndPlan
  <2>1. Low' = Low
    BY <1>3 DEF EndPlan, Low, Top
  <2> QED BY <1>3, <2>1, QuietStep
        DEF EndPlan, LogInv, LogOrder, Shape, IdsInOrder, SegmentsInOrder,
            TailsInOrder
<1>4. CASE FlusherExit
  <2>1. Low' = Low
    BY <1>4 DEF FlusherExit, Low, Top
  <2> QED BY <1>4, <2>1, QuietStep
        DEF FlusherExit, LogInv, LogOrder, Shape, IdsInOrder, SegmentsInOrder,
            TailsInOrder
<1>5. CASE UNCHANGED vars
  <2>1. Low' = Low
    BY <1>5 DEF Low, Top
  <2> QED BY <1>5, <2>1, QuietStep
        DEF LogInv, LogOrder, Shape, IdsInOrder, SegmentsInOrder, TailsInOrder
<1> QED BY <1>1, <1>2, <1>3, <1>4, <1>5

\* The group is drained into an empty plan, from the counter on.
LEMMA DrainOrder ==
  ASSUME LogInv, TypeOK', Drain
  PROVE  LogOrder'
<1>1. /\ up /\ pc = "recv" /\ pc' = "plan" /\ plan' = <<>> /\ seq' = nextSeq
      /\ UNCHANGED <<segs, entries, files, synced, torn, up, active, nextSeg>>
  BY DEF Drain, disk, engine
<1>2. plan = <<>> /\ PlannedFrames = {} /\ PlannedFrames' = {}
  BY <1>1 DEF LogInv, LogOrder, Shape, PlannedFrames
<1>3. Low' = Low
  BY <1>1, <1>2 DEF Low, Top
<1>4. Shape' /\ PlanInOrder'
  BY <1>1, PlanEmpty DEF Shape
<1> QED BY <1>1, <1>2, <1>3, <1>4
        DEF LogInv, LogOrder, IdsInOrder, SequenceIdsUnique, SegmentsInOrder,
            TailsInOrder

\* The frames of a request planned now have ids above all on the disk.
LEMMA PlanRequestOrder ==
  ASSUME LogInv, TypeOK', PlanRequest
  PROVE  LogOrder'
<1>1. /\ up /\ pc = "plan" /\ pc' = "plan"
      /\ UNCHANGED <<segs, entries, files, synced, torn, up, active, nextSeg, queue>>
  BY DEF PlanRequest, disk, engine, callers
<1>2. Low' = Low /\ PlanInOrder'
  BY PlanGrows, TypesSplit DEF LogInv, LogOrder
<1>3. PlannedInOrder'
  BY <1>2, PlannedIdsNext, TypesSplitNext
<1>4. \A f \in files : f.seq < Low /\ f.seq \in SeqId
  BY <1>1 DEF LogInv, LogOrder, IdsInOrder, TypeOK, Frame
<1>5. \A f \in files : f \notin PlannedFrames'
  BY <1>2, <1>3, <1>4 DEF PlannedInOrder, SeqId
<1>6. IdsInOrder'
  BY <1>1, <1>2, <1>4, <1>5 DEF IdsInOrder
<1> QED BY <1>1, <1>2, <1>6
        DEF LogInv, LogOrder, Shape, SequenceIdsUnique, SegmentsInOrder, TailsInOrder

\* The fsync before a rollover covers what is not synced, all in the active file.
LEMMA RollSyncOrder ==
  ASSUME LogInv, TypeOK', RollSync
  PROVE  LogOrder'
<1>1. /\ up /\ pc = "roll_sync" /\ pc' = "roll_id"
      /\ UNCHANGED <<segs, entries, files, torn, up, active, nextSeg, nextSeq, plan,
                     seq, group, queue>>
      /\ synced' = synced \cup InSegment(files, active)
  BY DEF RollSync, engine, callers
<1>2. PlannedFrames' = PlannedFrames /\ Low' = Low
  BY <1>1, PlannedFramesUnchanged DEF Low, Top
<1>3. PlanInOrder'
  BY <1>1, <1>2, PlanStays DEF LogInv, LogOrder
<1>4. files \subseteq synced'
  BY <1>1 DEF InSegment, LogInv, LogOrder, TailsInOrder
<1> QED BY <1>1, <1>2, <1>3, <1>4
        DEF LogInv, LogOrder, Shape, IdsInOrder, SequenceIdsUnique, SegmentsInOrder,
            TailsInOrder

\* The new active segment is above all that exist and holds nothing.
LEMMA RollIdOrder ==
  ASSUME LogInv, TypeOK', RollId
  PROVE  LogOrder'
<1>1. /\ up /\ pc = "roll_id" /\ pc' = "roll_create"
      /\ UNCHANGED <<segs, entries, files, synced, torn, up, nextSeq, plan, seq, group,
                     queue>>
      /\ active' = nextSeg /\ nextSeg' = nextSeg + 1 /\ nextSeg < CompactionBase
  BY DEF RollId, disk, callers
<1>2. Low' = Low
  BY <1>1 DEF Low, Top
<1>3. PlanInOrder'
  BY <1>1, <1>2, PlanStays DEF LogInv, LogOrder
<1>4. PlannedInOrder'
  BY <1>3, PlannedIdsNext, TypesSplitNext
<1>5. \A f \in files : f.seq < Low /\ f.seq \in SeqId /\ f.seg \in segs
  BY <1>1 DEF LogInv, LogOrder, IdsInOrder, SegmentsInOrder, TypeOK, Frame
<1>6. \A f \in files : f \notin PlannedFrames'
  BY <1>2, <1>4, <1>5 DEF PlannedInOrder, SeqId
<1>7. IdsInOrder'
  BY <1>1, <1>2, <1>5, <1>6 DEF IdsInOrder
<1>8. /\ active \in Nat /\ nextSeg \in Nat /\ active < nextSeg
      /\ \A s \in segs : s \in Nat /\ s <= active
  BY <1>1 DEF LogInv, LogOrder, SegmentsInOrder, TypeOK
<1>9. /\ \A s \in segs : s < active' /\ s <= active' /\ s # active'
      /\ active' < nextSeg' /\ active' < CompactionBase
  BY <1>1, <1>8
<1>10. SegmentsInOrder'
  BY <1>1, <1>5, <1>9 DEF LogInv, LogOrder, SegmentsInOrder
<1>11. TailsInOrder'
  BY <1>1 DEF LogInv, LogOrder, TailsInOrder
<1> QED BY <1>1, <1>3, <1>7, <1>10, <1>11
        DEF LogInv, LogOrder, Shape, SequenceIdsUnique

\* The new file exists from now on, and is still empty.
LEMMA RollCreateOrder ==
  ASSUME LogInv, TypeOK', RollCreate \/ RollDirSync
  PROVE  LogOrder'
<1>1. /\ up
      /\ \/ pc = "roll_create" /\ pc' = "roll_dir" /\ segs' = segs \cup {active}
         \/ pc = "roll_dir" /\ pc' = "write" /\ segs' = segs
      /\ UNCHANGED <<files, synced, torn, up, active, nextSeg, nextSeq, plan,
                     seq, group, queue>>
  BY DEF RollCreate, RollDirSync, engine, callers
<1>2. PlannedFrames' = PlannedFrames /\ Low' = Low
  BY <1>1, PlannedFramesUnchanged DEF Low, Top
<1>3. PlanInOrder'
  BY <1>1, <1>2, PlanStays DEF LogInv, LogOrder
<1>4. \A s \in segs' : s \in segs \/ s = active
  BY <1>1
<1>5. active \in Nat /\ active <= active
  BY DEF LogInv, TypeOK
<1>6. SegmentsInOrder'
  BY <1>1, <1>4, <1>5 DEF LogInv, LogOrder, SegmentsInOrder
<1>7. TailsInOrder'
  BY <1>1, <1>4 DEF LogInv, LogOrder, TailsInOrder
<1> QED BY <1>1, <1>2, <1>3, <1>6, <1>7
        DEF LogInv, LogOrder, Shape, IdsInOrder, SequenceIdsUnique

\* The group goes to the active file, the last one, with ids above all others.
LEMMA WriteGroupOrder ==
  ASSUME LogInv, TypeOK', WriteGroup
  PROVE  LogOrder'
<1>1. /\ up /\ pc = "write" /\ pc' = "sync"
      /\ UNCHANGED <<segs, entries, synced, torn, up, active, nextSeg, nextSeq, plan,
                     seq, group, queue>>
      /\ files' = files \cup { f \in PlannedFrames : f.seg \in segs }
  BY DEF WriteGroup, engine, callers
<1>2. PlannedFrames' = PlannedFrames /\ Low' = Low
  BY <1>1, PlannedFramesUnchanged DEF Low, Top
<1>3. PlanInOrder'
  BY <1>1, <1>2, PlanStays DEF LogInv, LogOrder
<1>4. PlannedInOrder
  BY PlannedIds, TypesSplit DEF LogInv, LogOrder
<1>5. active \in segs
  BY <1>1 DEF LogInv, LogOrder, SegmentsInOrder
<1>6. files' = files \cup PlannedFrames
  BY <1>1, <1>4, <1>5 DEF PlannedInOrder
<1>7. /\ Low \in Nat
      /\ \A f \in files : f.seq < Low /\ f.seq \in Nat /\ f.seg \in Nat /\ f.seg <= active
      /\ \A f \in PlannedFrames : Low <= f.seq /\ f.seq \in Nat /\ f.seg = active
      /\ active \in Nat
  BY <1>1, <1>4 DEF LogInv, LogOrder, IdsInOrder, SegmentsInOrder, TypeOK, Frame,
                    PlannedInOrder, SeqId
<1>8. SequenceIdsUnique'
  <2> SUFFICES ASSUME NEW f \in files \cup PlannedFrames,
                      NEW g \in files \cup PlannedFrames, f.seq = g.seq
               PROVE  f = g
    BY <1>6 DEF SequenceIdsUnique
  <2>1. CASE f \in files /\ g \in files
    BY <2>1 DEF LogInv, LogOrder, SequenceIdsUnique
  <2>2. CASE f \in PlannedFrames /\ g \in PlannedFrames
    BY <2>2, <1>4 DEF PlannedInOrder
  <2>3. CASE f \in files /\ g \in PlannedFrames
    <3>1. f.seq < Low /\ Low <= g.seq /\ f.seq \in Nat /\ g.seq \in Nat
      BY <2>3, <1>7
    <3> QED BY <3>1, <1>7
  <2>4. CASE f \in PlannedFrames /\ g \in files
    <3>1. g.seq < Low /\ Low <= f.seq /\ f.seq \in Nat /\ g.seq \in Nat
      BY <2>4, <1>7
    <3> QED BY <3>1, <1>7
  <2> QED BY <2>1, <2>2, <2>3, <2>4
<1>9. \A f, g \in files' : f.seg < g.seg => f.seq < g.seq
  <2> SUFFICES ASSUME NEW f \in files \cup PlannedFrames,
                      NEW g \in files \cup PlannedFrames, f.seg < g.seg
               PROVE  f.seq < g.seq
    BY <1>6
  <2>1. f \in files
    BY <1>7
  <2>2. CASE g \in files
    BY <2>1, <2>2 DEF LogInv, LogOrder, SegmentsInOrder
  <2>3. CASE g \in PlannedFrames
    BY <2>1, <2>3, <1>7
  <2> QED BY <2>2, <2>3
<1>10. SegmentsInOrder'
  BY <1>1, <1>5, <1>6, <1>7, <1>9 DEF LogInv, LogOrder, SegmentsInOrder
<1>11. TailsInOrder'
  BY <1>1, <1>6, <1>7 DEF LogInv, LogOrder, TailsInOrder
<1>12. IdsInOrder'
  BY <1>1, <1>2, <1>6, <1>7 DEF IdsInOrder
<1> QED BY <1>1, <1>3, <1>8, <1>10, <1>11, <1>12 DEF LogInv, LogOrder, Shape

\* After the fsync of the group nothing in the log is unsynced.
LEMMA SyncGroupOrder ==
  ASSUME LogInv, TypeOK', SyncGroup
  PROVE  LogOrder'
<1>1. /\ up /\ pc = "sync" /\ pc' = "apply"
      /\ UNCHANGED <<segs, entries, files, torn, up, active, nextSeg, nextSeq, plan,
                     seq, group, queue>>
      /\ synced' = synced \cup InSegment(files, active)
  BY DEF SyncGroup, engine, callers
<1>2. PlannedFrames' = PlannedFrames /\ Low' = Low
  BY <1>1, PlannedFramesUnchanged DEF Low, Top
<1>3. PlanInOrder'
  BY <1>1, <1>2, PlanStays DEF LogInv, LogOrder
<1> QED BY <1>1, <1>2, <1>3
        DEF LogInv, LogOrder, Shape, IdsInOrder, SequenceIdsUnique, SegmentsInOrder,
            TailsInOrder

\* The frames of an answered request are below the lowest planned id.
LEMMA ApplyAndAckOrder ==
  ASSUME LogInv, TypeOK', ApplyAndAck
  PROVE  LogOrder'
<1>1. /\ up /\ pc = "apply" /\ pc' = "apply"
      /\ UNCHANGED <<segs, entries, files, synced, torn, up, active, nextSeg, group,
                     queue>>
  BY DEF ApplyAndAck, disk
<1> DEFINE F == FramesOf(Head(plan), active)
<1>2. /\ Head(plan) \in Planned /\ Low = Head(plan).first /\ Low' = End(Head(plan))
      /\ PlanInOrder' /\ PlannedFrames = F \cup PlannedFrames'
  BY PlanShrinks, TypesSplit DEF LogInv, LogOrder
<1>3. \A f \in F : f.seq < Low'
  BY <1>2, FrameIds DEF LogInv, TypeOK
<1>4. Low \in Nat /\ Low' \in Nat /\ Low < Low'
  BY <1>2, PlannedRange DEF SeqId
<1>5. \A f \in files : f.seq \in Nat
  BY DEF LogInv, TypeOK, Frame, SeqId
<1>6. \A f \in files : f.seq < Low \/ f \in PlannedFrames
  BY <1>1 DEF LogInv, LogOrder, IdsInOrder
<1> HIDE DEF F
<1>7. \A f \in files : f.seq < Low' \/ f \in PlannedFrames'
  BY <1>2, <1>3, <1>4, <1>5, <1>6
<1>8. PlannedFrames \subseteq files
  BY <1>1 DEF LogInv, LogOrder, IdsInOrder
<1>9. IdsInOrder'
  BY <1>1, <1>2, <1>7, <1>8 DEF IdsInOrder
<1> QED BY <1>1, <1>2, <1>9
        DEF LogInv, LogOrder, Shape, SequenceIdsUnique, SegmentsInOrder, TailsInOrder

\* The counter moves on to where the group ended.
LEMMA EndGroupOrder ==
  ASSUME LogInv, TypeOK', EndGroup
  PROVE  LogOrder'
<1>1. /\ up /\ pc = "apply" /\ pc' = "recv" /\ plan = <<>> /\ nextSeq' = seq
      /\ UNCHANGED <<disk, up, active, nextSeg, plan, seq, group, queue>>
  BY DEF EndGroup, callers
<1>2. Low' = Low
  BY <1>1 DEF Low, Top
<1>3. PlannedFrames = {} /\ PlannedFrames' = {}
  BY <1>1 DEF PlannedFrames
<1>4. \A f \in files : f.seq < Low
  BY <1>1, <1>3 DEF LogInv, LogOrder, IdsInOrder
<1> QED BY <1>1, <1>2, <1>3, <1>4, QuietStep
        DEF LogInv, LogOrder, Shape, IdsInOrder, SegmentsInOrder, TailsInOrder

-----------------------------------------------------------------------------
(* Failures, and going down and coming back.                               *)

\* What a stopped write_all leaves, with F the frames then on the disk and x the
\* torn segments: the frames it has put there are the last ones, in the last
\* segment, and a torn tail is only there.
LeftInOrder(F, x) ==
  /\ \A f, g \in F : f.seq = g.seq => f = g
  /\ \A f \in F : f \in Frame /\ f.seg \in segs
  /\ \A f, g \in F : f.seg < g.seg => f.seq < g.seq
  /\ \A f \in F \ synced, s \in segs : s <= f.seg
  /\ up => \A f \in F \ synced : f.seg = active
  /\ \A y \in x, s \in segs : s <= y
  /\ up => \A f \in F : f.seq < Low \/ f \in PlannedFrames
  /\ up => \A f \in F \cap PlannedFrames, g \in PlannedFrames :
             g.seq < f.seq => g \in F

\* A stopped write_all leaves the log in order.
LEMMA PartialWriteOrder ==
  ASSUME LogInv,
         NEW P \in SUBSET { f \in PlannedFrames : f.seg \in segs },
         NEW t \in SUBSET {active}, PartialWrite(P, t)
  PROVE  LeftInOrder(files \cup P, torn \cup t)
<1> DEFINE F == files \cup P
<1> SUFFICES LeftInOrder(F, torn \cup t)
  OBVIOUS
<1>t. TypeOK /\ PlannedInOrder
  BY PlannedIds, TypesSplit DEF LogInv, LogOrder
<1>1. CASE P = {} /\ t = {}
  <2>1. up => \A s \in segs : s <= active
    BY DEF LogInv, LogOrder, SegmentsInOrder
  <2>2. up => \A f \in files \ synced : f.seg = active
    BY DEF LogInv, LogOrder, TailsInOrder
  <2>3. ~up => \A f \in files \ synced, s \in segs : s <= f.seg
    BY DEF LogInv, LogOrder, TailsInOrder
  <2>4. \A f \in files \ synced, s \in segs : s <= f.seg
    BY <2>1, <2>2, <2>3
  <2>5. \A x \in torn, s \in segs : s <= x
    BY DEF LogInv, LogOrder, TailsInOrder
  <2>6. F = files /\ torn \cup t = torn
    BY <1>1
  <2>7. \A f, g \in files : f.seq = g.seq => f = g
    BY DEF LogInv, LogOrder, SequenceIdsUnique
  <2>8. /\ \A f \in files : f.seg \in segs
        /\ \A f, g \in files : f.seg < g.seg => f.seq < g.seq
    BY DEF LogInv, LogOrder, SegmentsInOrder
  <2>9. up => /\ \A f \in files : f.seq < Low \/ f \in PlannedFrames
              /\ \A f \in files \cap PlannedFrames, g \in PlannedFrames :
                    g.seq < f.seq => g \in files
    BY DEF LogInv, LogOrder, IdsInOrder
  <2>10. files \subseteq Frame
    BY <1>t DEF TypeOK
  <2> QED BY <2>2, <2>4, <2>5, <2>6, <2>7, <2>8, <2>9, <2>10 DEF LeftInOrder
<1>2. CASE ~(P = {} /\ t = {})
  <2>1. pc = "write" /\ t \subseteq {active} \cap segs
    BY <1>2 DEF PartialWrite
  <2>2. up
    BY <2>1 DEF LogInv, LogOrder, Shape
  <2>3. P \subseteq PlannedFrames
    OBVIOUS
  <2>4. /\ Low \in Nat /\ active \in Nat
        /\ \A f \in files : /\ f \in Frame /\ f.seq < Low /\ f.seq \in Nat
                            /\ f.seg \in Nat /\ f.seg \in segs /\ f.seg <= active
        /\ \A f \in PlannedFrames : /\ f \in Frame /\ Low <= f.seq /\ f.seq \in Nat
                                    /\ f.seg = active
        /\ \A s \in segs : s <= active
    BY <1>t, <2>1, <2>2
       DEF LogInv, LogOrder, IdsInOrder, SegmentsInOrder, TypeOK, Frame,
           PlannedInOrder, SeqId
  <2>5. ASSUME NEW f \in F, NEW g \in F, f.seq = g.seq PROVE f = g
    <3>1. CASE f \in files /\ g \in files
      BY <2>5, <3>1 DEF LogInv, LogOrder, SequenceIdsUnique
    <3>2. CASE f \in PlannedFrames /\ g \in PlannedFrames
      BY <2>5, <3>2, <1>t DEF PlannedInOrder
    <3>3. CASE f \in files /\ g \in PlannedFrames
      <4>1. f.seq < Low /\ Low <= g.seq /\ f.seq \in Nat /\ g.seq \in Nat
        BY <3>3, <2>4
      <4> QED BY <2>4, <2>5, <4>1
    <3>4. CASE f \in PlannedFrames /\ g \in files
      <4>1. g.seq < Low /\ Low <= f.seq /\ f.seq \in Nat /\ g.seq \in Nat
        BY <3>4, <2>4
      <4> QED BY <2>4, <2>5, <4>1
    <3> QED BY <3>1, <3>2, <3>3, <3>4
  <2>6. \A f \in F : f \in Frame /\ f.seg \in segs
    BY <2>4
  <2>7. ASSUME NEW f \in F, NEW g \in F, f.seg < g.seg PROVE f.seq < g.seq
    <3>1. f \in files
      BY <2>3, <2>4, <2>7
    <3>2. CASE g \in files
      BY <2>7, <3>1, <3>2 DEF LogInv, LogOrder, SegmentsInOrder
    <3>3. CASE g \in PlannedFrames
      BY <3>1, <3>3, <2>4
    <3> QED BY <2>3, <3>2, <3>3
  <2>8. \A f \in F \ synced : f.seg = active
    BY <2>2, <2>3, <2>4 DEF LogInv, LogOrder, TailsInOrder
  <2>9. \A f \in F \ synced, s \in segs : s <= f.seg
    BY <2>4, <2>8
  <2>10. \A x \in torn \cup t, s \in segs : s <= x
    BY <2>1, <2>4 DEF LogInv, LogOrder, TailsInOrder
  <2>11. \A f \in F : f.seq < Low \/ f \in PlannedFrames
    BY <2>3, <2>4
  <2>12. ASSUME NEW f \in F \cap PlannedFrames, NEW g \in PlannedFrames, g.seq < f.seq
         PROVE  g \in F
    <3>1. f \in P
      BY <2>4
    <3> QED BY <2>12, <3>1 DEF PartialWrite
  <2> HIDE DEF F
  <2> QED BY <2>5, <2>6, <2>7, <2>8, <2>9, <2>10, <2>11, <2>12 DEF LeftInOrder
<1> QED BY <1>1, <1>2

\* A failed flush.
LEMMA FlushFailsOrder ==
  ASSUME LogInv, TypeOK', FlushFails
  PROVE  LogOrder'
<1>1. /\ up /\ pc \in {"roll_sync", "roll_create", "roll_dir", "write", "sync"}
      /\ pc' = "exit"
      /\ UNCHANGED <<segs, entries, synced, up, active, nextSeg, nextSeq, plan, seq,
                     group, queue>>
  BY DEF FlushFails
<1>2. PICK P \in SUBSET { f \in PlannedFrames : f.seg \in segs },
           t \in SUBSET {active} :
        PartialWrite(P, t) /\ files' = files \cup P /\ torn' = torn \cup t
  BY DEF FlushFails
<1>3. PlannedFrames' = PlannedFrames /\ Low' = Low
  BY <1>1, PlannedFramesUnchanged DEF Low, Top
<1>4. PlanInOrder'
  BY <1>1, <1>3, PlanStays DEF LogInv, LogOrder
<1>5. /\ \A f, g \in files' : f.seq = g.seq => f = g
      /\ \A f \in files' : f.seg \in segs
      /\ \A f, g \in files' : f.seg < g.seg => f.seq < g.seq
      /\ \A f \in files' \ synced : f.seg = active
      /\ \A x \in torn', s \in segs : s <= x
      /\ \A f \in files' : f.seq < Low \/ f \in PlannedFrames
      /\ \A f \in files' \cap PlannedFrames, g \in PlannedFrames :
                    g.seq < f.seq => g \in files'
  <2>1. LeftInOrder(files \cup P, torn \cup t)
    BY <1>2, PartialWriteOrder
  <2>2. LeftInOrder(files', torn')
    BY <1>2, <2>1
  <2> QED BY <1>1, <2>2 DEF LeftInOrder
<1>6. SegmentsInOrder'
  BY <1>1, <1>5 DEF LogInv, LogOrder, SegmentsInOrder
<1>7. TailsInOrder'
  BY <1>1, <1>5 DEF TailsInOrder
<1>8. IdsInOrder' /\ SequenceIdsUnique'
  BY <1>1, <1>3, <1>5 DEF IdsInOrder, SequenceIdsUnique
<1> QED BY <1>1, <1>4, <1>6, <1>7, <1>8 DEF LogInv, LogOrder, Shape

\* The engine is down: what is asked of the log then is asked of the disk.
LEMMA DownOrder ==
  ASSUME GoDown, segs' \subseteq segs, \A s \in segs : s < CompactionBase,
         \A f, g \in files' : f.seq = g.seq => f = g,
         \A f \in files' : f.seg \in segs',
         \A f, g \in files' : f.seg < g.seg => f.seq < g.seq,
         \A f \in files' \ synced', s \in segs' : s <= f.seg,
         \A x \in torn', s \in segs' : s <= x
  PROVE  LogOrder'
<1>1. /\ up' = FALSE /\ pc' = "recv" /\ plan' = <<>> /\ group' = <<>> /\ queue' = <<>>
  BY DEF GoDown
<1>2. PlanInOrder' /\ Shape' /\ IdsInOrder'
  BY <1>1, PlanEmpty DEF Shape, IdsInOrder
<1>3. SegmentsInOrder' /\ TailsInOrder' /\ SequenceIdsUnique'
  BY <1>1 DEF SegmentsInOrder, TailsInOrder, SequenceIdsUnique
<1> QED BY <1>2, <1>3 DEF LogOrder

\* An engine that goes down with the page cache surviving.
LEMMA CloseOrder ==
  ASSUME LogInv, TypeOK', Close \/ Kill
  PROVE  LogOrder'
<1>1. PICK P \in SUBSET { f \in PlannedFrames : f.seg \in segs },
           t \in SUBSET {active} :
        PartialWrite(P, t) /\ files' = files \cup P /\ torn' = torn \cup t
  <2>1. CASE Close
    <3>1. {} \in SUBSET { f \in PlannedFrames : f.seg \in segs } /\ {} \in SUBSET {active}
          /\ PartialWrite({}, {}) /\ files' = files \cup {} /\ torn' = torn \cup {}
      BY <2>1 DEF Close, PartialWrite
    <3> QED BY <3>1
  <2>2. CASE Kill
    BY <2>2 DEF Kill
  <2> QED BY <2>1, <2>2
<1>2. GoDown /\ segs' = segs /\ synced \subseteq synced' /\ \A s \in segs : s < CompactionBase
  BY DEF Close, Kill, LogInv, LogOrder, SegmentsInOrder
<1>3. /\ \A f, g \in files' : f.seq = g.seq => f = g
      /\ \A f \in files' : f.seg \in segs
      /\ \A f, g \in files' : f.seg < g.seg => f.seq < g.seq
      /\ \A f \in files' \ synced, s \in segs : s <= f.seg
      /\ \A x \in torn', s \in segs : s <= x
  <2>1. LeftInOrder(files \cup P, torn \cup t)
    BY <1>1, PartialWriteOrder
  <2>2. LeftInOrder(files', torn')
    BY <1>1, <2>1
  <2> QED BY <2>2 DEF LeftInOrder
<1> QED BY <1>2, <1>3, DownOrder

\* A power loss takes frames that were not synced, all of the last segment.
LEMMA LosePowerOrder ==
  ASSUME LogInv, TypeOK', LosePower
  PROVE  LogOrder'
<1>1. PICK P \in SUBSET { f \in PlannedFrames : f.seg \in segs },
           t \in SUBSET {active} :
        /\ PartialWrite(P, t)
        /\ segs' \subseteq segs \cup entries
        /\ files' \subseteq files \cup synced \cup P
        /\ \A f \in files' : f.seg \in segs'
        /\ \A f \in synced : f.seg \in segs' => f \in files'
        /\ torn' \subseteq segs'
        /\ \A x \in torn' : \/ x \in torn \cup t
                            \/ \E f \in (files \cup synced \cup P) \ files' : x = f.seg
  <2>1. PICK P \in SUBSET { f \in PlannedFrames : f.seg \in segs },
             t \in SUBSET {active},
             keep \in SUBSET ((segs \ entries) \cup (entries \ segs)) :
          /\ PartialWrite(P, t)
          /\ segs' = (segs \cap entries) \cup keep
          /\ LET F == { f \in files \cup synced \cup P : f.seg \in segs' } IN
               \E S \in SUBSET F :
                 /\ Survives(S, F)
                 /\ files' = S
                 /\ torn' \in SUBSET ((torn \cup t \cup { f.seg : f \in F \ S })
                                        \cap segs')
    BY DEF LosePower
  <2> DEFINE F == { f \in files \cup synced \cup P : f.seg \in segs' }
  <2>2. PICK S \in SUBSET F :
          /\ Survives(S, F)
          /\ files' = S
          /\ torn' \in SUBSET ((torn \cup t \cup { f.seg : f \in F \ S }) \cap segs')
    BY <2>1
  <2>3. /\ \A f \in files' : f.seg \in segs' /\ f \in files \cup synced \cup P
        /\ \A f \in synced : f.seg \in segs' => f \in files'
    BY <2>2 DEF Survives
  <2>4. \A f \in F \ S : f \in (files \cup synced \cup P) \ files'
    BY <2>2
  <2> HIDE DEF F
  <2>5. /\ torn' \subseteq segs'
        /\ \A x \in torn' : x \in torn \cup t \/ \E f \in F \ S : x = f.seg
    BY <2>2
  <2> QED BY <2>1, <2>3, <2>4, <2>5
<1>2. /\ GoDown /\ synced' = files' /\ \A s \in segs : s < CompactionBase
      /\ synced \subseteq files /\ entries \subseteq segs
  BY DEF LosePower, LogInv, LogOrder, SegmentsInOrder, TypeOK
<1>3. segs' \subseteq segs
  BY <1>1, <1>2
<1> DEFINE F == files \cup P
<1>4. /\ \A f, g \in F : f.seq = g.seq => f = g
      /\ \A f, g \in F : f.seg < g.seg => f.seq < g.seq
      /\ \A f \in F \ synced, s \in segs : s <= f.seg
      /\ \A x \in torn \cup t, s \in segs : s <= x
  <2>1. LeftInOrder(F, torn \cup t)
    BY <1>1, PartialWriteOrder
  <2> HIDE DEF F
  <2> QED BY <2>1 DEF LeftInOrder
<1>5. files' \subseteq F /\ files \cup synced \cup P = F
  BY <1>1, <1>2
<1>6. ASSUME NEW x \in torn', NEW s \in segs' PROVE s <= x
  <2>1. CASE x \in torn \cup t
    BY <1>3, <1>4, <2>1
  <2>2. CASE x \notin torn \cup t
    <3>1. PICK f \in F \ files' : x = f.seg
      BY <1>1, <1>5, <2>2
    <3>2. f \notin synced
      BY <1>1, <3>1
    <3> QED BY <1>3, <1>4, <3>1, <3>2
  <2> QED BY <2>1, <2>2
<1> HIDE DEF F
<1>7. \A f \in files' : f.seg \in segs'
  BY <1>1
<1> QED BY <1>2, <1>3, <1>4, <1>5, <1>6, <1>7, DownOrder

\* The segment a reopen goes on writing to is the last one.
LEMMA ActiveIsLast ==
  ASSUME LogInv, ~up, NEW a \in segs \cup {1}, ActiveChoice(a)
  PROVE  /\ a \in segs \/ (segs = {} /\ a = 1)
         /\ \A s \in segs : s <= a
         /\ a < CompactionBase
<1>1. NormalSegs = segs
  BY DEF NormalSegs, LogInv, LogOrder, SegmentsInOrder
<1> DEFINE holding == { s \in segs : InSegment(files, s) # {} }
<1>b. \A s \in segs : s \in Nat /\ s < CompactionBase
  BY DEF LogInv, LogOrder, SegmentsInOrder, TypeOK
<1>2. CASE a \in segs \ holding /\ \A s \in segs : s <= a
  <2>1. a \in segs /\ a < CompactionBase
    BY <1>b, <1>2
  <2> QED BY <1>2, <2>1
<1>3. CASE /\ a \in holding
           /\ \E s \in holding : \A x \in segs : x <= s
           /\ \E f \in InSegment(files, a) :
                \A g \in files : g.seg \in segs =>
                  g.seq < f.seq \/ (g.seq = f.seq /\ g.seg <= a)
  <2>1. PICK s \in holding : \A x \in segs : x <= s
    BY <1>3
  <2>2. PICK f \in InSegment(files, a) :
          \A g \in files : g.seg \in segs =>
                  g.seq < f.seq \/ (g.seq = f.seq /\ g.seg <= a)
    BY <1>3
  <2>3. PICK g \in files : g.seg = s
    BY DEF InSegment
  <2>4. s \in Nat /\ a \in Nat /\ a <= s /\ f \in files /\ f.seg = a
        /\ f.seq \in Nat /\ g.seq \in Nat
    BY <1>3, <2>1 DEF LogInv, TypeOK, InSegment, Frame, SeqId
  <2>5. a < s => f.seq < g.seq
    BY <2>3, <2>4 DEF LogInv, LogOrder, SegmentsInOrder
  <2>6. g.seq < f.seq \/ (g.seq = f.seq /\ g.seg <= a)
    BY <2>2, <2>3
  <2>7. a = s
    BY <2>3, <2>4, <2>5, <2>6
  <2>8. a \in segs /\ a < CompactionBase /\ \A x \in segs : x <= a
    BY <1>b, <2>1, <2>7
  <2> QED BY <2>8
<1>4. CASE segs = {} /\ a = 1
  BY <1>4, SegmentLogAssumption
<1> QED BY <1>1, <1>2, <1>3, <1>4 DEF ActiveChoice

\* A reopen starts above every id and every segment on the disk.
LEMMA RecoverOrder ==
  ASSUME LogInv, TypeOK', Recover
  PROVE  LogOrder'
<1>1. PICK a \in segs \cup {1}, top \in {0} \cup { f.seq : f \in files },
           last \in NormalSegs \cup {1} :
        /\ ActiveChoice(a)
        /\ \A f \in files : f.seq <= top
        /\ \A s \in NormalSegs \cup {a} : s <= last
        /\ segs' = segs \cup {a}
        /\ synced' = IF a \in torn THEN synced \cup InSegment(files, a) ELSE synced
        /\ torn' = torn \ {a}
        /\ active' = a /\ nextSeq' = top + 1 /\ nextSeg' = last + 1
  BY DEF Recover
<1>2. /\ ~up /\ up' /\ files' = files
      /\ UNCHANGED <<pc, group, plan, seq, queue>>
  BY DEF Recover, flusher, callers
<1>3. /\ pc = "recv" /\ plan = <<>> /\ group = <<>>
  BY <1>2 DEF LogInv, LogOrder, Shape
<1>4. /\ a \in segs \/ (segs = {} /\ a = 1)
      /\ \A s \in segs : s <= a
      /\ a < CompactionBase
  BY <1>1, <1>2, ActiveIsLast
<1>5. /\ a \in Nat /\ top \in Nat /\ last \in Nat /\ segs \subseteq Nat
      /\ torn \subseteq segs /\ synced \subseteq files
      /\ \A f \in files : f.seq \in Nat /\ f.seg \in Nat
  <2>1. /\ segs \subseteq Nat /\ torn \subseteq segs /\ synced \subseteq files
        /\ \A f \in files : f.seq \in Nat /\ f.seg \in Nat
    BY DEF LogInv, TypeOK, Frame, SeqId
  <2>2. top \in Nat
    BY <2>1
  <2>3. a \in Nat
    BY <2>1
  <2>4. last \in Nat
    BY <2>1 DEF NormalSegs
  <2> QED BY <2>1, <2>2, <2>3, <2>4
<1>6. a <= last
  BY <1>1
<1>7. \A f \in files : f.seq < nextSeq'
  BY <1>1, <1>5
<1>8. PlanInOrder' /\ Low' = nextSeq' /\ PlannedFrames' = {} /\ Shape'
  BY <1>2, <1>3, PlanEmpty DEF Low, Top, PlannedFrames, Shape
<1>9. IdsInOrder' /\ SequenceIdsUnique'
  BY <1>2, <1>7, <1>8 DEF IdsInOrder, SequenceIdsUnique, LogInv, LogOrder
<1>10. torn' = {}
  <2>1. ASSUME NEW x \in torn PROVE x = a
    <3>1. x \in segs /\ x \in Nat /\ a \in segs
      BY <1>4, <1>5
    <3>2. a <= x /\ x <= a
      BY <1>4, <3>1 DEF LogInv, LogOrder, TailsInOrder
    <3> QED BY <1>5, <3>1, <3>2
  <2> QED BY <1>1, <2>1
<1>11. \A f \in files' \ synced' : f.seg = active'
  <2> SUFFICES ASSUME NEW f \in files, f \notin synced PROVE f.seg = a
    BY <1>1, <1>2
  <2>1. f.seg \in segs /\ a \in segs
    BY <1>4 DEF LogInv, LogOrder, SegmentsInOrder
  <2>2. a <= f.seg /\ f.seg <= a
    BY <1>2, <1>4, <2>1 DEF LogInv, LogOrder, TailsInOrder
  <2> QED BY <1>5, <2>2
<1>12. /\ \A s \in segs' : s <= active' /\ s < CompactionBase
       /\ active' < nextSeg' /\ active' < CompactionBase /\ active' \in segs'
       /\ \A f \in files' : f.seg \in segs'
  BY <1>1, <1>2, <1>4, <1>5, <1>6 DEF LogInv, LogOrder, SegmentsInOrder
<1>13. SegmentsInOrder' /\ TailsInOrder'
  BY <1>2, <1>3, <1>10, <1>11, <1>12
     DEF LogInv, LogOrder, SegmentsInOrder, TailsInOrder
<1> QED BY <1>8, <1>9, <1>13 DEF LogOrder

-----------------------------------------------------------------------------
(* The order of the log.                                                   *)

LEMMA InitLogInv == Init => LogInv
<1> SUFFICES ASSUME Init PROVE LogInv
  OBVIOUS
<1>1. TypeOK
  BY InitTypeOK
<1>2. /\ segs = {1} /\ files = {} /\ synced = {} /\ torn = {} /\ up = TRUE
      /\ active = 1 /\ nextSeg = 2 /\ pc = "recv" /\ group = <<>> /\ plan = <<>>
  BY DEF Init
<1>3. Shape /\ PlanInOrder
  BY <1>2 DEF Shape, PlanInOrder
<1>4. IdsInOrder /\ SequenceIdsUnique /\ TailsInOrder
  BY <1>2 DEF IdsInOrder, SequenceIdsUnique, TailsInOrder
<1>5. SegmentsInOrder
  BY <1>2, SegmentLogAssumption DEF SegmentsInOrder
<1> QED BY <1>1, <1>3, <1>4, <1>5 DEF LogInv, LogOrder

\* Every step keeps the order of the log.
LEMMA NextLogInv == LogInv /\ [Next]_vars => LogInv'
<1> SUFFICES ASSUME LogInv, [Next]_vars PROVE LogInv'
  OBVIOUS
<1>1. TypeOK'
  BY NextTypeOK DEF LogInv
<1>2. CASE \/ \E r \in Requests : Submit(r)
           \/ RefuseRequest \/ EndPlan \/ FlusherExit \/ UNCHANGED vars
  BY <1>1, <1>2, QuietActions DEF LogInv
<1>3. CASE Drain
  BY <1>1, <1>3, DrainOrder DEF LogInv
<1>4. CASE PlanRequest
  BY <1>1, <1>4, PlanRequestOrder DEF LogInv
<1>5. CASE RollSync
  BY <1>1, <1>5, RollSyncOrder DEF LogInv
<1>6. CASE RollId
  BY <1>1, <1>6, RollIdOrder DEF LogInv
<1>7. CASE RollCreate \/ RollDirSync
  BY <1>1, <1>7, RollCreateOrder DEF LogInv
<1>8. CASE WriteGroup
  BY <1>1, <1>8, WriteGroupOrder DEF LogInv
<1>9. CASE SyncGroup
  BY <1>1, <1>9, SyncGroupOrder DEF LogInv
<1>10. CASE ApplyAndAck
  BY <1>1, <1>10, ApplyAndAckOrder DEF LogInv
<1>11. CASE EndGroup
  BY <1>1, <1>11, EndGroupOrder DEF LogInv
<1>12. CASE FlushFails
  BY <1>1, <1>12, FlushFailsOrder DEF LogInv
<1>13. CASE Close \/ Kill
  BY <1>1, <1>13, CloseOrder DEF LogInv
<1>14. CASE LosePower
  BY <1>1, <1>14, LosePowerOrder DEF LogInv
<1>15. CASE Recover
  BY <1>1, <1>15, RecoverOrder DEF LogInv
<1> QED BY <1>2, <1>3, <1>4, <1>5, <1>6, <1>7, <1>8, <1>9, <1>10, <1>11, <1>12,
           <1>13, <1>14, <1>15
        DEF Next, FlusherStep, GoingDown

\* One sequence id never names two frames on the disk: for any number of
\* requests and restarts, and although recovery and refused or torn groups hand
\* ids out again (execute_batch_append and recover).
THEOREM IdsNeverReused == Spec => []SequenceIdsUnique
<1>1. LogInv => SequenceIdsUnique
  BY DEF LogInv, LogOrder
<1> QED BY <1>1, InitLogInv, NextLogInv, PTL DEF Spec

-----------------------------------------------------------------------------
(* Torn tails.                                                             *)

\* A nonempty set of naturals has a lowest element.
LEMMA HasLowest ==
  ASSUME NEW T, T \subseteq Nat, T # {}
  PROVE  \E x \in T : \A y \in T : x <= y
<1>1. \E x \in T : \A y \in T : ~ (<<y, x>> \in OpToRel(<, Nat))
  BY WFMin, NatLessThanWellFounded
<1>2. PICK x \in T : \A y \in T : ~ (<<y, x>> \in OpToRel(<, Nat))
  BY <1>1
<1>3. ASSUME NEW y \in T PROVE x <= y
  <2>1. x \in Nat /\ y \in Nat
    OBVIOUS
  <2>2. ~ (y < x)
    BY <1>2, <2>1 DEF OpToRel
  <2> QED BY <2>1, <2>2
<1> QED BY <1>3

\* A bounded one has a highest.
LEMMA HasHighest ==
  ASSUME NEW T, T \subseteq Nat, T # {}, NEW b \in Nat, \A x \in T : x <= b
  PROVE  \E x \in T : \A y \in T : y <= x
<1> DEFINE D == { b - x : x \in T }
<1>1. D \subseteq Nat /\ D # {}
  <2>1. \A x \in T : b - x \in Nat
    OBVIOUS
  <2>2. D # {}
    OBVIOUS
  <2> QED BY <2>1, <2>2
<1> HIDE DEF D
<1>2. PICK d \in D : \A e \in D : d <= e
  BY <1>1, HasLowest
<1>3. PICK x \in T : d = b - x
  BY DEF D
<1>4. ASSUME NEW y \in T PROVE y <= x
  <2>1. b - y \in D
    BY DEF D
  <2>2. b - x <= b - y
    BY <1>2, <1>3, <2>1
  <2>3. x \in Nat /\ y \in Nat
    OBVIOUS
  <2> QED BY <2>2, <2>3
<1> QED BY <1>4

\* A step puts no frame on the disk but planned ones.
LEMMA FilesGrow ==
  ASSUME TypeOK, [Next]_vars
  PROVE  files' \subseteq files \cup PlannedFrames
<1> USE DEF disk, engine, flusher, callers, observed
<1>1. CASE LosePower
  <2>1. synced \subseteq files
    BY DEF TypeOK
  <2> QED BY <1>1, <2>1 DEF LosePower
<1>2. CASE FlushFails
  BY <1>2 DEF FlushFails
<1>3. CASE Kill
  BY <1>3 DEF Kill
<1>4. CASE WriteGroup
  BY <1>4 DEF WriteGroup
<1>5. CASE files' = files
  BY <1>5
<1>6. ASSUME NEW r \in Requests, Submit(r) PROVE files' = files
  BY <1>6 DEF Submit
<1>7. CASE Drain \/ PlanRequest \/ RefuseRequest \/ EndPlan \/ FlusherExit
  BY <1>7 DEF Drain, PlanRequest, RefuseRequest, EndPlan, FlusherExit
<1>8. CASE RollSync \/ RollId \/ RollCreate \/ RollDirSync \/ SyncGroup
  BY <1>8 DEF RollSync, RollId, RollCreate, RollDirSync, SyncGroup
<1>9. CASE ApplyAndAck \/ EndGroup \/ Close \/ Recover
  BY <1>9 DEF ApplyAndAck, EndGroup, Close, Recover
<1>10. CASE UNCHANGED vars
  BY <1>10 DEF vars
<1> QED BY <1>1, <1>2, <1>3, <1>4, <1>5, <1>6, <1>7, <1>8, <1>9, <1>10
        DEF Next, FlusherStep, GoingDown

\* There is a highest sequence id on the disk: recovery can find it.
Bounded == \E b \in Nat : \A f \in files : f.seq <= b

\* Every step leaves a highest id on the disk.
LEMMA NextBounded == LogInv /\ Bounded /\ [Next]_vars => Bounded'
<1> SUFFICES ASSUME LogInv, Bounded, [Next]_vars PROVE Bounded'
  OBVIOUS
<1>1. PICK b \in Nat : \A f \in files : f.seq <= b
  BY DEF Bounded
<1>2. PlannedInOrder /\ TypeOK
  BY PlannedIds, TypesSplit DEF LogInv, LogOrder
<1>3. seq \in Nat /\ \A f \in files \cup PlannedFrames : f.seq \in Nat
  BY <1>2 DEF TypeOK, PlannedInOrder, Frame, SeqId
<1>4. \A f \in files \cup PlannedFrames : f.seq <= b + seq
  BY <1>1, <1>2, <1>3 DEF PlannedInOrder
<1>5. b + seq \in Nat
  BY <1>3
<1> QED BY <1>2, <1>4, <1>5, FilesGrow DEF Bounded

\* Recovery (new_with_tuning) finds a torn tail only in the segment it goes on
\* writing to, the only one it truncates, whatever kills, power losses and
\* failed writes came before and however many segments there are.
THEOREM OnlyActiveIsTorn == Spec => []TornTailIsActive
<1>1. ASSUME LogInv, Bounded PROVE TornTailIsActive
  <2> SUFFICES ASSUME ~up, NEW s \in torn PROVE ActiveChoice(s)
    BY DEF TornTailIsActive
  <2> DEFINE holding == { x \in NormalSegs : InSegment(files, x) # {} }
  <2>1. NormalSegs = segs
    BY <1>1 DEF NormalSegs, LogInv, LogOrder, SegmentsInOrder
  <2>2. s \in segs /\ \A x \in segs : x <= s
    BY <1>1 DEF LogInv, LogOrder, TailsInOrder, TypeOK
  <2>3. CASE s \notin holding
    BY <2>1, <2>2, <2>3 DEF ActiveChoice
  <2>4. CASE s \in holding
    <3> DEFINE ids == { f.seq : f \in InSegment(files, s) }
    <3>1. ids \subseteq Nat /\ ids # {}
      BY <1>1, <2>4 DEF LogInv, TypeOK, InSegment, Frame, SeqId
    <3>2. PICK b \in Nat : \A f \in files : f.seq <= b
      BY <1>1 DEF Bounded
    <3>3. \A n \in ids : n <= b
      BY <3>2 DEF InSegment
    <3> HIDE DEF ids
    <3>4. PICK n \in ids : \A m \in ids : m <= n
      BY <3>1, <3>3, HasHighest
    <3>5. PICK f \in InSegment(files, s) : f.seq = n
      BY DEF ids
    <3>6. ASSUME NEW g \in files
          PROVE  g.seq < f.seq \/ (g.seq = f.seq /\ g.seg <= s)
      <4>1. /\ f \in files /\ f.seg = s /\ g.seg \in segs /\ g.seg <= s
            /\ f.seq \in Nat /\ g.seq \in Nat /\ g.seg \in Nat /\ s \in Nat
        BY <1>1, <2>2 DEF InSegment, LogInv, LogOrder, SegmentsInOrder, TypeOK, Frame,
                          SeqId
      <4>2. CASE g.seg = s
        <5>1. g.seq \in ids
          BY <4>2 DEF ids, InSegment
        <5>2. g.seq <= f.seq
          BY <3>4, <3>5, <5>1
        <5> QED BY <4>1, <5>2
      <4>3. CASE g.seg # s
        <5>1. g.seg < f.seg
          BY <4>1, <4>3
        <5>2. g.seq < f.seq
          BY <1>1, <4>1, <5>1 DEF LogInv, LogOrder, SegmentsInOrder
        <5> QED BY <5>2
      <4> QED BY <4>2, <4>3
    <3> QED BY <2>1, <2>2, <2>4, <3>6 DEF ActiveChoice
  <2> QED BY <2>3, <2>4
<1>2. Init => LogInv /\ Bounded
  BY InitLogInv DEF Init, Bounded
<1>3. LogInv /\ Bounded /\ [Next]_vars => (LogInv /\ Bounded)'
  BY NextLogInv, NextBounded
<1>4. LogInv /\ Bounded => TornTailIsActive
  BY <1>1
<1> QED BY <1>2, <1>3, <1>4, PTL DEF Spec

-----------------------------------------------------------------------------
(* Directory entries.                                                      *)

\* A run that is not exposed was not exposed before.
LEMMA ExposedStays ==
  ASSUME [Next]_vars, ~exposed'
  PROVE  ~exposed
<1> USE DEF observed, vars
<1>1. ASSUME NEW r \in Requests, Submit(r) PROVE exposed' = exposed
  BY <1>1 DEF Submit
<1>2. CASE Drain \/ PlanRequest \/ RefuseRequest \/ EndPlan \/ FlusherExit \/ FlushFails
  BY <1>2 DEF Drain, PlanRequest, RefuseRequest, EndPlan, FlusherExit, FlushFails
<1>3. CASE RollSync \/ RollId \/ RollCreate \/ RollDirSync \/ WriteGroup \/ SyncGroup
  BY <1>3 DEF RollSync, RollId, RollCreate, RollDirSync, WriteGroup, SyncGroup
<1>4. CASE ApplyAndAck \/ EndGroup
  BY <1>4 DEF ApplyAndAck, EndGroup
<1>5. CASE Close \/ Kill \/ LosePower
  BY <1>5 DEF Close, Kill, LosePower, GoDown
<1>6. CASE Recover
  <2>1. exposed => exposed'
    BY <1>6 DEF Recover
  <2> QED BY <2>1
<1>7. CASE UNCHANGED vars
  BY <1>7
<1> QED BY <1>1, <1>2, <1>3, <1>4, <1>5, <1>6, <1>7 DEF Next, FlusherStep, GoingDown

\* Every step keeps the entries of the index in the order of the log.
LEMMA NextEntries == LogInv /\ EntriesInOrder /\ [Next]_vars => EntriesInOrder'
<1> SUFFICES ASSUME LogInv, EntriesInOrder, [Next]_vars, ~exposed'
             PROVE  /\ \A s \in segs' \ entries' : /\ \A t \in segs' : t <= s
                                                   /\ \A f \in files' : f.seg # s
                    /\ up' /\ pc' \notin {"roll_dir", "exit", "stopped"}
                         => segs' \subseteq entries'
  BY DEF EntriesInOrder
<1>a. /\ \A s \in segs \ entries : (\A t \in segs : t <= s) /\ (\A f \in files : f.seg # s)
      /\ up /\ pc \notin {"roll_dir", "exit", "stopped"} => segs \subseteq entries
  BY ExposedStays DEF EntriesInOrder
<1> USE DEF disk, engine, flusher, callers, observed
<1>1. ASSUME NEW r \in Requests, Submit(r)
      PROVE  UNCHANGED <<disk, up, pc>>
  BY <1>1 DEF Submit
<1>2. CASE Drain \/ PlanRequest \/ RefuseRequest \/ EndPlan
  BY <1>2, <1>a DEF Drain, PlanRequest, RefuseRequest, EndPlan
<1>3. CASE RollSync \/ RollId \/ SyncGroup \/ ApplyAndAck \/ EndGroup
  BY <1>3, <1>a DEF RollSync, RollId, SyncGroup, ApplyAndAck, EndGroup
<1>4. CASE FlusherExit
  BY <1>4, <1>a DEF FlusherExit
<1>5. CASE RollCreate
  <2>1. /\ up /\ pc = "roll_create" /\ segs' = segs \cup {active} /\ pc' = "roll_dir"
        /\ entries' = entries /\ files' = files
    BY <1>5 DEF RollCreate
  <2>2. \A s \in segs' \ entries' : s = active
    BY <1>a, <2>1
  <2>3. (\A t \in segs' : t <= active) /\ (\A f \in files : f.seg # active)
    BY <2>1 DEF LogInv, LogOrder, SegmentsInOrder, TypeOK
  <2> QED BY <2>1, <2>2, <2>3
<1>6. CASE RollDirSync
  BY <1>6 DEF RollDirSync
<1>7. CASE WriteGroup
  BY <1>7, <1>a DEF WriteGroup
<1>8. CASE FlushFails \/ Kill
  <2>1. PICK P \in SUBSET { f \in PlannedFrames : f.seg \in segs },
             t \in SUBSET {active} :
          PartialWrite(P, t) /\ files' = files \cup P
    BY <1>8 DEF FlushFails, Kill
  <2>2. /\ segs' = segs /\ entries' = entries /\ up
        /\ ~up' \/ pc' = "exit"
    BY <1>8 DEF FlushFails, Kill, GoDown
  <2>3. P = {} \/ segs \subseteq entries
    BY <1>a, <2>1, <2>2 DEF PartialWrite
  <2> QED BY <1>a, <2>1, <2>2, <2>3
<1>9. CASE Close
  BY <1>9, <1>a DEF Close, GoDown
<1>10. CASE LosePower
  BY <1>10 DEF LosePower
<1>11. CASE Recover
  <2>1. PICK a \in segs \cup {1} :
          /\ ActiveChoice(a)
          /\ segs' = segs \cup {a}
          /\ entries' = IF a \notin segs \/ a \in torn THEN segs' ELSE entries
          /\ exposed' = (exposed \/ (a \in segs \ entries /\ a \notin torn))
    BY <1>11 DEF Recover
  <2>2. CASE a \notin segs \/ a \in torn
    BY <2>1, <2>2
  <2>3. CASE a \in segs /\ a \notin torn
    <3>1. a \in entries /\ entries' = entries /\ segs' = segs
      BY <2>1, <2>3
    <3>2. \A s \in segs : s <= a
      BY <1>11, <2>1, ActiveIsLast DEF Recover
    <3>3. ASSUME NEW s \in segs \ entries PROVE FALSE
      <4>1. a <= s /\ s <= a /\ s \in Nat /\ a \in Nat
        BY <1>a, <2>3, <3>2 DEF LogInv, TypeOK
      <4>2. a = s
        BY <4>1
      <4> QED BY <3>1, <4>2
    <3> QED BY <3>1, <3>3
  <2> QED BY <2>2, <2>3
<1>12. CASE UNCHANGED vars
  BY <1>12, <1>a DEF vars
<1> QED BY <1>1, <1>2, <1>3, <1>4, <1>5, <1>6, <1>7, <1>8, <1>9, <1>10, <1>11, <1>12,
           <1>a
        DEF Next, FlusherStep, GoingDown

-----------------------------------------------------------------------------
(* No id is left out.                                                      *)

\* Every id up to the highest of F is that of a frame of F.
NoHolesIn(F) == \A f \in F : \A n \in 1..f.seq : \E g \in F : g.seq = n

\* Every id below n is that of a frame of F.
AllBelow(F, n) == \A m \in 1..(n - 1) : \E g \in F : g.seq = m

\* Frames whose ids go on where the others end leave no hole.
LEMMA NoHolesOnTop ==
  ASSUME NEW C, NEW F, NEW low \in SeqId, NoHolesIn(C), AllBelow(C, low),
         \A f \in F : f.seq \in SeqId /\ low <= f.seq,
         \A f \in F : \A n \in low..f.seq : \E g \in C \cup F : g.seq = n
  PROVE  NoHolesIn(C \cup F)
<1> SUFFICES ASSUME NEW f \in F, NEW n \in 1..f.seq
             PROVE  \E g \in C \cup F : g.seq = n
  BY DEF NoHolesIn
<1>1. f.seq \in Nat /\ low \in Nat /\ n \in Nat /\ 1 <= n /\ n <= f.seq
  BY DEF SeqId
<1>2. CASE n < low
  <2>1. n \in 1..(low - 1)
    BY <1>1, <1>2
  <2> QED BY <2>1 DEF AllBelow
<1>3. CASE low <= n
  <2>1. n \in low..f.seq
    BY <1>1, <1>3
  <2> QED BY <2>1
<1> QED BY <1>1, <1>2, <1>3

\* A stopped write_all leaves no hole: it writes the frames in order.
LEMMA PartialWriteNoHoles ==
  ASSUME LogInv, NoHolesIn(files), up => AllBelow(files, Low),
         NEW P \in SUBSET { f \in PlannedFrames : f.seg \in segs },
         NEW t, PartialWrite(P, t)
  PROVE  NoHolesIn(files \cup P)
<1>1. CASE P = {}
  <2>1. files \cup P = files
    BY <1>1
  <2> QED BY <2>1
<1>2. CASE P # {}
  <2>1. pc = "write"
    BY <1>2 DEF PartialWrite
  <2>2. up
    BY <2>1 DEF LogInv, LogOrder, Shape
  <2>3. PlannedInOrder
    BY PlannedIds, TypesSplit DEF LogInv, LogOrder
  <2>4. Low \in SeqId /\ \A f \in P : f.seq \in SeqId /\ Low <= f.seq /\ f.seq < seq
    BY <2>3 DEF PlannedInOrder
  <2>5. ASSUME NEW f \in P, NEW n \in Low..f.seq
        PROVE  \E g \in files \cup P : g.seq = n
    <3>1. f.seq \in Nat /\ seq \in Nat /\ Low \in Nat /\ n \in Nat
      BY <2>4 DEF LogInv, TypeOK, SeqId
    <3>2. n \in Low..(seq - 1)
      BY <2>4, <3>1
    <3>3. plan # <<>>
      BY <2>3 DEF PlannedInOrder
    <3>4. PICK g \in PlannedFrames : g.seq = n
      BY <2>3, <3>2, <3>3 DEF PlannedInOrder
    <3>5. CASE n = f.seq
      BY <3>5
    <3>6. CASE n # f.seq
      <4>1. g.seq < f.seq
        BY <3>1, <3>4, <3>6
      <4>2. g \in P
        BY <3>4, <4>1 DEF PartialWrite
      <4> QED BY <3>4, <4>2
    <3> QED BY <3>5, <3>6
  <2> QED BY <2>2, <2>4, <2>5, NoHolesOnTop
<1> QED BY <1>1, <1>2

\* What a power loss leaves has no hole: it takes frames from the end of the
\* last segment only, and a segment it takes had nothing in it.
LEMMA LosePowerNoHoles ==
  ASSUME LogInv, EntriesInOrder, ~exposed, LosePower,
         NoHolesIn(files), up => AllBelow(files, Low)
  PROVE  NoHolesIn(files')
<1>1. PICK P \in SUBSET { f \in PlannedFrames : f.seg \in segs },
           t \in SUBSET {active} :
        /\ PartialWrite(P, t)
        /\ segs \cap entries \subseteq segs'
        /\ files' \subseteq files \cup synced \cup P
        /\ Survives(files', { f \in files \cup synced \cup P : f.seg \in segs' })
        /\ \A f \in files' : f.seg \in segs'
  <2>1. PICK P \in SUBSET { f \in PlannedFrames : f.seg \in segs },
             t \in SUBSET {active},
             keep \in SUBSET ((segs \ entries) \cup (entries \ segs)) :
          /\ PartialWrite(P, t)
          /\ segs' = (segs \cap entries) \cup keep
          /\ LET F == { f \in files \cup synced \cup P : f.seg \in segs' } IN
               \E S \in SUBSET F : Survives(S, F) /\ files' = S
    BY DEF LosePower
  <2> DEFINE F == { f \in files \cup synced \cup P : f.seg \in segs' }
  <2>2. PICK S \in SUBSET F : Survives(S, F) /\ files' = S
    BY <2>1
  <2>3. Survives(files', F)
    BY <2>2
  <2>4. files' \subseteq F
    BY <2>2
  <2>5. \A f \in files' : f.seg \in segs' /\ f \in files \cup synced \cup P
    BY <2>4
  <2> QED BY <2>1, <2>3, <2>5
<1> DEFINE F == files \cup P
<1>2. NoHolesIn(F)
  BY <1>1, PartialWriteNoHoles
<1>3. LeftInOrder(F, torn \cup t)
  BY <1>1, PartialWriteOrder
<1>4. synced \subseteq files
  BY DEF LogInv, TypeOK
<1> HIDE DEF F
<1>5. files \cup synced \cup P = F
  BY <1>4 DEF F
<1>6. ASSUME NEW f \in files', NEW n \in 1..f.seq
      PROVE  \E g \in files' : g.seq = n
  <2>1. f \in F /\ f.seg \in segs' /\ f.seg \in segs /\ f \in Frame
    BY <1>1, <1>3, <1>5 DEF LeftInOrder
  <2>2. PICK g \in F : g.seq = n
    BY <1>2, <2>1 DEF NoHolesIn
  <2>3. g.seg \in segs /\ g \in Frame
    BY <1>3 DEF LeftInOrder
  <2>4. /\ f.seg \in Nat /\ g.seg \in Nat /\ f.seq \in Nat /\ g.seq \in Nat
        /\ g.seq <= f.seq /\ g.seg < CompactionBase
    BY <2>1, <2>2, <2>3 DEF Frame, SeqId, LogInv, LogOrder, SegmentsInOrder
  <2>5. f.seg < g.seg => f.seq < g.seq
    BY <1>3, <2>1 DEF LeftInOrder
  <2>6. CASE g.seq = f.seq
    BY <2>2, <2>6
  <2>7. CASE g.seq < f.seq /\ g.seg = f.seg
    <3>1. g \in files'
      BY <1>1, <1>5, <2>1, <2>4, <2>7 DEF Survives
    <3> QED BY <2>2, <3>1
  <2>8. CASE g.seg < f.seg
    <3>1. g.seg \in entries
      <4>1. ~(f.seg <= g.seg)
        BY <2>4, <2>8
      <4> QED BY <2>1, <2>3, <4>1 DEF EntriesInOrder
    <3>2. g.seg \in segs'
      BY <1>1, <2>3, <3>1
    <3>3. g \in synced
      <4>1. ~(f.seg <= g.seg)
        BY <2>4, <2>8
      <4> QED BY <1>3, <2>1, <4>1 DEF LeftInOrder
    <3>4. g \in files'
      BY <1>1, <1>5, <3>2, <3>3 DEF Survives
    <3> QED BY <2>2, <3>4
  <2> QED BY <2>4, <2>5, <2>6, <2>7, <2>8
<1> QED BY <1>6 DEF NoHolesIn

\* Every step leaves no id out of the files, unless some frames were exposed.
LEMMA NextNoneLeftOut ==
  LogInv /\ EntriesInOrder /\ NoneLeftOut /\ [Next]_vars => NoneLeftOut'
<1> SUFFICES ASSUME LogInv, EntriesInOrder, NoneLeftOut, [Next]_vars, ~exposed'
             PROVE  NoHolesIn(files') /\ (up' => AllBelow(files', Low'))
  BY DEF NoneLeftOut, LogHasNoHoles, NoHolesIn, AllBelow
<1>a. ~exposed /\ NoHolesIn(files) /\ (up => AllBelow(files, Low))
  BY ExposedStays DEF NoneLeftOut, LogHasNoHoles, NoHolesIn, AllBelow
<1>p. TypeOK /\ PlanInOrder /\ PlannedInOrder /\ Shape
  BY PlannedIds, TypesSplit DEF LogInv, LogOrder
<1>s. ASSUME files' = files, up' => up, Low' = Low
      PROVE  NoHolesIn(files') /\ (up' => AllBelow(files', Low'))
  BY <1>a, <1>s
<1> USE DEF disk, engine, flusher, callers, observed
<1>1. ASSUME NEW r \in Requests, Submit(r)
      PROVE  files' = files /\ up' = up /\ Low' = Low
  BY <1>1 DEF Submit, Low, Top
<1>2. CASE Drain
  <2>1. plan = <<>>
    BY <1>2, <1>p DEF Drain, Shape
  <2>2. files' = files /\ up' = up /\ Low' = Low
    BY <1>2, <2>1 DEF Drain, Low, Top
  <2> QED BY <1>s, <2>2
<1>3. CASE PlanRequest
  <2>1. files' = files /\ up' = up /\ Low' = Low
    BY <1>3, <1>p, PlanGrows, TypesSplit DEF PlanRequest
  <2> QED BY <1>s, <2>1
<1>4. CASE RefuseRequest \/ EndPlan \/ FlusherExit
  <2>1. files' = files /\ up' = up /\ Low' = Low
    BY <1>4 DEF RefuseRequest, EndPlan, FlusherExit, Low, Top
  <2> QED BY <1>s, <2>1
<1>5. CASE RollSync \/ RollId \/ RollCreate \/ RollDirSync \/ SyncGroup
  <2>1. files' = files /\ up' = up /\ Low' = Low
    BY <1>5 DEF RollSync, RollId, RollCreate, RollDirSync, SyncGroup, Low, Top
  <2> QED BY <1>s, <2>1
<1>6. CASE EndGroup
  <2>1. files' = files /\ up' = up /\ Low' = Low
    BY <1>6 DEF EndGroup, Low, Top
  <2> QED BY <1>s, <2>1
<1>7. CASE UNCHANGED vars
  <2>1. files' = files /\ up' = up /\ Low' = Low
    BY <1>7 DEF vars, Low, Top
  <2> QED BY <1>s, <2>1
<1>8. CASE WriteGroup
  <2>1. /\ up /\ pc = "write" /\ up' = up
        /\ files' = files \cup { f \in PlannedFrames : f.seg \in segs }
    BY <1>8 DEF WriteGroup
  <2>2. Low' = Low
    BY <1>8 DEF WriteGroup, Low, Top
  <2>3. active \in segs
    BY <2>1 DEF LogInv, LogOrder, SegmentsInOrder
  <2>4. files' = files \cup PlannedFrames
    BY <1>p, <2>1, <2>3 DEF PlannedInOrder
  <2>5. ASSUME NEW f \in PlannedFrames, NEW n \in Low..f.seq
        PROVE  \E g \in files \cup PlannedFrames : g.seq = n
    <3>1. f.seq \in Nat /\ f.seq < seq /\ seq \in Nat /\ Low \in Nat /\ plan # <<>>
      BY <1>p DEF PlannedInOrder, TypeOK, SeqId
    <3>2. n \in Low..(seq - 1)
      BY <3>1
    <3> QED BY <1>p, <3>1, <3>2 DEF PlannedInOrder
  <2>6. NoHolesIn(files \cup PlannedFrames)
    BY <1>a, <1>p, <2>1, <2>5, NoHolesOnTop DEF PlannedInOrder
  <2>7. AllBelow(files', Low')
    BY <1>a, <2>1, <2>2 DEF AllBelow
  <2> QED BY <2>4, <2>6, <2>7
<1>9. CASE ApplyAndAck
  <2> DEFINE F == FramesOf(Head(plan), active)
  <2>1. /\ up /\ pc = "apply" /\ up' = up /\ files' = files /\ active \in Nat
    BY <1>9, <1>p DEF ApplyAndAck, TypeOK
  <2>2. /\ Head(plan) \in Planned /\ Low = Head(plan).first /\ Low' = End(Head(plan))
        /\ F \subseteq PlannedFrames
    BY <1>9, <1>p, PlanShrinks, TypesSplit
  <2>3. PlannedFrames \subseteq files
    BY <2>1 DEF LogInv, LogOrder, IdsInOrder
  <2>4. \A n \in Low..(Low' - 1) : \E f \in F : f.seq = n
    BY <2>1, <2>2, FrameIds
  <2> HIDE DEF F
  <2>5. Low \in Nat /\ Low' \in Nat
    BY <2>2, PlannedRange DEF SeqId
  <2>6. ASSUME NEW n \in 1..(Low' - 1) PROVE \E g \in files : g.seq = n
    <3>1. PICK l \in Nat : l = Low'
      BY <2>5
    <3>2. n \in 1..(l - 1)
      BY <3>1
    <3>3. n < Low \/ n \in Low..(l - 1)
      BY <2>5, <3>2
    <3>4. n < Low => n \in 1..(Low - 1)
      BY <2>5, <3>2
    <3> QED BY <1>a, <2>1, <2>2, <2>3, <2>4, <3>1, <3>3, <3>4 DEF AllBelow
  <2> QED BY <1>a, <2>1, <2>6 DEF AllBelow
<1>10. CASE FlushFails
  <2>1. PICK P \in SUBSET { f \in PlannedFrames : f.seg \in segs },
             t \in SUBSET {active} :
          PartialWrite(P, t) /\ files' = files \cup P
    BY <1>10 DEF FlushFails
  <2>2. Low' = Low /\ up /\ up' = up
    BY <1>10 DEF FlushFails, Low, Top
  <2>3. NoHolesIn(files')
    BY <1>a, <2>1, PartialWriteNoHoles
  <2> QED BY <1>a, <2>1, <2>2, <2>3 DEF AllBelow
<1>11. CASE Kill
  <2>1. PICK P \in SUBSET { f \in PlannedFrames : f.seg \in segs },
             t \in SUBSET {active} :
          PartialWrite(P, t) /\ files' = files \cup P
    BY <1>11 DEF Kill
  <2>2. ~up'
    BY <1>11 DEF Kill, GoDown
  <2> QED BY <1>a, <2>1, <2>2, PartialWriteNoHoles
<1>12. CASE Close
  BY <1>12, <1>a DEF Close, GoDown
<1>13. CASE LosePower
  <2>1. ~up'
    BY <1>13 DEF LosePower, GoDown
  <2> QED BY <1>13, <1>a, <2>1, LosePowerNoHoles
<1>14. CASE Recover
  <2>1. PICK top \in {0} \cup { f.seq : f \in files } :
          (top = 0 => files = {}) /\ nextSeq' = top + 1
    BY <1>14 DEF Recover
  <2>2. files' = files /\ plan' = plan /\ pc' = pc /\ ~up
    BY <1>14 DEF Recover
  <2>3. Low' = top + 1
    BY <1>p, <2>1, <2>2 DEF Low, Top, Shape
  <2>4. top \in Nat
    BY <1>p DEF TypeOK, Frame, SeqId
  <2>5. ASSUME NEW n \in 1..top PROVE \E g \in files : g.seq = n
    <3>1. PICK f \in files : f.seq = top
      BY <2>4
    <3> QED BY <1>a, <3>1 DEF NoHolesIn
  <2>6. (top + 1) - 1 = top
    BY <2>4
  <2> QED BY <1>a, <2>2, <2>3, <2>5, <2>6 DEF AllBelow
<1> QED BY <1>s, <1>1, <1>2, <1>3, <1>4, <1>5, <1>6, <1>7, <1>8, <1>9, <1>10, <1>11,
           <1>12, <1>13, <1>14
        DEF Next, FlusherStep, GoingDown

\* In a run that is not exposed the frames on the disk are a gap-free prefix of
\* the sequence ids handed out: torn groups, power losses and refused requests
\* take or skip nothing in between (execute_batch_append and recover).
THEOREM NoIdLeftOut == Spec => []LogHasNoHoles
<1> DEFINE Inv == LogInv /\ EntriesInOrder /\ NoneLeftOut
<1>1. Init => Inv
  <2> SUFFICES ASSUME Init PROVE EntriesInOrder /\ NoneLeftOut
    BY InitLogInv
  <2>1. segs = entries /\ files = {} /\ Low = 1
    BY DEF Init, Low, Top
  <2> QED BY <2>1 DEF EntriesInOrder, NoneLeftOut, LogHasNoHoles
<1>2. Inv /\ [Next]_vars => Inv'
  BY NextLogInv, NextEntries, NextNoneLeftOut
<1>3. Inv => LogHasNoHoles
  BY DEF NoneLeftOut
<1> HIDE DEF Inv
<1> QED BY <1>1, <1>2, <1>3, PTL DEF Spec

-----------------------------------------------------------------------------
(* The index.                                                              *)

\* Writes with ids above all others: to apply them to the index is to replay
\* the log with them.
LEMMA ApplyOnTop ==
  ASSUME NEW C \in SUBSET Frame, NEW F \in SUBSET Frame,
         \A f \in C, g \in F : f.seq < g.seq
  PROVE  Apply(Newest(C), F) = Newest(C \cup F)
<1>1. \A f \in C \cup F : f.seq \in Nat /\ f.seg \in Nat
  BY DEF Frame, SeqId
<1>2. \A f \in F, g \in C : ~Supersedes(g, f)
  BY <1>1 DEF Supersedes
<1>3. \A f \in C, g \in F : Supersedes(g, f) <=> g.key = f.key
  BY <1>1 DEF Supersedes
<1>4. ASSUME NEW f \in Apply(Newest(C), F) PROVE f \in Newest(C \cup F)
  <2>1. CASE f \in Newest(C) /\ \A g \in F : g.key # f.key
    BY <2>1, <1>3 DEF Newest
  <2>2. CASE f \in Newest(F)
    BY <2>2, <1>2 DEF Newest
  <2> QED BY <2>1, <2>2 DEF Apply
<1>5. ASSUME NEW f \in Newest(C \cup F) PROVE f \in Apply(Newest(C), F)
  <2>1. CASE f \in F
    BY <2>1 DEF Apply, Newest
  <2>2. CASE f \in C
    BY <2>2, <1>3 DEF Apply, Newest
  <2> QED BY <2>1, <2>2 DEF Newest
<1> QED BY <1>4, <1>5

\* The frames of the log that are not of the group being committed.
Committed == files \ PlannedFrames

\* The log does not notice a step that writes, or plans, only planned frames.
LEMMA CommittedStays ==
  ASSUME LogInv, [Next]_vars, up', ~ApplyAndAck, ~Recover
  PROVE  Committed' = Committed
<1>p. TypeOK /\ PlanInOrder /\ PlannedInOrder /\ Shape
  BY PlannedIds, TypesSplit DEF LogInv, LogOrder
<1>q. LogInv' /\ PlannedInOrder'
  BY NextLogInv, PlannedIdsNext, TypesSplitNext DEF LogInv, LogOrder
<1>s. ASSUME files' = files, PlannedFrames' = PlannedFrames
      PROVE  Committed' = Committed
  BY <1>s DEF Committed
<1> USE DEF disk, engine, flusher, callers, observed
<1>1. ASSUME NEW r \in Requests, Submit(r)
      PROVE  files' = files /\ plan' = plan /\ active' = active
  BY <1>1 DEF Submit
<1>2. CASE RefuseRequest \/ EndPlan \/ FlusherExit \/ EndGroup
  <2>1. files' = files /\ plan' = plan /\ active' = active
    BY <1>2 DEF RefuseRequest, EndPlan, FlusherExit, EndGroup
  <2> QED BY <2>1, <1>s, PlannedFramesUnchanged
<1>3. CASE RollSync \/ RollCreate \/ RollDirSync \/ SyncGroup
  <2>1. files' = files /\ plan' = plan /\ active' = active
    BY <1>3 DEF RollSync, RollCreate, RollDirSync, SyncGroup
  <2> QED BY <2>1, <1>s, PlannedFramesUnchanged
<1>4. CASE UNCHANGED vars
  <2>1. files' = files /\ plan' = plan /\ active' = active
    BY <1>4 DEF vars
  <2> QED BY <2>1, <1>s, PlannedFramesUnchanged
<1>5. CASE Drain
  <2>1. plan = <<>> /\ plan' = <<>> /\ files' = files
    BY <1>5, <1>p DEF Drain, Shape
  <2>2. PlannedFrames = {} /\ PlannedFrames' = {}
    BY <2>1 DEF PlannedFrames
  <2> QED BY <2>1, <2>2, <1>s
<1>6. CASE PlanRequest \/ RollId
  <2>1. /\ up /\ up' /\ files' = files
        /\ pc \in {"plan", "roll_id"} /\ pc' \in {"plan", "roll_create"}
    BY <1>6 DEF PlanRequest, RollId
  <2>2. \A f \in files : f.seq < Low /\ f.seq < Low' /\ f.seq \in Nat
    BY <1>p, <1>q, <2>1 DEF LogInv, LogOrder, IdsInOrder, TypeOK, Frame, SeqId
  <2>3. \A f \in files : f \notin PlannedFrames /\ f \notin PlannedFrames'
    BY <1>p, <1>q, <2>2 DEF PlannedInOrder, SeqId
  <2> QED BY <2>1, <2>3 DEF Committed
<1>7. CASE WriteGroup \/ FlushFails
  <2>1. PICK P \in SUBSET PlannedFrames : files' = files \cup P
    BY <1>7 DEF WriteGroup, FlushFails
  <2>2. plan' = plan /\ active' = active
    BY <1>7 DEF WriteGroup, FlushFails
  <2>3. PlannedFrames' = PlannedFrames
    BY <2>2, PlannedFramesUnchanged
  <2> QED BY <2>1, <2>3 DEF Committed
<1>8. CASE GoingDown
  BY <1>8 DEF GoingDown, Close, Kill, LosePower, GoDown
<1> QED BY <1>1, <1>2, <1>3, <1>4, <1>5, <1>6, <1>7, <1>8, <1>s, PlannedFramesUnchanged
        DEF Next, FlusherStep

\* What an answered request adds to the log: its frames, with ids above all
\* those that are in it.
LEMMA CommittedGrows ==
  ASSUME LogInv, ApplyAndAck
  PROVE  LET F == FramesOf(Head(plan), active) IN
         /\ Committed' = Committed \cup F
         /\ F \in SUBSET Frame /\ Committed \in SUBSET Frame
         /\ \A f \in Committed, g \in F : f.seq < g.seq
<1> DEFINE F == FramesOf(Head(plan), active)
<1>1. /\ up /\ pc = "apply" /\ files' = files /\ TypeOK /\ PlanInOrder
  BY DEF ApplyAndAck, disk, LogInv, LogOrder
<1>2. /\ Head(plan) \in Planned /\ Low = Head(plan).first /\ Low' = End(Head(plan))
      /\ PlanInOrder' /\ PlannedFrames = F \cup PlannedFrames'
  BY <1>1, PlanShrinks, TypesSplit
<1>3. TypeOK'
  BY <1>1, NextTypeOK DEF Next, FlusherStep
<1>4. PlannedInOrder' /\ PlannedInOrder
  BY <1>1, <1>2, <1>3, PlannedIds, PlannedIdsNext, TypesSplit, TypesSplitNext
<1>5. \A f \in F : Low <= f.seq /\ f.seq < Low'
  BY <1>1, <1>2, FrameIds DEF TypeOK
<1>6. PlannedFrames \subseteq files /\ \A f \in files : f.seq < Low \/ f \in PlannedFrames
  BY <1>1 DEF LogInv, LogOrder, IdsInOrder
<1> HIDE DEF F
<1>7. F \in SUBSET Frame /\ Committed \in SUBSET Frame
  BY <1>1, <1>2, <1>4 DEF Committed, TypeOK, PlannedInOrder
<1>8. \A f \in Frame : f.seq \in Nat
  BY DEF Frame, SeqId
<1>9. Low \in Nat /\ Low' \in Nat
  BY <1>2, PlannedRange DEF SeqId
<1>10. \A f \in F : f \notin PlannedFrames'
  BY <1>4, <1>5, <1>7, <1>8, <1>9 DEF PlannedInOrder
<1>11. Committed' = Committed \cup F
  BY <1>1, <1>2, <1>6, <1>10 DEF Committed
<1>12. \A f \in Committed, g \in F : f.seq < g.seq
  BY <1>5, <1>6, <1>7, <1>8, <1>9 DEF Committed
<1> QED BY <1>7, <1>11, <1>12 DEF F

\* Every step keeps the index equal to what a replay of the log would build.
LEMMA NextIndexIsReplay == LogInv /\ IndexIsReplay /\ [Next]_vars => IndexIsReplay'
<1> SUFFICES ASSUME LogInv, IndexIsReplay, [Next]_vars, up'
             PROVE  index' = Newest(Committed')
  BY DEF IndexIsReplay, Committed
<1>1. up => index = Newest(Committed)
  BY DEF IndexIsReplay, Committed
<1>2. CASE ApplyAndAck
  <2> DEFINE F == FramesOf(Head(plan), active)
  <2>1. /\ Committed' = Committed \cup F
        /\ F \in SUBSET Frame /\ Committed \in SUBSET Frame
        /\ \A f \in Committed, g \in F : f.seq < g.seq
    BY <1>2, CommittedGrows
  <2>2. up /\ index' = Apply(index, F)
    BY <1>2 DEF ApplyAndAck
  <2> HIDE DEF F
  <2>3. Apply(Newest(Committed), F) = Newest(Committed \cup F)
    BY <2>1, ApplyOnTop
  <2> QED BY <1>1, <2>1, <2>2, <2>3
<1>3. CASE Recover
  <2>1. files' = files /\ plan' = plan /\ pc' = pc /\ ~up /\ index' = Newest(files)
    BY <1>3 DEF Recover, flusher
  <2>2. plan' = <<>>
    BY <2>1 DEF LogInv, LogOrder, Shape
  <2>3. PlannedFrames' = {}
    BY <2>2 DEF PlannedFrames
  <2>4. Committed' = files
    BY <2>1, <2>3 DEF Committed
  <2> QED BY <2>1, <2>4
<1>4. CASE ~ApplyAndAck /\ ~Recover
  <2>1. Committed' = Committed
    BY <1>4, CommittedStays
  <2>2. index' = index /\ up
    <3> USE DEF disk, engine, flusher, callers, observed
    <3>1. ASSUME NEW r \in Requests, Submit(r) PROVE index' = index /\ up
      BY <3>1 DEF Submit
    <3>2. CASE Drain \/ PlanRequest \/ RefuseRequest \/ EndPlan \/ FlusherExit
      BY <3>2 DEF Drain, PlanRequest, RefuseRequest, EndPlan, FlusherExit
    <3>3. CASE RollSync \/ RollId \/ RollCreate \/ RollDirSync \/ WriteGroup
      BY <3>3 DEF RollSync, RollId, RollCreate, RollDirSync, WriteGroup
    <3>4. CASE SyncGroup \/ EndGroup \/ FlushFails
      BY <3>4 DEF SyncGroup, EndGroup, FlushFails
    <3>5. CASE GoingDown
      BY <3>5 DEF GoingDown, Close, Kill, LosePower, GoDown
    <3>6. CASE UNCHANGED vars
      BY <3>6 DEF vars
    <3> QED BY <1>4, <3>1, <3>2, <3>3, <3>4, <3>5, <3>6 DEF Next, FlusherStep
  <2> QED BY <1>1, <2>1, <2>2
<1> QED BY <1>2, <1>3, <1>4

\* The index of a running engine is always the replay of its log, without the
\* group that is being committed: what execute_batch_append applies step by
\* step is what recover would rebuild, so a reopen changes no answer.
THEOREM IndexShowsTheLog == Spec => []IndexIsReplay
<1>1. Init => LogInv /\ IndexIsReplay
  <2> SUFFICES ASSUME Init PROVE IndexIsReplay
    BY InitLogInv
  <2>1. files = {} /\ index = {}
    BY DEF Init
  <2> QED BY <2>1 DEF IndexIsReplay, Newest
<1>2. LogInv /\ IndexIsReplay /\ [Next]_vars => (LogInv /\ IndexIsReplay)'
  BY NextLogInv, NextIndexIsReplay
<1> QED BY <1>1, <1>2, PTL DEF Spec
=============================================================================
