--------------------------- MODULE LiveIndexProofs --------------------------
(***************************************************************************)
(* Proofs about LiveIndex, for every value of its constants: the charge of *)
(* the index budget is what the indexes hold; what a read returns was the  *)
(* value of its key at some moment of the read, and what it misses it may  *)
(* miss; no pass of the maintenance thread takes away the newest record of *)
(* a key, and a restart would show what the index shows and, beyond that,  *)
(* only what a file holds that could not be removed.                       *)
(***************************************************************************)
EXTENDS LiveIndex, FiniteSetTheorems, WellFoundedInduction, TLAPS

Frame == [seg : Nat, seq : Nat, key : Keys, ts : Nat, del : BOOLEAN]

\* Every variable has its type; before the first write there may be no key.
LiveTypeOK ==
  /\ segs \subseteq Nat /\ files \subseteq Frame /\ active \in Nat /\ nextSeg \in Nat
  /\ now \in Nat /\ index \subseteq Frame /\ stamps \subseteq Frame
  /\ IsFiniteSet(index) /\ IsFiniteSet(stamps) /\ nodes \in Int /\ marks \in Int
  /\ fpc \in {"idle", "write", "insert", "stamp", "remove"} /\ frame.seq \in Nat
  /\ fpc # "idle" => frame \in Frame
  /\ mark \in [now : Nat, active : Nat] /\ victims \subseteq Nat /\ todo \subseteq Keys
  /\ picked \subseteq Frame /\ sources \subseteq Frame /\ nextCompact \in Nat

\* Segment ids: those the flusher has used, and those of compacted segments.
IdsFit ==
  /\ nextSeg = active + 1 /\ active <= frame.seq + 1 /\ frame.seq <= MaxSeq
  /\ nextCompact >= CompactionBase
  /\ \A s \in segs : s <= active \/ s >= CompactionBase
  /\ \A f \in files : f.seg <= active \/ f.seg >= CompactionBase
  /\ \A f \in index : f.seg <= active \/ f.seg >= CompactionBase

\* One entry per key, all of different frames, which are older than the frame
\* that is being written; what the active segment holds is on disk while its
\* file is there.
IndexFits ==
  /\ \A f, g \in index : f.key = g.key \/ f.seq = g.seq => f = g
  /\ \A f \in index : f.seq <= frame.seq /\ ~f.del
  /\ fpc \in {"write", "insert", "remove"} => \A f \in index : f.seq < frame.seq
  /\ fpc \in {"insert", "stamp", "remove"} => frame.seg = active
  /\ fpc = "insert" => ~frame.del
  /\ fpc = "remove" => frame.del
  /\ fpc \in {"insert", "remove"} /\ active \in segs => frame \in files
  /\ active \in segs => \A f \in index : f.seg = active => f \in files

\* What the maintenance thread has seen; retention drops no key of the active
\* segment, since its frames are younger than the pass.
KeeperFits ==
  /\ victims \subseteq segs
  /\ mpc \in {"drop", "dropkey"} => victims # {}
  /\ mpc \in {"check", "drop", "dropkey"} => mark.active \notin victims
  /\ mpc # "idle" =>
       /\ mark.now <= now /\ mark.active <= active
       /\ \A f \in files : f.seg > mark.active /\ f.seg < CompactionBase => f.ts >= mark.now
  /\ (mpc = "drop" /\ todo # {}) \/ mpc = "dropkey" => Victim # active
  /\ mpc = "dropkey" => \E f \in picked : picked = {f}
  /\ mpc \in {"movestamp", "movekey"} => fpc = "idle"
  /\ mpc = "movekey" => \E f \in index : picked = {f}

NothingStolen == mishaps \cap {"stolen", "drift"} = {}

\* The frame of an entry has no timestamp entry while somebody works on it.
Unstamped(f) ==
  \/ fpc \in {"insert", "remove"} /\ f.key = frame.key
  \/ fpc = "stamp" /\ f = frame
  \/ mpc = "dropkey" /\ f \in picked

\* How both indexes and the charges are related, step by step.
StampsFit ==
  /\ nodes = Cardinality(index)
  /\ marks = Cardinality(stamps) + IF fpc = "stamp" THEN 1 ELSE 0
  /\ fpc \in {"insert", "remove"} => \A f \in stamps : f.key # frame.key
  /\ fpc = "insert" => (existed <=> Entry(index, frame.key) # {})
  /\ fpc = "stamp" => frame \in index /\ frame \notin stamps
  /\ mpc = "movekey" => \A f \in picked : stamps = (index \ {f}) \cup {CopyOf(f)}
  /\ mpc # "movekey" => stamps \subseteq index /\ \A f \in index \ stamps : Unstamped(f)
  /\ mpc = "dropkey" => \A f \in picked : f.seg = Victim => f \notin stamps

\* What a reader has loaded or read the index has shown.
ReadFits ==
  /\ \A f \in held : f.seq \in shown
  /\ \A f \in found : f.seq \in shown
  /\ held # {} => rpc \in {"getfile", "scanfile", "scanagain"}
  /\ entries # {} => rpc = "range"
  /\ \A f \in entries : f.key \in rkey

\* The files: none outlives its segment, the frame that is being applied is the
\* newest, and no tombstone elsewhere is newer than a frame of the active segment.
FilesFit ==
  /\ \A f \in files : f.seg \in segs /\ f.seq <= frame.seq
  /\ fpc = "write" => \A f \in files : f.seq < frame.seq
  /\ fpc \in {"insert", "remove"} => \A f \in files : f = frame \/ f.seq < frame.seq
  /\ \A t, f \in files : t.del /\ f.seg = active /\ t.seg # active => t.seq < f.seq

Moving     == {"swap", "movestamp", "movekey"}
Compacting == Moving \cup {"collect", "unlink"}

\* What a pass leaves behind it, and the id it copies to.
PassFits ==
  /\ mpc \in {"idle", "expire", "compact"} => victims = {}
  /\ mpc \notin {"dropkey", "movekey"} => picked = {}
  /\ mpc = "collect" => mark.active \notin victims
  /\ mpc = "movekey" => picked \subseteq sources
  /\ \A s \in segs : s >= CompactionBase =>
                       s < nextCompact \/ (mpc \in Moving /\ s = nextCompact)
  /\ mpc \in Moving => nextCompact \in segs \ victims

\* While no rollover has raced a pass every entry can be read: retention has
\* still to drop the keys of its segment, compaction has them in its list.
PlacesFit ==
  /\ active \in segs \ victims /\ index \subseteq files
  /\ mpc \in {"drop", "dropkey"} =>
       /\ FullyExpired(Victim)
       /\ \A f \in index : f.seg = Victim =>
            f.key \in todo \/ \E g \in picked : g.key = f.key
  /\ mpc \in Moving => /\ \A f \in index : f.seg \in victims => f \in sources
                       /\ \A f \in sources : CopyOf(f) \in files
  /\ mpc = "unlink" => \A f \in index : f.seg \notin victims

\* The index once the pointer that is being moved is.
Settled == IF mpc = "movekey" THEN (index \ picked) \cup { CopyOf(f) : f \in picked }
                              ELSE index

\* A frame of the index that nobody works on has a timestamp entry.
StampsCover == \A f \in Settled \ stamps : Unstamped(f)

InFile == {"getfile", "scanfile", "scanagain"}

\* What a read may miss: its file was there when the pointer was loaded, and a
\* range scan has still to visit the entry that its key has kept.
SearchFits ==
  /\ moves \in Nat
  /\ rpc # "idle" => \E k \in Keys : rkey = {k}
  /\ rkey \cap InProgress # {} => touched
  /\ rpc \in InFile => held # {}
  /\ rpc = "done" /\ found = {} => 0 \in shown
  /\ rpc \in {"getfile", "scanfile"} => moves >= 1 \/ \A f \in held : f.seg \in segs
  /\ rpc = "scanagain" => moves >= 1 /\ (moves >= 2 \/ \A f \in held : f.seg \in segs)
  /\ rpc = "failed" => moves >= 1
  /\ rpc = "gaveup" => moves >= 2

RangeFits ==
  rpc = "range" => \/ touched \/ moves >= 1 \/ 0 \in shown \/ found # {}
                   \/ \E f \in entries : f \in Settled

\* The clock goes on from one version of a key to the next.
AgesFit ==
  /\ newest \subseteq Frame
  /\ \A f \in newest : f.seq <= frame.seq /\ f.ts <= now
  /\ fpc \in {"insert", "stamp", "remove"} =>
       frame.ts <= now /\ \A f \in newest : f.ts <= frame.ts
  /\ fpc = "stamp" => \A f \in index : f.seq = frame.seq => f = frame
  /\ \A f \in newest, g \in index : f.key = g.key /\ f.seq <= g.seq => f.ts <= g.ts

\* While neither race has happened, no key loses its newest frame too early.
NewestFit ==
  /\ fpc = "stamp" => frame \in index
  /\ \A f \in newest : ~f.del /\ ~Expired(f) => \E g \in index : g.key = f.key /\ g.seq >= f.seq

\* Why a frame on the disk is not served by mistake after a restart: the index
\* shows it or a newer one, a newer tombstone is there, or it is about to be
\* shown or removed; or its file was to be removed, and could not be.
Served(f) == \E g \in index : g.key = f.key /\ g.seq >= f.seq
Buried(f) == \E t \in files : t.del /\ t.key = f.key /\ t.seq > f.seq
Coming(f) == fpc = "insert" /\ f = frame
Going(f)  == \/ mpc \in {"drop", "dropkey"}
                /\ \E g \in InSeg(Victim) : g.key = f.key /\ g.seq >= f.seq
             \/ mpc = "unlink" /\ f.seg \in victims
Left(f)   == f.seg \in orphans

\* While no mishap has happened, the files and the index agree in what is newest.
DiskFits ==
  /\ \A f \in files : f.del \/ Served(f) \/ Buried(f) \/ Coming(f) \/ Going(f) \/ Left(f)
  /\ \A g \in index, h \in files : h.key = g.key /\ h.seq > g.seq =>
                                   fpc \in {"insert", "remove"} /\ h = frame
  /\ mpc \in Compacting =>
       \A t, f \in files : t.del /\ t.seg \in victims /\ f.key = t.key /\ f.seq < t.seq
                           => f.seg \in victims \/ Left(f)

ChargeInv ==
  /\ LiveTypeOK /\ IdsFit /\ IndexFits /\ KeeperFits
  /\ NothingStolen => StampsFit

NotRaced == "raced" \notin mishaps

LiveInv ==
  /\ ChargeInv /\ ReadFits /\ FilesFit /\ PassFits /\ StampsCover /\ AgesFit
  /\ NotRaced => PlacesFit /\ SearchFits /\ RangeFits
  /\ mishaps \cap {"raced", "stolen"} = {} => NewestFit
  /\ mishaps = {} => DiskFits

-----------------------------------------------------------------------------
(* Sets and their sizes.                                                   *)

\* A set of numbers that is not empty has a least member (Victim is one).
LEMMA LeastMember ==
  ASSUME NEW T, T \subseteq Nat, T # {}
  PROVE  Min(T) \in T
<1>1. PICK x \in T : \A y \in T : ~ (<<y, x>> \in OpToRel(<, Nat))
  BY WFMin, NatLessThanWellFounded
<1>2. ASSUME NEW y \in T PROVE x <= y
  <2>1. x \in Nat /\ y \in Nat
    OBVIOUS
  <2>2. ~ (y < x)
    BY <1>1, <2>1 DEF OpToRel
  <2> QED BY <2>1, <2>2
<1> QED BY <1>2 DEF Min

\* What is taken out of a finite set makes it smaller by as many.
LEMMA SizeWithout ==
  ASSUME NEW S, IsFiniteSet(S), NEW G, G \subseteq S
  PROVE  /\ IsFiniteSet(S \ G)
         /\ Cardinality(S \ G) = Cardinality(S) - Cardinality(G)
         /\ Cardinality(S) \in Nat /\ Cardinality(G) \in Nat
<1>1. IsFiniteSet(G) /\ S \cap G = G
  BY FS_Subset
<1>2. /\ IsFiniteSet(S \ G)
      /\ Cardinality(S \ G) = Cardinality(S) - Cardinality(S \cap G)
  BY FS_Difference
<1> QED BY <1>1, <1>2, FS_CardinalityType

\* Putting one element in the place of another keeps the size.
LEMMA SizeReplaced ==
  ASSUME NEW S, IsFiniteSet(S), NEW x \in S, NEW y, y \notin S \ {x}
  PROVE  /\ IsFiniteSet((S \ {x}) \cup {y})
         /\ Cardinality((S \ {x}) \cup {y}) = Cardinality(S)
<1>1. /\ IsFiniteSet(S \ {x}) /\ Cardinality(S \ {x}) = Cardinality(S) - 1
      /\ Cardinality(S) \in Nat
  BY FS_RemoveElement, FS_CardinalityType
<1>2. /\ IsFiniteSet((S \ {x}) \cup {y})
      /\ Cardinality((S \ {x}) \cup {y}) = Cardinality(S \ {x}) + 1
  BY <1>1, FS_AddElement
<1> QED BY <1>1, <1>2

\* Putting in an element that is not there adds one.
LEMMA SizeWith ==
  ASSUME NEW S, IsFiniteSet(S), NEW x, x \notin S
  PROVE  /\ IsFiniteSet(S \cup {x}) /\ Cardinality(S \cup {x}) = Cardinality(S) + 1
         /\ Cardinality(S) \in Nat
BY FS_AddElement, FS_CardinalityType

-----------------------------------------------------------------------------
(* Steps that leave the indexes, the flusher and the maintenance alone.    *)

Quiet == UNCHANGED <<segs, files, active, nextSeg, indexes, flusher, keeper, history>>

\* A reader changes nothing but itself; the clock goes on.
LEMMA QuietSteps ==
  ASSUME LiveTypeOK, Tick \/ Reader \/ EndRead
  PROVE  Quiet /\ now' \in Nat /\ now' >= now
<1> USE DEF Quiet, storage
<1>1. CASE Tick
  BY <1>1, LiveIndexAssumption DEF Tick, LiveTypeOK
<1>2. CASE Reader
  BY <1>2 DEF Reader, Begin, LoadPointer, ReadHeld, GetFails, ScanRetries,
              ScanGivesUp, VisitStamp, LiveTypeOK
<1>3. CASE EndRead
  BY <1>3 DEF EndRead, LiveTypeOK
<1> QED BY <1>1, <1>2, <1>3

\* When they and everything else stand still, the invariant stays.
LEMMA QuietKeeps ==
  ASSUME ChargeInv, Quiet, now' \in Nat, now' >= now
  PROVE  ChargeInv'
<1> USE DEF Quiet, indexes, flusher, keeper, history
<1>1. LiveTypeOK'
  BY DEF ChargeInv, LiveTypeOK
<1>2. IdsFit'
  BY DEF ChargeInv, IdsFit
<1>3. IndexFits'
  BY DEF ChargeInv, IndexFits
<1>4. KeeperFits'
  BY DEF ChargeInv, LiveTypeOK, KeeperFits, Victim
<1>5. (NothingStolen => StampsFit)'
  BY DEF ChargeInv, NothingStolen, StampsFit, Unstamped, Entry, CopyOf, Victim
<1> QED BY <1>1, <1>2, <1>3, <1>4, <1>5 DEF ChargeInv

-----------------------------------------------------------------------------
(* Types.                                                                  *)

\* The number of frames in the active segment decides whether it is left.
LEMMA ReceiveCases ==
  ASSUME ChargeInv, NEW w \in Writes, Receive(w)
  PROVE  /\ \/ active' = nextSeg /\ nextSeg' = nextSeg + 1 /\ segs' = segs \cup {nextSeg}
            \/ UNCHANGED <<active, nextSeg, segs>>
         /\ frame' \in Frame /\ frame'.seq = frame.seq + 1 /\ frame.seq < MaxSeq
         /\ fpc = "idle" /\ fpc' = "write" /\ mpc \notin {"movestamp", "movekey"}
         /\ UNCHANGED <<files, now, indexes, existed, keeper, history>>
<1> USE DEF Receive
<1>1. w.key \in Keys /\ w.del \in BOOLEAN
  BY LiveIndexAssumption
<1>2. frame.seq + 1 \in Nat
  BY DEF ChargeInv, LiveTypeOK
<1>3. frame' = [seg |-> 0, seq |-> frame.seq + 1, key |-> w.key, ts |-> 0, del |-> w.del]
  OBVIOUS
<1>4. frame' \in Frame /\ frame'.seq = frame.seq + 1
  BY <1>1, <1>2, <1>3 DEF Frame
<1>5. CASE Cardinality(InSeg(active)) >= MaxSegment
  BY <1>4, <1>5
<1>6. CASE ~ (Cardinality(InSeg(active)) >= MaxSegment)
  BY <1>4, <1>6
<1> QED BY <1>5, <1>6

\* A pass begins with the segments listed, or ends there.
LEMMA ListCases ==
  ASSUME ListSegments
  PROVE  \/ mpc' = "idle" /\ victims' = {} /\ todo' = {} /\ picked' = {} /\ sources' = {}
            /\ mark' = [now |-> 0, active |-> 0]
         \/ /\ mpc' = (IF mpc = "expire" THEN "check" ELSE "collect")
            /\ victims' = segs \ {mark.active}
            /\ UNCHANGED <<mark, todo, picked, sources>>
BY DEF ListSegments, Done

\* Compaction writes copies of some live frames, under an id of its own.
LEMMA CopyCases ==
  ASSUME CopyLive
  PROVE  /\ mpc = "collect" /\ segs' \in {segs, segs \cup {nextCompact}}
         /\ \E C \in SUBSET index :
              /\ files' = files \cup { CopyOf(f) : f \in C }
              /\ C # {} => nextCompact \in segs'
         /\ \/ /\ mpc' = "swap" /\ sources' \subseteq index /\ nextCompact \in segs'
               /\ UNCHANGED <<mark, victims, todo, picked, nextCompact>>
            \/ /\ mpc' = "idle" /\ mark' = [now |-> 0, active |-> 0] /\ victims' = {}
               /\ todo' = {} /\ picked' = {} /\ sources' = {}
               /\ nextCompact' = nextCompact + 1
         /\ UNCHANGED <<active, nextSeg, now, indexes, flusher, reader, history>>
<1> DEFINE live == { f \in index : f.seg # mark.active }
<1>1. PICK copied \in SUBSET live :
        /\ \/ segs' = segs \cup {nextCompact} /\ files' = files \cup { CopyOf(f) : f \in copied }
           \/ copied = {} /\ UNCHANGED <<segs, files>>
        /\ \/ /\ copied = live /\ nextCompact \in segs'
              /\ mpc' = "swap" /\ sources' = live
              /\ UNCHANGED <<mark, victims, todo, picked, nextCompact>>
           \/ Done /\ nextCompact' = nextCompact + 1
  BY DEF CopyLive
<1>2. copied \in SUBSET index /\ live \subseteq index
  OBVIOUS
<1>3. /\ segs' \in {segs, segs \cup {nextCompact}}
      /\ files' = files \cup { CopyOf(f) : f \in copied }
      /\ copied # {} => nextCompact \in segs'
  BY <1>1
<1> HIDE DEF live
<1>4. \/ /\ mpc' = "swap" /\ sources' \subseteq index /\ nextCompact \in segs'
         /\ UNCHANGED <<mark, victims, todo, picked, nextCompact>>
      \/ /\ mpc' = "idle" /\ mark' = [now |-> 0, active |-> 0] /\ victims' = {}
         /\ todo' = {} /\ picked' = {} /\ sources' = {}
         /\ nextCompact' = nextCompact + 1
  BY <1>1, <1>2 DEF Done
<1>5. /\ mpc = "collect"
      /\ UNCHANGED <<active, nextSeg, now, indexes, flusher, reader, history>>
  BY DEF CopyLive
<1> QED BY <1>2, <1>3, <1>4, <1>5

\* Retention removes the file its keys have left, or ends its pass without that.
LEMMA UnlinkCases ==
  ASSUME UnlinkExpired
  PROVE  /\ mpc = "drop" /\ todo = {} /\ mishaps' = Uncovered
         /\ \/ /\ mpc' = "check" /\ victims' = victims \ {Victim}
               /\ segs' = segs \ {Victim} /\ files' = files \ InSeg(Victim)
               /\ orphans' = orphans \ {Victim}
               /\ UNCHANGED <<mark, todo, picked, sources>>
            \/ /\ mpc' = "idle" /\ mark' = [now |-> 0, active |-> 0] /\ victims' = {}
               /\ todo' = {} /\ picked' = {} /\ sources' = {}
               /\ orphans' = orphans \cup {Victim} /\ UNCHANGED <<segs, files>>
         /\ UNCHANGED <<active, nextSeg, now, indexes, flusher, nextCompact, reader, newest>>
BY DEF UnlinkExpired, Done

\* The step of each actor keeps every variable in its type.
LEMMA FlusherKeepsTypes ==
  ASSUME ChargeInv, Flusher
  PROVE  LiveTypeOK'
<1> USE DEF ChargeInv, LiveTypeOK, storage, indexes, keeper
<1>1. ASSUME NEW w \in Writes, Receive(w) PROVE LiveTypeOK'
  <2>1. /\ \/ active' = nextSeg /\ nextSeg' = nextSeg + 1 /\ segs' = segs \cup {nextSeg}
           \/ UNCHANGED <<active, nextSeg, segs>>
        /\ frame' \in Frame /\ frame'.seq = frame.seq + 1 /\ fpc' = "write"
        /\ UNCHANGED <<files, now, indexes, existed, keeper, history>>
    BY <1>1, ReceiveCases
  <2>2. segs' \subseteq Nat
    BY <2>1
  <2>3. active' \in Nat /\ nextSeg' \in Nat
    BY <2>1
  <2>4. frame' \in Frame /\ frame'.seq \in Nat /\ fpc' = "write"
    BY <2>1
  <2> QED BY <2>1, <2>2, <2>3, <2>4
<1>2. CASE Write
  <2>1. stamps' \subseteq stamps /\ IsFiniteSet(stamps') /\ marks' \in Int
    <3> DEFINE gone == { f \in stamps : \E g \in Entry(index, frame.key) : f.seq = g.seq }
    <3>1. stamps' = stamps \ gone /\ marks' = marks - Cardinality(gone) /\ gone \subseteq stamps
      BY <1>2 DEF Write
    <3> HIDE DEF gone
    <3> QED BY <3>1, SizeWithout
  <2>2. frame' \in Frame /\ frame'.seq \in Nat
    BY <1>2 DEF Write, Written, Frame
  <2> QED BY <1>2, <2>1, <2>2 DEF Write
<1>3. CASE InsertPointer
  <2>1. IsFiniteSet(index \ Entry(index, frame.key))
    BY FS_Subset
  <2>2. IsFiniteSet(index')
    BY <1>3, <2>1, FS_AddElement DEF InsertPointer
  <2> QED BY <1>3, <2>2 DEF InsertPointer
<1>4. CASE Stamp
  <2>1. IsFiniteSet(stamps')
    BY <1>4, FS_AddElement DEF Stamp
  <2> QED BY <1>4, <2>1 DEF Stamp
<1>5. CASE RemovePointer
  <2> DEFINE gone == Entry(index, frame.key)
  <2>1. index' = index \ gone /\ nodes' = nodes - Cardinality(gone) /\ gone \subseteq index
    BY <1>5 DEF RemovePointer, Entry
  <2> HIDE DEF gone
  <2>2. index' \subseteq index /\ IsFiniteSet(index') /\ nodes' \in Int
    BY <2>1, SizeWithout
  <2> QED BY <1>5, <2>2 DEF RemovePointer
<1> QED BY <1>1, <1>2, <1>3, <1>4, <1>5 DEF Flusher

\* A copy of a frame is a frame.
LEMMA CopiesAreFrames ==
  ASSUME LiveTypeOK, NEW f \in Frame
  PROVE  /\ CopyOf(f) \in Frame /\ CopyOf(f).seg = nextCompact
         /\ CopyOf(f).seq = f.seq /\ CopyOf(f).key = f.key
         /\ CopyOf(f).del = f.del /\ CopyOf(f).ts = f.ts
BY DEF LiveTypeOK, CopyOf, Frame

\* ... and so does the maintenance thread.
LEMMA KeeperKeepsTypes ==
  ASSUME ChargeInv, Keeper
  PROVE  LiveTypeOK'
<1> USE DEF ChargeInv, LiveTypeOK, storage, indexes, flusher, Done
<1>1. ASSUME NEW kind \in {"expire", "compact"}, StartTask(kind) PROVE LiveTypeOK'
  BY <1>1 DEF StartTask
<1>2. CASE ListSegments
  <2>1. /\ victims' \subseteq Nat /\ todo' \subseteq Keys
        /\ picked' \subseteq Frame /\ sources' \subseteq Frame
    BY <1>2, ListCases
  <2>2. mark' \in [now : Nat, active : Nat]
    BY <1>2, ListCases
  <2> QED BY <1>2, <2>1, <2>2 DEF ListSegments
<1>3. CASE KeepSegment
  BY <1>3 DEF KeepSegment
<1>4. CASE ExpireSegment
  BY <1>4 DEF ExpireSegment, Frame
<1>5. ASSUME NEW k \in Keys, DropStamp(k) PROVE LiveTypeOK'
  <2> DEFINE gone == { f \in stamps : \E g \in picked' : f.seq = g.seq }
  <2>1. \/ stamps' = stamps \ gone /\ marks' = marks - Cardinality(gone)
        \/ UNCHANGED <<stamps, marks>>
    BY <1>5 DEF DropStamp
  <2>2. gone \subseteq stamps
    OBVIOUS
  <2> HIDE DEF gone
  <2>3. stamps' \subseteq stamps /\ IsFiniteSet(stamps') /\ marks' \in Int
    BY <2>1, <2>2, SizeWithout
  <2> QED BY <1>5, <2>3 DEF DropStamp, Entry
<1>6. CASE DropKey
  <2> DEFINE gone == Entry(index, (CHOOSE f \in picked : TRUE).key)
  <2>1. index' = index \ gone /\ nodes' = nodes - Cardinality(gone) /\ gone \subseteq index
    BY <1>6 DEF DropKey, Entry
  <2> HIDE DEF gone
  <2>2. index' \subseteq index /\ IsFiniteSet(index') /\ nodes' \in Int
    BY <2>1, SizeWithout
  <2> QED BY <1>6, <2>2 DEF DropKey
<1>7. CASE UnlinkExpired
  <2>1. mark' \in [now : Nat, active : Nat]
    BY <1>7, UnlinkCases
  <2>2. /\ segs' \subseteq Nat /\ files' \subseteq Frame
        /\ victims' \subseteq Nat /\ todo' \subseteq Keys
        /\ picked' \subseteq Frame /\ sources' \subseteq Frame
    BY <1>7, UnlinkCases
  <2>3. UNCHANGED <<active, nextSeg, now, indexes, flusher, nextCompact>>
    BY <1>7, UnlinkCases
  <2> QED BY <2>1, <2>2, <2>3
<1>8. CASE EndRetention
  BY <1>8 DEF EndRetention
<1>9. CASE CopyLive
  <2>1. \A f \in index : CopyOf(f) \in Frame
    BY CopiesAreFrames
  <2> HIDE DEF CopyOf
  <2>2. files' \subseteq Frame /\ segs' \subseteq Nat /\ sources' \subseteq Frame
    BY <1>9, <2>1, CopyCases
  <2>3. mark' \in [now : Nat, active : Nat]
    BY <1>9, CopyCases
  <2>5. victims' \subseteq Nat /\ todo' \subseteq Keys /\ picked' \subseteq Frame
    BY <1>9, CopyCases
  <2>6. nextCompact' \in Nat
    BY <1>9, CopyCases
  <2>4. UNCHANGED <<active, nextSeg, now, indexes, flusher>>
    BY <1>9, CopyCases
  <2> QED BY <2>2, <2>3, <2>4, <2>5, <2>6
<1>10. CASE LockIndexes
  BY <1>10 DEF LockIndexes
<1>11. ASSUME NEW f \in sources, MoveStamp(f) PROVE LiveTypeOK'
  <2>1. CASE f \in index
    <3>1. stamps' = { g \in stamps : g.seq # f.seq } \cup {CopyOf(f)}
      BY <1>11, <2>1 DEF MoveStamp
    <3>2. IsFiniteSet({ g \in stamps : g.seq # f.seq })
      BY FS_Subset
    <3>3. IsFiniteSet(stamps') /\ stamps' \subseteq Frame
      BY <3>1, <3>2, CopiesAreFrames, FS_AddElement
    <3> QED BY <1>11, <2>1, <3>3 DEF MoveStamp
  <2>2. CASE f \notin index
    BY <1>11, <2>2 DEF MoveStamp
  <2> QED BY <2>1, <2>2
<1>12. CASE MoveKey
  <2>1. PICK f \in index : picked = {f}
    BY <1>12 DEF MoveKey, KeeperFits
  <2>2. index' = (index \ {f}) \cup {CopyOf(f)}
    BY <1>12, <2>1 DEF MoveKey
  <2>3. IsFiniteSet(index \ {f})
    BY FS_Subset
  <2>4. IsFiniteSet(index') /\ index' \subseteq Frame
    BY <2>2, <2>3, CopiesAreFrames, FS_AddElement
  <2> QED BY <1>12, <2>4 DEF MoveKey
<1>13. CASE UnlockIndexes
  BY <1>13 DEF UnlockIndexes
<1>14. CASE UnlinkCompacted
  BY <1>14 DEF UnlinkCompacted
<1>15. CASE EndCompaction
  BY <1>15 DEF EndCompaction
<1> QED BY <1>1, <1>2, <1>3, <1>4, <1>5, <1>6, <1>7, <1>8, <1>9, <1>10, <1>11,
           <1>12, <1>13, <1>14, <1>15 DEF Keeper

-----------------------------------------------------------------------------
(* Segment ids.                                                            *)

\* The flusher's ids count up from 1 and stay below those of compacted segments.
LEMMA FlusherKeepsIds ==
  ASSUME ChargeInv, Flusher
  PROVE  IdsFit'
<1> USE DEF ChargeInv, LiveTypeOK, IdsFit, storage, indexes, keeper
<1>1. ASSUME NEW w \in Writes, Receive(w) PROVE IdsFit'
  <2>1. nextSeg \in Nat /\ active \in Nat /\ frame.seq \in Nat /\ MaxSeq \in Nat
    BY LiveIndexAssumption
  <2>2. /\ nextSeg = active + 1 /\ active <= frame.seq + 1
        /\ nextCompact >= CompactionBase
        /\ \A s \in segs : s <= active \/ s >= CompactionBase
        /\ \A f \in files : f.seg <= active \/ f.seg >= CompactionBase
        /\ \A f \in index : f.seg <= active \/ f.seg >= CompactionBase
    OBVIOUS
  <2>3. /\ \/ active' = active + 1 /\ nextSeg' = active + 2 /\ segs' = segs \cup {active + 1}
           \/ UNCHANGED <<active, nextSeg, segs>>
        /\ frame'.seq = frame.seq + 1 /\ frame.seq < MaxSeq
        /\ UNCHANGED <<files, index, nextCompact>>
    BY <1>1, <2>1, <2>2, ReceiveCases
  <2>4. nextSeg' = active' + 1 /\ active' <= frame'.seq + 1 /\ frame'.seq <= MaxSeq
    BY <2>1, <2>2, <2>3
  <2>5. /\ active' \in Nat /\ active <= active'
        /\ \A s \in segs' : s \in segs \/ s = active'
    BY <2>1, <2>3
  <2>6. ASSUME NEW s \in segs' PROVE s <= active' \/ s >= CompactionBase
    <3>1. CASE s \in segs
      BY <2>1, <2>2, <2>5, <3>1
    <3>2. CASE s = active'
      BY <2>5, <3>2
    <3> QED BY <2>5, <3>1, <3>2
  <2>7. /\ \A f \in files : f.seg <= active' \/ f.seg >= CompactionBase
        /\ \A f \in index : f.seg <= active' \/ f.seg >= CompactionBase
    BY <2>1, <2>2, <2>3 DEF Frame
  <2> QED BY <2>2, <2>3, <2>4, <2>6, <2>7
<1>2. CASE Write
  BY <1>2 DEF Write, Written, Frame
<1>3. CASE InsertPointer
  BY <1>3 DEF InsertPointer, IndexFits
<1>4. CASE Stamp
  BY <1>4 DEF Stamp
<1>5. CASE RemovePointer
  BY <1>5 DEF RemovePointer
<1> QED BY <1>1, <1>2, <1>3, <1>4, <1>5 DEF Flusher

\* Maintenance adds segments only under ids of compaction.
LEMMA KeeperKeepsIds ==
  ASSUME ChargeInv, Keeper
  PROVE  IdsFit'
<1> USE DEF ChargeInv, LiveTypeOK, IdsFit, storage, indexes, flusher, Done
<1>1. ASSUME NEW kind \in {"expire", "compact"}, StartTask(kind) PROVE IdsFit'
  BY <1>1 DEF StartTask
<1>2. CASE ListSegments
  BY <1>2, ListCases DEF ListSegments
<1>3. CASE KeepSegment
  BY <1>3 DEF KeepSegment
<1>4. CASE ExpireSegment
  BY <1>4 DEF ExpireSegment
<1>5. ASSUME NEW k \in Keys, DropStamp(k) PROVE IdsFit'
  BY <1>5 DEF DropStamp
<1>6. CASE DropKey
  BY <1>6 DEF DropKey
<1>7. CASE UnlinkExpired
  BY <1>7, UnlinkCases
<1>8. CASE EndRetention
  BY <1>8 DEF EndRetention
<1>9. CASE CopyLive
  <2>1. \A f \in index : CopyOf(f).seg = nextCompact
    BY CopiesAreFrames
  <2> HIDE DEF CopyOf
  <2>2. \A f \in files' : f \in files \/ f.seg = nextCompact
    BY <1>9, <2>1, CopyCases
  <2>3. /\ segs' \in {segs, segs \cup {nextCompact}}
        /\ nextCompact' \in {nextCompact, nextCompact + 1}
    BY <1>9, CopyCases
  <2>4. UNCHANGED <<active, nextSeg, index, frame>>
    BY <1>9, CopyCases
  <2>5. /\ \A s \in segs' : s <= active \/ s >= CompactionBase
        /\ \A f \in files' : f.seg <= active \/ f.seg >= CompactionBase
    BY <2>2, <2>3
  <2>6. nextCompact' >= CompactionBase
    BY <2>3, LiveIndexAssumption
  <2> QED BY <2>4, <2>5, <2>6
<1>10. CASE LockIndexes
  BY <1>10 DEF LockIndexes
<1>11. ASSUME NEW f \in sources, MoveStamp(f) PROVE IdsFit'
  BY <1>11 DEF MoveStamp
<1>12. CASE MoveKey
  <2>1. \A f \in picked : CopyOf(f).seg = nextCompact
    BY CopiesAreFrames
  <2>2. \A f \in index' : f \in index \/ f.seg = nextCompact
    BY <1>12, <2>1 DEF MoveKey
  <2> QED BY <1>12, <2>2 DEF MoveKey
<1>13. CASE UnlockIndexes
  BY <1>13, LiveIndexAssumption DEF UnlockIndexes
<1>14. CASE UnlinkCompacted
  BY <1>14 DEF UnlinkCompacted
<1>15. CASE EndCompaction
  BY <1>15 DEF EndCompaction
<1> QED BY <1>1, <1>2, <1>3, <1>4, <1>5, <1>6, <1>7, <1>8, <1>9, <1>10, <1>11,
           <1>12, <1>13, <1>14, <1>15 DEF Keeper

-----------------------------------------------------------------------------
(* Entries.                                                                *)

\* The flusher replaces the entry of a key by a newer frame, or removes it.
LEMMA FlusherKeepsIndexFits ==
  ASSUME ChargeInv, Flusher
  PROVE  IndexFits'
<1> USE DEF ChargeInv, LiveTypeOK, IndexFits, storage, indexes, keeper
<1>1. ASSUME NEW w \in Writes, Receive(w) PROVE IndexFits'
  <2>1. /\ \/ active' = nextSeg
           \/ active' = active /\ segs' = segs
        /\ frame'.seq = frame.seq + 1 /\ frame.seq < MaxSeq /\ fpc = "idle" /\ fpc' = "write"
        /\ UNCHANGED <<files, index>>
    BY <1>1, ReceiveCases
  <2>2. \A f \in index : f.seq \in Nat /\ f.seg \in Nat
    BY DEF Frame
  <2>3. \A f \in index : f.seq < frame'.seq
    BY <2>1, <2>2
  <2>4. ASSUME active' \in segs', NEW f \in index, f.seg = active' PROVE f \in files
    <3>1. CASE active' = nextSeg
      <4>1. f.seg <= active \/ f.seg >= CompactionBase
        BY DEF IdsFit
      <4>2. nextSeg = active + 1 /\ active + 1 < CompactionBase
        BY <2>1, LiveIndexAssumption DEF IdsFit
      <4> QED BY <2>2, <2>4, <3>1, <4>1, <4>2, LiveIndexAssumption
    <3>2. CASE active' = active /\ segs' = segs
      BY <2>4, <3>2
    <3> QED BY <2>1, <3>1, <3>2
  <2>5. \A f \in index : f.seq <= frame'.seq
    BY <2>1, <2>2
  <2> QED BY <2>1, <2>3, <2>4, <2>5
<1>2. CASE Write
  <2>1. frame'.seq = frame.seq /\ frame'.seg = active /\ frame'.del = frame.del
    BY <1>2 DEF Write, Written, Frame
  <2>2. /\ files' = (IF active \in segs THEN files \cup {frame'} ELSE files)
        /\ fpc = "write" /\ fpc' = (IF frame.del THEN "remove" ELSE "insert")
        /\ UNCHANGED <<segs, active, index>>
    BY <1>2 DEF Write
  <2> QED BY <2>1, <2>2
<1>3. CASE InsertPointer
  <2>1. /\ index' \subseteq index \cup {frame} /\ frame \in index'
        /\ \A f \in index' : f # frame => f.key # frame.key
        /\ fpc = "insert" /\ fpc' = "stamp"
        /\ UNCHANGED <<segs, files, active, frame>>
    BY <1>3 DEF InsertPointer, Entry
  <2>2. \A f \in index : f.seq < frame.seq
    BY <2>1
  <2>3. \A f \in index : f.seq # frame.seq
    BY <2>2 DEF Frame
  <2>4. \A f, g \in index' : f.key = g.key \/ f.seq = g.seq => f = g
    BY <2>1, <2>3
  <2>5. \A f \in index' : f.seq <= frame.seq /\ ~f.del
    BY <2>1
  <2>6. active \in segs => \A f \in index' : f.seg = active => f \in files
    BY <2>1
  <2> QED BY <2>1, <2>4, <2>5, <2>6
<1>4. CASE Stamp
  BY <1>4 DEF Stamp
<1>5. CASE RemovePointer
  BY <1>5 DEF RemovePointer
<1> QED BY <1>1, <1>2, <1>3, <1>4, <1>5 DEF Flusher

\* Maintenance removes entries, or moves one to a copy of the same frame.
LEMMA KeeperKeepsIndexFits ==
  ASSUME ChargeInv, Keeper
  PROVE  IndexFits'
<1> USE DEF ChargeInv, LiveTypeOK, IndexFits, storage, indexes, flusher
<1>1. ASSUME NEW kind \in {"expire", "compact"}, StartTask(kind) PROVE IndexFits'
  BY <1>1 DEF StartTask
<1>2. CASE ListSegments
  BY <1>2 DEF ListSegments
<1>3. CASE KeepSegment
  BY <1>3 DEF KeepSegment
<1>4. CASE ExpireSegment
  BY <1>4 DEF ExpireSegment
<1>5. ASSUME NEW k \in Keys, DropStamp(k) PROVE IndexFits'
  BY <1>5 DEF DropStamp
<1>6. CASE DropKey
  BY <1>6 DEF DropKey
<1>7. CASE UnlinkExpired
  BY <1>7, UnlinkCases DEF InSeg
<1>8. CASE EndRetention
  BY <1>8 DEF EndRetention
<1>9. CASE CopyLive
  <2>1. active # nextCompact
    BY LiveIndexAssumption DEF IdsFit
  <2>2. segs' \in {segs, segs \cup {nextCompact}} /\ files \subseteq files'
    BY <1>9, CopyCases
  <2>3. UNCHANGED <<active, index, fpc, frame>>
    BY <1>9, CopyCases
  <2> QED BY <2>1, <2>2, <2>3
<1>10. CASE LockIndexes
  BY <1>10 DEF LockIndexes
<1>11. ASSUME NEW f \in sources, MoveStamp(f) PROVE IndexFits'
  BY <1>11 DEF MoveStamp
<1>12. CASE MoveKey
  <2>1. PICK f \in index : picked = {f}
    BY <1>12 DEF MoveKey, KeeperFits
  <2>2. /\ CopyOf(f).seg = nextCompact /\ CopyOf(f).seq = f.seq /\ CopyOf(f).key = f.key
        /\ CopyOf(f).del = f.del
    BY CopiesAreFrames
  <2>3. /\ index' = (index \ {f}) \cup {CopyOf(f)}
        /\ UNCHANGED <<segs, files, active, fpc, frame>>
    BY <1>12, <2>1 DEF MoveKey
  <2>4. fpc = "idle"
    BY <1>12 DEF MoveKey, KeeperFits
  <2>5. active # nextCompact
    BY LiveIndexAssumption DEF IdsFit
  <2> HIDE DEF CopyOf
  <2>6. \A g, h \in index' : g.key = h.key \/ g.seq = h.seq => g = h
    BY <2>2, <2>3
  <2>7. \A g \in index' : g.seq <= frame.seq /\ ~g.del
    BY <2>2, <2>3
  <2>8. active \in segs => \A g \in index' : g.seg = active => g \in files
    BY <2>2, <2>3, <2>5
  <2> QED BY <2>3, <2>4, <2>6, <2>7, <2>8
<1>13. CASE UnlockIndexes
  BY <1>13 DEF UnlockIndexes
<1>14. CASE UnlinkCompacted
  BY <1>14 DEF UnlinkCompacted, InSeg
<1>15. CASE EndCompaction
  BY <1>15 DEF EndCompaction
<1> QED BY <1>1, <1>2, <1>3, <1>4, <1>5, <1>6, <1>7, <1>8, <1>9, <1>10, <1>11,
           <1>12, <1>13, <1>14, <1>15 DEF Keeper

-----------------------------------------------------------------------------
(* The maintenance thread.                                                 *)

\* A roll over does not change what a pass has seen of the segments.
LEMMA FlusherKeepsKeeperFits ==
  ASSUME ChargeInv, Flusher
  PROVE  KeeperFits'
<1> USE DEF ChargeInv, LiveTypeOK, KeeperFits, storage, indexes, keeper
<1>1. ASSUME NEW w \in Writes, Receive(w) PROVE KeeperFits'
  <2>1. /\ \/ active' = nextSeg /\ segs' = segs \cup {nextSeg}
           \/ UNCHANGED <<active, segs>>
        /\ mpc \notin {"movestamp", "movekey"} /\ frame.seq < MaxSeq
        /\ UNCHANGED <<files, now, index, keeper>>
    BY <1>1, ReceiveCases
  <2>2. Victim' = Victim
    BY <2>1 DEF Victim
  <2>3. nextSeg = active + 1 /\ nextSeg < CompactionBase
    BY <2>1, LiveIndexAssumption DEF IdsFit
  <2>5. ASSUME (mpc = "drop" /\ todo # {}) \/ mpc = "dropkey" PROVE Victim # active'
    <3>1. Victim \in segs /\ Victim # active
      BY <2>5, LeastMember DEF Victim
    <3>2. Victim # nextSeg
      BY <2>3, <3>1, LiveIndexAssumption DEF IdsFit
    <3> QED BY <2>1, <3>1, <3>2
  <2>6. mpc # "idle" => mark.active <= active'
    BY <2>1, <2>3
  <2>7. victims \subseteq segs'
    BY <2>1
  <2> QED BY <2>1, <2>2, <2>5, <2>6, <2>7
<1>2. CASE Write
  <2>1. frame'.ts = now
    BY <1>2 DEF Write, Written, Frame
  <2>2. /\ files' \subseteq files \cup {frame'} /\ fpc = "write"
        /\ UNCHANGED <<segs, active, now, index, keeper>>
    BY <1>2 DEF Write
  <2>3. Victim' = Victim
    BY <2>2 DEF Victim
  <2>4. mpc # "idle" => \A f \in files' : f.seg > mark.active /\ f.seg < CompactionBase
                                             => f.ts >= mark.now
    BY <2>1, <2>2
  <2> QED BY <2>2, <2>3, <2>4
<1>3. CASE InsertPointer
  BY <1>3 DEF InsertPointer, Victim
<1>4. CASE Stamp
  BY <1>4 DEF Stamp, Victim
<1>5. CASE RemovePointer
  BY <1>5 DEF RemovePointer, Victim
<1> QED BY <1>1, <1>2, <1>3, <1>4, <1>5 DEF Flusher

\* A segment that has expired is not the active one, or none of its frames is live:
\* what the flusher has written there since the pass began is too young.
LEMMA ActiveSegmentIsSpared ==
  ASSUME ChargeInv, ExpireSegment, Victim = active
  PROVE  todo' = {}
<1> USE DEF ChargeInv, LiveTypeOK, KeeperFits, ExpireSegment
<1>1. Victim \in victims
  BY LeastMember DEF Victim
<1>2. active \in segs /\ active # mark.active /\ mark.active < active
  BY <1>1
<1>3. ASSUME NEW f \in index, f.seg = Victim PROVE FALSE
  <2>1. f \in InSeg(Victim) /\ ~f.del /\ f \in files
    BY <1>2, <1>3 DEF IndexFits, InSeg
  <2>2. f.ts < mark.now - MaxAge[f.key]
    BY <2>1 DEF FullyExpired
  <2>3. f.ts \in Nat /\ MaxAge[f.key] \in Nat /\ mark.now \in Nat
    BY LiveIndexAssumption DEF Frame
  <2>4. active < CompactionBase
    BY LiveIndexAssumption DEF IdsFit
  <2>5. f.ts >= mark.now
    BY <1>2, <1>3, <2>1, <2>4
  <2> QED BY <2>2, <2>3, <2>5
<1> QED BY <1>3

\* A pass goes through its places and never works on the active segment's keys.
LEMMA KeeperKeepsKeeperFits ==
  ASSUME ChargeInv, Keeper
  PROVE  KeeperFits'
<1> USE DEF ChargeInv, LiveTypeOK, KeeperFits, storage, indexes, flusher
<1>1. ASSUME NEW kind \in {"expire", "compact"}, StartTask(kind) PROVE KeeperFits'
  <2>1. \A f \in files : f.seg \in Nat
    BY DEF Frame
  <2>2. \A f \in files : ~(f.seg > active /\ f.seg < CompactionBase)
    BY <2>1, LiveIndexAssumption DEF IdsFit
  <2> QED BY <1>1, <2>2 DEF StartTask
<1>2. CASE ListSegments
  <2>1. \/ mpc' = "idle" /\ victims' = {}
        \/ /\ mpc' \in {"check", "collect"} /\ victims' = segs \ {mark.active}
           /\ mark' = mark
    BY <1>2, ListCases
  <2> QED BY <1>2, <2>1 DEF ListSegments
<1>3. CASE KeepSegment
  BY <1>3 DEF KeepSegment
<1>4. CASE ExpireSegment
  <2>1. todo' # {} => Victim # active
    BY <1>4, ActiveSegmentIsSpared
  <2>2. Victim' = Victim
    BY <1>4 DEF ExpireSegment, Victim
  <2> QED BY <1>4, <2>1, <2>2 DEF ExpireSegment
<1>5. ASSUME NEW k \in Keys, DropStamp(k) PROVE KeeperFits'
  <2>1. Victim' = Victim
    BY <1>5 DEF DropStamp, Victim
  <2>2. picked' # {} => \E f \in picked' : picked' = {f}
    BY <1>5 DEF DropStamp, Entry, IndexFits
  <2> QED BY <1>5, <2>1, <2>2 DEF DropStamp
<1>6. CASE DropKey
  BY <1>6 DEF DropKey, Victim
<1>7. CASE UnlinkExpired
  <2>1. \/ /\ mpc' = "check" /\ victims' = victims \ {Victim} /\ segs' = segs \ {Victim}
           /\ files' \subseteq files /\ mark' = mark
        \/ mpc' = "idle" /\ victims' = {}
    BY <1>7, UnlinkCases
  <2>2. mpc = "drop" /\ UNCHANGED <<active, now, index, fpc>>
    BY <1>7, UnlinkCases
  <2> QED BY <2>1, <2>2
<1>8. CASE EndRetention
  BY <1>8 DEF EndRetention, Done
<1>9. CASE CopyLive
  <2>1. \A f \in index : CopyOf(f).seg = nextCompact
    BY CopiesAreFrames
  <2> HIDE DEF CopyOf
  <2>2. \A f \in files' : f \in files \/ f.seg = nextCompact
    BY <1>9, <2>1, CopyCases
  <2>3. nextCompact >= CompactionBase
    BY DEF IdsFit
  <2>4. /\ \/ mpc' = "swap" /\ UNCHANGED <<mark, victims>>
           \/ mpc' = "idle" /\ victims' = {}
        /\ segs \subseteq segs' /\ mpc = "collect"
        /\ UNCHANGED <<active, now, index, fpc>>
    BY <1>9, CopyCases
  <2>5. mpc # "idle" => \A f \in files' : f.seg > mark.active /\ f.seg < CompactionBase
                                             => f.ts >= mark.now
    BY <2>2, <2>3, LiveIndexAssumption
  <2> QED BY <2>4, <2>5
<1>10. CASE LockIndexes
  BY <1>10 DEF LockIndexes
<1>11. ASSUME NEW f \in sources, MoveStamp(f) PROVE KeeperFits'
  BY <1>11 DEF MoveStamp
<1>12. CASE MoveKey
  BY <1>12 DEF MoveKey
<1>13. CASE UnlockIndexes
  BY <1>13 DEF UnlockIndexes
<1>14. CASE UnlinkCompacted
  BY <1>14 DEF UnlinkCompacted
<1>15. CASE EndCompaction
  BY <1>15 DEF EndCompaction, Done
<1> QED BY <1>1, <1>2, <1>3, <1>4, <1>5, <1>6, <1>7, <1>8, <1>9, <1>10, <1>11,
           <1>12, <1>13, <1>14, <1>15 DEF Keeper

-----------------------------------------------------------------------------
(* Charges.                                                                *)

\* A race that has happened stays on record.
LEMMA MishapsStay ==
  ASSUME Flusher \/ Keeper
  PROVE  mishaps \subseteq mishaps'
<1> USE DEF history
<1>1. CASE Flusher
  BY <1>1 DEF Flusher, Receive, Write, InsertPointer, Stamp, RemovePointer
<1>2. CASE Keeper
  BY <1>2 DEF Keeper, StartTask, ListSegments, KeepSegment, ExpireSegment, DropStamp,
              DropKey, UnlinkExpired, EndRetention, CopyLive, LockIndexes, MoveStamp,
              MoveKey, UnlockIndexes, UnlinkCompacted, EndCompaction, Uncovered
<1> QED BY <1>1, <1>2

\* The flusher charges what it adds and discharges what it removes.
LEMMA FlusherKeepsStampsFit ==
  ASSUME ChargeInv, Flusher, StampsFit
  PROVE  StampsFit'
<1> USE DEF ChargeInv, LiveTypeOK, StampsFit, storage, indexes, keeper
<1>1. ASSUME NEW w \in Writes, Receive(w) PROVE StampsFit'
  <2>1. /\ fpc = "idle" /\ fpc' = "write"
        /\ UNCHANGED <<indexes, keeper>>
    BY <1>1, ReceiveCases
  <2>2. Victim' = Victim
    BY <2>1 DEF Victim
  <2>3. mpc # "movekey"
    BY <1>1, ReceiveCases
  <2> QED BY <2>1, <2>2, <2>3 DEF Unstamped
<1>2. CASE Write
  <2> DEFINE gone == { f \in stamps : \E g \in Entry(index, frame.key) : f.seq = g.seq }
  <2>1. /\ stamps' = stamps \ gone /\ marks' = marks - Cardinality(gone)
        /\ existed' = (Entry(index, frame.key) # {})
        /\ fpc = "write" /\ fpc' \in {"remove", "insert"}
        /\ UNCHANGED <<index, nodes, keeper>>
    BY <1>2 DEF Write
  <2>2. gone \subseteq stamps
    OBVIOUS
  <2>3. frame'.key = frame.key
    BY <1>2 DEF Write, Written, Frame
  <2>4. mpc # "movekey" /\ stamps \subseteq index
    BY <2>1 DEF KeeperFits
  <2>5. \A f \in stamps' : f.key # frame.key
    BY <2>1, <2>4 DEF Entry
  <2>6. \A f \in gone : f.key = frame.key
    BY <2>4 DEF Entry, IndexFits
  <2>7. ASSUME NEW f \in index \ stamps' PROVE Unstamped(f)'
    <3>1. CASE f \in gone
      BY <2>1, <2>3, <2>6, <3>1 DEF Unstamped
    <3>2. CASE f \notin stamps
      BY <2>1, <2>4, <3>2 DEF Unstamped
    <3> QED BY <2>1, <2>7, <3>1, <3>2
  <2>8. Victim' = Victim
    BY <2>1 DEF Victim
  <2> HIDE DEF gone
  <2>9. marks' = Cardinality(stamps')
    BY <2>1, <2>2, SizeWithout
  <2>10. Entry(index, frame.key)' = Entry(index, frame.key)
    BY <2>1, <2>3 DEF Entry
  <2>11. existed' <=> Entry(index, frame.key)' # {}
    BY <2>1, <2>10
  <2>12. mpc' = "dropkey" => \A f \in picked' : f.seg = Victim' => f \notin stamps'
    BY <2>1, <2>8
  <2>13. fpc' # "stamp" /\ mpc' # "movekey" /\ nodes' = Cardinality(index')
    BY <2>1, <2>4
  <2>14. stamps' \subseteq index'
    BY <2>1, <2>4
  <2>15. \A f \in stamps' : f.key # frame'.key
    BY <2>3, <2>5
  <2>16. \A f \in index' \ stamps' : Unstamped(f)'
    BY <2>1, <2>7
  <2>17. marks' = Cardinality(stamps') + (IF fpc' = "stamp" THEN 1 ELSE 0)
    BY <2>9, <2>13, FS_CardinalityType, SizeWithout, <2>1, <2>2
  <2> QED BY <2>11, <2>12, <2>13, <2>14, <2>15, <2>16, <2>17
<1>3. CASE InsertPointer
  <2> DEFINE old == Entry(index, frame.key)
  <2>1. /\ fpc = "insert" /\ fpc' = "stamp"
        /\ index' = (index \ old) \cup {frame}
        /\ nodes' = (IF existed THEN nodes ELSE nodes + 1) /\ marks' = marks + 1
        /\ UNCHANGED <<stamps, frame, keeper>>
    BY <1>3 DEF InsertPointer
  <2>2. mpc # "movekey" /\ stamps \subseteq index
    BY <2>1 DEF KeeperFits
  <2>3. frame \notin index
    BY <2>1 DEF IndexFits, Frame
  <2>4. nodes' = Cardinality(index')
    <3>1. CASE old = {}
      <4>1. index' = index \cup {frame} /\ nodes' = nodes + 1
        BY <2>1, <3>1
      <4> QED BY <2>3, <4>1, SizeWith
    <3>2. CASE old # {}
      <4>1. PICK g \in index : old = {g}
        BY <3>2 DEF Entry, IndexFits
      <4>2. index' = (index \ {g}) \cup {frame} /\ nodes' = nodes
        BY <2>1, <3>2, <4>1
      <4> QED BY <2>3, <4>2, SizeReplaced
    <3> QED BY <3>1, <3>2
  <2>5. marks' = Cardinality(stamps') + 1
    BY <2>1, FS_CardinalityType
  <2>6. frame \in index' /\ frame \notin stamps
    BY <2>1, <2>2, <2>3
  <2>7. stamps \subseteq index'
    BY <2>1, <2>2 DEF Entry
  <2>8. ASSUME NEW f \in index' \ stamps PROVE Unstamped(f)'
    BY <2>1, <2>2 DEF Unstamped, Entry
  <2>9. Victim' = Victim
    BY <2>1 DEF Victim
  <2> HIDE DEF old
  <2> QED BY <2>1, <2>2, <2>4, <2>5, <2>6, <2>7, <2>8, <2>9
<1>4. CASE Stamp
  <2>1. /\ fpc = "stamp" /\ fpc' = "idle" /\ stamps' = stamps \cup {frame}
        /\ UNCHANGED <<index, nodes, marks, frame, keeper>>
    BY <1>4 DEF Stamp
  <2>2. mpc # "movekey" /\ frame \in index /\ frame \notin stamps /\ frame.seg = active
    BY <2>1 DEF KeeperFits, IndexFits
  <2>3. marks' = Cardinality(stamps')
    BY <2>1, <2>2, SizeWith
  <2>4. stamps' \subseteq index'
    BY <2>1, <2>2
  <2>5. ASSUME NEW f \in index' \ stamps' PROVE Unstamped(f)'
    BY <2>1, <2>2 DEF Unstamped
  <2>6. Victim' = Victim
    BY <2>1 DEF Victim
  <2>7. mpc = "dropkey" => \A f \in picked : f.seg = Victim => f \notin stamps'
    BY <2>1, <2>2 DEF KeeperFits
  <2> QED BY <2>1, <2>2, <2>3, <2>4, <2>5, <2>6, <2>7
<1>5. CASE RemovePointer
  <2> DEFINE gone == Entry(index, frame.key)
  <2>1. /\ fpc = "remove" /\ fpc' = "idle"
        /\ index' = index \ gone /\ nodes' = nodes - Cardinality(gone)
        /\ UNCHANGED <<stamps, marks, frame, keeper>>
    BY <1>5 DEF RemovePointer
  <2>2. mpc # "movekey" /\ gone \subseteq index
    BY <2>1 DEF KeeperFits, Entry
  <2>3. stamps \subseteq index'
    BY <2>1, <2>2 DEF Entry
  <2>4. ASSUME NEW f \in index' \ stamps PROVE Unstamped(f)'
    BY <2>1, <2>2 DEF Unstamped, Entry
  <2>5. Victim' = Victim
    BY <2>1 DEF Victim
  <2> HIDE DEF gone
  <2>6. nodes' = Cardinality(index')
    BY <2>1, <2>2, SizeWithout
  <2> QED BY <2>1, <2>2, <2>3, <2>4, <2>5, <2>6
<1> QED BY <1>1, <1>2, <1>3, <1>4, <1>5 DEF Flusher

\* So does maintenance, as long as neither known race with the flusher happens.
LEMMA KeeperKeepsStampsFit ==
  ASSUME ChargeInv, Keeper, StampsFit, NothingStolen'
  PROVE  StampsFit'
<1> USE DEF ChargeInv, LiveTypeOK, StampsFit, storage, indexes, flusher
<1>0. CASE UNCHANGED <<indexes, flusher>> /\ mpc \notin {"dropkey", "movekey"}
           /\ mpc' \notin {"dropkey", "movekey"}
  BY <1>0 DEF Unstamped, Entry
<1>1. ASSUME NEW kind \in {"expire", "compact"}, StartTask(kind) PROVE StampsFit'
  BY <1>0, <1>1 DEF StartTask
<1>2. CASE ListSegments
  <2>1. mpc' \in {"idle", "check", "collect"}
    BY <1>2, ListCases
  <2> QED BY <1>0, <1>2, <2>1 DEF ListSegments
<1>3. CASE KeepSegment
  BY <1>0, <1>3 DEF KeepSegment
<1>4. CASE ExpireSegment
  BY <1>0, <1>4 DEF ExpireSegment
<1>5. ASSUME NEW k \in Keys, DropStamp(k) PROVE StampsFit'
  <2> DEFINE gone == { f \in stamps : \E g \in picked' : f.seq = g.seq }
  <2>1. /\ mpc = "drop" /\ k \in todo /\ picked' = Entry(index, k)
        /\ mpc' = (IF picked' = {} THEN "drop" ELSE "dropkey")
        /\ \/ stamps' = stamps \ gone /\ marks' = marks - Cardinality(gone)
           \/ (\E g \in picked' : MayFail(g)) /\ UNCHANGED <<stamps, marks>>
        /\ UNCHANGED <<segs, index, nodes, flusher, victims>>
    BY <1>5 DEF DropStamp
  <2>2. stamps \subseteq index /\ gone \subseteq stamps
    BY <2>1
  <2>3. gone \subseteq picked' /\ picked' \subseteq index
    BY <2>1, <2>2 DEF Entry, IndexFits
  <2>4. \A f, g \in picked' : f = g
    BY <2>1 DEF Entry, IndexFits
  <2>5. stamps' \subseteq stamps
    BY <2>1
  <2>6. ASSUME NEW f \in index \ stamps' PROVE Unstamped(f)'
    <3>1. CASE f \in stamps
      <4>1. f \in gone
        BY <2>1, <2>6, <3>1
      <4> QED BY <2>1, <2>3, <4>1 DEF Unstamped
    <3>2. CASE f \notin stamps
      BY <2>1, <3>2 DEF Unstamped
    <3> QED BY <3>1, <3>2
  <2>7. Victim' = Victim /\ Victim \in segs
    BY <2>1, LeastMember DEF Victim, KeeperFits
  <2>8. ASSUME mpc' = "dropkey", NEW f \in picked', f.seg = Victim PROVE f \notin stamps'
    <3>1. ~ \E g \in picked' : MayFail(g)
      BY <2>4, <2>7, <2>8 DEF MayFail
    <3>2. stamps' = stamps \ gone
      BY <2>1, <3>1
    <3> QED BY <3>2
  <2> HIDE DEF gone
  <2>9. marks' = Cardinality(stamps') + IF fpc = "stamp" THEN 1 ELSE 0
    <3>1. /\ Cardinality(stamps) \in Nat /\ Cardinality(gone) \in Nat
          /\ Cardinality(stamps \ gone) = Cardinality(stamps) - Cardinality(gone)
      BY <2>2, SizeWithout
    <3>2. CASE stamps' = stamps \ gone /\ marks' = marks - Cardinality(gone)
      BY <3>1, <3>2
    <3>3. CASE UNCHANGED <<stamps, marks>>
      BY <3>3
    <3> QED BY <2>1, <3>2, <3>3
  <2>10. mpc' # "movekey" /\ fpc' = fpc /\ frame' = frame /\ existed' = existed
    BY <2>1
  <2> QED BY <2>1, <2>2, <2>5, <2>6, <2>7, <2>8, <2>9, <2>10 DEF Entry
<1>6. CASE DropKey
  <2>1. PICK g \in picked : picked = {g}
    BY <1>6 DEF DropKey, KeeperFits
  <2>2. (CHOOSE f \in picked : TRUE).key = g.key
    BY <2>1
  <2> DEFINE gone == Entry(index, g.key)
  <2>3. /\ mpc = "dropkey" /\ mpc' = "drop" /\ picked' = {}
        /\ index' = index \ gone /\ nodes' = nodes - Cardinality(gone)
        /\ mishaps' = mishaps
             \cup (IF \E f \in gone : f.seg # Victim \/ f \notin picked THEN {"stolen"} ELSE {})
             \cup (IF fpc \in {"insert", "stamp"} /\ frame.key = g.key THEN {"drift"} ELSE {})
        /\ UNCHANGED <<stamps, marks, flusher, victims>>
    BY <1>6, <2>2 DEF DropKey
  <2>4. "stolen" \notin mishaps' /\ "drift" \notin mishaps'
    BY DEF NothingStolen
  <2>5. \A f \in gone : f.seg = Victim /\ f = g
    <3>1. ~ \E f \in gone : f.seg # Victim \/ f \notin picked
      BY <2>3, <2>4
    <3> QED BY <2>1, <3>1
  <2>6. ~ (fpc \in {"insert", "stamp"} /\ frame.key = g.key)
    BY <2>3, <2>4
  <2>7. gone \subseteq index /\ stamps \subseteq index
    BY <2>3 DEF Entry
  <2>8. stamps \subseteq index'
    BY <2>3, <2>5, <2>7
  <2>9. ASSUME NEW f \in index' \ stamps PROVE Unstamped(f)'
    BY <2>1, <2>3, <2>9 DEF Unstamped, Entry
  <2>10. fpc = "insert" => (Entry(index', frame.key) # {} <=> Entry(index, frame.key) # {})
    BY <2>3, <2>6 DEF Entry
  <2>11. fpc = "stamp" => frame \in index'
    BY <2>3, <2>6 DEF Entry
  <2> HIDE DEF gone
  <2>12. nodes' = Cardinality(index')
    BY <2>3, <2>7, SizeWithout
  <2> QED BY <2>3, <2>8, <2>9, <2>10, <2>11, <2>12 DEF Entry
<1>7. CASE UnlinkExpired
  BY <1>0, <1>7, UnlinkCases
<1>8. CASE EndRetention
  BY <1>0, <1>8 DEF EndRetention, Done
<1>9. CASE CopyLive
  <2>1. /\ mpc = "collect" /\ mpc' \in {"swap", "idle"}
        /\ UNCHANGED <<indexes, flusher>>
    BY <1>9, CopyCases
  <2> QED BY <1>0, <2>1
<1>10. CASE LockIndexes
  BY <1>0, <1>10 DEF LockIndexes
<1>11. ASSUME NEW f \in sources, MoveStamp(f) PROVE StampsFit'
  <2>1. mpc = "movestamp" /\ fpc = "idle" /\ UNCHANGED <<index, nodes, marks, flusher>>
    BY <1>11 DEF MoveStamp, KeeperFits
  <2>2. stamps = index
    BY <2>1 DEF Unstamped
  <2>3. CASE f \in index
    <3>1. /\ stamps' = { g \in stamps : g.seq # f.seq } \cup {CopyOf(f)}
          /\ mpc' = "movekey" /\ picked' = {f} /\ UNCHANGED nextCompact
      BY <1>11, <2>3 DEF MoveStamp
    <3>2. CopyOf(f).seq = f.seq /\ CopyOf(f)' = CopyOf(f)
      <4>1. CopyOf(f).seq = f.seq
        BY CopiesAreFrames
      <4>2. CopyOf(f)' = CopyOf(f)
        BY <3>1 DEF CopyOf
      <4> QED BY <4>1, <4>2
    <3> HIDE DEF CopyOf
    <3>3. stamps' = (index \ {f}) \cup {CopyOf(f)} /\ CopyOf(f) \notin index \ {f}
      BY <2>2, <2>3, <3>1, <3>2 DEF IndexFits
    <3>4. Cardinality(stamps') = Cardinality(stamps)
      BY <2>2, <2>3, <3>3, SizeReplaced
    <3> QED BY <2>1, <3>1, <3>2, <3>3, <3>4
  <2>4. CASE f \notin index
    <3>1. UNCHANGED <<stamps, mpc>>
      BY <1>11, <2>4 DEF MoveStamp
    <3> QED BY <1>0, <2>1, <3>1
  <2> QED BY <2>3, <2>4
<1>12. CASE MoveKey
  <2>1. PICK f \in index : picked = {f}
    BY <1>12 DEF MoveKey, KeeperFits
  <2>2. /\ mpc = "movekey" /\ mpc' = "movestamp" /\ fpc = "idle"
        /\ index' = (index \ {f}) \cup {CopyOf(f)}
        /\ UNCHANGED <<stamps, nodes, marks, flusher>>
    BY <1>12, <2>1 DEF MoveKey, KeeperFits
  <2>3. stamps = (index \ {f}) \cup {CopyOf(f)}
    BY <2>1, <2>2
  <2>4. CopyOf(f).seq = f.seq
    BY CopiesAreFrames
  <2> HIDE DEF CopyOf
  <2>5. CopyOf(f) \notin index \ {f}
    BY <2>4 DEF IndexFits
  <2>6. Cardinality(index') = Cardinality(index)
    BY <2>2, <2>5, SizeReplaced
  <2> QED BY <2>2, <2>3, <2>6
<1>13. CASE UnlockIndexes
  BY <1>0, <1>13 DEF UnlockIndexes
<1>14. CASE UnlinkCompacted
  BY <1>0, <1>14 DEF UnlinkCompacted
<1>15. CASE EndCompaction
  BY <1>0, <1>15 DEF EndCompaction, Done
<1> QED BY <1>1, <1>2, <1>3, <1>4, <1>5, <1>6, <1>7, <1>8, <1>9, <1>10, <1>11,
           <1>12, <1>13, <1>14, <1>15 DEF Keeper

-----------------------------------------------------------------------------
(* Reads.                                                                  *)

\* A key shows the sequence id of the only entry it has.
LEMMA VersionOfEntry ==
  ASSUME IndexFits, NEW f \in index
  PROVE  Version(f.key) = f.seq
<1>1. Entry(index, f.key) = {f}
  BY DEF Entry, IndexFits
<1> QED BY <1>1 DEF Version

\* What a step shows is that of before and that of after it.
LEMMA ShownGrows ==
  ASSUME Observe
  PROVE  shown \subseteq shown' /\ \A k \in rkey' : Version(k)' \in shown' /\ ~ReadOver
BY DEF Observe

\* The writers leave a read alone, but observe it.
LEMMA WritersObserve ==
  ASSUME Tick \/ Flusher \/ Keeper
  PROVE  Observe /\ UNCHANGED reader /\ shown \subseteq shown'
<1>1. CASE Tick
  BY <1>1, ShownGrows DEF Tick
<1>2. CASE Flusher
  BY <1>2, ShownGrows DEF Flusher, Receive, Write, InsertPointer, Stamp, RemovePointer
<1>3. CASE Keeper
  BY <1>3, ShownGrows
     DEF Keeper, StartTask, ListSegments, KeepSegment, ExpireSegment, DropStamp, DropKey,
         UnlinkExpired, EndRetention, CopyLive, LockIndexes, MoveStamp, MoveKey,
         UnlockIndexes, UnlinkCompacted, EndCompaction
<1> QED BY <1>1, <1>2, <1>3

\* What a read loads it loads from the index as it is shown in that step.
LEMMA LoadedIsShown ==
  ASSUME IndexFits, Observe, UNCHANGED <<index, rkey>>, NEW f \in index, f.key \in rkey
  PROVE  f.seq \in shown'
<1>1. Version(f.key)' \in shown' /\ Version(f.key) = f.seq
  BY ShownGrows, VersionOfEntry
<1>2. Version(f.key)' = Version(f.key)
  BY DEF Version, Entry
<1> QED BY <1>1, <1>2

\* The steps of a reader: what it keeps, the index shows in the same step.
LEMMA ReadersKeepReadFits ==
  ASSUME ChargeInv, ReadFits, Reader
  PROVE  ReadFits'
<1> USE DEF ReadFits, indexes
<1>0. IndexFits
  BY DEF ChargeInv
<1>1. ASSUME NEW kind \in {"get", "scan", "range"}, NEW k \in ReadKeys, Begin(kind, k)
      PROVE  ReadFits'
  <2>1. /\ rpc = "idle" /\ rpc' = kind /\ rkey' = {k}
        /\ entries' = (IF kind = "range" THEN Entry(stamps, k) ELSE {})
        /\ UNCHANGED <<held, found>> /\ shown \subseteq shown'
    BY <1>1, ShownGrows DEF Begin
  <2>2. held = {}
    BY <2>1
  <2> QED BY <2>1, <2>2 DEF Entry
<1>2. CASE LoadPointer
  <2>1. /\ rpc \in {"get", "scan"} /\ held' = { f \in index : f.key \in rkey }
        /\ rpc' = (IF held' = {} THEN "done" ELSE IF rpc = "get" THEN "getfile" ELSE "scanfile")
        /\ UNCHANGED <<index, rkey, entries, found>> /\ Observe
    BY <1>2 DEF LoadPointer
  <2>2. \A f \in held' : f.seq \in shown'
    BY <1>0, <2>1, LoadedIsShown
  <2>3. entries = {} /\ shown \subseteq shown'
    BY <2>1, ShownGrows
  <2> QED BY <2>1, <2>2, <2>3
<1>3. CASE ReadHeld
  BY <1>3, ShownGrows DEF ReadHeld
<1>4. CASE GetFails
  BY <1>4, ShownGrows DEF GetFails
<1>5. CASE ScanRetries
  <2>1. /\ rpc = "scanfile" /\ held' = { f \in index : f.key \in rkey }
        /\ rpc' = (IF held' = {} THEN "done" ELSE "scanagain")
        /\ UNCHANGED <<index, rkey, entries, found>> /\ Observe
    BY <1>5 DEF ScanRetries
  <2>2. \A f \in held' : f.seq \in shown'
    BY <1>0, <2>1, LoadedIsShown
  <2>3. entries = {} /\ shown \subseteq shown'
    BY <2>1, ShownGrows
  <2> QED BY <2>1, <2>2, <2>3
<1>6. CASE ScanGivesUp
  BY <1>6, ShownGrows DEF ScanGivesUp
<1>7. ASSUME NEW f \in entries, VisitStamp(f) PROVE ReadFits'
  <2>1. /\ rpc = "range" /\ entries' = entries \ {f}
        /\ \/ found' = IF f \in index THEN {f} ELSE found
           \/ UNCHANGED found
        /\ UNCHANGED <<index, rpc, rkey, held>> /\ Observe
    BY <1>7 DEF VisitStamp
  <2>2. f \in index => f.seq \in shown'
    BY <1>0, <2>1, LoadedIsShown
  <2>3. shown \subseteq shown'
    BY <2>1, ShownGrows
  <2> QED BY <2>1, <2>2, <2>3
<1> QED BY <1>1, <1>2, <1>3, <1>4, <1>5, <1>6, <1>7 DEF Reader

\* After the end of a read nothing of it is left.
LEMMA EndKeepsReadFits ==
  ASSUME ReadFits, EndRead
  PROVE  ReadFits'
BY DEF ReadFits, EndRead, ReadOver

-----------------------------------------------------------------------------
(* Files.                                                                  *)

\* The segment that is being removed is one of those listed.
LEMMA VictimIsListed ==
  ASSUME ChargeInv, victims # {}
  PROVE  Victim \in victims /\ Victim \in segs /\ Victim \in Nat
<1>1. Victim \in victims
  BY LeastMember DEF Victim, ChargeInv, LiveTypeOK
<1> QED BY <1>1 DEF ChargeInv, LiveTypeOK, KeeperFits

\* What compaction adds to the files are copies of entries.
LEMMA CopyAdds ==
  ASSUME ChargeInv, CopyLive
  PROVE  /\ mpc = "collect" /\ segs' \in {segs, segs \cup {nextCompact}} /\ files \subseteq files'
         /\ \A h \in files' \ files : /\ h.seg = nextCompact /\ h.seg \in segs'
                                      /\ \E c \in index : h.seq = c.seq /\ h.key = c.key
                                                          /\ h.del = c.del
         /\ UNCHANGED <<active, nextSeg, now, indexes, flusher, history>>
         /\ mpc' = "swap" \/ (mpc' = "idle" /\ victims' = {} /\ picked' = {})
<1>1. PICK C \in SUBSET index : /\ files' = files \cup { CopyOf(f) : f \in C }
                                /\ C # {} => nextCompact \in segs'
  BY CopyCases
<1>2. ASSUME NEW c \in C
      PROVE  /\ CopyOf(c).seg = nextCompact /\ CopyOf(c).seq = c.seq
             /\ CopyOf(c).key = c.key /\ CopyOf(c).del = c.del
  BY CopiesAreFrames DEF ChargeInv, LiveTypeOK
<1> HIDE DEF CopyOf
<1>3. \A h \in files' \ files : /\ h.seg = nextCompact /\ h.seg \in segs'
                                /\ \E c \in index : h.seq = c.seq /\ h.key = c.key
                                                    /\ h.del = c.del
  BY <1>1, <1>2
<1>4. /\ mpc = "collect" /\ segs' \in {segs, segs \cup {nextCompact}} /\ files \subseteq files'
      /\ UNCHANGED <<active, nextSeg, now, indexes, flusher, history>>
  BY <1>1, CopyCases
<1>5. mpc' = "swap" \/ (mpc' = "idle" /\ victims' = {} /\ picked' = {})
  BY CopyCases
<1> QED BY <1>3, <1>4, <1>5

\* When all of them could be copied, the pass goes on with the list of them.
LEMMA CopyIsWhole ==
  ASSUME ChargeInv, CopyLive, mpc' = "swap"
  PROVE  /\ sources' = { f \in index : f.seg # mark.active }
         /\ \A f \in sources' : CopyOf(f) \in files'
         /\ nextCompact \in segs' /\ UNCHANGED <<mark, victims, todo, picked, nextCompact>>
<1> DEFINE live == { f \in index : f.seg # mark.active }
<1>1. PICK copied \in SUBSET live :
        /\ \/ files' = files \cup { CopyOf(f) : f \in copied }
           \/ copied = {} /\ UNCHANGED files
        /\ \/ /\ copied = live /\ nextCompact \in segs'
              /\ mpc' = "swap" /\ sources' = live
              /\ UNCHANGED <<mark, victims, todo, picked, nextCompact>>
           \/ Done
  BY DEF CopyLive
<1> HIDE DEF live
<1>2. /\ copied = live /\ sources' = live /\ nextCompact \in segs'
      /\ UNCHANGED <<mark, victims, todo, picked, nextCompact>>
  BY <1>1 DEF Done
<1>3. ASSUME NEW f \in sources' PROVE CopyOf(f) \in files'
  <2>1. f \in copied
    BY <1>2, <1>3
  <2>2. files' = files \cup { CopyOf(g) : g \in copied }
    BY <1>1, <2>1
  <2> QED BY <2>1, <2>2
<1> QED BY <1>2, <1>3 DEF live

\* The flusher writes the newest frame of all, into the active segment.
LEMMA FlusherKeepsFilesFit ==
  ASSUME ChargeInv, FilesFit, Flusher
  PROVE  FilesFit'
<1> USE DEF FilesFit, storage, indexes, keeper
<1>0. /\ \A f \in files : f.seq \in Nat /\ f.seg \in Nat
      /\ frame.seq \in Nat /\ active \in Nat /\ nextSeg \in Nat
  BY DEF ChargeInv, LiveTypeOK, Frame
<1>1. ASSUME NEW w \in Writes, Receive(w) PROVE FilesFit'
  <2>1. /\ \/ active' = nextSeg /\ segs' = segs \cup {nextSeg}
           \/ UNCHANGED <<active, segs>>
        /\ frame'.seq = frame.seq + 1 /\ frame.seq < MaxSeq /\ fpc' = "write"
        /\ UNCHANGED files
    BY <1>1, ReceiveCases
  <2>2. \A f \in files : f.seg \in segs' /\ f.seq < frame'.seq /\ f.seq <= frame'.seq
    BY <1>0, <2>1
  <2>3. ASSUME NEW t \in files, NEW f \in files, t.del, f.seg = active', t.seg # active'
        PROVE  t.seq < f.seq
    <3>1. CASE active' = nextSeg
      <4>1. f.seg <= active \/ f.seg >= CompactionBase
        BY DEF ChargeInv, IdsFit
      <4>2. nextSeg = active + 1 /\ active + 1 < CompactionBase
        BY <1>0, <2>1, LiveIndexAssumption DEF ChargeInv, IdsFit
      <4> QED BY <1>0, <2>3, <3>1, <4>1, <4>2, LiveIndexAssumption
    <3>2. CASE active' = active
      BY <2>3, <3>2
    <3> QED BY <2>1, <3>1, <3>2
  <2> QED BY <2>1, <2>2, <2>3
<1>2. CASE Write
  <2>1. frame'.seq = frame.seq /\ frame'.seg = active
    BY <1>2 DEF Write, Written, ChargeInv, LiveTypeOK, Frame
  <2>2. /\ files' = (IF active \in segs THEN files \cup {frame'} ELSE files)
        /\ fpc = "write" /\ fpc' \in {"remove", "insert"} /\ UNCHANGED <<segs, active>>
    BY <1>2 DEF Write
  <2>3. \A f \in files' : f.seg \in segs' /\ f.seq <= frame'.seq
    BY <1>0, <2>1, <2>2
  <2>4. \A f \in files' : f = frame' \/ f.seq < frame'.seq
    BY <2>1, <2>2
  <2>5. \A t, f \in files' : t.del /\ f.seg = active' /\ t.seg # active' => t.seq < f.seq
    BY <1>0, <2>1, <2>2
  <2> QED BY <2>2, <2>3, <2>4, <2>5
<1>3. CASE InsertPointer
  BY <1>3 DEF InsertPointer
<1>4. CASE Stamp
  BY <1>4 DEF Stamp
<1>5. CASE RemovePointer
  BY <1>5 DEF RemovePointer
<1> QED BY <1>1, <1>2, <1>3, <1>4, <1>5 DEF Flusher

\* Maintenance removes files with their segments, and copies what is older.
LEMMA KeeperKeepsFilesFit ==
  ASSUME ChargeInv, FilesFit, Keeper
  PROVE  FilesFit'
<1> USE DEF FilesFit, storage, indexes, flusher
<1>1. CASE CopyLive
  <2>1. /\ segs \subseteq segs' /\ files \subseteq files'
        /\ \A h \in files' \ files : /\ h.seg = nextCompact /\ h.seg \in segs'
                                     /\ \E c \in index : h.seq = c.seq /\ h.key = c.key
                                                         /\ h.del = c.del
        /\ UNCHANGED <<active, index, fpc, frame>>
    BY <1>1, CopyAdds
  <2>2. active # nextCompact
    BY LiveIndexAssumption DEF ChargeInv, LiveTypeOK, IdsFit
  <2>3. \A c \in index : /\ c.seq <= frame.seq /\ ~c.del
                         /\ fpc \in {"write", "insert", "remove"} => c.seq < frame.seq
    BY DEF ChargeInv, IndexFits
  <2>4. \A h \in files' \ files : /\ h.seg = nextCompact /\ h.seg \in segs' /\ h.seq <= frame.seq /\ ~h.del
                                  /\ fpc \in {"write", "insert", "remove"} => h.seq < frame.seq
    BY <2>1, <2>3
  <2>5. \A f \in files' : f.seg \in segs' /\ f.seq <= frame.seq
    BY <2>1, <2>4
  <2>6. fpc = "write" => \A f \in files' : f.seq < frame.seq
    BY <2>1, <2>4
  <2>7. fpc \in {"insert", "remove"} => \A f \in files' : f = frame \/ f.seq < frame.seq
    BY <2>1, <2>4
  <2>8. \A t, f \in files' : t.del /\ f.seg = active /\ t.seg # active => t.seq < f.seq
    BY <2>1, <2>2, <2>4
  <2> QED BY <2>1, <2>5, <2>6, <2>7, <2>8
<1>2. CASE UnlinkExpired \/ UnlinkCompacted
  <2>1. /\ \/ segs' = segs \ {Victim} /\ files' = files \ InSeg(Victim)
           \/ UNCHANGED <<segs, files>>
        /\ UNCHANGED <<active, flusher>>
    BY <1>2, UnlinkCases DEF UnlinkCompacted
  <2> QED BY <2>1 DEF InSeg
<1>3. CASE UNCHANGED <<segs, files, active, flusher>>
  BY <1>3
<1> QED BY <1>1, <1>2, <1>3
   DEF Keeper, StartTask, ListSegments, KeepSegment, ExpireSegment, DropStamp, DropKey,
       EndRetention, LockIndexes, MoveStamp, MoveKey, UnlockIndexes, EndCompaction

-----------------------------------------------------------------------------
(* Passes.                                                                 *)

\* A rollover takes none of the ids of compacted segments.
LEMMA FlusherKeepsPassFits ==
  ASSUME ChargeInv, PassFits, Flusher
  PROVE  PassFits'
<1> USE DEF PassFits, storage, indexes, keeper
<1>1. ASSUME NEW w \in Writes, Receive(w) PROVE PassFits'
  <2>1. /\ \/ active' = nextSeg /\ segs' = segs \cup {nextSeg}
           \/ UNCHANGED <<active, segs>>
        /\ frame.seq < MaxSeq /\ UNCHANGED keeper
    BY <1>1, ReceiveCases
  <2>2. nextSeg < CompactionBase
    BY <2>1, LiveIndexAssumption DEF ChargeInv, LiveTypeOK, IdsFit
  <2>3. \A s \in segs' : s \in segs \/ s < CompactionBase
    BY <2>1, <2>2
  <2>4. CompactionBase \in Nat /\ segs' \subseteq Nat
    BY <1>1, FlusherKeepsTypes, LiveIndexAssumption DEF LiveTypeOK, Flusher
  <2>5. \A s \in segs' : s >= CompactionBase =>
                           s < nextCompact \/ (mpc \in Moving /\ s = nextCompact)
    BY <2>3, <2>4
  <2> QED BY <2>1, <2>5 DEF Moving
<1>2. CASE UNCHANGED <<segs, keeper>>
  BY <1>2 DEF Moving
<1> QED BY <1>1, <1>2 DEF Flusher, Write, InsertPointer, Stamp, RemovePointer

\* A pass begins and ends with nothing at hand.
LEMMA KeeperKeepsPassFits ==
  ASSUME ChargeInv, PassFits, Keeper
  PROVE  PassFits'
<1> USE DEF PassFits, storage, indexes, flusher, Moving
<1>0. nextCompact \in Nat /\ segs \subseteq Nat
  BY DEF ChargeInv, LiveTypeOK
<1>1. ASSUME NEW kind \in {"expire", "compact"}, StartTask(kind) PROVE PassFits'
  BY <1>1 DEF StartTask
<1>2. CASE ListSegments
  <2>1. /\ mpc \in {"expire", "compact"} /\ UNCHANGED <<segs, nextCompact>>
        /\ mpc' \in {"idle", "check", "collect"} /\ picked' = {}
        /\ mpc' = "idle" => victims' = {}
        /\ mpc' = "collect" => mark'.active \notin victims'
    BY <1>2, ListCases DEF ListSegments
  <2> QED BY <2>1
<1>3. CASE KeepSegment
  BY <1>3 DEF KeepSegment
<1>4. CASE ExpireSegment
  BY <1>4 DEF ExpireSegment
<1>5. ASSUME NEW k \in Keys, DropStamp(k) PROVE PassFits'
  BY <1>5 DEF DropStamp
<1>6. CASE DropKey
  BY <1>6 DEF DropKey
<1>7. CASE UnlinkExpired
  <2>1. /\ mpc = "drop" /\ segs' \subseteq segs /\ UNCHANGED nextCompact
        /\ \/ mpc' = "check" /\ UNCHANGED picked
           \/ mpc' = "idle" /\ victims' = {} /\ picked' = {}
    BY <1>7, UnlinkCases
  <2> QED BY <2>1
<1>8. CASE EndRetention
  BY <1>8 DEF EndRetention, Done
<1>9. CASE CopyLive
  <2>1. /\ mpc = "collect" /\ segs' \in {segs, segs \cup {nextCompact}}
        /\ \/ /\ mpc' = "swap" /\ nextCompact \in segs' /\ UNCHANGED <<mark, victims, picked, nextCompact>>
           \/ mpc' = "idle" /\ victims' = {} /\ picked' = {} /\ nextCompact' = nextCompact + 1
    BY <1>9, CopyCases
  <2>2. nextCompact \notin segs /\ victims \subseteq segs
    BY <1>0, <2>1 DEF ChargeInv, IdsFit, KeeperFits
  <2>3. CASE mpc' = "swap" /\ UNCHANGED <<mark, victims, picked, nextCompact>>
    <3>1. nextCompact' \in segs' \ victims'
      BY <2>1, <2>2, <2>3
    <3> QED BY <2>1, <2>3, <3>1
  <2>4. CASE mpc' = "idle" /\ victims' = {} /\ picked' = {} /\ nextCompact' = nextCompact + 1
    BY <1>0, <2>1, <2>4
  <2> QED BY <2>1, <2>3, <2>4
<1>10. CASE LockIndexes
  BY <1>10 DEF LockIndexes
<1>11. ASSUME NEW f \in sources, MoveStamp(f) PROVE PassFits'
  BY <1>11 DEF MoveStamp
<1>12. CASE MoveKey
  BY <1>12 DEF MoveKey
<1>13. CASE UnlockIndexes
  BY <1>0, <1>13 DEF UnlockIndexes
<1>14. CASE UnlinkCompacted
  BY <1>14 DEF UnlinkCompacted
<1>15. CASE EndCompaction
  BY <1>15 DEF EndCompaction, Done
<1> QED BY <1>1, <1>2, <1>3, <1>4, <1>5, <1>6, <1>7, <1>8, <1>9, <1>10, <1>11,
           <1>12, <1>13, <1>14, <1>15 DEF Keeper

-----------------------------------------------------------------------------
(* Timestamp entries.                                                      *)

\* An entry loses its timestamp entry only while somebody works on it.
LEMMA FlusherKeepsStampsCover ==
  ASSUME ChargeInv, StampsCover, Flusher
  PROVE  StampsCover'
<1> USE DEF storage, indexes, keeper
<1>0. IndexFits /\ index \subseteq Frame
  BY DEF ChargeInv, LiveTypeOK
<1>1. ASSUME NEW w \in Writes, Receive(w) PROVE StampsCover'
  <2>1. fpc = "idle" /\ fpc' = "write" /\ UNCHANGED <<index, stamps, keeper>>
    BY <1>1, ReceiveCases
  <2>2. Settled' = Settled
    BY <2>1 DEF Settled, CopyOf
  <2> QED BY <2>1, <2>2 DEF StampsCover, Unstamped
<1>2. CASE Write
  <2>1. /\ stamps' = stamps \ { f \in stamps : \E g \in Entry(index, frame.key) : f.seq = g.seq }
        /\ fpc = "write" /\ fpc' \in {"remove", "insert"} /\ UNCHANGED <<index, keeper>>
    BY <1>2 DEF Write
  <2>2. frame'.key = frame.key
    BY <1>2 DEF Write, Written, ChargeInv, LiveTypeOK, Frame
  <2>3. mpc # "movekey" /\ mpc' # "movekey"
    BY <2>1 DEF ChargeInv, KeeperFits
  <2>4. ASSUME NEW f \in index, f \notin stamps' PROVE Unstamped(f)'
    <3>1. CASE f \in stamps
      <4>1. PICK g \in index : g.key = frame.key /\ f.seq = g.seq
        BY <2>1, <2>4, <3>1 DEF Entry
      <4>2. f.key = frame.key
        BY <1>0, <4>1 DEF IndexFits
      <4> QED BY <2>1, <2>2, <4>2 DEF Unstamped
    <3>2. CASE f \notin stamps
      <4>1. Unstamped(f)
        BY <2>3, <2>4, <3>2 DEF StampsCover, Settled
      <4> QED BY <2>1, <4>1 DEF Unstamped
    <3> QED BY <3>1, <3>2
  <2> QED BY <2>1, <2>3, <2>4 DEF StampsCover, Settled
<1>3. CASE InsertPointer
  <2>1. /\ index' = (index \ Entry(index, frame.key)) \cup {frame}
        /\ fpc = "insert" /\ fpc' = "stamp" /\ UNCHANGED <<stamps, frame, keeper>>
    BY <1>3 DEF InsertPointer
  <2>2. mpc # "movekey" /\ mpc' # "movekey"
    BY <2>1 DEF ChargeInv, KeeperFits
  <2>3. ASSUME NEW f \in index', f \notin stamps PROVE Unstamped(f)'
    <3>1. CASE f = frame
      BY <2>1, <3>1 DEF Unstamped
    <3>2. CASE f # frame
      <4>1. f \in index /\ f.key # frame.key
        BY <2>1, <2>3, <3>2 DEF Entry
      <4>2. Unstamped(f)
        BY <2>2, <2>3, <4>1 DEF StampsCover, Settled
      <4> QED BY <2>1, <4>1, <4>2 DEF Unstamped
    <3> QED BY <3>1, <3>2
  <2> QED BY <2>1, <2>2, <2>3 DEF StampsCover, Settled
<1>4. CASE Stamp
  <2>1. /\ stamps' = stamps \cup {frame}
        /\ fpc = "stamp" /\ fpc' = "idle" /\ UNCHANGED <<index, frame, keeper>>
    BY <1>4 DEF Stamp
  <2>2. mpc # "movekey" /\ mpc' # "movekey"
    BY <2>1 DEF ChargeInv, KeeperFits
  <2>3. ASSUME NEW f \in index, f \notin stamps' PROVE Unstamped(f)'
    <3>1. Unstamped(f) /\ f # frame
      BY <2>1, <2>2, <2>3 DEF StampsCover, Settled
    <3> QED BY <2>1, <3>1 DEF Unstamped
  <2> QED BY <2>1, <2>2, <2>3 DEF StampsCover, Settled
<1>5. CASE RemovePointer
  <2>1. /\ index' = index \ Entry(index, frame.key)
        /\ fpc = "remove" /\ fpc' = "idle" /\ UNCHANGED <<stamps, frame, keeper>>
    BY <1>5 DEF RemovePointer
  <2>2. mpc # "movekey" /\ mpc' # "movekey"
    BY <2>1 DEF ChargeInv, KeeperFits
  <2>3. ASSUME NEW f \in index', f \notin stamps PROVE Unstamped(f)'
    <3>1. f \in index /\ f.key # frame.key
      BY <2>1, <2>3 DEF Entry
    <3>2. Unstamped(f)
      BY <2>2, <2>3, <3>1 DEF StampsCover, Settled
    <3> QED BY <2>1, <3>1, <3>2 DEF Unstamped
  <2> QED BY <2>1, <2>2, <2>3 DEF StampsCover, Settled
<1> QED BY <1>1, <1>2, <1>3, <1>4, <1>5 DEF Flusher

\* Nor does maintenance leave one without, whatever it removes or moves.
LEMMA KeeperKeepsStampsCover ==
  ASSUME ChargeInv, StampsCover, Keeper
  PROVE  StampsCover'
<1> USE DEF storage, indexes, flusher
<1>0. IndexFits /\ index \subseteq Frame
  BY DEF ChargeInv, LiveTypeOK
<1>1. CASE UNCHANGED <<index, stamps, fpc, frame>> /\ mpc \notin {"dropkey", "movekey"}
           /\ mpc' \notin {"dropkey", "movekey"}
  BY <1>1 DEF StampsCover, Settled, Unstamped
<1>2. ASSUME NEW k \in Keys, DropStamp(k) PROVE StampsCover'
  <2>1. /\ mpc = "drop" /\ picked' = Entry(index, k)
        /\ mpc' = (IF picked' = {} THEN "drop" ELSE "dropkey")
        /\ \/ stamps' = stamps \ { f \in stamps : \E g \in picked' : f.seq = g.seq }
           \/ UNCHANGED stamps
        /\ UNCHANGED <<index, fpc, frame>>
    BY <1>2 DEF DropStamp
  <2>2. ASSUME NEW f \in index, f \notin stamps' PROVE Unstamped(f)'
    <3>1. CASE f \in stamps
      <4>1. PICK g \in picked' : f.seq = g.seq
        BY <2>1, <2>2, <3>1
      <4>2. f = g
        BY <1>0, <2>1, <4>1 DEF Entry, IndexFits
      <4> QED BY <2>1, <4>2 DEF Unstamped
    <3>2. CASE f \notin stamps
      <4>1. Unstamped(f)
        BY <2>1, <2>2, <3>2 DEF StampsCover, Settled
      <4> QED BY <2>1, <4>1 DEF Unstamped
    <3> QED BY <3>1, <3>2
  <2> QED BY <2>1, <2>2 DEF StampsCover, Settled
<1>3. CASE DropKey
  <2>1. PICK g \in picked : picked = {g}
    BY <1>3 DEF DropKey, ChargeInv, KeeperFits
  <2>2. (CHOOSE f \in picked : TRUE).key = g.key
    BY <2>1
  <2>3. /\ mpc = "dropkey" /\ mpc' = "drop" /\ index' = index \ Entry(index, g.key)
        /\ UNCHANGED <<stamps, fpc, frame>>
    BY <1>3, <2>2 DEF DropKey
  <2>4. ASSUME NEW f \in index', f \notin stamps PROVE Unstamped(f)'
    <3>1. f \in index /\ f # g
      BY <2>3, <2>4 DEF Entry
    <3>2. Unstamped(f)
      BY <2>3, <2>4, <3>1 DEF StampsCover, Settled
    <3> QED BY <2>1, <2>3, <3>1, <3>2 DEF Unstamped
  <2> QED BY <2>3, <2>4 DEF StampsCover, Settled
<1>4. ASSUME NEW f \in sources, MoveStamp(f) PROVE StampsCover'
  <2>1. mpc = "movestamp" /\ fpc = "idle" /\ UNCHANGED <<index, fpc, frame>>
    BY <1>4 DEF MoveStamp, ChargeInv, KeeperFits
  <2>2. index \subseteq stamps
    BY <2>1 DEF StampsCover, Settled, Unstamped
  <2>3. CASE f \in index
    <3>1. /\ stamps' = { g \in stamps : g.seq # f.seq } \cup {CopyOf(f)}
          /\ mpc' = "movekey" /\ picked' = {f} /\ UNCHANGED nextCompact
      BY <1>4, <2>3 DEF MoveStamp
    <3>2. CopyOf(f)' = CopyOf(f)
      BY <3>1 DEF CopyOf
    <3> HIDE DEF CopyOf
    <3>3. Settled' = (index \ {f}) \cup {CopyOf(f)}
      BY <2>1, <3>1, <3>2 DEF Settled
    <3>4. \A g \in index \ {f} : g \in stamps'
      BY <1>0, <2>2, <2>3, <3>1 DEF IndexFits
    <3> QED BY <3>1, <3>3, <3>4 DEF StampsCover
  <2>4. CASE f \notin index
    <3>1. UNCHANGED <<stamps, mpc>>
      BY <1>4, <2>4 DEF MoveStamp
    <3> QED BY <1>1, <2>1, <3>1
  <2> QED BY <2>3, <2>4
<1>5. CASE MoveKey
  <2>1. /\ mpc = "movekey" /\ mpc' = "movestamp" /\ index' = Settled
        /\ UNCHANGED <<stamps, fpc, frame>>
    BY <1>5 DEF MoveKey, Settled
  <2> QED BY <2>1 DEF StampsCover, Settled, Unstamped
<1>6. CASE ListSegments \/ CopyLive
  <2>1. /\ mpc \in {"expire", "compact", "collect"} /\ mpc' \in {"idle", "check", "collect", "swap"}
        /\ UNCHANGED <<index, stamps, fpc, frame>>
    BY <1>6, ListCases, CopyCases DEF ListSegments
  <2> QED BY <1>1, <2>1
<1>7. ASSUME NEW kind \in {"expire", "compact"}, StartTask(kind) PROVE StampsCover'
  BY <1>1, <1>7 DEF StartTask
<1> QED BY <1>1, <1>2, <1>3, <1>4, <1>5, <1>6, <1>7
   DEF Keeper, KeepSegment, ExpireSegment, UnlinkExpired, EndRetention, Done, LockIndexes,
       UnlockIndexes, UnlinkCompacted, EndCompaction

-----------------------------------------------------------------------------
(* Ages.                                                                   *)

\* The frame that is being applied was written later than all acknowledged ones.
LEMMA FlusherKeepsAgesFit ==
  ASSUME ChargeInv, AgesFit, Flusher
  PROVE  AgesFit'
<1> USE DEF storage, indexes, keeper
<1>0. /\ \A f \in index : f.seq \in Nat /\ f.ts \in Nat
      /\ \A f \in newest : f.seq \in Nat /\ f.ts \in Nat
      /\ frame.seq \in Nat /\ now \in Nat
      /\ fpc # "idle" => frame \in Frame /\ frame.ts \in Nat
  BY DEF ChargeInv, LiveTypeOK, AgesFit, Frame
<1>1. ASSUME NEW w \in Writes, Receive(w) PROVE AgesFit'
  <2>1. frame'.seq = frame.seq + 1 /\ fpc' = "write" /\ UNCHANGED <<now, index, newest>>
    BY <1>1, ReceiveCases DEF history
  <2>2. \A f \in newest : f.seq <= frame'.seq
    BY <1>0, <2>1 DEF AgesFit
  <2> QED BY <2>1, <2>2 DEF AgesFit
<1>2. CASE Write
  <2>1. frame'.seq = frame.seq /\ frame'.ts = now
    BY <1>2 DEF Write, Written, ChargeInv, LiveTypeOK, Frame
  <2>2. fpc' \in {"remove", "insert"} /\ UNCHANGED <<now, index, newest>>
    BY <1>2 DEF Write, history
  <2> QED BY <1>0, <2>1, <2>2 DEF AgesFit
<1>3. CASE InsertPointer
  <2>1. /\ index' = (index \ Entry(index, frame.key)) \cup {frame}
        /\ fpc = "insert" /\ fpc' = "stamp" /\ UNCHANGED <<frame, now, newest>>
    BY <1>3 DEF InsertPointer, history
  <2>2. \A f \in index : f.seq # frame.seq
    BY <1>0, <2>1 DEF ChargeInv, IndexFits
  <2>3. \A f \in index' : f.seq = frame.seq => f = frame
    BY <2>1, <2>2
  <2>4. \A f \in newest, g \in index' : f.key = g.key /\ f.seq <= g.seq => f.ts <= g.ts
    BY <2>1 DEF AgesFit
  <2> QED BY <2>1, <2>3, <2>4 DEF AgesFit
<1>4. CASE Stamp
  <2>1. /\ newest' = { f \in newest : f.key # frame.key } \cup {frame}
        /\ fpc = "stamp" /\ fpc' = "idle" /\ UNCHANGED <<frame, now, index>>
    BY <1>4 DEF Stamp, Acknowledged
  <2>2. frame \in Frame
    BY <1>0, <2>1
  <2>3. \A g \in index : frame.seq <= g.seq => g = frame
    <3>1. \A g \in index : g.seq <= frame.seq
      BY DEF ChargeInv, IndexFits
    <3>2. \A g \in index : g.seq = frame.seq => g = frame
      BY <2>1 DEF AgesFit
    <3> QED BY <1>0, <3>1, <3>2
  <2>4. \A f \in newest', g \in index : f.key = g.key /\ f.seq <= g.seq => f.ts <= g.ts
    BY <1>0, <2>1, <2>3 DEF AgesFit
  <2>5. \A f \in newest' : f.seq <= frame.seq /\ f.ts <= now
    BY <1>0, <2>1 DEF AgesFit
  <2> QED BY <2>1, <2>2, <2>4, <2>5 DEF AgesFit
<1>5. CASE RemovePointer
  <2>1. /\ newest' = { f \in newest : f.key # frame.key } \cup {frame}
        /\ index' = index \ Entry(index, frame.key)
        /\ fpc = "remove" /\ fpc' = "idle" /\ UNCHANGED <<frame, now>>
    BY <1>5 DEF RemovePointer, Acknowledged
  <2>2. frame \in Frame
    BY <1>0, <2>1
  <2>4. \A f \in newest', g \in index' : f.key = g.key /\ f.seq <= g.seq => f.ts <= g.ts
    BY <2>1 DEF AgesFit, Entry
  <2>5. \A f \in newest' : f.seq <= frame.seq /\ f.ts <= now
    BY <1>0, <2>1 DEF AgesFit
  <2> QED BY <2>1, <2>2, <2>4, <2>5 DEF AgesFit
<1> QED BY <1>1, <1>2, <1>3, <1>4, <1>5 DEF Flusher

\* A copy is as old as its original.
LEMMA KeeperKeepsAgesFit ==
  ASSUME ChargeInv, AgesFit, Keeper
  PROVE  AgesFit'
<1> USE DEF storage, indexes, flusher
<1>1. CASE MoveKey
  <2>1. PICK f \in index : picked = {f}
    BY <1>1 DEF MoveKey, ChargeInv, KeeperFits
  <2>2. CopyOf(f).seq = f.seq /\ CopyOf(f).key = f.key /\ CopyOf(f).ts = f.ts
    BY CopiesAreFrames DEF ChargeInv, LiveTypeOK
  <2>3. /\ index' = (index \ {f}) \cup {CopyOf(f)} /\ fpc = "idle"
        /\ UNCHANGED <<fpc, frame, now, newest>>
    BY <1>1, <2>1 DEF MoveKey, ChargeInv, KeeperFits, history
  <2> HIDE DEF CopyOf
  <2>4. \A h \in newest, g \in index' : h.key = g.key /\ h.seq <= g.seq => h.ts <= g.ts
    BY <2>2, <2>3 DEF AgesFit
  <2> QED BY <2>3, <2>4 DEF AgesFit
<1>2. CASE index' \subseteq index /\ UNCHANGED <<fpc, frame, now, newest>>
  BY <1>2 DEF AgesFit
<1> QED BY <1>1, <1>2
   DEF Keeper, StartTask, ListSegments, KeepSegment, ExpireSegment, DropStamp, DropKey,
       UnlinkExpired, EndRetention, CopyLive, LockIndexes, MoveStamp, UnlockIndexes,
       UnlinkCompacted, EndCompaction, history

-----------------------------------------------------------------------------
(* Places.                                                                 *)

\* A new frame is put into the active segment, which no pass removes.
LEMMA FlusherKeepsPlacesFit ==
  ASSUME ChargeInv, PassFits, PlacesFit, Flusher
  PROVE  PlacesFit'
<1> USE DEF storage, indexes, keeper
<1>1. ASSUME NEW w \in Writes, Receive(w) PROVE PlacesFit'
  <2>1. /\ \/ active' = nextSeg /\ segs' = segs \cup {nextSeg}
           \/ UNCHANGED <<active, segs>>
        /\ frame.seq < MaxSeq /\ UNCHANGED <<files, index, keeper>>
    BY <1>1, ReceiveCases
  <2>2. nextSeg \notin segs
    BY <2>1, LiveIndexAssumption DEF ChargeInv, LiveTypeOK, IdsFit
  <2>3. active' \in segs' \ victims
    BY <2>1, <2>2 DEF PlacesFit, ChargeInv, KeeperFits
  <2>4. Victim' = Victim /\ FullyExpired(Victim)' = FullyExpired(Victim)
    BY <2>1 DEF Victim, FullyExpired, InSeg
  <2> QED BY <2>1, <2>3, <2>4 DEF PlacesFit, Moving, CopyOf
<1>2. CASE Write
  <2>1. frame'.seg = active
    BY <1>2 DEF Write, Written, ChargeInv, LiveTypeOK, Frame
  <2>2. /\ files' \subseteq files \cup {frame'} /\ files \subseteq files'
        /\ UNCHANGED <<segs, active, index, keeper>>
    BY <1>2 DEF Write
  <2>3. Victim' = Victim
    BY <2>2 DEF Victim
  <2>4. mpc \in {"drop", "dropkey"} => FullyExpired(Victim)'
    <3>1. ASSUME mpc \in {"drop", "dropkey"} PROVE FullyExpired(Victim)'
      <4>1. Victim # active
        BY <3>1, VictimIsListed DEF PlacesFit, ChargeInv, KeeperFits
      <4>2. InSeg(Victim)' = InSeg(Victim)
        BY <2>1, <2>2, <2>3, <4>1 DEF InSeg
      <4>3. FullyExpired(Victim)
        BY <3>1 DEF PlacesFit
      <4> QED BY <2>2, <2>3, <4>2, <4>3 DEF FullyExpired
    <3> QED BY <3>1
  <2> QED BY <2>2, <2>3, <2>4 DEF PlacesFit, Moving, CopyOf
<1>3. CASE InsertPointer
  <2>1. /\ fpc = "insert" /\ index' \subseteq index \cup {frame}
        /\ UNCHANGED <<segs, files, active, keeper>>
    BY <1>3 DEF InsertPointer
  <2>2. frame \in files /\ frame.seg = active /\ active \notin victims
    BY <2>1 DEF PlacesFit, ChargeInv, IndexFits
  <2>3. Victim' = Victim /\ FullyExpired(Victim)' = FullyExpired(Victim)
    BY <2>1 DEF Victim, FullyExpired, InSeg
  <2>4. mpc \in {"drop", "dropkey"} => frame.seg # Victim
    BY <2>2, VictimIsListed DEF ChargeInv, KeeperFits
  <2> QED BY <2>1, <2>2, <2>3, <2>4 DEF PlacesFit, Moving, CopyOf
<1>4. CASE Stamp \/ RemovePointer
  <2>1. index' \subseteq index /\ UNCHANGED <<segs, files, active, keeper>>
    BY <1>4 DEF Stamp, RemovePointer
  <2>2. Victim' = Victim /\ FullyExpired(Victim)' = FullyExpired(Victim)
    BY <2>1 DEF Victim, FullyExpired, InSeg
  <2> QED BY <2>1, <2>2 DEF PlacesFit, Moving, CopyOf
<1> QED BY <1>1, <1>2, <1>3, <1>4 DEF Flusher

\* A pass removes a segment only when no entry points into it any more.
LEMMA KeeperKeepsPlacesFit ==
  ASSUME ChargeInv, PassFits, FilesFit, PlacesFit, Keeper, NotRaced'
  PROVE  PlacesFit'
<1> USE DEF storage, indexes, flusher
<1>1. ASSUME NEW kind \in {"expire", "compact"}, StartTask(kind) PROVE PlacesFit'
  BY <1>1 DEF StartTask, PlacesFit, Moving
<1>2. CASE ListSegments
  <2>1. mark.active = active
    BY <1>2 DEF ListSegments, NotRaced
  <2>2. /\ mpc' \in {"idle", "check", "collect"} /\ UNCHANGED <<segs, files, active, index>>
        /\ victims' \in {{}, segs \ {active}}
    BY <1>2, <2>1, ListCases DEF ListSegments
  <2> QED BY <2>2 DEF PlacesFit, Moving
<1>3. CASE KeepSegment
  BY <1>3 DEF KeepSegment, PlacesFit, Moving
<1>4. CASE ExpireSegment
  <2>1. /\ mpc' = "drop" /\ FullyExpired(Victim)
        /\ todo' = { f.key : f \in { g \in index : g.seg = Victim } }
        /\ UNCHANGED <<segs, files, active, index, victims, mark>>
    BY <1>4 DEF ExpireSegment
  <2>2. Victim' = Victim /\ FullyExpired(Victim)' = FullyExpired(Victim)
    BY <2>1 DEF Victim, FullyExpired, InSeg
  <2> QED BY <2>1, <2>2 DEF PlacesFit, Moving
<1>5. ASSUME NEW k \in Keys, DropStamp(k) PROVE PlacesFit'
  <2>1. /\ mpc = "drop" /\ todo' = todo \ {k} /\ picked' = Entry(index, k)
        /\ mpc' \in {"drop", "dropkey"}
        /\ UNCHANGED <<segs, files, active, index, victims, mark>>
    BY <1>5 DEF DropStamp
  <2>2. Victim' = Victim /\ FullyExpired(Victim)' = FullyExpired(Victim)
    BY <2>1 DEF Victim, FullyExpired, InSeg
  <2>3. picked = {}
    BY <2>1 DEF PassFits
  <2> QED BY <2>1, <2>2, <2>3 DEF PlacesFit, Moving, Entry
<1>6. CASE DropKey
  <2>1. PICK g \in picked : picked = {g}
    BY <1>6 DEF DropKey, ChargeInv, KeeperFits
  <2>2. (CHOOSE f \in picked : TRUE).key = g.key
    BY <2>1
  <2>3. /\ mpc = "dropkey" /\ mpc' = "drop" /\ index' = index \ Entry(index, g.key)
        /\ UNCHANGED <<segs, files, active, victims, todo, mark>>
    BY <1>6, <2>2 DEF DropKey
  <2>4. Victim' = Victim /\ FullyExpired(Victim)' = FullyExpired(Victim)
    BY <2>3 DEF Victim, FullyExpired, InSeg
  <2> QED BY <2>1, <2>3, <2>4 DEF PlacesFit, Moving, Entry
<1>7. CASE UnlinkExpired
  <2>1. mpc = "drop" /\ todo = {} /\ UNCHANGED <<active, index>>
    BY <1>7, UnlinkCases
  <2>2. picked = {} /\ Victim \in victims
    BY <2>1, VictimIsListed DEF PassFits, ChargeInv, KeeperFits
  <2>3. \A f \in index : f.seg # Victim
    BY <2>1, <2>2 DEF PlacesFit
  <2>4. CASE /\ mpc' = "check" /\ victims' = victims \ {Victim}
             /\ segs' = segs \ {Victim} /\ files' = files \ InSeg(Victim)
    BY <2>1, <2>2, <2>3, <2>4 DEF PlacesFit, Moving, InSeg
  <2>5. CASE mpc' = "idle" /\ victims' = {} /\ UNCHANGED <<segs, files>>
    BY <2>1, <2>5 DEF PlacesFit, Moving
  <2> QED BY <1>7, <2>4, <2>5, UnlinkCases
<1>8. CASE EndRetention
  BY <1>8 DEF EndRetention, Done, PlacesFit, Moving
<1>9. CASE CopyLive
  <2>1. /\ mpc = "collect" /\ segs \subseteq segs' /\ files \subseteq files'
        /\ mpc' = "swap" \/ (mpc' = "idle" /\ victims' = {})
        /\ UNCHANGED <<active, index>>
    BY <1>9, CopyAdds
  <2>2. CASE mpc' = "swap"
    <3>1. /\ sources' = { f \in index : f.seg # mark.active }
          /\ \A f \in sources' : CopyOf(f) \in files'
          /\ UNCHANGED <<victims, nextCompact>>
      BY <1>9, <2>2, CopyIsWhole
    <3>2. mark.active \notin victims
      BY <2>1 DEF PassFits
    <3> HIDE DEF CopyOf
    <3>3. \A f \in sources' : CopyOf(f)' \in files'
      BY <3>1 DEF CopyOf
    <3> QED BY <2>1, <2>2, <3>1, <3>2, <3>3 DEF PlacesFit, Moving
  <2>3. CASE mpc' = "idle" /\ victims' = {}
    BY <2>1, <2>3 DEF PlacesFit, Moving
  <2> QED BY <2>1, <2>2, <2>3
<1>10. CASE LockIndexes
  BY <1>10 DEF LockIndexes, PlacesFit, Moving, CopyOf
<1>11. ASSUME NEW f \in sources, MoveStamp(f) PROVE PlacesFit'
  <2>1. /\ mpc = "movestamp" /\ mpc' \in {"movestamp", "movekey"}
        /\ sources' = sources \/ (f \notin index /\ sources' = sources \ {f})
        /\ UNCHANGED <<segs, files, active, index, victims, nextCompact>>
    BY <1>11 DEF MoveStamp
  <2> QED BY <2>1 DEF PlacesFit, Moving, CopyOf
<1>12. CASE MoveKey
  <2>1. PICK f \in index : picked = {f}
    BY <1>12 DEF MoveKey, ChargeInv, KeeperFits
  <2>2. /\ mpc = "movekey" /\ mpc' = "movestamp" /\ sources' = sources \ {f}
        /\ index' = (index \ {f}) \cup {CopyOf(f)}
        /\ UNCHANGED <<segs, files, active, victims, nextCompact>>
    BY <1>12, <2>1 DEF MoveKey
  <2>3. f \in sources /\ CopyOf(f) \in files
    BY <2>1, <2>2 DEF PassFits, PlacesFit, Moving
  <2>4. CopyOf(f).seg = nextCompact /\ nextCompact \notin victims
    BY <2>2, CopiesAreFrames DEF ChargeInv, LiveTypeOK, PassFits, Moving
  <2>5. \A h \in sources' : CopyOf(h)' \in files'
    BY <2>2 DEF PlacesFit, Moving, CopyOf
  <2> HIDE DEF CopyOf
  <2>6. \A h \in index' : h.seg \in victims => h \in sources'
    BY <2>2, <2>4 DEF PlacesFit, Moving
  <2>7. active' \in segs' \ victims' /\ index' \subseteq files'
    BY <2>2, <2>3 DEF PlacesFit
  <2> QED BY <2>2, <2>5, <2>6, <2>7 DEF PlacesFit, Moving
<1>13. CASE UnlockIndexes
  BY <1>13 DEF UnlockIndexes, PlacesFit, Moving
<1>14. CASE UnlinkCompacted
  <2>1. /\ mpc = "unlink" /\ mpc' = "unlink" /\ victims # {} /\ victims' = victims \ {Victim}
        /\ \/ segs' = segs \ {Victim} /\ files' = files \ InSeg(Victim)
           \/ UNCHANGED <<segs, files>>
        /\ UNCHANGED <<active, index>>
    BY <1>14 DEF UnlinkCompacted
  <2>2. Victim \in victims
    BY <2>1, VictimIsListed
  <2> QED BY <2>1, <2>2 DEF PlacesFit, Moving, InSeg
<1>15. CASE EndCompaction
  BY <1>15 DEF EndCompaction, Done, PlacesFit, Moving
<1> QED BY <1>1, <1>2, <1>3, <1>4, <1>5, <1>6, <1>7, <1>8, <1>9, <1>10, <1>11,
           <1>12, <1>13, <1>14, <1>15 DEF Keeper

-----------------------------------------------------------------------------
(* Newest frames.                                                          *)

\* The entry of a key is replaced by a newer frame, and then acknowledged.
LEMMA FlusherKeepsNewestFit ==
  ASSUME ChargeInv, AgesFit, NewestFit, Flusher
  PROVE  NewestFit'
<1> USE DEF storage, indexes, keeper
<1>1. ASSUME NEW w \in Writes, Receive(w) PROVE NewestFit'
  <2>1. fpc' = "write" /\ UNCHANGED <<now, index, newest>>
    BY <1>1, ReceiveCases DEF history
  <2> QED BY <2>1 DEF NewestFit, Expired
<1>2. CASE Write
  BY <1>2 DEF Write, NewestFit, Expired, history
<1>3. CASE InsertPointer
  <2>1. /\ index' = (index \ Entry(index, frame.key)) \cup {frame}
        /\ UNCHANGED <<frame, now, newest>>
    BY <1>3 DEF InsertPointer, history
  <2>2. ASSUME NEW f \in newest, ~f.del, ~Expired(f)
        PROVE  \E g \in index' : g.key = f.key /\ g.seq >= f.seq
    <3>1. CASE f.key = frame.key
      <4>1. f.seq <= frame.seq /\ f.seq \in Nat /\ frame.seq \in Nat
        BY DEF AgesFit, ChargeInv, LiveTypeOK, Frame
      <4>2. frame.seq >= f.seq
        BY <4>1
      <4> QED BY <2>1, <3>1, <4>2
    <3>2. CASE f.key # frame.key
      BY <2>1, <2>2, <3>2 DEF NewestFit, Entry
    <3> QED BY <3>1, <3>2
  <2>3. \A f \in newest' : ~f.del /\ ~Expired(f)' =>
                              \E g \in index' : g.key = f.key /\ g.seq >= f.seq
    BY <2>1, <2>2 DEF Expired
  <2> QED BY <2>1, <2>3 DEF NewestFit
<1>4. CASE Stamp
  <2>1. /\ newest' = { f \in newest : f.key # frame.key } \cup {frame}
        /\ fpc = "stamp" /\ fpc' = "idle" /\ UNCHANGED <<frame, now, index>>
    BY <1>4 DEF Stamp, Acknowledged
  <2>2. frame \in index /\ frame.seq >= frame.seq
    BY <2>1 DEF NewestFit, ChargeInv, LiveTypeOK
  <2> QED BY <2>1, <2>2 DEF NewestFit, Expired
<1>5. CASE RemovePointer
  <2>1. /\ newest' = { f \in newest : f.key # frame.key } \cup {frame}
        /\ index' = index \ Entry(index, frame.key)
        /\ fpc = "remove" /\ fpc' = "idle" /\ UNCHANGED <<frame, now>>
    BY <1>5 DEF RemovePointer, Acknowledged
  <2>2. frame.del
    BY <2>1 DEF ChargeInv, IndexFits
  <2> QED BY <2>1, <2>2 DEF NewestFit, Expired, Entry
<1> QED BY <1>1, <1>2, <1>3, <1>4, <1>5 DEF Flusher

\* A key that retention drops has no newer frame than those that have expired.
LEMMA KeeperKeepsNewestFit ==
  ASSUME ChargeInv, AgesFit, PlacesFit, NewestFit, Keeper, "stolen" \notin mishaps'
  PROVE  NewestFit'
<1> USE DEF storage, indexes, flusher
<1>1. CASE MoveKey
  <2>1. PICK f \in index : picked = {f}
    BY <1>1 DEF MoveKey, ChargeInv, KeeperFits
  <2>2. CopyOf(f).seq = f.seq /\ CopyOf(f).key = f.key
    BY CopiesAreFrames DEF ChargeInv, LiveTypeOK
  <2>3. /\ index' = (index \ {f}) \cup {CopyOf(f)} /\ fpc' = "idle"
        /\ UNCHANGED <<now, newest>>
    BY <1>1, <2>1 DEF MoveKey, ChargeInv, KeeperFits, history
  <2> HIDE DEF CopyOf
  <2>4. \A h \in newest : ~h.del /\ ~Expired(h) => \E g \in index' : g.key = h.key /\ g.seq >= h.seq
    BY <2>2, <2>3 DEF NewestFit
  <2> QED BY <2>3, <2>4 DEF NewestFit, Expired
<1>2. CASE DropKey
  <2>1. PICK g \in picked : picked = {g}
    BY <1>2 DEF DropKey, ChargeInv, KeeperFits
  <2>2. (CHOOSE f \in picked : TRUE).key = g.key
    BY <2>1
  <2>3. /\ mpc = "dropkey" /\ index' = index \ Entry(index, g.key)
        /\ UNCHANGED <<fpc, frame, now, newest>>
        /\ (\E f \in Entry(index, g.key) : f.seg # Victim \/ f \notin picked) =>
             "stolen" \in mishaps'
    BY <1>2, <2>2 DEF DropKey
  <2>4. \A f \in Entry(index, g.key) : f.seg = Victim
    BY <2>3
  <2>5. fpc = "stamp" => frame \in index'
    BY <2>3, <2>4 DEF NewestFit, ChargeInv, IndexFits, KeeperFits, Entry
  <2>6. FullyExpired(Victim) /\ index \subseteq files
    BY <2>3 DEF PlacesFit
  <2>7. ASSUME NEW f \in newest, ~f.del, ~Expired(f)
        PROVE  \E h \in index' : h.key = f.key /\ h.seq >= f.seq
    <3>1. PICK h \in index : h.key = f.key /\ h.seq >= f.seq
      BY <2>7 DEF NewestFit
    <3>2. ASSUME h \in Entry(index, g.key) PROVE FALSE
      <4>1. h \in InSeg(Victim) /\ ~h.del
        BY <2>4, <2>6, <3>2 DEF InSeg, ChargeInv, IndexFits
      <4>2. MaxAge[h.key] # 0 /\ h.ts < mark.now - MaxAge[h.key]
        BY <2>6, <4>1 DEF FullyExpired
      <4>3. mark.now <= now
        BY <2>3 DEF ChargeInv, KeeperFits
      <4>4. /\ h.ts \in Nat /\ f.ts \in Nat /\ mark.now \in Nat /\ now \in Nat
            /\ MaxAge[h.key] \in Nat /\ f.seq \in Nat /\ h.seq \in Nat
        BY <3>1, LiveIndexAssumption DEF ChargeInv, LiveTypeOK, AgesFit, Frame
      <4>5. f.ts <= h.ts
        BY <3>1, <4>4 DEF AgesFit
      <4>6. Expired(f)
        BY <3>1, <4>2, <4>3, <4>4, <4>5 DEF Expired
      <4> QED BY <2>7, <4>6
    <3> QED BY <2>3, <3>1, <3>2
  <2>8. \A f \in newest' : ~f.del /\ ~Expired(f)' =>
                              \E h \in index' : h.key = f.key /\ h.seq >= f.seq
    BY <2>3, <2>7 DEF Expired
  <2> QED BY <2>3, <2>5, <2>8 DEF NewestFit
<1>3. CASE UNCHANGED <<index, fpc, frame, now, newest>>
  BY <1>3 DEF NewestFit, Expired
<1> QED BY <1>1, <1>2, <1>3
   DEF Keeper, StartTask, ListSegments, KeepSegment, ExpireSegment, DropStamp,
       UnlinkExpired, EndRetention, CopyLive, LockIndexes, MoveStamp, UnlockIndexes,
       UnlinkCompacted, EndCompaction, history

\* Time only ages them.
LEMMA TimeKeepsNewestFit ==
  ASSUME ChargeInv, AgesFit, NewestFit, UNCHANGED <<index, fpc, frame, newest>>,
         now' \in Nat, now' >= now
  PROVE  NewestFit'
<1>1. ASSUME NEW f \in newest, ~Expired(f)' PROVE ~Expired(f)
  <2>1. f.ts \in Nat /\ now \in Nat /\ MaxAge[f.key] \in Nat
    BY LiveIndexAssumption DEF ChargeInv, LiveTypeOK, AgesFit, Frame
  <2> QED BY <1>1, <2>1 DEF Expired
<1> QED BY <1>1 DEF NewestFit

-----------------------------------------------------------------------------
(* The disk.                                                               *)

\* What the flusher writes it shows next; a tombstone it writes hides the key's
\* entry before that goes.
LEMMA FlusherKeepsDiskFits ==
  ASSUME ChargeInv, FilesFit, PlacesFit, DiskFits, Flusher
  PROVE  DiskFits'
<1> USE DEF storage, indexes, keeper, history, Left
<1>0. /\ \A f \in files : f.seq \in Nat
      /\ \A f \in index : f.seq \in Nat
      /\ frame.seq \in Nat
  BY DEF ChargeInv, LiveTypeOK, Frame
<1>1. ASSUME NEW w \in Writes, Receive(w) PROVE DiskFits'
  <2>1. fpc = "idle" /\ fpc' = "write" /\ UNCHANGED <<files, index, keeper, orphans>>
    BY <1>1, ReceiveCases
  <2>2. Victim' = Victim
    BY <2>1 DEF Victim
  <2> QED BY <2>1, <2>2 DEF DiskFits, Served, Buried, Coming, Going, InSeg, Compacting, Moving
<1>2. CASE Write
  <2>1. frame'.seg = active /\ frame'.seq = frame.seq /\ frame'.del = frame.del
    BY <1>2 DEF Write, Written, ChargeInv, LiveTypeOK, Frame
  <2>2. /\ fpc = "write" /\ fpc' = (IF frame.del THEN "remove" ELSE "insert")
        /\ files' = files \cup {frame'} /\ UNCHANGED <<index, keeper, orphans>>
    BY <1>2 DEF Write, PlacesFit
  <2>3. Victim' = Victim
    BY <2>2 DEF Victim
  <2>4. ASSUME NEW f \in files'
        PROVE  f.del \/ (Served(f) \/ Buried(f) \/ Coming(f) \/ Going(f) \/ Left(f))'
    <3>1. CASE f = frame'
      BY <2>1, <2>2, <3>1 DEF Coming
    <3>2. CASE f \in files
      <4>1. f.del \/ Served(f) \/ Buried(f) \/ Going(f) \/ Left(f)
        BY <2>2, <3>2 DEF DiskFits, Coming
      <4> QED BY <2>2, <2>3, <4>1 DEF Served, Buried, Going, InSeg
    <3> QED BY <2>2, <3>1, <3>2
  <2>5. \A g \in index, h \in files' : h.key = g.key /\ h.seq > g.seq => h = frame'
    BY <2>2 DEF DiskFits
  <2>6. mpc \in Compacting =>
          \A t, f \in files' : t.del /\ t.seg \in victims /\ f.key = t.key /\ f.seq < t.seq
                               => f.seg \in victims \/ f.seg \in orphans
    <3>1. active \notin victims
      BY DEF PlacesFit
    <3>2. \A t \in files : ~ (frame.seq < t.seq)
      BY <1>0, <2>2 DEF FilesFit
    <3> QED BY <2>1, <2>2, <3>1, <3>2 DEF DiskFits
  <2> QED BY <2>2, <2>4, <2>5, <2>6 DEF DiskFits, Compacting, Moving
<1>3. CASE InsertPointer
  <2>1. /\ index' = (index \ Entry(index, frame.key)) \cup {frame}
        /\ fpc = "insert" /\ fpc' = "stamp" /\ UNCHANGED <<files, frame, keeper, orphans>>
    BY <1>3 DEF InsertPointer
  <2>2. Victim' = Victim
    BY <2>1 DEF Victim
  <2>3. \A f \in files : f.seq <= frame.seq
    BY DEF FilesFit
  <2>4. ASSUME NEW f \in files
        PROVE  f.del \/ (Served(f) \/ Buried(f) \/ Coming(f) \/ Going(f) \/ Left(f))'
    <3>1. CASE Served(f) \/ Coming(f)
      <4>1. CASE f.key = frame.key
        <5>1. frame.seq >= f.seq
          BY <1>0, <2>3
        <5> QED BY <2>1, <4>1, <5>1 DEF Served
      <4>2. CASE f.key # frame.key
        BY <2>1, <3>1, <4>2 DEF Served, Coming, Entry
      <4> QED BY <4>1, <4>2
    <3>2. CASE f.del \/ Buried(f) \/ Going(f) \/ Left(f)
      BY <2>1, <2>2, <3>2 DEF Buried, Going, InSeg
    <3> QED BY <3>1, <3>2 DEF DiskFits
  <2>5. ASSUME NEW g \in index', NEW h \in files, h.key = g.key, h.seq > g.seq PROVE FALSE
    <3>1. CASE g = frame
      BY <1>0, <2>3, <2>5, <3>1
    <3>2. CASE g # frame
      <4>1. g \in index /\ g.key # frame.key
        BY <2>1, <3>2 DEF Entry
      <4> QED BY <2>5, <4>1 DEF DiskFits
    <3> QED BY <3>1, <3>2
  <2> QED BY <2>1, <2>4, <2>5 DEF DiskFits, Compacting, Moving
<1>4. CASE Stamp
  <2>1. /\ fpc = "stamp" /\ fpc' = "idle" /\ UNCHANGED <<index, files, keeper, orphans>>
    BY <1>4 DEF Stamp
  <2>2. Victim' = Victim
    BY <2>1 DEF Victim
  <2> QED BY <2>1, <2>2 DEF DiskFits, Served, Buried, Coming, Going, InSeg, Compacting, Moving
<1>5. CASE RemovePointer
  <2>1. /\ index' = index \ Entry(index, frame.key)
        /\ fpc = "remove" /\ fpc' = "idle" /\ UNCHANGED <<files, frame, keeper, orphans>>
    BY <1>5 DEF RemovePointer
  <2>2. Victim' = Victim
    BY <2>1 DEF Victim
  <2>3. frame \in files /\ frame.del
    BY <2>1 DEF PlacesFit, ChargeInv, IndexFits
  <2>4. ASSUME NEW f \in files
        PROVE  f.del \/ (Served(f) \/ Buried(f) \/ Coming(f) \/ Going(f) \/ Left(f))'
    <3>1. CASE Served(f)
      <4>1. PICK g \in index : g.key = f.key /\ g.seq >= f.seq
        BY <3>1 DEF Served
      <4>2. CASE g.key = frame.key
        <5>1. g.seq < frame.seq
          BY <2>1 DEF ChargeInv, IndexFits
        <5>2. frame.seq > f.seq
          BY <1>0, <4>1, <5>1
        <5> QED BY <2>1, <2>3, <4>1, <4>2, <5>2 DEF Buried
      <4>3. CASE g.key # frame.key
        BY <2>1, <4>1, <4>3 DEF Served, Entry
      <4> QED BY <4>2, <4>3
    <3>2. CASE f.del \/ Buried(f) \/ Going(f) \/ Left(f)
      BY <2>1, <2>2, <3>2 DEF Buried, Going, InSeg
    <3> QED BY <2>1, <3>1, <3>2 DEF DiskFits, Coming
  <2>5. ASSUME NEW g \in index', NEW h \in files, h.key = g.key, h.seq > g.seq PROVE FALSE
    <3>1. g \in index /\ g.key # frame.key
      BY <2>1 DEF Entry
    <3> QED BY <2>5, <3>1 DEF DiskFits
  <2> QED BY <2>1, <2>4, <2>5 DEF DiskFits, Compacting, Moving
<1> QED BY <1>1, <1>2, <1>3, <1>4, <1>5 DEF Flusher

\* Maintenance removes together a record and all that it hides.
LEMMA KeeperKeepsDiskFits ==
  ASSUME ChargeInv, FilesFit, PassFits, PlacesFit, DiskFits, Keeper, mishaps' = {}
  PROVE  DiskFits'
<1> USE DEF storage, indexes, flusher, history, Left
<1>0. /\ \A f \in files : f.seq \in Nat /\ f.seg \in Nat
      /\ \A f \in index : f.seq \in Nat
      /\ active \in Nat
  BY DEF ChargeInv, LiveTypeOK, Frame
<1>a. CASE /\ UNCHANGED <<index, files, fpc, frame, orphans>> /\ mpc' \notin Compacting
           /\ mpc \notin {"drop", "dropkey", "unlink"} \/ victims = {}
           /\ mpc \notin {"drop", "dropkey"}
  <2>1. \A f \in files : ~Going(f)
    BY <1>a DEF Going
  <2> QED BY <1>a, <2>1 DEF DiskFits, Served, Buried, Coming
<1>b. CASE /\ UNCHANGED <<index, files, fpc, frame, victims, orphans>>
           /\ mpc \in Compacting /\ mpc' \in Compacting /\ mpc # "unlink"
  <2>1. \A f \in files : ~Going(f)
    BY <1>b DEF Going, Compacting, Moving
  <2> QED BY <1>b, <2>1 DEF DiskFits, Served, Buried, Coming
<1>1. ASSUME NEW kind \in {"expire", "compact"}, StartTask(kind) PROVE DiskFits'
  BY <1>a, <1>1 DEF StartTask, Compacting, Moving
<1>2. CASE ListSegments
  <2>1. mark.active = active
    BY <1>2 DEF ListSegments
  <2>2. /\ mpc \in {"expire", "compact"} /\ mpc' \in {"idle", "check", "collect"}
        /\ mpc' = "collect" => victims' = segs \ {active}
        /\ UNCHANGED <<index, files, segs, fpc, frame, active, orphans>>
    BY <1>2, <2>1, ListCases DEF ListSegments
  <2>3. CASE mpc' = "collect"
    <3>1. \A t, f \in files : t.del /\ t.seg \in victims' /\ f.key = t.key /\ f.seq < t.seq
                              => f.seg \in victims'
      <4>1. \A f \in files : f.seg \in segs
        BY DEF FilesFit
      <4>2. \A t, f \in files : t.del /\ f.seg = active /\ t.seg # active => t.seq < f.seq
        BY DEF FilesFit
      <4> QED BY <1>0, <2>2, <2>3, <4>1, <4>2
    <3>2. \A f \in files : ~Going(f)
      BY <2>2 DEF Going
    <3> QED BY <2>2, <2>3, <3>1, <3>2 DEF DiskFits, Served, Buried, Coming
  <2>4. CASE mpc' # "collect"
    BY <1>a, <2>2, <2>4 DEF Compacting, Moving
  <2> QED BY <2>3, <2>4
<1>3. CASE KeepSegment
  BY <1>a, <1>3 DEF KeepSegment, Compacting, Moving
<1>4. CASE ExpireSegment
  BY <1>a, <1>4 DEF ExpireSegment, Compacting, Moving
<1>5. ASSUME NEW k \in Keys, DropStamp(k) PROVE DiskFits'
  <2>1. /\ mpc = "drop" /\ mpc' \in {"drop", "dropkey"}
        /\ UNCHANGED <<index, files, fpc, frame, victims, orphans>>
    BY <1>5 DEF DropStamp
  <2>2. Victim' = Victim
    BY <2>1 DEF Victim
  <2> QED BY <2>1, <2>2 DEF DiskFits, Served, Buried, Coming, Going, InSeg, Compacting, Moving
<1>6. CASE DropKey
  <2>1. PICK g \in picked : picked = {g}
    BY <1>6 DEF DropKey, ChargeInv, KeeperFits
  <2>2. (CHOOSE f \in picked : TRUE).key = g.key
    BY <2>1
  <2>3. /\ mpc = "dropkey" /\ mpc' = "drop" /\ index' = index \ Entry(index, g.key)
        /\ UNCHANGED <<files, fpc, frame, victims, orphans>>
        /\ (\E f \in Entry(index, g.key) : f.seg # Victim \/ f \notin picked) =>
             "stolen" \in mishaps'
    BY <1>6, <2>2 DEF DropKey
  <2>4. \A f \in Entry(index, g.key) : f \in InSeg(Victim)
    BY <2>3 DEF InSeg, Entry, PlacesFit
  <2>5. Victim' = Victim
    BY <2>3 DEF Victim
  <2>6. ASSUME NEW f \in files
        PROVE  f.del \/ (Served(f) \/ Buried(f) \/ Coming(f) \/ Going(f) \/ Left(f))'
    <3>1. CASE Served(f)
      <4>1. PICK h \in index : h.key = f.key /\ h.seq >= f.seq
        BY <3>1 DEF Served
      <4>2. CASE h \in Entry(index, g.key)
        BY <2>3, <2>4, <2>5, <4>1, <4>2 DEF Going, InSeg
      <4>3. CASE h \notin Entry(index, g.key)
        BY <2>3, <4>1, <4>3 DEF Served
      <4> QED BY <4>2, <4>3
    <3>2. CASE f.del \/ Buried(f) \/ Coming(f) \/ Going(f) \/ Left(f)
      BY <2>3, <2>5, <3>2 DEF Buried, Coming, Going, InSeg
    <3> QED BY <3>1, <3>2 DEF DiskFits
  <2>7. \A h \in index', e \in files : e.key = h.key /\ e.seq > h.seq =>
                                       fpc \in {"insert", "remove"} /\ e = frame
    BY <2>3 DEF DiskFits
  <2> QED BY <2>3, <2>6, <2>7 DEF DiskFits, Compacting, Moving
<1>7. CASE UnlinkExpired
  <2>1. /\ mpc = "drop" /\ mpc' \in {"check", "idle"} /\ files' \subseteq files
        /\ \/ files' = files \ InSeg(Victim) /\ orphans' = orphans \ {Victim}
           \/ files' = files /\ orphans' = orphans \cup {Victim}
        /\ UNCHANGED <<index, fpc, frame>>
    BY <1>7, UnlinkCases
  <2>2. ~Covers(Victim)
    BY <1>7, UnlinkCases DEF Uncovered
  <2>3. \A f \in files, t \in InSeg(Victim) :
           f.seg # Victim /\ f.key = t.key /\ f.seq <= t.seq => f.del
    BY <2>2 DEF Covers
  <2>4. ASSUME NEW f \in files'
        PROVE  f.del \/ (Served(f) \/ Buried(f) \/ Coming(f) \/ Going(f) \/ Left(f))'
    <3>0. f.seg = Victim => Left(f)'
      BY <2>1, <2>4 DEF InSeg
    <3>1. CASE Buried(f)
      <4>1. PICK t \in files : t.del /\ t.key = f.key /\ t.seq > f.seq
        BY <3>1 DEF Buried
      <4>2. CASE t \in InSeg(Victim)
        BY <1>0, <2>1, <2>3, <3>0, <4>1, <4>2
      <4>3. CASE t \notin InSeg(Victim)
        BY <2>1, <4>1, <4>3 DEF Buried
      <4> QED BY <4>2, <4>3
    <3>2. CASE Going(f)
      <4>1. PICK t \in InSeg(Victim) : t.key = f.key /\ t.seq >= f.seq
        BY <2>1, <3>2 DEF Going
      <4>2. f.seq <= t.seq
        BY <1>0, <2>1, <4>1 DEF InSeg
      <4> QED BY <2>1, <2>3, <3>0, <4>1, <4>2
    <3>3. CASE f.del \/ Served(f) \/ Coming(f)
      BY <2>1, <3>3 DEF Served, Coming
    <3>4. CASE Left(f)
      BY <2>1, <3>0, <3>4
    <3> QED BY <2>1, <3>1, <3>2, <3>3, <3>4 DEF DiskFits
  <2>5. \A h \in index', e \in files' : e.key = h.key /\ e.seq > h.seq =>
                                        fpc \in {"insert", "remove"} /\ e = frame
    BY <2>1 DEF DiskFits
  <2> QED BY <2>1, <2>4, <2>5 DEF DiskFits, Compacting, Moving
<1>8. CASE EndRetention
  BY <1>a, <1>8 DEF EndRetention, Done, Compacting, Moving
<1>9. CASE CopyLive
  <2>1. /\ mpc = "collect" /\ files \subseteq files'
        /\ \A h \in files' \ files : /\ h.seg = nextCompact
                                     /\ \E c \in index : h.seq = c.seq /\ h.key = c.key
                                                         /\ h.del = c.del
        /\ UNCHANGED <<index, fpc, frame, orphans>>
    BY <1>9, CopyAdds
  <2>2. mpc' = "swap" \/ mpc' = "idle"
    BY <1>9, CopyAdds
  <2>3. ASSUME NEW f \in files'
        PROVE  f.del \/ (Served(f) \/ Buried(f) \/ Coming(f) \/ Going(f) \/ Left(f))'
    <3>1. CASE f \in files
      <4>1. f.del \/ Served(f) \/ Buried(f) \/ Coming(f) \/ Left(f)
        BY <2>1, <3>1 DEF DiskFits, Going
      <4> QED BY <2>1, <4>1 DEF Served, Buried, Coming
    <3>2. CASE f \notin files
      <4>1. PICK c \in index : f.seq = c.seq /\ f.key = c.key
        BY <2>1, <3>2
      <4>2. c.seq >= f.seq
        BY <1>0, <4>1
      <4> QED BY <2>1, <4>1, <4>2 DEF Served
    <3> QED BY <3>1, <3>2
  <2>4. ASSUME NEW g \in index, NEW h \in files', h.key = g.key, h.seq > g.seq
        PROVE  fpc \in {"insert", "remove"} /\ h = frame
    <3>1. CASE h \in files
      BY <2>4, <3>1 DEF DiskFits
    <3>2. CASE h \notin files
      <4>1. PICK c \in index : h.seq = c.seq /\ h.key = c.key
        BY <2>1, <3>2
      <4>2. c = g
        BY <2>4, <4>1 DEF ChargeInv, IndexFits
      <4> QED BY <1>0, <2>4, <4>1, <4>2
    <3> QED BY <3>1, <3>2
  <2>5. ASSUME mpc' = "swap", NEW t \in files', NEW f \in files', t.del, t.seg \in victims,
               f.key = t.key, f.seq < t.seq
        PROVE  f.seg \in victims \/ f.seg \in orphans
    <3>1. t \in files
      BY <2>1, <2>5 DEF ChargeInv, IndexFits
    <3>2. CASE f \in files
      BY <2>1, <2>5, <3>1, <3>2 DEF DiskFits, Compacting
    <3>3. CASE f \notin files
      <4>1. PICK c \in index : f.seq = c.seq /\ f.key = c.key
        BY <2>1, <3>3
      <4>2. t.seq > c.seq
        BY <1>0, <2>5, <3>1, <4>1
      <4>3. t = frame /\ fpc \in {"insert", "remove"}
        BY <2>5, <3>1, <4>1, <4>2 DEF DiskFits
      <4>4. t.seg = active
        BY <4>3 DEF ChargeInv, IndexFits
      <4> QED BY <2>5, <4>4 DEF PlacesFit
    <3> QED BY <3>2, <3>3
  <2>6. mpc' = "swap" => victims' = victims
    BY <1>9, CopyIsWhole
  <2> QED BY <2>1, <2>2, <2>3, <2>4, <2>5, <2>6 DEF DiskFits, Compacting, Moving
<1>10. CASE LockIndexes
  BY <1>b, <1>10 DEF LockIndexes, Compacting, Moving
<1>11. ASSUME NEW f \in sources, MoveStamp(f) PROVE DiskFits'
  BY <1>b, <1>11 DEF MoveStamp, Compacting, Moving
<1>12. CASE MoveKey
  <2>1. PICK f \in index : picked = {f}
    BY <1>12 DEF MoveKey, ChargeInv, KeeperFits
  <2>2. CopyOf(f).seq = f.seq /\ CopyOf(f).key = f.key
    BY CopiesAreFrames DEF ChargeInv, LiveTypeOK
  <2>3. /\ mpc = "movekey" /\ mpc' = "movestamp" /\ index' = (index \ {f}) \cup {CopyOf(f)}
        /\ UNCHANGED <<files, fpc, frame, victims, orphans>>
    BY <1>12, <2>1 DEF MoveKey
  <2> HIDE DEF CopyOf
  <2>4. \A h \in files : Served(h) => Served(h)'
    BY <2>2, <2>3 DEF Served
  <2>5. \A h \in files :
           h.del \/ (Served(h) \/ Buried(h) \/ Coming(h) \/ Going(h) \/ Left(h))'
    BY <2>3, <2>4 DEF DiskFits, Buried, Coming, Going
  <2>6. \A g \in index', h \in files : h.key = g.key /\ h.seq > g.seq =>
                                       fpc \in {"insert", "remove"} /\ h = frame
    BY <2>2, <2>3 DEF DiskFits
  <2> QED BY <2>3, <2>5, <2>6 DEF DiskFits, Compacting, Moving
<1>13. CASE UnlockIndexes
  BY <1>b, <1>13 DEF UnlockIndexes, Compacting, Moving
<1>14. CASE UnlinkCompacted
  <2>1. /\ mpc = "unlink" /\ mpc' = "unlink" /\ victims' = victims \ {Victim}
        /\ \/ files' = files \ InSeg(Victim) /\ orphans' = orphans \ {Victim}
           \/ files' = files /\ orphans' = orphans \cup {Victim}
        /\ UNCHANGED <<index, fpc, frame>>
    BY <1>14 DEF UnlinkCompacted
  <2>2. files' \subseteq files /\ Victim \in victims
    BY <1>14, <2>1, VictimIsListed DEF UnlinkCompacted
  <2>3. \A t, f \in files : t.del /\ t.seg \in victims /\ f.key = t.key /\ f.seq < t.seq
                            => f.seg \in victims \/ f.seg \in orphans
    BY <2>1 DEF DiskFits, Compacting
  <2>0. \A f \in files' : f.seg \in victims \/ f.seg \in orphans
                           => f.seg \in victims' \/ f.seg \in orphans'
    BY <2>1, <2>2 DEF InSeg
  <2>4. ASSUME NEW f \in files'
        PROVE  f.del \/ (Served(f) \/ Buried(f) \/ Coming(f) \/ Going(f) \/ Left(f))'
    <3>1. CASE Buried(f)
      <4>1. PICK t \in files : t.del /\ t.key = f.key /\ t.seq > f.seq
        BY <3>1 DEF Buried
      <4>2. CASE t \in InSeg(Victim)
        <5>1. f.seq < t.seq
          BY <1>0, <2>2, <4>1
        <5>2. f.seg \in victims \/ f.seg \in orphans
          BY <2>2, <2>3, <4>1, <4>2, <5>1 DEF InSeg
        <5> QED BY <2>0, <2>1, <5>2 DEF Going
      <4>3. CASE t \notin InSeg(Victim)
        BY <2>1, <4>1, <4>3 DEF Buried
      <4> QED BY <4>2, <4>3
    <3>2. CASE Going(f) \/ Left(f)
      BY <2>0, <2>1, <3>2 DEF Going
    <3>3. CASE f.del \/ Served(f) \/ Coming(f)
      BY <2>1, <3>3 DEF Served, Coming
    <3> QED BY <2>2, <3>1, <3>2, <3>3 DEF DiskFits
  <2>5. \A h \in index', e \in files' : e.key = h.key /\ e.seq > h.seq =>
                                        fpc \in {"insert", "remove"} /\ e = frame
    BY <2>1, <2>2 DEF DiskFits
  <2>6. \A t, f \in files' : t.del /\ t.seg \in victims' /\ f.key = t.key /\ f.seq < t.seq
                             => f.seg \in victims' \/ f.seg \in orphans'
    BY <2>0, <2>1, <2>2, <2>3
  <2> QED BY <2>1, <2>4, <2>5, <2>6 DEF DiskFits
<1>15. CASE EndCompaction
  BY <1>a, <1>15 DEF EndCompaction, Done, Compacting, Moving
<1> QED BY <1>1, <1>2, <1>3, <1>4, <1>5, <1>6, <1>7, <1>8, <1>9, <1>10, <1>11,
           <1>12, <1>13, <1>14, <1>15 DEF Keeper

-----------------------------------------------------------------------------
(* What a read may miss.                                                   *)

\* A read counts the removals of files and the moves of pointers it has met.
LEMMA MovesCount ==
  ASSUME Observe, moves \in Nat
  PROVE  /\ moves' \in Nat
         /\ moves >= 1 => moves' >= 1
         /\ moves >= 2 => moves' >= 2
         /\ rpc = "idle" \/ (segs \subseteq segs' /\ mpc' # "movekey") => moves' = moves
         /\ rpc # "idle" /\ ~ (segs \subseteq segs' /\ mpc' # "movekey") =>
              moves' >= 1 /\ (moves >= 1 => moves' >= 2)
<1>1. Min({moves + 1, 2}) \in {moves + 1, 2}
  BY LeastMember
<1>2. moves' = moves \/ moves' \in {moves + 1, 2}
  BY <1>1 DEF Observe
<1>3. rpc # "idle" /\ ~ (segs \subseteq segs' /\ mpc' # "movekey") => moves' \in {moves + 1, 2}
  BY <1>1 DEF Observe
<1>4. rpc = "idle" \/ (segs \subseteq segs' /\ mpc' # "movekey") => moves' = moves
  BY DEF Observe
<1> QED BY <1>2, <1>3, <1>4

\* Whatever they do, a file that has gone since has been counted.
LEMMA WritersKeepSearchFits ==
  ASSUME SearchFits, Tick \/ Flusher \/ Keeper
  PROVE  SearchFits'
<1>1. Observe /\ UNCHANGED <<rpc, rkey, entries, held, found>>
  BY WritersObserve DEF reader
<1>2. shown \subseteq shown' /\ (rkey' \cap InProgress' # {} => touched')
  BY <1>1 DEF Observe
<1>3. /\ moves' \in Nat
      /\ moves >= 1 => moves' >= 1
      /\ moves >= 2 => moves' >= 2
      /\ rpc # "idle" /\ ~ (segs \subseteq segs') => moves' >= 1 /\ (moves >= 1 => moves' >= 2)
  BY <1>1, MovesCount DEF SearchFits
<1>4. rpc \in {"getfile", "scanfile"} => moves' >= 1 \/ \A f \in held : f.seg \in segs'
  BY <1>3 DEF SearchFits
<1>5. rpc = "scanagain" => moves' >= 1 /\ (moves' >= 2 \/ \A f \in held : f.seg \in segs')
  BY <1>3 DEF SearchFits
<1> QED BY <1>1, <1>2, <1>3, <1>4, <1>5 DEF SearchFits, InFile

\* Apart from the key that is being worked on, an entry stays in its place until
\* compaction begins to move it.
LEMMA SettledStays ==
  ASSUME ChargeInv, Flusher \/ Keeper, mpc' # "movekey", NEW f \in Settled,
         f.key \in Keys, f.key \notin InProgress
  PROVE  f \in Settled'
<1> USE DEF storage, indexes, flusher, keeper
<1>1. Settled' = index'
  BY DEF Settled
<1>2. CASE mpc = "movekey"
  <2>1. Keeper \/ UNCHANGED keeper
    BY DEF Flusher, Receive, Write, InsertPointer, Stamp, RemovePointer
  <2>2. MoveKey
    BY <1>2, <2>1
       DEF Keeper, StartTask, ListSegments, KeepSegment, ExpireSegment, DropStamp, DropKey,
           UnlinkExpired, EndRetention, CopyLive, LockIndexes, MoveStamp,
           UnlockIndexes, UnlinkCompacted, EndCompaction
  <2> QED BY <1>1, <1>2, <2>2 DEF MoveKey, Settled
<1>3. CASE mpc # "movekey"
  <2>1. f \in index
    BY <1>3 DEF Settled
  <2>2. CASE InsertPointer \/ RemovePointer
    <3>1. frame.key # f.key
      BY <2>2 DEF InsertPointer, RemovePointer, InProgress
    <3> QED BY <1>1, <2>1, <2>2, <3>1 DEF InsertPointer, RemovePointer, Entry
  <2>3. CASE DropKey
    <3>1. PICK g \in picked : picked = {g}
      BY <2>3 DEF DropKey, ChargeInv, KeeperFits
    <3>2. (CHOOSE h \in picked : TRUE).key = g.key
      BY <3>1
    <3>3. g.key # f.key
      BY <2>3, <3>1 DEF DropKey, InProgress
    <3>4. index' = index \ Entry(index, g.key)
      BY <2>3, <3>2 DEF DropKey
    <3> QED BY <1>1, <2>1, <3>3, <3>4 DEF Entry
  <2>4. CASE MoveKey
    BY <1>3, <2>4 DEF MoveKey
  <2>5. CASE UNCHANGED index
    BY <1>1, <2>1, <2>5
  <2> QED BY <2>2, <2>3, <2>4, <2>5
     DEF Flusher, Receive, Write, Stamp,
         Keeper, StartTask, ListSegments, KeepSegment, ExpireSegment, DropStamp,
         UnlinkExpired, EndRetention, CopyLive, LockIndexes, MoveStamp,
         UnlockIndexes, UnlinkCompacted, EndCompaction
<1> QED BY <1>2, <1>3

\* So the entry that a range scan has still to visit is there, or the key has
\* been worked on or moved.
LEMMA WritersKeepRangeFits ==
  ASSUME ChargeInv, ReadFits, SearchFits, RangeFits, Tick \/ Flusher \/ Keeper
  PROVE  RangeFits'
<1>1. Observe /\ UNCHANGED <<rpc, rkey, entries, held, found>>
  BY WritersObserve DEF reader
<1>2. /\ shown \subseteq shown'
      /\ touched => touched'
  BY <1>1 DEF Observe
<1>3. /\ moves >= 1 => moves' >= 1
      /\ rpc # "idle" /\ mpc' = "movekey" => moves' >= 1
  BY <1>1, MovesCount DEF SearchFits
<1>4. ASSUME rpc = "range", ~touched', ~ (moves' >= 1), NEW f \in entries, f \in Settled
      PROVE  f \in Settled'
  <2>1. mpc' # "movekey"
    BY <1>3, <1>4
  <2>2. f.key \in rkey /\ rkey \subseteq Keys
    BY <1>4 DEF ReadFits, SearchFits
  <2>3. f.key \notin InProgress
    BY <1>2, <1>4, <2>2 DEF SearchFits
  <2>4. CASE Tick
    BY <1>4, <2>4 DEF Tick, indexes, keeper, Settled, CopyOf
  <2>5. CASE Flusher \/ Keeper
    BY <1>4, <2>1, <2>2, <2>3, <2>5, SettledStays
  <2> QED BY <2>4, <2>5
<1> QED BY <1>1, <1>2, <1>3, <1>4 DEF RangeFits

\* A key without an entry shows version 0.
LEMMA MissingIsShown ==
  ASSUME Observe, UNCHANGED index, NEW k \in rkey', \A f \in index : f.key # k
  PROVE  0 \in shown'
<1>1. Entry(index, k) = {}
  BY DEF Entry
<1>2. Version(k)' = 0
  BY <1>1 DEF Version, Entry
<1> QED BY <1>2 DEF Observe

\* A key that has an entry, and that nobody works on, has a timestamp entry too.
LEMMA EntryIsStamped ==
  ASSUME ChargeInv, StampsCover, NEW k \in Keys, k \notin InProgress,
         NEW f \in index, f.key = k
  PROVE  \E g \in Entry(stamps, k) : g \in Settled
<1>1. PICK g \in Settled : g.key = k
  <2>1. CASE mpc = "movekey" /\ f \in picked
    <3>1. CopyOf(f).key = k
      BY CopiesAreFrames DEF ChargeInv, LiveTypeOK
    <3> HIDE DEF CopyOf
    <3> QED BY <2>1, <3>1 DEF Settled
  <2>2. CASE ~ (mpc = "movekey" /\ f \in picked)
    BY <2>2 DEF Settled
  <2> QED BY <2>1, <2>2
<1>2. ~ Unstamped(g)
  BY <1>1 DEF Unstamped, InProgress
<1>3. g \in stamps
  BY <1>2 DEF StampsCover
<1> QED BY <1>1, <1>3 DEF Entry

\* A read takes its pointer from an index whose files are all there.
LEMMA ReadersKeepSearchFits ==
  ASSUME ChargeInv, FilesFit, PlacesFit, SearchFits, Reader
  PROVE  SearchFits'
<1> USE DEF storage, indexes, flusher, keeper
<1>1. Observe /\ UNCHANGED <<index, segs, mpc, fpc, frame, picked>>
  BY DEF Reader, Begin, LoadPointer, ReadHeld, GetFails, ScanRetries, ScanGivesUp, VisitStamp
<1>2. shown \subseteq shown' /\ (rkey' \cap InProgress' # {} => touched')
  BY <1>1 DEF Observe
<1>3. moves' \in Nat /\ (moves >= 1 => moves' >= 1) /\ (moves >= 2 => moves' >= 2)
  BY <1>1, MovesCount DEF SearchFits
<1>4. \A f \in index : f.seg \in segs
  BY DEF PlacesFit, FilesFit
<1>5. ASSUME NEW kind \in {"get", "scan", "range"}, NEW k \in ReadKeys, Begin(kind, k)
      PROVE  SearchFits'
  <2>1. rpc' = kind /\ rkey' = {k} /\ k \in Keys
    BY <1>5, LiveIndexAssumption DEF Begin
  <2> QED BY <1>2, <1>3, <2>1 DEF SearchFits, InFile
<1>6. CASE LoadPointer
  <2>1. /\ rpc \in {"get", "scan"} /\ held' = { f \in index : f.key \in rkey }
        /\ rpc' = (IF held' = {} THEN "done" ELSE IF rpc = "get" THEN "getfile" ELSE "scanfile")
        /\ UNCHANGED <<rkey, found>>
    BY <1>6 DEF LoadPointer
  <2>2. PICK k \in Keys : rkey = {k}
    BY <2>1 DEF SearchFits
  <2>3. held' = {} => 0 \in shown'
    BY <1>1, <2>1, <2>2, MissingIsShown
  <2>4. \A f \in held' : f.seg \in segs'
    BY <1>1, <1>4, <2>1
  <2> QED BY <1>2, <1>3, <2>1, <2>2, <2>3, <2>4 DEF SearchFits, InFile
<1>7. CASE ReadHeld
  BY <1>2, <1>3, <1>7 DEF ReadHeld, SearchFits, InFile
<1>8. CASE GetFails
  <2>1. moves >= 1
    BY <1>8 DEF GetFails, SearchFits, MayFail
  <2> QED BY <1>2, <1>3, <1>8, <2>1 DEF GetFails, SearchFits, InFile
<1>9. CASE ScanRetries
  <2>1. /\ rpc = "scanfile" /\ held' = { f \in index : f.key \in rkey }
        /\ rpc' = (IF held' = {} THEN "done" ELSE "scanagain")
        /\ UNCHANGED <<rkey, found>>
    BY <1>9 DEF ScanRetries
  <2>2. PICK k \in Keys : rkey = {k}
    BY <2>1 DEF SearchFits
  <2>3. held' = {} => 0 \in shown'
    BY <1>1, <2>1, <2>2, MissingIsShown
  <2>4. \A f \in held' : f.seg \in segs'
    BY <1>1, <1>4, <2>1
  <2>5. moves >= 1
    BY <1>9 DEF ScanRetries, SearchFits, MayFail
  <2> QED BY <1>2, <1>3, <2>1, <2>2, <2>3, <2>4, <2>5 DEF SearchFits, InFile
<1>10. CASE ScanGivesUp
  <2>1. moves >= 2
    BY <1>10 DEF ScanGivesUp, SearchFits, MayFail
  <2> QED BY <1>2, <1>3, <1>10, <2>1 DEF ScanGivesUp, SearchFits, InFile
<1>11. ASSUME NEW f \in entries, VisitStamp(f) PROVE SearchFits'
  <2>1. rpc = "range" /\ UNCHANGED <<rpc, rkey>>
    BY <1>11 DEF VisitStamp
  <2> QED BY <1>2, <1>3, <2>1 DEF SearchFits, InFile
<1> QED BY <1>5, <1>6, <1>7, <1>8, <1>9, <1>10, <1>11 DEF Reader

\* A range scan finds the entry of its key in its snapshot, and then its frame.
LEMMA ReadersKeepRangeFits ==
  ASSUME ChargeInv, FilesFit, PlacesFit, StampsCover, SearchFits, RangeFits, Reader
  PROVE  RangeFits'
<1> USE DEF storage, indexes, flusher, keeper
<1>1. Observe /\ UNCHANGED <<index, stamps, segs, mpc, fpc, frame, picked, nextCompact>>
  BY DEF Reader, Begin, LoadPointer, ReadHeld, GetFails, ScanRetries, ScanGivesUp, VisitStamp
<1>2. /\ shown \subseteq shown' /\ (touched => touched')
      /\ rkey' \cap InProgress' # {} => touched'
  BY <1>1 DEF Observe
<1>3. /\ moves >= 1 => moves' >= 1
      /\ rpc # "idle" /\ mpc' = "movekey" => moves' >= 1
  BY <1>1, MovesCount DEF SearchFits
<1>4. Settled' = Settled /\ InProgress' = InProgress
  BY <1>1 DEF Settled, CopyOf, InProgress
<1>5. ASSUME NEW k \in ReadKeys, Begin("range", k), ~touched', 0 \notin shown'
      PROVE  \E f \in entries' : f \in Settled'
  <2>1. rkey' = {k} /\ entries' = Entry(stamps, k) /\ k \in Keys
    BY <1>5, LiveIndexAssumption DEF Begin
  <2>2. PICK f \in index : f.key = k
    BY <1>1, <1>5, <2>1, MissingIsShown
  <2>3. k \notin InProgress
    BY <1>2, <1>4, <1>5, <2>1
  <2> QED BY <1>4, <2>1, <2>2, <2>3, EntryIsStamped
<1>6. ASSUME NEW f \in entries, VisitStamp(f) PROVE RangeFits'
  <2>1. /\ rpc = "range" /\ entries' = entries \ {f}
        /\ \/ found' = IF f \in index THEN {f} ELSE found
           \/ MayFail(f) /\ UNCHANGED found
    BY <1>6 DEF VisitStamp
  <2>2. f \in index => f.seg \in segs
    BY DEF PlacesFit, FilesFit
  <2>3. f \in index => found' # {}
    BY <2>1, <2>2 DEF MayFail
  <2>4. found # {} => found' # {}
    BY <2>1
  <2>5. mpc # "movekey" => Settled = index
    BY DEF Settled
  <2>6. \/ touched' \/ moves' >= 1 \/ 0 \in shown' \/ found' # {}
        \/ \E g \in entries' : g \in Settled'
    <3>1. CASE touched \/ moves >= 1 \/ 0 \in shown \/ found # {} \/ mpc = "movekey"
      BY <1>1, <1>2, <1>3, <2>1, <2>4, <3>1
    <3>2. CASE mpc # "movekey" /\ \E g \in entries : g \in Settled
      BY <1>4, <2>1, <2>3, <2>5, <3>2
    <3> QED BY <2>1, <3>1, <3>2 DEF RangeFits
  <2> QED BY <2>6 DEF RangeFits
<1>7. CASE rpc' # "range"
  BY <1>7 DEF RangeFits
<1> QED BY <1>5, <1>6, <1>7
   DEF Reader, Begin, LoadPointer, ReadHeld, GetFails, ScanRetries, ScanGivesUp, RangeFits

-----------------------------------------------------------------------------
(* The invariant.                                                          *)

\* The clock and the readers change nothing that the two writers rely on.
LEMMA QuietKeepsPlaces ==
  ASSUME LiveInv, Quiet, now' \in Nat, now' >= now
  PROVE  /\ FilesFit' /\ PassFits' /\ StampsCover' /\ AgesFit'
         /\ NotRaced' => PlacesFit'
         /\ mishaps' \cap {"raced", "stolen"} = {} => NewestFit'
         /\ mishaps' = {} => DiskFits'
<1> USE DEF Quiet, indexes, flusher, keeper, history, LiveInv
<1>1. FilesFit' /\ PassFits' /\ StampsCover'
  BY DEF FilesFit, PassFits, Moving, StampsCover, Settled, CopyOf, Unstamped
<1>2. AgesFit'
  <2>1. \A t \in Nat : t <= now => t <= now'
    BY DEF ChargeInv, LiveTypeOK
  <2>2. \A f \in newest : f.ts <= now'
    BY <2>1 DEF AgesFit, Frame
  <2>3. fpc \in {"insert", "stamp", "remove"} => frame.ts <= now'
    BY <2>1 DEF AgesFit, ChargeInv, LiveTypeOK, Frame
  <2> QED BY <2>2, <2>3 DEF AgesFit
<1>3. NotRaced' => PlacesFit'
  BY DEF NotRaced, PlacesFit, FullyExpired, InSeg, Victim, Moving, CopyOf
<1>4. mishaps' \cap {"raced", "stolen"} = {} => NewestFit'
  BY TimeKeepsNewestFit
<1>5. mishaps' = {} => DiskFits'
  BY DEF DiskFits, Served, Buried, Coming, Going, Left, InSeg, Victim, Compacting, Moving
<1> QED BY <1>1, <1>2, <1>3, <1>4, <1>5

\* After the end of a read nothing of it is left.
LEMMA EndKeepsSearches ==
  ASSUME SearchFits, EndRead
  PROVE  SearchFits' /\ RangeFits'
BY DEF SearchFits, RangeFits, EndRead, InFile

\* The invariant holds at the start.
LEMMA LiveInit ==
  ASSUME Init
  PROVE  LiveInv
<1> USE DEF Init
<1>1. LiveTypeOK
  BY FS_EmptySet, LiveIndexAssumption DEF LiveTypeOK, FirstFrame
<1>2. IdsFit
  BY LiveIndexAssumption DEF IdsFit, FirstFrame
<1>3. IndexFits /\ KeeperFits /\ ReadFits
  BY DEF IndexFits, KeeperFits, ReadFits
<1>4. StampsFit
  BY FS_EmptySet DEF StampsFit, Unstamped
<1>5. FilesFit /\ PassFits /\ StampsCover /\ AgesFit
  <2>1. \A s \in segs : ~ (s >= CompactionBase)
    BY LiveIndexAssumption
  <2> QED BY <2>1 DEF FilesFit, PassFits, Moving, StampsCover, Settled, AgesFit
<1>6. PlacesFit /\ SearchFits /\ RangeFits
  BY DEF PlacesFit, Moving, SearchFits, InFile, RangeFits
<1>7. NewestFit /\ DiskFits
  BY DEF NewestFit, DiskFits, Compacting, Moving
<1> QED BY <1>1, <1>2, <1>3, <1>4, <1>5, <1>6, <1>7 DEF LiveInv, ChargeInv

\* A step of the flusher keeps it.
LEMMA FlusherKeepsLiveInv ==
  ASSUME LiveInv, Flusher
  PROVE  LiveInv'
<1>1. ChargeInv /\ ReadFits /\ FilesFit /\ PassFits /\ StampsCover /\ AgesFit
  BY DEF LiveInv
<1>2. mishaps \subseteq mishaps'
  BY MishapsStay
<1>3. ChargeInv'
  <2>1. NothingStolen' => StampsFit'
    BY <1>1, <1>2, FlusherKeepsStampsFit DEF ChargeInv, NothingStolen
  <2>2. LiveTypeOK' /\ IdsFit' /\ IndexFits' /\ KeeperFits'
    BY <1>1, FlusherKeepsTypes, FlusherKeepsIds, FlusherKeepsIndexFits, FlusherKeepsKeeperFits
  <2> QED BY <2>1, <2>2 DEF ChargeInv
<1>4. ReadFits'
  BY <1>1, WritersObserve DEF ReadFits, reader
<1>5. FilesFit' /\ PassFits' /\ StampsCover' /\ AgesFit'
  BY <1>1, FlusherKeepsFilesFit, FlusherKeepsPassFits, FlusherKeepsStampsCover,
     FlusherKeepsAgesFit
<1>6. NotRaced' => PlacesFit' /\ SearchFits' /\ RangeFits'
  BY <1>1, <1>2, FlusherKeepsPlacesFit, WritersKeepSearchFits, WritersKeepRangeFits
     DEF LiveInv, NotRaced
<1>7. mishaps' \cap {"raced", "stolen"} = {} => NewestFit'
  BY <1>1, <1>2, FlusherKeepsNewestFit DEF LiveInv
<1>8. mishaps' = {} => DiskFits'
  BY <1>1, <1>2, FlusherKeepsDiskFits DEF LiveInv, NotRaced
<1> QED BY <1>3, <1>4, <1>5, <1>6, <1>7, <1>8 DEF LiveInv

\* ... and so does one of the maintenance thread.
LEMMA KeeperKeepsLiveInv ==
  ASSUME LiveInv, Keeper
  PROVE  LiveInv'
<1>1. ChargeInv /\ ReadFits /\ FilesFit /\ PassFits /\ StampsCover /\ AgesFit
  BY DEF LiveInv
<1>2. mishaps \subseteq mishaps'
  BY MishapsStay
<1>3. ChargeInv'
  <2>1. NothingStolen' => StampsFit'
    BY <1>1, <1>2, KeeperKeepsStampsFit DEF ChargeInv, NothingStolen
  <2>2. LiveTypeOK' /\ IdsFit' /\ IndexFits' /\ KeeperFits'
    BY <1>1, KeeperKeepsTypes, KeeperKeepsIds, KeeperKeepsIndexFits, KeeperKeepsKeeperFits
  <2> QED BY <2>1, <2>2 DEF ChargeInv
<1>4. ReadFits'
  BY <1>1, WritersObserve DEF ReadFits, reader
<1>5. FilesFit' /\ PassFits' /\ StampsCover' /\ AgesFit'
  BY <1>1, KeeperKeepsFilesFit, KeeperKeepsPassFits, KeeperKeepsStampsCover,
     KeeperKeepsAgesFit
<1>6. NotRaced' => PlacesFit' /\ SearchFits' /\ RangeFits'
  BY <1>1, <1>2, KeeperKeepsPlacesFit, WritersKeepSearchFits, WritersKeepRangeFits
     DEF LiveInv, NotRaced
<1>7. mishaps' \cap {"raced", "stolen"} = {} => NewestFit'
  BY <1>1, <1>2, KeeperKeepsNewestFit DEF LiveInv, NotRaced
<1>8. mishaps' = {} => DiskFits'
  BY <1>1, <1>2, KeeperKeepsDiskFits DEF LiveInv, NotRaced
<1> QED BY <1>3, <1>4, <1>5, <1>6, <1>7, <1>8 DEF LiveInv

\* Every step keeps the invariant.
LEMMA LiveStep ==
  ASSUME LiveInv, [Next]_vars
  PROVE  LiveInv'
<1>1. CASE Flusher
  BY <1>1, FlusherKeepsLiveInv
<1>2. CASE Keeper
  BY <1>2, KeeperKeepsLiveInv
<1>3. CASE Tick \/ Reader \/ EndRead
  <2>1. Quiet /\ now' \in Nat /\ now' >= now
    BY <1>3, QuietSteps DEF LiveInv, ChargeInv
  <2>2. ChargeInv'
    BY <2>1, QuietKeeps DEF LiveInv
  <2>3. /\ FilesFit' /\ PassFits' /\ StampsCover' /\ AgesFit'
        /\ NotRaced' => PlacesFit'
        /\ mishaps' \cap {"raced", "stolen"} = {} => NewestFit'
        /\ mishaps' = {} => DiskFits'
    BY <2>1, QuietKeepsPlaces
  <2>4. NotRaced' => NotRaced
    BY <2>1 DEF Quiet, history, NotRaced
  <2>5. ReadFits' /\ (NotRaced' => SearchFits' /\ RangeFits')
    <3>1. CASE Tick
      <4>1. ReadFits'
        BY <3>1, WritersObserve DEF LiveInv, ReadFits, reader
      <4>2. NotRaced' => SearchFits' /\ RangeFits'
        BY <2>4, <3>1, WritersKeepSearchFits, WritersKeepRangeFits DEF LiveInv
      <4> QED BY <4>1, <4>2
    <3>2. CASE Reader
      BY <2>4, <3>2, ReadersKeepReadFits, ReadersKeepSearchFits, ReadersKeepRangeFits
         DEF LiveInv
    <3>3. CASE EndRead
      BY <2>4, <3>3, EndKeepsReadFits, EndKeepsSearches DEF LiveInv
    <3> QED BY <1>3, <3>1, <3>2, <3>3
  <2> QED BY <2>2, <2>3, <2>5 DEF LiveInv
<1>4. CASE UNCHANGED vars
  <2>1. /\ Quiet /\ now' = now /\ now \in Nat /\ now' >= now
        /\ UNCHANGED <<reader, shown, moves, touched>>
    BY <1>4 DEF vars, Quiet, storage, LiveInv, ChargeInv, LiveTypeOK
  <2>2. ChargeInv'
    BY <2>1, QuietKeeps DEF LiveInv
  <2>3. /\ FilesFit' /\ PassFits' /\ StampsCover' /\ AgesFit'
        /\ NotRaced' => PlacesFit'
        /\ mishaps' \cap {"raced", "stolen"} = {} => NewestFit'
        /\ mishaps' = {} => DiskFits'
    BY <2>1, QuietKeepsPlaces
  <2>4. ReadFits'
    BY <2>1 DEF LiveInv, ReadFits, reader
  <2>5. NotRaced' => SearchFits' /\ RangeFits'
    BY <2>1 DEF LiveInv, NotRaced, SearchFits, RangeFits, InProgress, InFile, Settled, CopyOf,
                reader, Quiet, storage, indexes, flusher, keeper, history
  <2> QED BY <2>2, <2>3, <2>4, <2>5 DEF LiveInv
<1> QED BY <1>1, <1>2, <1>3, <1>4 DEF Next

-----------------------------------------------------------------------------
(* What it shows.                                                          *)

\* The indexes, the files, the ids, the charges and what the three actors know of
\* them fit in every state (storage.rs:2490-2560, 3829-3863, 4173-4260).
THEOREM LiveInvariant == Spec => []LiveInv
BY LiveInit, LiveStep, PTL DEF Spec

\* The memory charged to the index budget is what the two indexes hold, and both
\* show the same frames, whenever nobody is at work on them.
THEOREM BudgetIsExact == Spec => []ChargesAreExact
<1>1. LiveInv => ChargesAreExact
  <2> SUFFICES ASSUME LiveInv, fpc = "idle", mpc \notin {"dropkey", "movekey"},
                      mishaps \cap {"stolen", "drift"} = {}
               PROVE  nodes = Cardinality(index) /\ marks = Cardinality(stamps)
                      /\ stamps = index
    BY DEF ChargesAreExact
  <2>1. StampsFit /\ IsFiniteSet(stamps)
    BY DEF LiveInv, ChargeInv, NothingStolen, LiveTypeOK
  <2>2. stamps = index
    BY <2>1 DEF StampsFit, Unstamped
  <2> QED BY <2>1, <2>2, FS_CardinalityType DEF StampsFit
<1> QED BY <1>1, LiveInvariant, PTL

\* A get or a scan returns only what its key held at some moment of the read,
\* whatever was written, removed or moved meanwhile.
THEOREM AnswersWereTrue == Spec => []ReadsAreCurrent
<1>1. LiveInv => ReadsAreCurrent
  BY DEF LiveInv, ReadFits, ReadsAreCurrent
<1> QED BY <1>1, LiveInvariant, PTL

\* A get fails, and a scan gives a key up or passes over it, only when a file has
\* gone, its key was written or its pointer was moved while the read was going on.
THEOREM MissesAreExplained == Spec => []ReadsMissNothing
<1>1. LiveInv => ReadsMissNothing
  <2> SUFFICES ASSUME LiveInv, NotRaced
               PROVE  /\ rpc = "failed" => moves >= 1
                      /\ rpc = "gaveup" => moves >= 2
                      /\ Missed => \/ rpc = "gaveup"
                                   \/ rpc = "range" /\ (touched \/ moves >= 1)
    BY DEF ReadsMissNothing, NotRaced
  <2>1. SearchFits /\ RangeFits
    BY DEF LiveInv
  <2> QED BY <2>1 DEF SearchFits, RangeFits, Missed, ReadOver
<1> QED BY <1>1, LiveInvariant, PTL

\* Neither compaction nor retention takes the newest record of a key out of the
\* index, or its file away, before its age has passed.
THEOREM NewestStaysReadable == Spec => []NewestKeysRemain
<1>1. LiveInv => NewestKeysRemain
  <2> SUFFICES ASSUME LiveInv, NEW f \in newest, ~f.del, ~Expired(f),
                      mishaps \cap {"raced", "stolen"} = {}
               PROVE  \E g \in index : g.key = f.key /\ g.seq >= f.seq /\ g \in files
    BY DEF NewestKeysRemain
  <2>1. NewestFit /\ PlacesFit
    BY DEF LiveInv, NotRaced
  <2> QED BY <2>1 DEF NewestFit, PlacesFit
<1> QED BY <1>1, LiveInvariant, PTL

\* A restart would read from the files all that the index shows, and beyond that
\* only records of a file that maintenance could not remove: it loses no record
\* that the index has, and brings none back from any other file.
THEOREM RestartKeepsTheIndex == Spec => []RestartShowsTheIndex
<1>1. LiveInv => RestartShowsTheIndex
  <2> SUFFICES ASSUME LiveInv, fpc = "idle", mpc = "idle", mishaps = {}
               PROVE  /\ \A f \in index :
                           \E g \in OnDisk : ~g.del /\ f.key = g.key /\ f.seq = g.seq
                      /\ \A g \in OnDisk : \/ g.del \/ g.seg \in orphans
                                           \/ \E f \in index : f.key = g.key /\ f.seq = g.seq
    BY DEF RestartShowsTheIndex
  <2>1. DiskFits /\ index \subseteq files /\ IndexFits
    BY DEF LiveInv, ChargeInv, NotRaced, PlacesFit
  <2>2. /\ \A f \in files : f.seq \in Nat
        /\ \A f \in index : f.seq \in Nat
    BY DEF LiveInv, ChargeInv, LiveTypeOK, Frame
  <2>3. ASSUME NEW f \in OnDisk, ~f.del, f.seg \notin orphans
        PROVE  \E g \in index : g.key = f.key /\ g.seq = f.seq
    <3>1. f \in files /\ \A g \in files : g.key = f.key => g.seq <= f.seq
      BY DEF OnDisk
    <3>2. ~Buried(f)
      BY <2>2, <3>1 DEF Buried
    <3>3. Served(f)
      BY <2>1, <2>3, <3>1, <3>2 DEF DiskFits, Coming, Going, Left
    <3>4. PICK g \in index : g.key = f.key /\ g.seq >= f.seq
      BY <3>3 DEF Served
    <3>5. g.seq = f.seq
      BY <2>1, <2>2, <3>1, <3>4
    <3> QED BY <3>4, <3>5
  <2>4. ASSUME NEW g \in index PROVE g \in OnDisk /\ ~g.del
    <3>1. \A h \in files : h.key = g.key => ~ (h.seq > g.seq)
      BY <2>1 DEF DiskFits
    <3>2. \A h \in files : h.key = g.key => h.seq <= g.seq
      BY <2>2, <3>1
    <3> QED BY <2>1, <3>2 DEF OnDisk, IndexFits
  <2> QED BY <2>3, <2>4
<1> QED BY <1>1, LiveInvariant, PTL
=============================================================================
