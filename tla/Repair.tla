------------------------------- MODULE Repair -------------------------------
(***************************************************************************)
(* Damaged segment files: what an open in Default, Strict or Repair mode   *)
(* does about a frame it cannot read, how repair salvages the frames that  *)
(* follow it into a new segment before it cuts the file, and what a kill   *)
(* or a power loss between two of its steps leaves for the next open.      *)
(*                                                                         *)
(* Abstractions.  A file is the sequence of its cells and an offset is a   *)
(* position in it.  A cell is one frame and what is wrong with it:         *)
(*   "good"   complete, its checksum right;                                *)
(*   "bad"    complete, but its checksum or its payload is wrong;          *)
(*   "cut"    its declared length passes the end of the file;              *)
(*   "stub"   less than a header, at the end of the file.                  *)
(* Payloads that fail their checksum and payloads that do not parse are    *)
(* one kind.  Tombstones are frames like others: only which frame of a key *)
(* is the newest matters here.  The copy of a whole corrupt file that       *)
(* Repair takes first is left out: no property needs what it keeps.        *)
(* Writes are durable when acknowledged (the write path is SegmentLog's    *)
(* subject).                                                               *)
(***************************************************************************)
EXTENDS Integers, Sequences, FiniteSets, FiniteSetsExt, SequencesExt

CONSTANTS
  Keys,            \* compound keys "stream:key"
  Layouts,         \* the damaged data directories to start from
  CompactionBase,  \* COMPACTION_ID_BASE
  Large,           \* may a frame be larger than the 64 KiB copy buffer?
  RepairServes,    \* may an engine opened in Repair mode accept writes?
                   \* (new_with_recovery_mode; the command line never does)
  MaxSeq,          \* bound: the last sequence id a write may take
  MaxOpens,        \* bound: opens and repairs
  MaxKills,        \* bound: process kills
  MaxPowerLosses   \* bound: power losses

Kinds   == {"good", "bad", "cut", "stub"}
Cell    == [kind : Kinds, seq : Nat, key : Keys]
Segment == 1..(2 * CompactionBase)

\* Less than a header is left only at the end of a file.
StubsAreLast(s) == \A i \in DOMAIN s : s[i].kind = "stub" => i = Len(s)

ASSUME RepairAssumption ==
  /\ CompactionBase \in Nat \ {0, 1} /\ Large \in BOOLEAN
  /\ RepairServes \in BOOLEAN /\ MaxSeq \in Nat /\ MaxOpens \in Nat
  /\ MaxKills \in Nat /\ MaxPowerLosses \in Nat
  /\ \A L \in Layouts : /\ DOMAIN L \subseteq Segment
                        /\ L \in [DOMAIN L -> Seq(Cell)]
                        /\ \A s \in DOMAIN L : StubsAreLast(L[s])

VARIABLES
  (* the data directory *)
  segs,      \* the content of each segment file, page cache included
  synced,    \* the files whose content an fsync covers
  entries,   \* the files whose directory entry is durable
  markers,   \* the salvage markers
  sidecars,  \* the complete, durable copies of torn regions
  (* the engine that opens it *)
  pc,        \* where it is
  mode,      \* recovery_mode
  tears,     \* deferred_tears still to be processed
  active,    \* the active segment it has chosen
  index,     \* the skip list: the frame each key points at
  nextSeq,   \* current_sequence_id
  stranded,  \* the frames being salvaged
  target,    \* the segment they go to, 0 when nothing is salvaged
  (* observation *)
  valid,     \* frames no open may lose: readable ones and stranded ones
  whole,     \* every frame that was ever complete and right
  skipped,   \* keys this open dropped together with a corrupt segment
  mishaps,   \* what has gone wrong in one of the three known ways
  opens, kills, outages

disk     == <<segs, synced, entries, markers, sidecars>>
engine   == <<pc, mode, tears, active, index, nextSeq, stranded, target>>
observed == <<valid, whole, skipped, mishaps, opens, kills, outages>>
vars     == <<disk, engine, observed>>

-----------------------------------------------------------------------------
(* Reading a damaged file.                                                 *)

Modes == {"default", "strict", "repair"}

Good(c)  == c.kind = "good"
Frame(c) == [seq |-> c.seq, key |-> c.key]
Whole(s) == { Frame(s[i]) : i \in { j \in DOMAIN s : Good(s[j]) } }

IsNormal(seg) == seg < CompactionBase

\* Replay stops at the first cell it cannot read: how many come before it.
PrefixLen(s) ==
  CHOOSE n \in 0..Len(s) : /\ \A i \in 1..n : Good(s[i])
                           /\ n = Len(s) \/ ~Good(s[n + 1])

Readable(s) == Whole(SubSeq(s, 1, PrefixLen(s)))

IsTorn(s) == PrefixLen(s) < Len(s)

TopSeq(cells) == Max({0} \cup { c.seq : c \in cells })

\* The deferred tear of a segment: where it is, how long the file was when
\* it was replayed, what is wrong and the last sequence id before it.
Tear(s, seg) ==
  LET n == PrefixLen(s) IN
    [seg |-> seg, at |-> n + 1, len |-> Len(s), kind |-> s[n + 1].kind,
     floor |-> TopSeq(Range(SubSeq(s, 1, n)))]

\* Credible places to read on after a tear: a valid frame that continues the
\* sequence, followed by another such frame, by the end of the file or by a
\* frame cut off.  Compacted segments are not written in sequence order.
Resync(s, t) ==
  { p \in (t.at + 1)..Len(s) :
      /\ Good(s[p])
      /\ IsNormal(t.seg) => s[p].seq > t.floor
      /\ \/ p = Len(s)
         \/ Good(s[p + 1]) /\ (IsNormal(t.seg) => s[p + 1].seq > s[p].seq)
         \/ s[p + 1].kind \in {"cut", "stub"} }

\* The valid frames from there on, up to the next break.
Run(s, p, ordered) ==
  LET ends == { q \in p..Len(s) :
                  /\ \A i \in p..q : Good(s[i])
                  /\ ordered => \A i \in (p + 1)..q : s[i].seq > s[i - 1].seq }
  IN  SubSeq(s, p, Max(ends))

\* The frames stranded behind a tear, looked for in the file as long as it
\* was when it was replayed.
Stranded(s, t) ==
  LET seen == SubSeq(s, 1, t.len) IN
    IF Resync(seen, t) = {} THEN <<>>
    ELSE Run(seen, Min(Resync(seen, t)), IsNormal(t.seg))

\* The readable frames, each with the segment it is in.
Pointers(S) == UNION { { [seg |-> s, seq |-> f.seq, key |-> f.key] :
                           f \in Readable(S[s]) } : s \in DOMAIN S }

\* Fault: the frame replayed last wins, whatever its sequence id.
ReplayInFileOrder(S) ==
  { f \in Pointers(S) : \A g \in Pointers(S) : g.key = f.key =>
      g.seg < f.seg \/ (g.seg = f.seg /\ g.seq <= f.seq) }

\* Replay merges by sequence id; of two copies the lower segment's stays.
Replay(S) ==
  { f \in Pointers(S) : \A g \in Pointers(S) : g.key = f.key =>
      g.seq < f.seq \/ (g.seq = f.seq /\ g.seg >= f.seg) }

\* The complete frames replay meets in a segment, a corrupt one included.
Complete(s) ==
  { s[i] : i \in { j \in 1..(PrefixLen(s) + 1) :
                     j \in DOMAIN s /\ s[j].kind \in {"good", "bad"} } }

\* The newest normal file if it holds no complete frame, else the one that
\* holds the highest complete sequence id.
ChooseActive(S) ==
  LET normal == { s \in DOMAIN S : IsNormal(s) }
      filled == { s \in normal : Complete(S[s]) # {} }
      newest == Max(normal)
      later(s, r) == \/ TopSeq(Complete(S[s])) > TopSeq(Complete(S[r]))
                     \/ TopSeq(Complete(S[s])) = TopSeq(Complete(S[r])) /\ s >= r
  IN  IF normal # {} /\ newest \notin filled THEN newest
      ELSE IF filled = {} THEN 1
      ELSE CHOOSE s \in filled : \A r \in filled : later(s, r)

TearsOf(S) == { Tear(S[s], s) : s \in { x \in DOMAIN S : IsTorn(S[x]) } }

Rescuable(s, seg) ==
  Readable(s) \cup (IF IsTorn(s) THEN Whole(Stranded(s, Tear(s, seg))) ELSE {})

-----------------------------------------------------------------------------
Idle == /\ mode = "default" /\ tears = {} /\ active = 0 /\ index = {}
        /\ nextSeq = 0 /\ stranded = <<>> /\ target = 0

Init ==
  /\ segs \in Layouts
  /\ synced = DOMAIN segs /\ entries = DOMAIN segs
  /\ markers = {} /\ sidecars = {}
  /\ pc = "down" /\ Idle
  /\ valid = UNION { Rescuable(segs[s], s) : s \in DOMAIN segs }
  /\ whole = UNION { Whole(segs[s]) : s \in DOMAIN segs }
  /\ skipped = {} /\ mishaps = {} /\ opens = 0 /\ kills = 0 /\ outages = 0

Stop == /\ pc' = "down" /\ mode' = "default" /\ tears' = {} /\ active' = 0
        /\ index' = {} /\ nextSeq' = 0 /\ stranded' = <<>> /\ target' = 0
        /\ skipped' = {}

-----------------------------------------------------------------------------
(* recover: one replay of every segment, then the tears one by one.        *)

Open(m) ==
  /\ pc = "down" /\ opens < MaxOpens
  /\ pc' = "tears" /\ mode' = m /\ tears' = TearsOf(segs)
  /\ active' = ChooseActive(segs) /\ index' = Replay(segs)
  /\ nextSeq' = 1 + TopSeq(UNION { Readable(segs[s]) : s \in DOMAIN segs })
  /\ opens' = opens + 1
  /\ UNCHANGED <<disk, stranded, target, valid, whole, skipped, mishaps,
                 kills, outages>>

\* The tears are processed in the order in which the segments were replayed.
Here == CHOOSE t \in tears : \A u \in tears : t.seg <= u.seg
StrandedHere == Stranded(segs[Here.seg], Here)

\* Fault: leftover bytes are ignored in the active segment too.
IgnoreAnyTrailing ==
  /\ pc = "tears" /\ tears # {}
  /\ Here.kind = "stub"
  /\ tears' = tears \ {Here}
  /\ UNCHANGED <<disk, pc, mode, active, index, nextSeq, stranded, target, observed>>

\* Leftover bytes at the end of an inactive segment are ignored.
IgnoreTrailing ==
  /\ pc = "tears" /\ tears # {}
  /\ Here.kind = "stub" /\ Here.seg # active
  /\ tears' = tears \ {Here}
  /\ UNCHANGED <<disk, pc, mode, active, index, nextSeq, stranded, target, observed>>

Concerned == pc = "tears" /\ tears # {} /\ ~(Here.kind = "stub" /\ Here.seg # active)

MarkersHere == { m \in markers : m.seg = Here.seg /\ m.at = Here.at }

\* Fault: the new segment follows the damaged one.
IdAfterSource == 1 + Here.seg

\* max_normal_segment_id + 1: no file has it.
NextSalvageId == 1 + Max({0} \cup { s \in DOMAIN segs : IsNormal(s) })

\* Fault: the salvage goes on in the id space of compacted segments.
RefusesForDamageOnly ==
  \/ StrandedHere # <<>> /\ mode # "repair"
  \/ StrandedHere = <<>> /\ mode = "strict" /\ Here.kind = "bad"

\* RecoveryRequired, StrictCrcMismatch and "normal segment ID space exhausted".
Refuses ==
  \/ StrandedHere # <<>> /\ mode # "repair"
  \/ StrandedHere = <<>> /\ mode = "strict" /\ Here.kind = "bad"
  \/ StrandedHere # <<>> /\ MarkersHere = {} /\ ~IsNormal(NextSalvageId)

RefuseToOpen ==
  /\ Concerned /\ Refuses
  /\ Stop
  /\ UNCHANGED <<disk, valid, whole, mishaps, opens, kills, outages>>

\* An inactive segment is left on disk; after a corrupt frame every key that
\* points into it leaves the index.
SkipRemainder ==
  /\ Concerned /\ ~Refuses
  /\ StrandedHere = <<>> /\ Here.seg # active
  /\ LET gone == IF Here.kind = "bad" THEN { f \in index : f.seg = Here.seg } ELSE {}
     IN  /\ index' = index \ gone
         /\ skipped' = skipped \cup { f.key : f \in gone }
  /\ tears' = tears \ {Here}
  /\ UNCHANGED <<disk, pc, mode, active, nextSeq, stranded, target,
                 valid, whole, mishaps, opens, kills, outages>>

\* Nothing stranded in the active segment: back the torn region up and cut.
PrepareCut ==
  /\ Concerned /\ ~Refuses
  /\ StrandedHere = <<>> /\ Here.seg = active
  /\ pc' = "backup" /\ stranded' = <<>> /\ target' = 0
  /\ UNCHANGED <<disk, mode, tears, active, index, nextSeq, observed>>

-----------------------------------------------------------------------------
(* write_salvage_segment                                                   *)

SalvageTarget == IF MarkersHere = {} THEN NextSalvageId
                 ELSE (CHOOSE m \in MarkersHere : TRUE).id

\* The marker names the target and its length, and the file has it.
Reusable(frames, seg) ==
  /\ \E m \in MarkersHere : m.id = seg /\ m.len = Len(frames)
  /\ seg \in DOMAIN segs
  /\ Len(segs[seg]) = Len(frames) /\ ~IsTorn(segs[seg])

\* The marker of this tear is read, then created anew: empty at first.
StartSalvage ==
  /\ Concerned /\ ~Refuses
  /\ StrandedHere # <<>>
  /\ stranded' = StrandedHere /\ target' = SalvageTarget
  /\ pc' = IF Reusable(StrandedHere, SalvageTarget) THEN "reuse" ELSE "mark"
  /\ markers' = markers \ MarkersHere
  /\ UNCHANGED <<segs, synced, entries, sidecars, mode, tears, active, index,
                 nextSeq, observed>>

\* The marker is written, fsynced, and the directory with it.
WriteMarker ==
  /\ pc \in {"mark", "reuse"}
  /\ markers' = markers \cup {[seg |-> Here.seg, at |-> Here.at, id |-> target,
                               len |-> Len(stranded)]}
  /\ entries' = DOMAIN segs
  /\ pc' = IF pc = "reuse" THEN "backup" ELSE "create"
  /\ mishaps' = IF pc = "reuse" /\ target \notin synced
                THEN mishaps \cup {"trusted"} ELSE mishaps
  /\ UNCHANGED <<segs, synced, sidecars, mode, tears, active, index, nextSeq,
                 stranded, target, valid, whole, skipped, opens, kills, outages>>

WithSegment(seg, s) == [x \in DOMAIN segs \cup {seg} |-> IF x = seg THEN s ELSE segs[x]]

CreateTarget ==
  /\ pc = "create"
  /\ segs' = WithSegment(target, <<>>)
  /\ synced' = synced \ {target}
  /\ pc' = "copy"
  /\ UNCHANGED <<entries, markers, sidecars, mode, tears, active, index, nextSeq,
                 stranded, target, observed>>

Copied == Len(segs[target])

\* A frame larger than the buffer is copied in more than one write.
CopyFirstChunk ==
  /\ pc = "copy" /\ Large
  /\ Copied < Len(stranded) /\ ~IsTorn(segs[target])
  /\ segs' = [segs EXCEPT ![target] = Append(@, [stranded[Copied + 1] EXCEPT !.kind = "cut"])]
  /\ UNCHANGED <<synced, entries, markers, sidecars, engine, observed>>

CopyFrame ==
  /\ pc = "copy"
  /\ \/ /\ ~IsTorn(segs[target]) /\ Copied < Len(stranded)
        /\ segs' = [segs EXCEPT ![target] = Append(@, stranded[Copied + 1])]
     \/ /\ IsTorn(segs[target])
        /\ segs' = [segs EXCEPT ![target] = Append(Front(@), stranded[Copied])]
  /\ UNCHANGED <<synced, entries, markers, sidecars, engine, observed>>

SyncTarget ==
  /\ pc = "copy" /\ segs[target] = stranded
  /\ synced' = synced \cup {target}
  /\ pc' = "dirsync"
  /\ UNCHANGED <<segs, entries, markers, sidecars, mode, tears, active, index,
                 nextSeq, stranded, target, observed>>

SyncDirectory ==
  /\ pc = "dirsync"
  /\ entries' = DOMAIN segs
  /\ pc' = "backup"
  /\ UNCHANGED <<segs, synced, markers, sidecars, mode, tears, active, index,
                 nextSeq, stranded, target, observed>>

-----------------------------------------------------------------------------
(* backup_torn_region, then the cut.                                       *)

SidecarsHere == { b \in sidecars : b.seg = Here.seg /\ b.at = Here.at }
TornRegion   == SubSeq(segs[Here.seg], Here.at, Len(segs[Here.seg]))

\* A sidecar of the same name is truncated before it is written again.
CreateSidecar ==
  /\ pc = "backup"
  /\ sidecars' = sidecars \ SidecarsHere
  /\ pc' = "sidecar"
  /\ mishaps' = IF \E b \in SidecarsHere : ~(Whole(b.cells) \subseteq Whole(TornRegion))
                THEN mishaps \cup {"overwritten"} ELSE mishaps
  /\ UNCHANGED <<segs, synced, entries, markers, mode, tears, active, index,
                 nextSeq, stranded, target, valid, whole, skipped, opens, kills,
                 outages>>

\* Fault: only the frames that were salvaged are backed up.
WriteSidecarOfSalvaged ==
  /\ pc = "sidecar"
  /\ sidecars' = sidecars \cup {[seg |-> Here.seg, at |-> Here.at, cells |-> stranded]}
  /\ entries' = DOMAIN segs
  /\ pc' = "cut"
  /\ UNCHANGED <<segs, synced, markers, mode, tears, active, index, nextSeq,
                 stranded, target, observed>>

\* The whole region up to the end of the file, fsynced, and the directory.
WriteSidecar ==
  /\ pc = "sidecar"
  /\ sidecars' = sidecars \cup {[seg |-> Here.seg, at |-> Here.at, cells |-> TornRegion]}
  /\ entries' = DOMAIN segs
  /\ pc' = "cut"
  /\ UNCHANGED <<segs, synced, markers, mode, tears, active, index, nextSeq,
                 stranded, target, observed>>

\* set_len and sync_all.  What the file held behind the tear when it was
\* replayed is gone, and so is what a salvage has put there since.
Truncate ==
  /\ pc = "cut"
  /\ segs' = [segs EXCEPT ![Here.seg] = SubSeq(@, 1, Here.at - 1)]
  /\ synced' = synced \cup {Here.seg}
  /\ mishaps' = IF Len(segs[Here.seg]) > Here.len \/ Good(segs[Here.seg][Here.at])
                THEN mishaps \cup {"recut"} ELSE mishaps
  /\ IF target = 0
     THEN pc' = "tears" /\ tears' = tears \ {Here}
     ELSE pc' = "unmark" /\ UNCHANGED tears
  /\ UNCHANGED <<entries, markers, sidecars, mode, active, index, nextSeq,
                 stranded, target, valid, whole, skipped, opens, kills, outages>>

\* Fault: recovery ends after the first segment it has salvaged from.
RemoveMarkerAndStop ==
  /\ pc = "unmark"
  /\ markers' = markers \ MarkersHere
  /\ entries' = DOMAIN segs
  /\ pc' = "tears" /\ tears' = {}
  /\ stranded' = <<>> /\ target' = 0
  /\ UNCHANGED <<segs, synced, sidecars, mode, active, index, nextSeq, observed>>

RemoveMarker ==
  /\ pc = "unmark"
  /\ markers' = markers \ MarkersHere
  /\ entries' = DOMAIN segs
  /\ pc' = "tears" /\ tears' = tears \ {Here}
  /\ stranded' = <<>> /\ target' = 0
  /\ UNCHANGED <<segs, synced, sidecars, mode, active, index, nextSeq, observed>>

-----------------------------------------------------------------------------
(* The engine after its recovery.                                          *)

\* The active file is opened, created first when it does not exist.  A repair
\* ends here; an engine serves.
FinishOpen ==
  /\ pc = "tears" /\ tears = {}
  /\ IF active \in DOMAIN segs THEN UNCHANGED <<segs, synced, entries>>
     ELSE /\ segs' = WithSegment(active, <<>>)
          /\ synced' = synced \cup {active}
          /\ entries' = DOMAIN segs \cup {active}
  /\ pc' = IF mode = "repair" /\ ~RepairServes THEN "repaired" ELSE "up"
  /\ UNCHANGED <<markers, sidecars, mode, tears, active, index, nextSeq, stranded,
                 target, observed>>

\* An acknowledged write; its fsync covers the whole active file.
Write(k) ==
  /\ pc = "up" /\ nextSeq <= MaxSeq
  /\ LET f == [seq |-> nextSeq, key |-> k] IN
       /\ segs' = [segs EXCEPT ![active] =
                     Append(@, [kind |-> "good", seq |-> nextSeq, key |-> k])]
       /\ valid' = valid \cup {f} /\ whole' = whole \cup {f}
       /\ index' = { e \in index : e.key # k }
                     \cup {[seg |-> active, seq |-> nextSeq, key |-> k]}
  /\ nextSeq' = nextSeq + 1 /\ synced' = synced \cup {active}
  /\ UNCHANGED <<entries, markers, sidecars, pc, mode, tears, active,
                 stranded, target, skipped, mishaps, opens, kills, outages>>

Close ==
  /\ pc \in {"up", "repaired"}
  /\ Stop
  /\ UNCHANGED <<disk, valid, whole, mishaps, opens, kills, outages>>

-----------------------------------------------------------------------------
(* Kills and power losses.                                                 *)

\* The page cache survives.  A serving engine may have been in the middle of
\* a frame.
Kill ==
  /\ pc # "down" /\ kills < MaxKills
  /\ \/ UNCHANGED segs
     \/ pc = "up" /\ \E kind \in {"cut", "stub"}, k \in Keys :
          segs' = [segs EXCEPT ![active] =
                     Append(@, [kind |-> kind, seq |-> nextSeq, key |-> k])]
  /\ Stop
  /\ kills' = kills + 1
  /\ UNCHANGED <<synced, entries, markers, sidecars, valid, whole, mishaps,
                 opens, outages>>

\* What may be left of a file no fsync covers: some prefix of it, its last
\* frame perhaps cut.
Remains(s) ==
  { SubSeq(s, 1, n) : n \in 0..Len(s) }
    \cup { Append(SubSeq(s, 1, n - 1), [s[n] EXCEPT !.kind = "cut"]) : n \in 1..Len(s) }

\* Where every file is durable a power loss leaves what a kill leaves.
PowerLoss ==
  /\ outages < MaxPowerLosses /\ synced \cap entries # DOMAIN segs
  /\ \E kept \in SUBSET (DOMAIN segs \ entries) :
       LET left == entries \cup kept IN
         \E S \in [left -> UNION { Remains(segs[s]) : s \in left \ synced }
                             \cup Range(segs)] :
           /\ \A s \in left : IF s \in synced THEN S[s] = segs[s]
                              ELSE S[s] \in Remains(segs[s])
           /\ segs' = S
           /\ synced' = left /\ entries' = left
  /\ Stop
  /\ outages' = outages + 1
  /\ UNCHANGED <<markers, sidecars, valid, whole, mishaps, opens, kills>>

-----------------------------------------------------------------------------
Recover ==
  \/ IgnoreTrailing \/ RefuseToOpen \/ SkipRemainder \/ PrepareCut
  \/ StartSalvage \/ WriteMarker \/ CreateTarget \/ CopyFirstChunk \/ CopyFrame
  \/ SyncTarget \/ SyncDirectory \/ CreateSidecar \/ WriteSidecar \/ Truncate
  \/ RemoveMarker \/ FinishOpen

Next ==
  \/ \E m \in Modes : Open(m)
  \/ Recover
  \/ \E k \in Keys : Write(k)
  \/ Close \/ Kill \/ PowerLoss

Spec == Init /\ [][Next]_vars

-----------------------------------------------------------------------------
(* Properties.                                                             *)

\* Every variable has its type; a pointer's segment exists and holds its
\* frame until a cut takes it.
RepairTypeOK ==
  /\ DOMAIN segs \subseteq Segment /\ \A s \in DOMAIN segs : segs[s] \in Seq(Cell)
  /\ synced \subseteq DOMAIN segs /\ entries \subseteq DOMAIN segs
  /\ markers \subseteq [seg : Segment, at : Nat, id : Segment, len : Nat]
  /\ \A b \in sidecars : b.cells \in Seq(Cell)
  /\ mode \in Modes /\ mishaps \subseteq {"trusted", "recut", "overwritten"}
  /\ target \in {0} \cup { s \in Segment : IsNormal(s) }
  /\ valid \subseteq whole /\ skipped \subseteq Keys

\* No rerun of an interrupted repair has trusted a file it did not sync, or
\* cut the file it had just written at the tear of the interrupted copy.
Uninterrupted == mishaps \cap {"trusted", "recut"} = {}

Durable == UNION { Whole(segs[s]) : s \in synced \cap entries }
Kept    == UNION { Whole(b.cells) : b \in sidecars }

\* Whatever recovery cuts, and wherever a kill or a power loss stops it: every
\* frame that was ever complete is in a durable segment or in the durable copy
\* of a torn region (storage.rs:2960 "fsync both the copy and its directory
\* before any truncation").  Exempt is the region a later tear at the same
\* place has replaced under the same name.
CutFramesAreKept == "overwritten" \in mishaps \/ whole \subseteq Durable \cup Kept

\* A frame that replay reads or that is stranded behind a tear stays in a
\* segment file: Default and Strict opens refuse to cut it off, Repair cuts
\* its source only once the salvage segment is durable.  Exempt are repairs
\* that were interrupted while they copied, see mishaps.
StrandedFramesStay == Uninterrupted => valid \subseteq Durable

\* After a repair no segment holds stranded frames: the next open is not
\* refused, whatever mixture of damaged, salvaged and compacted segments
\* there is.
RepairedStoreOpens ==
  pc = "repaired" =>
    \A s \in DOMAIN segs : IsTorn(segs[s]) => Stranded(segs[s], Tear(segs[s], s)) = <<>>

\* A store that is open serves for every key the newest frame that may not
\* be lost, from the segment that holds it; a salvaged frame takes its place
\* among newer ones.  Only keys that were dropped with a corrupt inactive
\* segment are missing, and no older version shows instead.
NewestIsServed ==
  pc = "up" /\ Uninterrupted =>
    /\ \A f \in valid : \/ f.key \in skipped
                        \/ \E e \in index : e.key = f.key /\ e.seq >= f.seq
    /\ \A e \in index : /\ e.seg \in DOMAIN segs
                        /\ [seq |-> e.seq, key |-> e.key] \in Readable(segs[e.seg])

\* The segment that is written next has no damage left that would strand what
\* is appended, and the next sequence id is above that of every frame that
\* may not be lost, the salvaged ones included.
NextWriteIsReadable ==
  pc = "up" /\ Uninterrupted =>
    ~IsTorn(segs[active]) /\ \A f \in valid : f.seq < nextSeq
=============================================================================
