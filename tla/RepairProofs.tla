----------------------------- MODULE RepairProofs -----------------------------
(***************************************************************************)
(* Proofs about Repair, for every value of its constants, every damaged    *)
(* data directory among them: recovery cuts off no complete frame it has   *)
(* not copied durably, loses no frame that it can read or salvage, leaves  *)
(* a repaired store that opens, and an open store serves the newest frame  *)
(* of every key and appends where the next replay will read it; wherever a *)
(* kill or a power loss stops it, and however often.                       *)
(***************************************************************************)
EXTENDS Repair, SequenceTheorems, WellFoundedInduction, TLAPS

AllGood(s) == \A i \in DOMAIN s : Good(s[i])

\* At most the last cell is damaged: nothing can be stranded.
Clean(s) == \A i \in DOMAIN s : i < Len(s) => Good(s[i])

\* The first cells of r, the last one perhaps not complete.
PartOf(s, r) ==
  /\ Len(s) <= Len(r)
  /\ \A i \in DOMAIN s : \/ s[i] = r[i]
                         \/ i = Len(s) /\ s[i] = [r[i] EXCEPT !.kind = "cut"]

\* The frames stranded in a file, which is damaged if there are any.
Left(s, seg)    == Stranded(s, Tear(s, seg))
Damaged(s, seg) == IsTorn(s) /\ Left(s, seg) # <<>>

-----------------------------------------------------------------------------
(* Lowest and highest elements.                                            *)

\* A set of natural numbers that is not empty has a lowest element.
LEMMA LowestOf ==
  ASSUME NEW T, T \subseteq Nat, T # {}
  PROVE  \E x \in T : \A y \in T : x <= y
<1>1. PICK x \in T : \A y \in T : ~ (<<y, x>> \in OpToRel(<, Nat))
  BY WFMin, NatLessThanWellFounded
<1>2. ASSUME NEW y \in T PROVE x <= y
  <2>1. x \in Nat /\ y \in Nat
    OBVIOUS
  <2>2. ~ (y < x)
    BY <1>1, <2>1 DEF OpToRel
  <2> QED BY <2>1, <2>2
<1> QED BY <1>2

\* Max finds the highest element of a bounded set of natural numbers.
LEMMA MaxOf ==
  ASSUME NEW T, T \subseteq Nat, T # {}, NEW b \in Nat, \A x \in T : x <= b
  PROVE  Max(T) \in T /\ \A y \in T : y <= Max(T)
<1> DEFINE D == { b - x : x \in T }
<1>1. D \subseteq Nat /\ D # {}
  <2>1. \A x \in T : b - x \in Nat
    OBVIOUS
  <2>2. D # {}
    OBVIOUS
  <2> QED BY <2>1, <2>2
<1> HIDE DEF D
<1>2. PICK d \in D : \A e \in D : d <= e
  BY <1>1, LowestOf
<1>3. PICK x \in T : d = b - x
  BY DEF D
<1>4. ASSUME NEW y \in T PROVE x >= y
  <2>1. b - y \in D
    BY DEF D
  <2>2. b - x <= b - y
    BY <1>2, <1>3, <2>1
  <2>3. x \in Nat /\ y \in Nat
    OBVIOUS
  <2> QED BY <2>2, <2>3
<1>5. \E z \in T : \A y \in T : z >= y
  BY <1>4
<1>6. Max(T) \in T /\ \A y \in T : Max(T) >= y
  BY <1>5 DEF Max
<1> QED BY <1>6

\* Min finds the lowest one.
LEMMA MinOf ==
  ASSUME NEW T, T \subseteq Nat, T # {}
  PROVE  Min(T) \in T /\ \A y \in T : Min(T) <= y
<1>1. \E x \in T : \A y \in T : x <= y
  BY LowestOf
<1> QED BY <1>1 DEF Min

-----------------------------------------------------------------------------
(* Reading a damaged file.                                                 *)

\* Every cell before the tear is good, and the one at the tear is not.
LEMMA PrefixFits ==
  ASSUME NEW s \in Seq(Cell)
  PROVE  /\ PrefixLen(s) \in 0..Len(s)
         /\ \A i \in 1..PrefixLen(s) : Good(s[i])
         /\ PrefixLen(s) = Len(s) \/ ~Good(s[PrefixLen(s) + 1])
<1> DEFINE P(n) == /\ \A i \in 1..n : Good(s[i])
                   /\ n = Len(s) \/ ~Good(s[n + 1])
           B == { i \in 1..Len(s) : ~Good(s[i]) }
<1>1. Len(s) \in Nat
  OBVIOUS
<1>2. \E n \in 0..Len(s) : P(n)
  <2>1. CASE B = {}
    <3>1. P(Len(s))
      BY <2>1, <1>1
    <3> QED BY <3>1, <1>1
  <2>2. CASE B # {}
    <3>1. B \subseteq Nat
      BY <1>1
    <3>2. PICK b \in B : \A c \in B : b <= c
      BY <3>1, <2>2, LowestOf
    <3>3. b - 1 \in 0..Len(s) /\ b \in 1..Len(s) /\ ~Good(s[b])
      BY <1>1
    <3>4. \A i \in 1..(b - 1) : Good(s[i])
      BY <3>2, <3>3, <1>1
    <3>5. (b - 1) + 1 = b
      BY <3>3
    <3>6. P(b - 1)
      BY <3>3, <3>4, <3>5
    <3> QED BY <3>3, <3>6
  <2> QED BY <2>1, <2>2
<1>3. PrefixLen(s) = CHOOSE n \in 0..Len(s) : P(n)
  BY DEF PrefixLen
<1> HIDE DEF P
<1>4. PrefixLen(s) \in 0..Len(s) /\ P(PrefixLen(s))
  BY <1>2, <1>3
<1> QED BY <1>4 DEF P

\* There is only one such place.
LEMMA PrefixIs ==
  ASSUME NEW s \in Seq(Cell), NEW n \in 0..Len(s),
         \A i \in 1..n : Good(s[i]), n = Len(s) \/ ~Good(s[n + 1])
  PROVE  PrefixLen(s) = n
<1>1. Len(s) \in Nat /\ n \in Nat /\ n <= Len(s)
  OBVIOUS
<1> DEFINE m == PrefixLen(s)
<1>2. /\ m \in 0..Len(s) /\ \A i \in 1..m : Good(s[i])
      /\ m = Len(s) \/ ~Good(s[m + 1])
  BY PrefixFits
<1> HIDE DEF m
<1>3. ~(m < n)
  BY <1>1, <1>2
<1>4. ~(n < m)
  BY <1>1, <1>2
<1> QED BY <1>1, <1>2, <1>3, <1>4 DEF m

\* The content of a part of a file.
LEMMA PartsHold ==
  ASSUME NEW s \in Seq(Cell), NEW m \in 1..(Len(s) + 1), NEW n \in 0..Len(s)
  PROVE  /\ SubSeq(s, m, n) \in Seq(Cell)
         /\ Len(SubSeq(s, m, n)) = IF m <= n THEN n - m + 1 ELSE 0
         /\ \A i \in 1..Len(SubSeq(s, m, n)) : SubSeq(s, m, n)[i] = s[m + i - 1]
         /\ \A i \in m..n : \E j \in DOMAIN SubSeq(s, m, n) : SubSeq(s, m, n)[j] = s[i]
         /\ Whole(SubSeq(s, m, n)) \subseteq Whole(s)
<1>1. Len(s) \in Nat /\ m \in Nat /\ n \in Nat
  OBVIOUS
<1> DEFINE r == SubSeq(s, m, n)
<1>2. r \in Seq(Cell) /\ DOMAIN r = 1..Len(r)
      /\ Len(r) = IF m <= n THEN n - m + 1 ELSE 0
  <2>1. \A i \in m..n : s[i] \in Cell
    BY <1>1
  <2> QED BY <2>1, <1>1, SubSeqProperties
<1>3. \A i \in 1..Len(r) : r[i] = s[m + i - 1]
  BY <1>1, <1>2
<1> HIDE DEF r
<1>4. \A i \in 1..Len(r) : m + i - 1 \in DOMAIN s
  BY <1>1, <1>2
<1>5. Whole(r) \subseteq Whole(s)
  BY <1>2, <1>3, <1>4 DEF Whole
<1>6. ASSUME NEW i \in m..n PROVE \E j \in DOMAIN r : r[j] = s[i]
  <2>1. i - m + 1 \in 1..Len(r) /\ m + (i - m + 1) - 1 = i
    BY <1>1, <1>2
  <2> QED BY <2>1, <1>2, <1>3
<1> QED BY <1>2, <1>3, <1>5, <1>6 DEF r

\* A good file is read to its end.
LEMMA GoodReads ==
  ASSUME NEW s \in Seq(Cell), AllGood(s)
  PROVE  PrefixLen(s) = Len(s) /\ ~IsTorn(s) /\ Readable(s) = Whole(s) /\ Clean(s)
<1>1. Len(s) \in 0..Len(s) /\ \A i \in 1..Len(s) : Good(s[i])
  BY DEF AllGood
<1>2. PrefixLen(s) = Len(s)
  BY <1>1, PrefixIs
<1>3. SubSeq(s, 1, Len(s)) = s
  BY SubSeqFull
<1>4. Readable(s) = Whole(s)
  BY <1>2, <1>3 DEF Readable
<1>5. ~IsTorn(s)
  BY <1>2 DEF IsTorn
<1>6. Clean(s)
  BY DEF Clean, AllGood
<1> QED BY <1>2, <1>4, <1>5, <1>6

\* A file that is not torn is good.
LEMMA UntornIsGood ==
  ASSUME NEW s \in Seq(Cell), ~IsTorn(s)
  PROVE  AllGood(s)
<1>1. PrefixLen(s) = Len(s)
  BY PrefixFits DEF IsTorn
<1> QED BY <1>1, PrefixFits DEF AllGood

\* Where replay stops, and what it has read.
LEMMA CutIsGood ==
  ASSUME NEW s \in Seq(Cell), NEW n \in 0..PrefixLen(s)
  PROVE  LET c == SubSeq(s, 1, n) IN
           /\ c \in Seq(Cell) /\ AllGood(c) /\ Len(c) = n
           /\ n = PrefixLen(s) => Readable(c) = Readable(s)
<1> DEFINE c == SubSeq(s, 1, n)
<1>1. n \in 0..Len(s) /\ Len(s) \in Nat /\ \A i \in 1..n : Good(s[i])
  BY PrefixFits
<1>2. /\ c \in Seq(Cell) /\ Len(c) = n
      /\ \A i \in 1..Len(c) : c[i] = s[1 + i - 1]
  BY <1>1, PartsHold
<1> HIDE DEF c
<1>3. AllGood(c)
  BY <1>1, <1>2 DEF AllGood
<1>4. Readable(c) = Whole(c)
  BY <1>2, <1>3, GoodReads
<1> QED BY <1>2, <1>3, <1>4 DEF c, Readable

\* What replay reads of a file is in it.
LEMMA ReadableInFile ==
  ASSUME NEW s \in Seq(Cell)
  PROVE  Readable(s) \subseteq Whole(s)
<1>1. 1 \in 1..(Len(s) + 1) /\ PrefixLen(s) \in 0..Len(s)
  BY PrefixFits
<1> QED BY <1>1, PartsHold DEF Readable

\* The place of a tear.
LEMMA TearPlace ==
  ASSUME NEW s \in Seq(Cell), NEW seg, IsTorn(s)
  PROVE  LET t == Tear(s, seg) IN
           /\ t.seg = seg /\ t.at \in 1..Len(s) /\ t.len = Len(s)
           /\ t.at = PrefixLen(s) + 1
           /\ t.kind = s[t.at].kind /\ t.kind \in Kinds \ {"good"}
           /\ \A i \in 1..(t.at - 1) : Good(s[i])
           /\ ~Good(s[t.at])
<1>1. /\ PrefixLen(s) \in 0..(Len(s) - 1) /\ Len(s) \in Nat
      /\ ~Good(s[PrefixLen(s) + 1])
      /\ \A i \in 1..PrefixLen(s) : Good(s[i])
  BY PrefixFits DEF IsTorn
<1>2. s[PrefixLen(s) + 1] \in Cell
  BY <1>1
<1>3. s[PrefixLen(s) + 1].kind \in Kinds /\ s[PrefixLen(s) + 1].kind # "good"
  BY <1>1, <1>2 DEF Good, Cell
<1>4. /\ (PrefixLen(s) + 1) - 1 = PrefixLen(s) /\ PrefixLen(s) + 1 \in 1..Len(s)
  BY <1>1
<1>5. /\ Tear(s, seg).seg = seg /\ Tear(s, seg).at = PrefixLen(s) + 1
      /\ Tear(s, seg).len = Len(s) /\ Tear(s, seg).kind = s[PrefixLen(s) + 1].kind
  BY DEF Tear
<1> HIDE DEF Kinds
<1> QED BY <1>1, <1>3, <1>4, <1>5

\* What is salvaged are complete frames of the file, behind the tear.
LEMMA StrandedFits ==
  ASSUME NEW s \in Seq(Cell), NEW t, t.at \in Nat, t.len \in 0..Len(s)
  PROVE  LET r == Stranded(s, t) IN
           /\ r \in Seq(Cell) /\ AllGood(r) /\ Whole(r) \subseteq Whole(s)
           /\ r # <<>> => t.at < t.len
<1> DEFINE e == SubSeq(s, 1, t.len)
<1>0. Len(s) \in Nat /\ t.len \in Nat
  OBVIOUS
<1>1. /\ e \in Seq(Cell) /\ Len(e) = t.len /\ Whole(e) \subseteq Whole(s)
  BY <1>0, PartsHold
<1>2. CASE Resync(e, t) = {}
  <2>1. Stranded(s, t) = <<>>
    BY <1>2 DEF Stranded
  <2> QED BY <2>1 DEF AllGood, Whole
<1>3. CASE Resync(e, t) # {}
  <2> DEFINE p == Min(Resync(e, t))
             o == IsNormal(t.seg)
             ends == { q \in p..Len(e) :
                         /\ \A i \in p..q : Good(e[i])
                         /\ o => \A i \in (p + 1)..q : e[i].seq > e[i - 1].seq }
  <2> HIDE DEF e, o
  <2>1. Stranded(s, t) = Run(e, p, o)
    BY <1>3 DEF Stranded, e, o
  <2>2. Resync(e, t) \subseteq Nat
    BY <1>0, <1>1 DEF Resync
  <2>3. p \in Resync(e, t)
    BY <1>3, <2>2, MinOf
  <2>4. p \in (t.at + 1)..Len(e) /\ Good(e[p]) /\ p \in 1..Len(e)
    <3>1. p \in (t.at + 1)..Len(e) /\ Good(e[p])
      BY <2>3 DEF Resync
    <3> HIDE DEF p
    <3> QED BY <3>1, <1>1
  <2> HIDE DEF p
  <2>5. p \in ends
    BY <2>4, <1>1
  <2>6. ends \subseteq Nat /\ \A q \in ends : q <= Len(e)
    BY <2>4, <1>1
  <2>7. Max(ends) \in ends
    <3>1. ends # {} /\ Len(e) \in Nat
      BY <2>5, <1>1
    <3> HIDE DEF ends
    <3> QED BY <3>1, <2>6, MaxOf
  <2>8. Run(e, p, o) = SubSeq(e, p, Max(ends))
    BY DEF Run
  <2>9. PICK q \in ends : Run(e, p, o) = SubSeq(e, p, q)
    BY <2>7, <2>8
  <2>10. q \in p..Len(e) /\ \A i \in p..q : Good(e[i])
    OBVIOUS
  <2> HIDE DEF ends
  <2> DEFINE r == SubSeq(e, p, q)
  <2>11. /\ r \in Seq(Cell) /\ Len(r) = q - p + 1 /\ Whole(r) \subseteq Whole(e)
         /\ \A i \in 1..Len(r) : r[i] = e[p + i - 1]
    <3>1. p \in 1..(Len(e) + 1) /\ q \in 0..Len(e) /\ p <= q
      BY <2>4, <2>10, <1>1
    <3> QED BY <3>1, <1>1, PartsHold
  <2> HIDE DEF r
  <2>12. AllGood(r)
    <3>1. \A i \in 1..Len(r) : p + i - 1 \in p..q
      BY <2>4, <2>10, <2>11, <1>1
    <3> QED BY <3>1, <2>10, <2>11 DEF AllGood
  <2>13. t.at < t.len
    BY <2>4, <1>1
  <2>14. Stranded(s, t) = r
    BY <2>1, <2>9 DEF r
  <2> QED BY <2>11, <2>12, <2>13, <2>14, <1>1
<1> QED BY <1>2, <1>3

\* Behind the tear of a clean file there is nothing.
LEMMA CleanTear ==
  ASSUME NEW s \in Seq(Cell), NEW seg, Clean(s)
  PROVE  /\ ~Damaged(s, seg)
         /\ IsTorn(s) => /\ Tear(s, seg).at = Len(s)
                         /\ Whole(SubSeq(s, Len(s), Len(s))) = {}
<1> SUFFICES ASSUME IsTorn(s)
             PROVE  /\ ~Damaged(s, seg) /\ Tear(s, seg).at = Len(s)
                    /\ Whole(SubSeq(s, Len(s), Len(s))) = {}
  BY DEF Damaged
<1>1. /\ Tear(s, seg).at \in 1..Len(s) /\ Tear(s, seg).len = Len(s)
      /\ ~Good(s[Tear(s, seg).at]) /\ Len(s) \in Nat
  BY TearPlace
<1>2. Tear(s, seg).at = Len(s)
  BY <1>1 DEF Clean
<1>3. Left(s, seg) = <<>>
  BY <1>1, <1>2, StrandedFits DEF Left
<1>4. Whole(SubSeq(s, Len(s), Len(s))) = {}
  <2> DEFINE r == SubSeq(s, Len(s), Len(s))
  <2>1. Len(s) \in 1..(Len(s) + 1) /\ Len(s) \in 0..Len(s)
    BY <1>1
  <2>2. r \in Seq(Cell) /\ \A i \in 1..Len(r) : r[i] = s[Len(s) + i - 1] /\ Len(r) = 1
    BY <2>1, <1>1, PartsHold
  <2> HIDE DEF r
  <2>3. \A i \in DOMAIN r : r[i] = s[Len(s)]
    BY <2>2, <1>1
  <2> QED BY <2>3, <1>1, <1>2 DEF Whole, r
<1> QED BY <1>2, <1>3, <1>4 DEF Damaged

\* What a damaged file still holds.
LEMMA DamagedFits ==
  ASSUME NEW s \in Seq(Cell), NEW seg, Damaged(s, seg)
  PROVE  /\ Left(s, seg) \in Seq(Cell) /\ AllGood(Left(s, seg))
         /\ Left(s, seg) # <<>> /\ Whole(Left(s, seg)) \subseteq Whole(s)
         /\ ~Clean(s) /\ ~AllGood(s) /\ IsTorn(s)
<1>1. IsTorn(s) /\ Left(s, seg) # <<>>
  BY DEF Damaged
<1>2. /\ Tear(s, seg).at \in 1..Len(s) /\ Tear(s, seg).len = Len(s)
  BY <1>1, TearPlace
<1>3. Tear(s, seg).at \in Nat /\ Tear(s, seg).len \in 0..Len(s)
  BY <1>2
<1>4. /\ Left(s, seg) \in Seq(Cell) /\ AllGood(Left(s, seg))
      /\ Whole(Left(s, seg)) \subseteq Whole(s)
  BY <1>3, StrandedFits DEF Left
<1>5. ~Clean(s)
  BY CleanTear
<1>6. ~AllGood(s)
  BY <1>1, GoodReads
<1> QED BY <1>1, <1>4, <1>5, <1>6

\* What no open may lose of a file.
LEMMA RescuableFits ==
  ASSUME NEW s \in Seq(Cell), NEW seg
  PROVE  /\ Rescuable(s, seg) \subseteq Whole(s)
         /\ Rescuable(s, seg) = Readable(s) \cup
                                 (IF Damaged(s, seg) THEN Whole(Left(s, seg)) ELSE {})
         /\ AllGood(s) => Rescuable(s, seg) = Whole(s)
<1>1. Whole(<<>>) = {}
  BY DEF Whole
<1>2. Rescuable(s, seg) = Readable(s) \cup
                                 (IF Damaged(s, seg) THEN Whole(Left(s, seg)) ELSE {})
  BY <1>1 DEF Rescuable, Damaged, Left
<1>3. Readable(s) \subseteq Whole(s)
  BY ReadableInFile
<1>4. Damaged(s, seg) => Whole(Left(s, seg)) \subseteq Whole(s)
  BY DamagedFits
<1>5. AllGood(s) => ~Damaged(s, seg) /\ Readable(s) = Whole(s)
  BY GoodReads, DamagedFits
<1> QED BY <1>2, <1>3, <1>4, <1>5

\* A copy that is not complete holds nothing else.
LEMMA PartFits ==
  ASSUME NEW s \in Seq(Cell), NEW r \in Seq(Cell), AllGood(r), PartOf(s, r)
  PROVE  /\ Clean(s) /\ Whole(s) \subseteq Whole(r)
         /\ Len(s) = Len(r) /\ ~IsTorn(s) => s = r
         /\ IsTorn(s) => Len(s) > 0 /\ s[Len(s)].kind = "cut"
         /\ ~IsTorn(s) => \A i \in DOMAIN s : s[i] = r[i]
<1>1. /\ Len(s) \in Nat /\ Len(r) \in Nat /\ Len(s) <= Len(r)
      /\ DOMAIN s = 1..Len(s) /\ DOMAIN r = 1..Len(r)
  BY DEF PartOf
<1>2. \A i \in DOMAIN s : i \in DOMAIN r /\ r[i] \in Cell /\ Good(r[i]) /\ s[i] \in Cell
  BY <1>1 DEF AllGood
<1>3. \A i \in DOMAIN s : [r[i] EXCEPT !.kind = "cut"].kind = "cut"
  BY <1>2 DEF Cell
<1>4. \A i \in DOMAIN s : Good(s[i]) => s[i] = r[i]
  BY <1>3 DEF PartOf, Good
<1>5. Clean(s)
  <2>1. \A i \in DOMAIN s : i < Len(s) => s[i] = r[i]
    BY <1>1 DEF PartOf
  <2> QED BY <2>1, <1>2 DEF Clean
<1>6. Whole(s) \subseteq Whole(r)
  BY <1>2, <1>4 DEF Whole
<1>7. ASSUME ~IsTorn(s) PROVE \A i \in DOMAIN s : s[i] = r[i]
  <2>1. AllGood(s)
    BY <1>7, UntornIsGood
  <2> QED BY <2>1, <1>4 DEF AllGood
<1>8. ASSUME Len(s) = Len(r), ~IsTorn(s) PROVE s = r
  BY <1>1, <1>7, <1>8, SeqEqual
<1>9. ASSUME IsTorn(s) PROVE Len(s) > 0 /\ s[Len(s)].kind = "cut"
  <2>1. /\ Tear(s, 0).at \in 1..Len(s) /\ ~Good(s[Tear(s, 0).at])
    BY <1>9, TearPlace
  <2>2. Tear(s, 0).at = Len(s)
    BY <1>5, <1>9, CleanTear
  <2>3. Len(s) \in DOMAIN s /\ ~Good(s[Len(s)])
    BY <2>1, <2>2, <1>1
  <2>4. s[Len(s)] = [r[Len(s)] EXCEPT !.kind = "cut"]
    BY <2>3, <1>2 DEF PartOf
  <2> QED BY <2>1, <2>2, <2>3, <2>4, <1>1, <1>3
<1> QED BY <1>5, <1>6, <1>7, <1>8, <1>9

\* Its first cells are such a copy too.
LEMMA PrefixOfPart ==
  ASSUME NEW s \in Seq(Cell), NEW r \in Seq(Cell), PartOf(s, r), NEW n \in 0..Len(s)
  PROVE  PartOf(SubSeq(s, 1, n), r)
<1> DEFINE c == SubSeq(s, 1, n)
<1>1. /\ Len(s) \in Nat /\ Len(r) \in Nat /\ Len(s) <= Len(r) /\ n \in Nat /\ n <= Len(s)
      /\ DOMAIN s = 1..Len(s)
  BY DEF PartOf
<1>2. c \in Seq(Cell) /\ Len(c) = n /\ \A i \in 1..Len(c) : c[i] = s[1 + i - 1]
  BY <1>1, PartsHold
<1> HIDE DEF c
<1>3. \A i \in DOMAIN c : i \in DOMAIN s /\ c[i] = s[i] /\ (i = Len(s) => i = Len(c))
  BY <1>1, <1>2
<1>4. PartOf(c, r)
  BY <1>1, <1>2, <1>3 DEF PartOf
<1> QED BY <1>4 DEF c

\* Appending to a good file.
LEMMA AppendFits ==
  ASSUME NEW s \in Seq(Cell), NEW c \in Cell, AllGood(s)
  PROVE  /\ Append(s, c) \in Seq(Cell) /\ Clean(Append(s, c))
         /\ Good(c) => /\ AllGood(Append(s, c))
                       /\ Whole(Append(s, c)) = Whole(s) \cup {Frame(c)}
         /\ ~Good(c) => Readable(Append(s, c)) = Whole(s)
         /\ StubsAreLast(Append(s, c))
<1> DEFINE a == Append(s, c)
<1>1. /\ a \in Seq(Cell) /\ Len(a) = Len(s) + 1 /\ Len(s) \in Nat
      /\ \A i \in 1..Len(s) : a[i] = s[i] /\ Good(a[i])
      /\ a[Len(s) + 1] = c
  BY AppendProperties DEF AllGood
<1> HIDE DEF a
<1>2. DOMAIN a = 1..(Len(s) + 1) /\ DOMAIN s = 1..Len(s)
  BY <1>1
<1>3. Clean(a)
  BY <1>1, <1>2 DEF Clean
<1>4. ASSUME Good(c) PROVE AllGood(a) /\ Whole(a) = Whole(s) \cup {Frame(c)}
  <2>1. \A i \in DOMAIN a : i = Len(s) + 1 \/ i \in DOMAIN s
    BY <1>1, <1>2
  <2>2. Len(s) + 1 \in DOMAIN a /\ \A i \in DOMAIN s : i \in DOMAIN a
    BY <1>1, <1>2
  <2>3. AllGood(a)
    BY <1>1, <1>2, <1>4, <2>1 DEF AllGood
  <2>4. Whole(a) = { Frame(a[i]) : i \in DOMAIN a }
    BY <2>3 DEF AllGood, Whole
  <2>5. Whole(s) = { Frame(s[i]) : i \in DOMAIN s }
    BY DEF AllGood, Whole
  <2> QED BY <2>1, <2>2, <2>3, <2>4, <2>5, <1>1, <1>2
<1>5. StubsAreLast(a)
  <2>1. \A i \in DOMAIN a : i # Len(a) => Good(a[i])
    BY <1>1, <1>2
  <2> QED BY <2>1 DEF StubsAreLast, Good
<1>6. ASSUME ~Good(c) PROVE Readable(a) = Whole(s)
  <2>1. PrefixLen(a) = Len(s)
    <3>1. Len(s) \in 0..Len(a) /\ \A i \in 1..Len(s) : Good(a[i])
      BY <1>1
    <3>2. ~Good(a[Len(s) + 1])
      BY <1>1, <1>6
    <3> QED BY <3>1, <3>2, <1>1, PrefixIs
  <2> DEFINE q == SubSeq(a, 1, Len(s))
  <2>2. q \in Seq(Cell) /\ Len(q) = Len(s) /\ \A i \in 1..Len(q) : q[i] = a[1 + i - 1]
    <3>1. 1 \in 1..(Len(a) + 1) /\ Len(s) \in 0..Len(a)
      BY <1>1
    <3>2. /\ q \in Seq(Cell) /\ \A i \in 1..Len(q) : q[i] = a[1 + i - 1]
          /\ Len(q) = IF 1 <= Len(s) THEN Len(s) - 1 + 1 ELSE 0
      BY <3>1, <1>1, PartsHold
    <3> HIDE DEF q
    <3> QED BY <3>2, <1>1
  <2> HIDE DEF q
  <2>3. \A i \in 1..Len(s) : q[i] = s[i]
    BY <2>2, <1>1
  <2>4. q = s
    BY <2>2, <2>3, SeqEqual
  <2> QED BY <2>1, <2>4 DEF q, Readable
<1> QED BY <1>1, <1>3, <1>4, <1>5, <1>6 DEF a

\* What a power loss leaves of a clean file, of a copy, of a good file.
LEMMA RemainsFit ==
  ASSUME NEW s \in Seq(Cell), Clean(s), NEW x \in Remains(s)
  PROVE  /\ x \in Seq(Cell) /\ Clean(x)
         /\ StubsAreLast(s) => StubsAreLast(x)
         /\ \A r \in Seq(Cell) : AllGood(r) /\ PartOf(s, r) => PartOf(x, r)
<1>1. Len(s) \in Nat /\ DOMAIN s = 1..Len(s)
  OBVIOUS
<1>2. CASE \E n \in 0..Len(s) : x = SubSeq(s, 1, n)
  <2>1. PICK n \in 0..Len(s) : x = SubSeq(s, 1, n)
    BY <1>2
  <2>2. x \in Seq(Cell) /\ Len(x) = n /\ \A i \in 1..Len(x) : x[i] = s[1 + i - 1]
    <3>1. /\ x \in Seq(Cell) /\ \A i \in 1..Len(x) : x[i] = s[1 + i - 1]
          /\ Len(x) = IF 1 <= n THEN n - 1 + 1 ELSE 0
      BY <2>1, <1>1, PartsHold
    <3> QED BY <3>1
  <2>3. \A i \in DOMAIN x : /\ i \in DOMAIN s /\ x[i] = s[i] /\ i <= Len(x)
                            /\ i < Len(x) => i < Len(s)
    BY <2>2, <1>1
  <2>4. Clean(x)
    BY <2>3 DEF Clean
  <2>5. StubsAreLast(s) => StubsAreLast(x)
    BY <2>2, <2>3, <1>1 DEF StubsAreLast
  <2> QED BY <2>1, <2>2, <2>4, <2>5, PrefixOfPart
<1>3. CASE \E n \in 1..Len(s) :
             x = Append(SubSeq(s, 1, n - 1), [s[n] EXCEPT !.kind = "cut"])
  <2>1. PICK n \in 1..Len(s) :
               x = Append(SubSeq(s, 1, n - 1), [s[n] EXCEPT !.kind = "cut"])
    BY <1>3
  <2> DEFINE q == SubSeq(s, 1, n - 1)
             c == [s[n] EXCEPT !.kind = "cut"]
  <2>2. q \in Seq(Cell) /\ Len(q) = n - 1 /\ \A i \in 1..Len(q) : q[i] = s[1 + i - 1]
    <3>1. /\ q \in Seq(Cell) /\ \A i \in 1..Len(q) : q[i] = s[1 + i - 1]
          /\ Len(q) = IF 1 <= n - 1 THEN n - 1 - 1 + 1 ELSE 0
      <4>1. n - 1 \in 0..Len(s) /\ 1 \in 1..(Len(s) + 1)
        BY <1>1
      <4> QED BY <4>1, <1>1, PartsHold
    <3> HIDE DEF q
    <3> QED BY <3>1
  <2>3. c \in Cell /\ ~Good(c) /\ c.kind = "cut"
    <3>1. s[n] \in Cell
      OBVIOUS
    <3> QED BY <3>1 DEF Cell, Kinds, Good
  <2> HIDE DEF q
  <2>4. AllGood(q)
    <3>1. \A i \in DOMAIN q : i \in DOMAIN s /\ i < Len(s) /\ q[i] = s[i]
      BY <2>2, <1>1
    <3> QED BY <3>1 DEF Clean, AllGood
  <2>5. x = Append(q, c)
    BY <2>1 DEF q
  <2>6. x \in Seq(Cell) /\ Clean(x) /\ StubsAreLast(x)
    <3> HIDE DEF c
    <3> QED BY <2>2, <2>3, <2>4, <2>5, AppendFits
  <2>7. /\ Len(x) = n /\ x[n] = c /\ DOMAIN x = 1..n
        /\ \A i \in 1..(n - 1) : x[i] = s[i]
    <3> HIDE DEF c
    <3>1. /\ Len(x) = Len(q) + 1 /\ x[Len(q) + 1] = c
          /\ \A i \in 1..Len(q) : x[i] = q[i]
      BY <2>2, <2>3, <2>5, AppendProperties
    <3> QED BY <3>1, <2>2, <2>6, <1>1
  <2>8. ASSUME NEW r \in Seq(Cell), AllGood(r), PartOf(s, r)
        PROVE  PartOf(x, r)
    <3>1. Len(s) <= Len(r) /\ Len(r) \in Nat
      BY <2>8 DEF PartOf
    <3>2. ASSUME NEW i \in DOMAIN x, i # n PROVE x[i] = r[i]
      <4> HIDE DEF c
      <4>1. i \in 1..(n - 1) /\ i \in 1..Len(s) /\ i # Len(s)
        BY <2>7, <3>2, <1>1
      <4>2. s[i] = r[i]
        BY <4>1, <2>8, <1>1 DEF PartOf
      <4> QED BY <4>1, <4>2, <2>7
    <3>3. c = [r[n] EXCEPT !.kind = "cut"]
      <4>1. r[n] \in Cell /\ s[n] \in Cell
        BY <3>1, <1>1
      <4>2. s[n] = r[n] \/ s[n] = [r[n] EXCEPT !.kind = "cut"]
        BY <2>8, <1>1 DEF PartOf
      <4> QED BY <4>1, <4>2 DEF Cell
    <3> HIDE DEF c
    <3> QED BY <3>1, <3>2, <3>3, <2>7, <1>1 DEF PartOf
  <2> QED BY <2>6, <2>8
<1> QED BY <1>2, <1>3 DEF Remains

-----------------------------------------------------------------------------
(* Sequence ids.                                                           *)

\* The ids in a file are bounded.
LEMMA FileIds ==
  ASSUME NEW s \in Seq(Cell)
  PROVE  \E b \in Nat : \A i \in DOMAIN s : s[i].seq <= b
<1> DEFINE P(n) == \E b \in Nat : \A i \in 1..n : s[i].seq <= b
           B == { n \in 0..Len(s) : ~P(n) }
<1>1. Len(s) \in Nat /\ DOMAIN s = 1..Len(s) /\ \A i \in 1..Len(s) : s[i].seq \in Nat
  <2>1. \A i \in 1..Len(s) : s[i] \in Cell
    OBVIOUS
  <2> QED BY <2>1 DEF Cell
<1>2. P(0)
  <2>1. \A i \in 1..0 : s[i].seq <= 0
    OBVIOUS
  <2> QED BY <2>1
<1>3. ASSUME NEW n \in 1..Len(s), P(n - 1) PROVE P(n)
  <2>1. PICK b \in Nat : \A i \in 1..(n - 1) : s[i].seq <= b
    BY <1>3
  <2>2. \A i \in 1..n : s[i].seq \in Nat /\ (i = n \/ i \in 1..(n - 1))
    BY <1>1
  <2>3. s[n].seq \in Nat /\ b + s[n].seq \in Nat
    BY <1>1
  <2>4. \A i \in 1..n : s[i].seq <= b + s[n].seq
    BY <2>1, <2>2, <2>3
  <2> QED BY <2>3, <2>4
<1> HIDE DEF P
<1>4. B = {}
  <2> SUFFICES ASSUME B # {} PROVE FALSE
    OBVIOUS
  <2>1. B \subseteq Nat
    BY <1>1
  <2>2. PICK n \in B : \A m \in B : n <= m
    BY <2>1, LowestOf
  <2>3. n \in 1..Len(s)
    BY <2>2, <1>1, <1>2
  <2>4. n - 1 \in 0..Len(s) /\ n - 1 \notin B
    BY <2>2, <2>3, <1>1
  <2> QED BY <2>2, <2>3, <2>4, <1>3
<1>5. P(Len(s))
  BY <1>1, <1>4
<1> QED BY <1>1, <1>5 DEF P

\* So are the ids in all files.
LEMMA AllIds ==
  ASSUME NEW S, DOMAIN S \subseteq Segment, S \in [DOMAIN S -> Seq(Cell)]
  PROVE  \E b \in Nat : \A s \in DOMAIN S : \A i \in DOMAIN S[s] : S[s][i].seq <= b
<1> DEFINE N == 2 * CompactionBase
           P(n) == \E b \in Nat : \A s \in DOMAIN S : s <= n =>
                     \A i \in DOMAIN S[s] : S[s][i].seq <= b
           B == { n \in 0..N : ~P(n) }
<1>1. N \in Nat /\ \A s \in DOMAIN S : s \in 1..N
  BY RepairAssumption DEF Segment
<1> HIDE DEF N
<1>2. P(0)
  BY <1>1
<1>3. ASSUME NEW n \in 1..N, P(n - 1) PROVE P(n)
  <2>1. PICK b \in Nat : \A s \in DOMAIN S : s <= n - 1 =>
                           \A i \in DOMAIN S[s] : S[s][i].seq <= b
    BY <1>3
  <2>2. \E d \in Nat : n \in DOMAIN S => \A i \in DOMAIN S[n] : S[n][i].seq <= d
    <3>1. CASE n \in DOMAIN S
      BY <3>1, FileIds
    <3> QED BY <3>1
  <2>3. PICK d \in Nat : n \in DOMAIN S => \A i \in DOMAIN S[n] : S[n][i].seq <= d
    BY <2>2
  <2>4. b + d \in Nat
    OBVIOUS
  <2>5. ASSUME NEW s \in DOMAIN S, s <= n, NEW i \in DOMAIN S[s]
        PROVE  S[s][i].seq <= b + d
    <3>1. S[s][i].seq \in Nat
      <4>1. S[s] \in Seq(Cell)
        OBVIOUS
      <4>2. S[s][i] \in Cell
        BY <4>1
      <4> QED BY <4>2 DEF Cell
    <3>2. s \in Nat /\ (s = n \/ s <= n - 1)
      BY <2>5, <1>1
    <3> QED BY <3>1, <3>2, <2>1, <2>3
  <2> QED BY <2>4, <2>5
<1> HIDE DEF P
<1>4. B = {}
  <2> SUFFICES ASSUME B # {} PROVE FALSE
    OBVIOUS
  <2>1. B \subseteq Nat
    BY <1>1
  <2>2. PICK n \in B : \A m \in B : n <= m
    BY <2>1, LowestOf
  <2>3. n \in 1..N
    BY <2>2, <1>1, <1>2
  <2>4. n - 1 \in 0..N /\ n - 1 \notin B
    BY <2>2, <2>3, <1>1
  <2> QED BY <2>2, <2>3, <2>4, <1>3
<1>5. P(N)
  BY <1>1, <1>4
<1> QED BY <1>1, <1>5 DEF P

\* The highest id of a set of cells or frames is at least that of each.
LEMMA TopSeqFits ==
  ASSUME NEW C, NEW b \in Nat, \A c \in C : c.seq \in Nat /\ c.seq <= b
  PROVE  /\ TopSeq(C) \in Nat /\ \A c \in C : c.seq <= TopSeq(C)
         /\ TopSeq(C) = 0 \/ \E c \in C : c.seq = TopSeq(C)
<1> DEFINE T == {0} \cup { c.seq : c \in C }
<1>1. T \subseteq Nat /\ T # {} /\ \A x \in T : x <= b
  OBVIOUS
<1>2. \A c \in C : c.seq \in T
  OBVIOUS
<1>3. \A x \in T : x = 0 \/ \E c \in C : c.seq = x
  OBVIOUS
<1> HIDE DEF T
<1>4. Max(T) \in T /\ \A x \in T : x <= Max(T)
  BY <1>1, MaxOf
<1>5. TopSeq(C) = Max(T)
  BY DEF TopSeq, T
<1> QED BY <1>1, <1>2, <1>3, <1>4, <1>5

\* Of the elements with the highest value the highest.
LEMMA LastOf ==
  ASSUME NEW F, F \subseteq Nat, F # {}, NEW b \in Nat, NEW g \in [F -> Nat],
         \A s \in F : s <= b /\ g[s] <= b
  PROVE  \E s \in F : \A r \in F : g[s] > g[r] \/ (g[s] = g[r] /\ s >= r)
<1> DEFINE K == { g[s] : s \in F }
<1>1. K \subseteq Nat /\ K # {} /\ \A x \in K : x <= b
  OBVIOUS
<1>2. \A s \in F : g[s] \in K
  OBVIOUS
<1> HIDE DEF K
<1>3. Max(K) \in K /\ \A x \in K : x <= Max(K)
  BY <1>1, MaxOf
<1> DEFINE L == { s \in F : g[s] = Max(K) }
<1>4. L \subseteq Nat /\ L # {} /\ \A x \in L : x <= b
  BY <1>3 DEF K
<1>5. Max(L) \in L /\ \A x \in L : x <= Max(L)
  <2> HIDE DEF L
  <2> QED BY <1>4, MaxOf
<1>6. PICK s \in F : g[s] = Max(K) /\ \A x \in L : x <= s
  BY <1>5
<1>7. ASSUME NEW r \in F PROVE g[s] > g[r] \/ (g[s] = g[r] /\ s >= r)
  <2>1. g[r] <= g[s] /\ g[r] \in Nat /\ g[s] \in Nat /\ r \in Nat /\ s \in Nat
    BY <1>2, <1>3, <1>6
  <2>2. g[r] = g[s] => r <= s
    BY <1>6
  <2> QED BY <2>1, <2>2
<1> QED BY <1>7

\* The active segment is one of the files, or the first.
LEMMA ActiveFits ==
  ASSUME NEW S, DOMAIN S \subseteq Segment, S \in [DOMAIN S -> Seq(Cell)]
  PROVE  ChooseActive(S) \in DOMAIN S \cup {1}
<1> DEFINE normal == { s \in DOMAIN S : IsNormal(s) }
           filled == { s \in normal : Complete(S[s]) # {} }
           newest == Max(normal)
           later(s, r) == \/ TopSeq(Complete(S[s])) > TopSeq(Complete(S[r]))
                          \/ TopSeq(Complete(S[s])) = TopSeq(Complete(S[r])) /\ s >= r
           g == [s \in filled |-> TopSeq(Complete(S[s]))]
<1>1. ChooseActive(S) = IF normal # {} /\ newest \notin filled THEN newest
                        ELSE IF filled = {} THEN 1
                        ELSE CHOOSE s \in filled : \A r \in filled : later(s, r)
  BY DEF ChooseActive
<1>2. DOMAIN S \subseteq 1..(2 * CompactionBase) /\ 2 * CompactionBase \in Nat
  BY RepairAssumption DEF Segment
<1>3. normal # {} => newest \in normal
  <2>1. normal \subseteq Nat /\ \A x \in normal : x <= 2 * CompactionBase
    BY <1>2
  <2> HIDE DEF normal
  <2> QED BY <2>1, <1>2, MaxOf
<1>4. ASSUME filled # {}
      PROVE  \E s \in filled : \A r \in filled : later(s, r)
  <2>1. PICK b \in Nat : \A s \in DOMAIN S : \A i \in DOMAIN S[s] : S[s][i].seq <= b
    BY AllIds
  <2>2. ASSUME NEW s \in DOMAIN S
        PROVE  TopSeq(Complete(S[s])) \in Nat /\ TopSeq(Complete(S[s])) <= b
    <3>1. \A c \in Complete(S[s]) : \E i \in DOMAIN S[s] : c = S[s][i]
      BY DEF Complete
    <3>2. S[s] \in Seq(Cell)
      OBVIOUS
    <3>3. \A i \in DOMAIN S[s] : S[s][i] \in Cell
      BY <3>2
    <3>4. \A c \in Complete(S[s]) : c.seq \in Nat /\ c.seq <= b
      BY <2>1, <3>1, <3>3 DEF Cell
    <3> QED BY <3>4, TopSeqFits
  <2> DEFINE d == b + 2 * CompactionBase
  <2>3. d \in Nat /\ g \in [filled -> Nat] /\ filled \subseteq Nat
        /\ \A s \in filled : s <= d /\ g[s] <= d
    <3>1. d \in Nat /\ b <= d /\ 2 * CompactionBase <= d
      BY <1>2
    <3> HIDE DEF d
    <3>2. \A s \in filled : s \in DOMAIN S /\ s \in Nat /\ s <= 2 * CompactionBase
      BY <1>2
    <3>3. \A s \in filled : g[s] \in Nat /\ g[s] <= b
      BY <2>2
    <3> HIDE DEF filled
    <3>4. g \in [filled -> Nat] /\ filled \subseteq Nat
      BY <3>2, <3>3
    <3>5. ASSUME NEW s \in filled PROVE s <= d /\ g[s] <= d
      <4> HIDE DEF g
      <4> QED BY <3>1, <3>2, <3>3, <1>2
    <3> QED BY <3>1, <3>4, <3>5
  <2> HIDE DEF d
  <2>4. \E s \in filled : \A r \in filled : g[s] > g[r] \/ (g[s] = g[r] /\ s >= r)
    <3> HIDE DEF filled, g
    <3> QED BY <1>4, <2>3, LastOf
  <2> HIDE DEF filled
  <2> QED BY <2>4
<1>5. filled # {} => (CHOOSE s \in filled : \A r \in filled : later(s, r)) \in filled
  <2> HIDE DEF filled, later
  <2> QED BY <1>4
<1> HIDE DEF later
<1> QED BY <1>1, <1>3, <1>5

-----------------------------------------------------------------------------
(* The parts of the inductive invariant.                                   *)

Copying    == {"mark", "reuse", "create", "copy", "dirsync"}
Cutting    == {"backup", "sidecar", "cut"}
Working    == Copying \cup Cutting \cup {"unmark"}
Recovering == Working \cup {"tears"}

\* A salvage is under way and its source not cut yet.
Salvaging == pc \in Copying \/ (pc \in Cutting /\ target # 0)

\* What the variables hold.
Types ==
  /\ RepairTypeOK
  /\ segs \in [DOMAIN segs -> Seq(Cell)]
  /\ sidecars \subseteq [seg : Segment, at : Nat, cells : Seq(Cell)]
  /\ pc \in Recovering \cup {"down", "up", "repaired"}
  /\ tears \subseteq [seg : Segment, at : Nat, len : Nat, kind : Kinds, floor : Nat]
  /\ stranded \in Seq(Cell) /\ active \in Segment \cup {0} /\ nextSeq \in Nat
  /\ whole \subseteq [seq : Nat, key : Keys]
  /\ index \subseteq [seg : Segment, seq : Nat, key : Keys]

\* A file that no fsync covers has at most one broken cell, at its end; one
\* whose entry is not durable is good if it is synced; and there are such
\* only until the damage they were written for is cut off.
FilesFit ==
  /\ \A s \in DOMAIN segs : StubsAreLast(segs[s])
  /\ \A s \in DOMAIN segs \ synced : Clean(segs[s])
  /\ \A s \in synced \ entries : AllGood(segs[s])
  /\ \/ entries = DOMAIN segs
     \/ \E s \in DOMAIN segs : Damaged(segs[s], s)
  /\ pc = "cut" => entries = DOMAIN segs

\* A tear is that of its file, or of a torn copy that is written anew.
TearFits(t) ==
  /\ t.seg \in DOMAIN segs
  /\ \/ IsTorn(segs[t.seg]) /\ t = Tear(segs[t.seg], t.seg)
     \/ /\ t.at = t.len /\ t.at > 0 /\ t.kind = "cut"
        /\ \/ /\ AllGood(segs[t.seg]) /\ t.at <= Len(segs[t.seg])
              /\ t.seg \in synced /\ (t.seg \in entries \/ pc = "dirsync")
           \/ pc = "copy" /\ target = t.seg /\ t.at <= Len(stranded)

\* Every damage is still to be processed, and the active file's tear.
TearsFit ==
  /\ pc \in Working => tears # {}
  /\ pc \notin Recovering => tears = {}
  /\ \A t \in tears : (pc = "unmark" /\ t = Here) \/ TearFits(t)
  /\ \A t, u \in tears : t.seg = u.seg => t = u
  /\ pc # "down" =>
       /\ \A s \in DOMAIN segs : Damaged(segs[s], s) => \E t \in tears : t.seg = s
       /\ active \in DOMAIN segs =>
            \/ AllGood(segs[active]) \/ \E t \in tears : t.seg = active
            \/ pc = "copy" /\ target = active
       /\ active \in DOMAIN segs \cup {1}
  /\ pc = "unmark" => Here.seg \in DOMAIN segs /\ AllGood(segs[Here.seg])
  /\ pc = "up" => active \in DOMAIN segs

\* The salvage that is under way.
SalvageFits ==
  /\ pc \notin Working => target = 0
  /\ pc \in Copying \cup {"unmark"} => target # 0
  /\ target = 0 => stranded = <<>>
  /\ pc \in Cutting /\ target = 0 => ~Damaged(segs[Here.seg], Here.seg)
  /\ Salvaging =>
       /\ Damaged(segs[Here.seg], Here.seg) /\ Here = Tear(segs[Here.seg], Here.seg)
       /\ stranded = Left(segs[Here.seg], Here.seg) /\ target # Here.seg
       /\ target \in DOMAIN segs => PartOf(segs[target], stranded)
  /\ pc = "copy" => target \in DOMAIN segs \ synced
  /\ pc \in {"reuse", "dirsync"} \/ (pc \in Cutting /\ target # 0) =>
       target \in DOMAIN segs /\ segs[target] = stranded
  /\ pc = "dirsync" => target \in synced
  /\ pc \in Cutting /\ target # 0 =>
       target \in entries /\ (target \in synced \/ "trusted" \in mishaps)
  /\ pc = "cut" => [seg |-> Here.seg, at |-> Here.at, cells |-> TornRegion] \in sidecars

\* A marker counts while its source is still torn at its place.  Only the
\* first damaged segment has one, and the file it names holds nothing but
\* what is salvaged from there.
Pending(m) ==
  /\ m.seg \in DOMAIN segs /\ Damaged(segs[m.seg], m.seg)
  /\ m.at = PrefixLen(segs[m.seg]) + 1

MarkersFit ==
  /\ \A m \in markers : Pending(m) =>
       /\ m.id # m.seg /\ IsNormal(m.id)
       /\ m.id \in DOMAIN segs => PartOf(segs[m.id], Left(segs[m.seg], m.seg))
       /\ \A s \in DOMAIN segs : Damaged(segs[s], s) => m.seg <= s
  /\ \A m, n \in markers : Pending(m) /\ Pending(n) => m = n
  /\ Salvaging => \A m \in markers : Pending(m) => m.seg = Here.seg /\ m.id = target
  /\ pc \in {"mark", "reuse"} => \A m \in markers : ~Pending(m)

\* What no open may lose is read or salvaged from durable files.
Rescued == UNION { Rescuable(segs[s], s) : s \in synced \cap entries }

RepairInv ==
  /\ Types /\ FilesFit /\ TearsFit /\ SalvageFits /\ MarkersFit
  /\ CutFramesAreKept
  /\ Uninterrupted => valid \subseteq Rescued

-----------------------------------------------------------------------------
(* What the steps do to the files.                                         *)

\* The tear that is processed is the first.
LEMMA HereFits ==
  ASSUME Types, tears # {}
  PROVE  Here \in tears /\ \A u \in tears : Here.seg <= u.seg
<1> DEFINE T == { t.seg : t \in tears }
<1>1. T \subseteq Nat /\ T # {}
  <2>1. \A t \in tears : t.seg \in Segment
    BY DEF Types
  <2> QED BY <2>1, RepairAssumption DEF Segment
<1>2. PICK x \in T : \A y \in T : x <= y
  BY <1>1, LowestOf
<1>3. PICK t \in tears : t.seg = x
  OBVIOUS
<1>4. \A u \in tears : t.seg <= u.seg
  BY <1>2, <1>3
<1> QED BY <1>3, <1>4 DEF Here

\* A damaged file is durable.
LEMMA DamageIsDurable ==
  ASSUME Types, FilesFit, NEW s \in DOMAIN segs, Damaged(segs[s], s)
  PROVE  s \in synced /\ s \in entries
<1>1. segs[s] \in Seq(Cell)
  BY DEF Types
<1>2. ~Clean(segs[s]) /\ ~AllGood(segs[s])
  BY <1>1, DamagedFits
<1> QED BY <1>2 DEF FilesFit

\* A serving engine appends to a good file, and nothing is damaged.
LEMMA ServingFits ==
  ASSUME Types, FilesFit, TearsFit, pc \in {"up", "repaired"}
  PROVE  /\ \A s \in DOMAIN segs : ~Damaged(segs[s], s)
         /\ active \in DOMAIN segs => AllGood(segs[active])
         /\ entries = DOMAIN segs
<1>1. tears = {} /\ pc # "copy" /\ pc # "down" /\ pc # "cut"
  BY DEF TearsFit, Recovering, Working, Copying, Cutting
<1> QED BY <1>1 DEF TearsFit, FilesFit

\* Copying a chunk or a frame leaves a larger part of what is salvaged.
LEMMA CopyEffect ==
  ASSUME RepairInv, CopyFirstChunk \/ CopyFrame
  PROVE  \E x \in Seq(Cell) : /\ segs' = [segs EXCEPT ![target] = x]
                              /\ PartOf(x, stranded) /\ StubsAreLast(x)
<1> DEFINE s == segs[target]
<1>1. pc = "copy" /\ target \in DOMAIN segs /\ PartOf(s, stranded) /\ s \in Seq(Cell)
      /\ stranded \in Seq(Cell) /\ AllGood(stranded)
  <2>1. pc = "copy"
    BY DEF CopyFirstChunk, CopyFrame
  <2>2. target \in DOMAIN segs /\ PartOf(s, stranded)
        /\ Damaged(segs[Here.seg], Here.seg)
        /\ stranded = Left(segs[Here.seg], Here.seg)
    BY <2>1 DEF RepairInv, SalvageFits, Salvaging, Copying
  <2>3. tears # {}
    BY <2>1 DEF RepairInv, TearsFit, Working, Copying
  <2>4. Here.seg \in DOMAIN segs
    <3>1. Here \in tears
      BY <2>3, HereFits DEF RepairInv
    <3> QED BY <3>1, <2>1 DEF RepairInv, TearsFit, TearFits
  <2>5. segs[Here.seg] \in Seq(Cell) /\ s \in Seq(Cell)
    BY <2>2, <2>4 DEF RepairInv, Types
  <2> QED BY <2>1, <2>2, <2>5, DamagedFits
<1> DEFINE c == Copied
<1>2. c = Len(s) /\ c \in Nat /\ Len(stranded) \in Nat /\ c <= Len(stranded)
  BY <1>1 DEF Copied, PartOf
<1> HIDE DEF s, c
<1>3. CASE CopyFirstChunk
  <2> DEFINE d == [stranded[c + 1] EXCEPT !.kind = "cut"]
  <2>1. segs' = [segs EXCEPT ![target] = Append(s, d)]
    BY <1>3 DEF CopyFirstChunk, s, c
  <2>2. c < Len(stranded) /\ ~IsTorn(s)
    BY <1>3 DEF CopyFirstChunk, s, c
  <2>3. stranded[c + 1] \in Cell
    BY <1>1, <1>2, <2>2
  <2>4. d \in Cell
    BY <2>3 DEF Cell, Kinds
  <2>5. AllGood(s) /\ \A i \in DOMAIN s : s[i] = stranded[i]
    BY <1>1, <2>2, UntornIsGood, PartFits
  <2>6. PartOf(Append(s, d), stranded)
    <3>1. d = [stranded[c + 1] EXCEPT !.kind = "cut"]
      OBVIOUS
    <3> HIDE DEF d
    <3>2. /\ Len(Append(s, d)) = c + 1 /\ Append(s, d)[c + 1] = d
          /\ \A i \in 1..c : Append(s, d)[i] = s[i]
          /\ DOMAIN Append(s, d) = 1..(c + 1) /\ DOMAIN s = 1..c
      BY <1>1, <1>2, <2>4, AppendProperties
    <3>3. \A i \in 1..(c + 1) : i = c + 1 \/ i \in 1..c
      BY <1>2
    <3>4. c + 1 <= Len(stranded)
      BY <1>2, <2>2
    <3> QED BY <3>1, <3>2, <3>3, <3>4, <2>5 DEF PartOf
  <2>7. Append(s, d) \in Seq(Cell) /\ StubsAreLast(Append(s, d))
    <3> HIDE DEF d
    <3> QED BY <1>1, <2>4, <2>5, AppendFits
  <2> QED BY <2>1, <2>6, <2>7
<1>4. CASE CopyFrame /\ ~IsTorn(s)
  <2> DEFINE d == stranded[c + 1]
  <2>1. segs' = [segs EXCEPT ![target] = Append(s, d)] /\ c < Len(stranded)
    BY <1>4 DEF CopyFrame, s, c
  <2>2. d \in Cell
    BY <1>1, <1>2, <2>1
  <2>3. AllGood(s) /\ \A i \in DOMAIN s : s[i] = stranded[i]
    BY <1>1, <1>4, UntornIsGood, PartFits
  <2>4. d = stranded[c + 1]
    OBVIOUS
  <2> HIDE DEF d
  <2>5. PartOf(Append(s, d), stranded)
    <3>1. /\ Len(Append(s, d)) = c + 1 /\ Append(s, d)[c + 1] = d
          /\ \A i \in 1..c : Append(s, d)[i] = s[i]
          /\ DOMAIN Append(s, d) = 1..(c + 1) /\ DOMAIN s = 1..c
      BY <1>1, <1>2, <2>2, AppendProperties
    <3>2. \A i \in 1..(c + 1) : i = c + 1 \/ i \in 1..c
      BY <1>2
    <3>3. c + 1 <= Len(stranded)
      BY <1>2, <2>1
    <3> QED BY <2>4, <3>1, <3>2, <3>3, <2>3 DEF PartOf
  <2>6. Append(s, d) \in Seq(Cell) /\ StubsAreLast(Append(s, d))
    BY <1>1, <2>2, <2>3, AppendFits
  <2> QED BY <2>1, <2>5, <2>6
<1>5. CASE CopyFrame /\ IsTorn(s)
  <2> DEFINE d == stranded[c]
             q == SubSeq(s, 1, c - 1)
  <2>1. segs' = [segs EXCEPT ![target] = Append(Front(s), d)]
    BY <1>5 DEF CopyFrame, s, c
  <2>2. Front(s) = q
    BY <1>2 DEF Front
  <2>3. c > 0 /\ d \in Cell /\ Clean(s)
    BY <1>1, <1>2, <1>5, PartFits
  <2>4. d = stranded[c]
    OBVIOUS
  <2>5. q \in Seq(Cell) /\ Len(q) = c - 1 /\ \A i \in 1..Len(q) : q[i] = s[1 + i - 1]
    <3>1. c - 1 \in 0..Len(s) /\ 1 \in 1..(Len(s) + 1)
      BY <1>2, <2>3
    <3>2. /\ q \in Seq(Cell) /\ \A i \in 1..Len(q) : q[i] = s[1 + i - 1]
          /\ Len(q) = IF 1 <= c - 1 THEN c - 1 - 1 + 1 ELSE 0
      BY <3>1, <1>1, PartsHold
    <3> HIDE DEF q
    <3> QED BY <3>2, <1>2, <2>3
  <2> HIDE DEF q, d
  <2>6. \A i \in DOMAIN q : i \in DOMAIN s /\ i < Len(s) /\ q[i] = s[i]
    BY <1>1, <1>2, <2>3, <2>5
  <2>7. AllGood(q) /\ \A i \in DOMAIN q : q[i] = stranded[i]
    BY <1>1, <2>3, <2>6 DEF AllGood, Clean, PartOf
  <2>8. PartOf(Append(q, d), stranded)
    <3>1. /\ Len(Append(q, d)) = c /\ Append(q, d)[c] = d
          /\ \A i \in 1..(c - 1) : Append(q, d)[i] = q[i]
          /\ DOMAIN Append(q, d) = 1..c /\ DOMAIN q = 1..(c - 1)
      <4>1. /\ Append(q, d) \in Seq(Cell) /\ Len(Append(q, d)) = Len(q) + 1
            /\ \A i \in 1..Len(q) : Append(q, d)[i] = q[i]
            /\ Append(q, d)[Len(q) + 1] = d
        BY <2>3, <2>5, AppendProperties
      <4>2. Len(q) + 1 = c
        BY <1>2, <2>3, <2>5
      <4> QED BY <4>1, <4>2, <2>5
    <3>2. \A i \in 1..c : i = c \/ i \in 1..(c - 1)
      BY <1>2
    <3> QED BY <2>4, <3>1, <3>2, <1>2, <2>7 DEF PartOf
  <2>9. Append(q, d) \in Seq(Cell) /\ StubsAreLast(Append(q, d))
    BY <2>3, <2>5, <2>7, AppendFits
  <2> QED BY <2>1, <2>2, <2>8, <2>9
<1> QED BY <1>3, <1>4, <1>5

\* Where the tear that is processed is in its file.
LEMMA HerePlace ==
  ASSUME RepairInv, pc \in Recovering, pc # "unmark", tears # {},
         pc = "copy" => target # Here.seg
  PROVE  /\ Here \in tears /\ Here.seg \in DOMAIN segs /\ segs[Here.seg] \in Seq(Cell)
         /\ Here.at \in 1..Len(segs[Here.seg]) /\ Here.len \in 0..Len(segs[Here.seg])
         /\ \A i \in 1..(Here.at - 1) : Good(segs[Here.seg][i])
         /\ \/ IsTorn(segs[Here.seg]) /\ Here = Tear(segs[Here.seg], Here.seg)
            \/ /\ AllGood(segs[Here.seg]) /\ Here.at = Here.len /\ Here.kind = "cut"
               /\ Here.seg \in synced /\ (Here.seg \in entries \/ pc = "dirsync")
<1> DEFINE s == segs[Here.seg]
<1>1. Here \in tears /\ TearFits(Here)
  <2>1. Here \in tears
    BY HereFits DEF RepairInv
  <2> QED BY <2>1 DEF RepairInv, TearsFit
<1>2. Here.seg \in DOMAIN segs /\ s \in Seq(Cell) /\ Here.at \in Nat
  <2>1. Here.seg \in DOMAIN segs
    BY <1>1 DEF TearFits
  <2>2. Here.at \in Nat
    BY <1>1 DEF RepairInv, Types
  <2> QED BY <2>1, <2>2 DEF RepairInv, Types
<1> HIDE DEF s
<1>3. CASE IsTorn(s) /\ Here = Tear(s, Here.seg)
  <2>1. /\ Tear(s, Here.seg).at \in 1..Len(s) /\ Tear(s, Here.seg).len = Len(s)
        /\ \A i \in 1..(Tear(s, Here.seg).at - 1) : Good(s[i])
    BY <1>2, <1>3, TearPlace
  <2>2. Here.at \in 1..Len(s) /\ Here.len = Len(s) /\ \A i \in 1..(Here.at - 1) : Good(s[i])
    BY <2>1, <1>3
  <2>3. Len(s) \in Nat
    BY <1>2
  <2> QED BY <2>2, <2>3, <1>1, <1>2, <1>3 DEF s
<1>4. CASE /\ Here.at = Here.len /\ Here.at > 0 /\ Here.kind = "cut"
           /\ AllGood(s) /\ Here.at <= Len(s)
           /\ Here.seg \in synced /\ (Here.seg \in entries \/ pc = "dirsync")
  <2>1. Len(s) \in Nat /\ DOMAIN s = 1..Len(s)
    BY <1>2
  <2>2. Here.at \in 1..Len(s) /\ Here.len \in 0..Len(s)
    BY <1>2, <1>4, <2>1
  <2>3. \A i \in 1..(Here.at - 1) : Good(s[i])
    BY <1>4, <2>1, <2>2 DEF AllGood
  <2> QED BY <2>2, <2>3, <1>1, <1>2, <1>4 DEF s
<1> QED BY <1>1, <1>3, <1>4 DEF TearFits, s

\* The cut leaves the readable part of the file, and takes what the sidecar has.
LEMMA TruncateEffect ==
  ASSUME RepairInv, Truncate
  PROVE  /\ Here \in tears /\ Here.seg \in DOMAIN segs
         /\ \E x \in Seq(Cell) :
              /\ segs' = [segs EXCEPT ![Here.seg] = x] /\ AllGood(x)
              /\ Whole(x) \subseteq Whole(segs[Here.seg])
              /\ Whole(segs[Here.seg]) \subseteq Whole(x) \cup Whole(TornRegion)
              /\ \A r \in Seq(Cell) : AllGood(r) /\ PartOf(segs[Here.seg], r) => PartOf(x, r)
              /\ IsTorn(segs[Here.seg]) /\ Here = Tear(segs[Here.seg], Here.seg) =>
                   Readable(x) = Readable(segs[Here.seg])
              /\ ~IsTorn(segs[Here.seg]) => "recut" \in mishaps'
<1> DEFINE s == segs[Here.seg]
           x == SubSeq(s, 1, Here.at - 1)
<1>1. /\ pc = "cut" /\ segs' = [segs EXCEPT ![Here.seg] = x] /\ tears # {}
      /\ Good(s[Here.at]) => "recut" \in mishaps'
  BY DEF Truncate, RepairInv, TearsFit, Working, Cutting
<1>2. /\ Here \in tears /\ Here.seg \in DOMAIN segs /\ s \in Seq(Cell)
      /\ Here.at \in 1..Len(s)
      /\ \A i \in 1..(Here.at - 1) : Good(s[i])
  BY <1>1, HerePlace DEF Recovering, Working, Cutting
<1> HIDE DEF s
<1>3. Len(s) \in Nat /\ Here.at - 1 \in 0..Len(s) /\ Here.at \in 1..(Len(s) + 1)
      /\ Here.at \in Nat
  BY <1>2
<1>4. /\ x \in Seq(Cell) /\ Len(x) = Here.at - 1 /\ Whole(x) \subseteq Whole(s)
      /\ \A i \in 1..Len(x) : x[i] = s[1 + i - 1]
  <2> DEFINE n == Here.at - 1
  <2>1. /\ SubSeq(s, 1, n) \in Seq(Cell) /\ Whole(SubSeq(s, 1, n)) \subseteq Whole(s)
        /\ Len(SubSeq(s, 1, n)) = IF 1 <= n THEN n - 1 + 1 ELSE 0
        /\ \A i \in 1..Len(SubSeq(s, 1, n)) : SubSeq(s, 1, n)[i] = s[1 + i - 1]
    <3>1. n \in 0..Len(s) /\ 1 \in 1..(Len(s) + 1)
      BY <1>3
    <3> HIDE DEF n
    <3> QED BY <3>1, <1>2, PartsHold
  <2>2. (IF 1 <= n THEN n - 1 + 1 ELSE 0) = n
    BY <1>3
  <2> QED BY <2>1, <2>2
<1>5. x = SubSeq(s, 1, Here.at - 1)
  OBVIOUS
<1> HIDE DEF x
<1>6. \A i \in 1..Len(x) : i \in 1..(Here.at - 1) /\ x[i] = s[i] /\ i \in DOMAIN s
  BY <1>2, <1>3, <1>4
<1>7. AllGood(x)
  BY <1>2, <1>4, <1>6 DEF AllGood
<1>8. Whole(s) \subseteq Whole(x) \cup Whole(TornRegion)
  <2> DEFINE q == SubSeq(s, Here.at, Len(s))
  <2>1. q = TornRegion
    BY DEF TornRegion, s
  <2>2. \A i \in Here.at..Len(s) : \E j \in DOMAIN q : q[j] = s[i]
    <3> DEFINE m == Here.at
               n == Len(s)
    <3>1. m \in 1..(Len(s) + 1) /\ n \in 0..Len(s)
      BY <1>3
    <3> HIDE DEF m, n
    <3>2. \A i \in m..n : \E j \in DOMAIN SubSeq(s, m, n) : SubSeq(s, m, n)[j] = s[i]
      BY <3>1, <1>2, PartsHold
    <3> QED BY <3>2 DEF m, n
  <2> HIDE DEF q
  <2>3. ASSUME NEW i \in DOMAIN s, Good(s[i])
        PROVE  Frame(s[i]) \in Whole(x) \cup Whole(q)
    <3>1. i \in 1..Len(x) \/ i \in Here.at..Len(s)
      BY <1>2, <1>3, <1>4
    <3>2. CASE i \in 1..Len(x)
      BY <3>2, <1>4, <1>6, <2>3 DEF Whole
    <3>3. CASE i \in Here.at..Len(s)
      BY <3>3, <2>2, <2>3 DEF Whole
    <3> QED BY <3>1, <3>2, <3>3
  <2>4. Whole(s) \subseteq Whole(x) \cup Whole(q)
    BY <2>3 DEF Whole
  <2> QED BY <2>1, <2>4
<1>9. \A r \in Seq(Cell) : AllGood(r) /\ PartOf(s, r) => PartOf(x, r)
  BY <1>2, <1>3, <1>5, PrefixOfPart
<1>10. ASSUME IsTorn(s), Here = Tear(s, Here.seg) PROVE Readable(x) = Readable(s)
  <2>1. Here.at = PrefixLen(s) + 1 /\ PrefixLen(s) \in 0..Len(s)
    BY <1>2, <1>10, TearPlace, PrefixFits
  <2>2. x = SubSeq(s, 1, PrefixLen(s)) /\ PrefixLen(s) \in 0..PrefixLen(s)
    BY <2>1, <1>3, <1>5
  <2> QED BY <2>2, <1>2, CutIsGood
<1>11. ~IsTorn(s) => "recut" \in mishaps'
  <2> SUFFICES ASSUME ~IsTorn(s) PROVE Good(s[Here.at])
    BY <1>1
  <2>1. AllGood(s)
    BY <1>2, UntornIsGood
  <2> QED BY <2>1, <1>2 DEF AllGood
<1> QED BY <1>1, <1>2, <1>4, <1>7, <1>8, <1>9, <1>10, <1>11 DEF s

\* A write appends a good cell, a kill while serving a broken one.
LEMMA WriteEffect ==
  ASSUME RepairInv, NEW k \in Keys, Write(k)
  PROVE  /\ active \in DOMAIN segs
         /\ \E x \in Seq(Cell) :
              /\ segs' = [segs EXCEPT ![active] = x] /\ AllGood(x) /\ StubsAreLast(x)
              /\ Whole(x) = Whole(segs[active]) \cup {[seq |-> nextSeq, key |-> k]}
<1> DEFINE c == [kind |-> "good", seq |-> nextSeq, key |-> k]
<1>1. pc = "up" /\ segs' = [segs EXCEPT ![active] = Append(segs[active], c)]
  BY DEF Write
<1>2. active \in DOMAIN segs /\ AllGood(segs[active]) /\ segs[active] \in Seq(Cell)
  <2>1. active \in DOMAIN segs
    BY <1>1 DEF RepairInv, TearsFit
  <2>2. AllGood(segs[active])
    BY <1>1, <2>1, ServingFits DEF RepairInv
  <2> QED BY <2>1, <2>2 DEF RepairInv, Types
<1>3. c \in Cell /\ Good(c) /\ Frame(c) = [seq |-> nextSeq, key |-> k]
  BY DEF RepairInv, Types, Cell, Kinds, Good, Frame
<1> HIDE DEF c
<1>4. /\ Append(segs[active], c) \in Seq(Cell) /\ AllGood(Append(segs[active], c))
      /\ StubsAreLast(Append(segs[active], c))
      /\ Whole(Append(segs[active], c)) = Whole(segs[active]) \cup {Frame(c)}
  BY <1>2, <1>3, AppendFits
<1> QED BY <1>1, <1>2, <1>3, <1>4

LEMMA KillEffect ==
  ASSUME RepairInv, Kill, segs' # segs
  PROVE  /\ pc = "up" /\ active \in DOMAIN segs
         /\ \E x \in Seq(Cell) :
              /\ segs' = [segs EXCEPT ![active] = x] /\ Clean(x) /\ StubsAreLast(x)
              /\ AllGood(segs[active]) /\ Readable(x) = Whole(segs[active])
<1>1. PICK kind \in {"cut", "stub"}, k \in Keys :
        segs' = [segs EXCEPT ![active] =
                   Append(@, [kind |-> kind, seq |-> nextSeq, key |-> k])]
  BY DEF Kill
<1>2. pc = "up"
  BY DEF Kill
<1> DEFINE c == [kind |-> kind, seq |-> nextSeq, key |-> k]
<1>3. active \in DOMAIN segs /\ AllGood(segs[active]) /\ segs[active] \in Seq(Cell)
  <2>1. active \in DOMAIN segs
    BY <1>2 DEF RepairInv, TearsFit
  <2>2. AllGood(segs[active])
    BY <1>2, <2>1, ServingFits DEF RepairInv
  <2> QED BY <2>1, <2>2 DEF RepairInv, Types
<1>4. c \in Cell /\ ~Good(c)
  BY DEF RepairInv, Types, Cell, Kinds, Good
<1>5. segs' = [segs EXCEPT ![active] = Append(segs[active], c)]
  BY <1>1
<1> HIDE DEF c
<1>6. /\ Append(segs[active], c) \in Seq(Cell) /\ Clean(Append(segs[active], c))
      /\ StubsAreLast(Append(segs[active], c))
      /\ Readable(Append(segs[active], c)) = Whole(segs[active])
  BY <1>3, <1>4, AppendFits
<1> QED BY <1>2, <1>3, <1>5, <1>6

\* A power loss leaves the durable files and perhaps a part of each other one.
LEMMA PowerLossEffect ==
  ASSUME RepairInv, PowerLoss
  PROVE  /\ entries \subseteq DOMAIN segs' /\ DOMAIN segs' \subseteq DOMAIN segs
         /\ synced' = DOMAIN segs' /\ entries' = DOMAIN segs'
         /\ segs' \in [DOMAIN segs' -> Seq(Cell)]
         /\ \A s \in DOMAIN segs' : \/ segs'[s] = segs[s]
                                    \/ s \notin synced /\ segs'[s] \in Remains(segs[s])
<1>1. PICK kept \in SUBSET (DOMAIN segs \ entries) :
        LET left == entries \cup kept IN
          \E S \in [left -> UNION { Remains(segs[s]) : s \in left \ synced }
                              \cup Range(segs)] :
            /\ \A s \in left : IF s \in synced THEN S[s] = segs[s]
                               ELSE S[s] \in Remains(segs[s])
            /\ segs' = S
            /\ synced' = left /\ entries' = left
  BY DEF PowerLoss
<1> DEFINE left == entries \cup kept
<1>2. /\ \A s \in left : IF s \in synced THEN segs'[s] = segs[s]
                         ELSE segs'[s] \in Remains(segs[s])
      /\ DOMAIN segs' = left /\ segs' = [s \in left |-> segs'[s]]
      /\ synced' = left /\ entries' = left
  BY <1>1
<1>3. entries \subseteq left /\ left \subseteq DOMAIN segs
  BY DEF RepairInv, Types, RepairTypeOK
<1> HIDE DEF left
<1>4. ASSUME NEW s \in left PROVE segs'[s] \in Seq(Cell)
  <2>1. segs[s] \in Seq(Cell)
    BY <1>3 DEF RepairInv, Types
  <2>2. CASE s \in synced
    BY <1>2, <2>1, <2>2
  <2>3. CASE s \notin synced
    <3>1. segs'[s] \in Remains(segs[s]) /\ Clean(segs[s])
      BY <1>2, <1>3, <2>3 DEF RepairInv, FilesFit
    <3> QED BY <3>1, <2>1, RemainsFit
  <2> QED BY <2>2, <2>3
<1>5. segs' \in [left -> Seq(Cell)]
  BY <1>2, <1>4
<1> QED BY <1>2, <1>3, <1>5

\* The salvage that is under way: its frames are in a durable file.
LEMMA SalvagingFits ==
  ASSUME RepairInv, Salvaging
  PROVE  /\ Here \in tears /\ Here.seg \in DOMAIN segs /\ segs[Here.seg] \in Seq(Cell)
         /\ Here.seg \in synced /\ Here.seg \in entries
         /\ target \in Segment /\ IsNormal(target) /\ target # Here.seg
         /\ AllGood(stranded) /\ stranded \in Seq(Cell) /\ stranded # <<>>
         /\ stranded = Left(segs[Here.seg], Here.seg)
         /\ Damaged(segs[Here.seg], Here.seg) /\ Here = Tear(segs[Here.seg], Here.seg)
         /\ Whole(stranded) \subseteq Whole(segs[Here.seg])
         /\ target \in DOMAIN segs =>
              /\ segs[target] \in Seq(Cell) /\ PartOf(segs[target], stranded)
              /\ Clean(segs[target]) /\ ~Damaged(segs[target], target)
              /\ Whole(segs[target]) \subseteq Whole(stranded)
<1>1. /\ pc \in Recovering /\ pc # "unmark" /\ tears # {} /\ target # 0
      /\ pc = "copy" => target # Here.seg
  BY DEF RepairInv, SalvageFits, TearsFit, Salvaging, Recovering, Working, Copying, Cutting
<1>2. Here \in tears /\ Here.seg \in DOMAIN segs /\ segs[Here.seg] \in Seq(Cell)
  BY <1>1, HerePlace
<1>3. /\ Damaged(segs[Here.seg], Here.seg) /\ Here = Tear(segs[Here.seg], Here.seg)
      /\ stranded = Left(segs[Here.seg], Here.seg) /\ target # Here.seg
      /\ target \in DOMAIN segs => PartOf(segs[target], stranded)
  BY DEF RepairInv, SalvageFits
<1>4. Here.seg \in synced /\ Here.seg \in entries
  BY <1>2, <1>3, DamageIsDurable DEF RepairInv
<1>5. /\ AllGood(stranded) /\ stranded \in Seq(Cell) /\ stranded # <<>>
      /\ Whole(stranded) \subseteq Whole(segs[Here.seg])
  BY <1>2, <1>3, DamagedFits
<1>6. target \in Segment /\ IsNormal(target)
  BY <1>1 DEF RepairInv, Types, RepairTypeOK
<1>7. ASSUME target \in DOMAIN segs
      PROVE  /\ segs[target] \in Seq(Cell) /\ PartOf(segs[target], stranded)
             /\ Clean(segs[target]) /\ ~Damaged(segs[target], target)
             /\ Whole(segs[target]) \subseteq Whole(stranded)
  <2>1. segs[target] \in Seq(Cell) /\ PartOf(segs[target], stranded)
    BY <1>3, <1>7 DEF RepairInv, Types
  <2>2. Clean(segs[target]) /\ Whole(segs[target]) \subseteq Whole(stranded)
    BY <2>1, <1>5, PartFits
  <2> QED BY <2>1, <2>2, CleanTear
<1> QED BY <1>2, <1>3, <1>4, <1>5, <1>6, <1>7

\* The steps that change a file.
LEMMA WhichMove ==
  ASSUME Next, segs' # segs
  PROVE  \/ CreateTarget \/ CopyFirstChunk \/ CopyFrame \/ Truncate \/ FinishOpen
         \/ \E k \in Keys : Write(k)
         \/ Kill \/ PowerLoss
  BY DEF Next, Recover, Open, IgnoreTrailing, RefuseToOpen, SkipRemainder, PrepareCut,
         StartSalvage, WriteMarker, SyncTarget, SyncDirectory, CreateSidecar,
         WriteSidecar, RemoveMarker, Close, disk

LEMMA EmptyFits == /\ <<>> \in Seq(Cell) /\ AllGood(<<>>) /\ Clean(<<>>)
                   /\ StubsAreLast(<<>>) /\ Whole(<<>>) = {}
  BY DEF AllGood, Clean, StubsAreLast, Whole

\* A step changes no damaged file but to cut it, and what it writes is clean.
LEMMA FilesMove ==
  ASSUME RepairInv, Next
  PROVE  /\ DOMAIN segs' \subseteq Segment /\ segs' \in [DOMAIN segs' -> Seq(Cell)]
         /\ \A s \in DOMAIN segs' : \/ s \in DOMAIN segs /\ segs'[s] = segs[s]
                                    \/ Clean(segs'[s]) /\ StubsAreLast(segs'[s])
         /\ \A s \in DOMAIN segs : Damaged(segs[s], s) =>
              /\ s \in DOMAIN segs'
              /\ segs'[s] = segs[s] \/ (Truncate /\ s = Here.seg)
         /\ ~PowerLoss => DOMAIN segs \subseteq DOMAIN segs'
<1>0. /\ DOMAIN segs \subseteq Segment /\ segs \in [DOMAIN segs -> Seq(Cell)]
      /\ \A s \in DOMAIN segs : StubsAreLast(segs[s])
  BY DEF RepairInv, Types, RepairTypeOK, FilesFit
<1>1. CASE segs' = segs
  BY <1>0, <1>1
\* One file is written, a damaged one only when it is cut.
<1> DEFINE Puts(f, x) ==
      /\ f \in Segment /\ x \in Seq(Cell) /\ Clean(x) /\ StubsAreLast(x)
      /\ f \in DOMAIN segs => ~Damaged(segs[f], f) \/ (Truncate /\ f = Here.seg)
      /\ DOMAIN segs' = DOMAIN segs \cup {f} /\ segs'[f] = x
      /\ \A s \in DOMAIN segs : s # f => segs'[s] = segs[s]
      /\ segs' = [s \in DOMAIN segs' |-> segs'[s]]
<1>2. ASSUME NEW f, NEW x, Puts(f, x)
      PROVE  /\ DOMAIN segs' \subseteq Segment /\ segs' \in [DOMAIN segs' -> Seq(Cell)]
             /\ \A s \in DOMAIN segs' : \/ s \in DOMAIN segs /\ segs'[s] = segs[s]
                                        \/ Clean(segs'[s]) /\ StubsAreLast(segs'[s])
             /\ \A s \in DOMAIN segs : Damaged(segs[s], s) =>
                  /\ s \in DOMAIN segs'
                  /\ segs'[s] = segs[s] \/ (Truncate /\ s = Here.seg)
             /\ ~PowerLoss => DOMAIN segs \subseteq DOMAIN segs'
  <2>1. \A s \in DOMAIN segs' : segs'[s] \in Seq(Cell)
    BY <1>0, <1>2
  <2> QED BY <1>0, <1>2, <2>1
<1>3. ASSUME NEW f \in DOMAIN segs, NEW x \in Seq(Cell), segs' = [segs EXCEPT ![f] = x],
             Clean(x), StubsAreLast(x),
             ~Damaged(segs[f], f) \/ (Truncate /\ f = Here.seg)
      PROVE  Puts(f, x)
  BY <1>0, <1>3
<1>4. ASSUME NEW f \in Segment, segs' = WithSegment(f, <<>>),
             f \in DOMAIN segs => ~Damaged(segs[f], f)
      PROVE  Puts(f, <<>>)
  BY <1>0, <1>4, EmptyFits DEF WithSegment
<1> HIDE DEF Puts
<1>5. CASE CreateTarget
  <2>1. pc = "create" /\ segs' = WithSegment(target, <<>>)
    BY <1>5 DEF CreateTarget
  <2>2. Salvaging
    BY <2>1 DEF Salvaging, Copying
  <2>3. target \in Segment /\ (target \in DOMAIN segs => ~Damaged(segs[target], target))
    BY <2>2, SalvagingFits
  <2> QED BY <2>1, <2>3, <1>2, <1>4
<1>6. CASE CopyFirstChunk \/ CopyFrame
  <2>1. pc = "copy"
    BY <1>6 DEF CopyFirstChunk, CopyFrame
  <2>2. Salvaging /\ target \in DOMAIN segs
    BY <2>1 DEF Salvaging, Copying, RepairInv, SalvageFits
  <2>3. /\ ~Damaged(segs[target], target) /\ AllGood(stranded) /\ stranded \in Seq(Cell)
    BY <2>2, SalvagingFits
  <2>4. PICK x \in Seq(Cell) : /\ segs' = [segs EXCEPT ![target] = x]
                               /\ PartOf(x, stranded) /\ StubsAreLast(x)
    BY <1>6, CopyEffect
  <2>5. Clean(x)
    BY <2>3, <2>4, PartFits
  <2> QED BY <2>2, <2>3, <2>4, <2>5, <1>2, <1>3
<1>7. CASE Truncate
  <2>1. PICK x \in Seq(Cell) : segs' = [segs EXCEPT ![Here.seg] = x] /\ AllGood(x)
    BY <1>7, TruncateEffect
  <2>2. Here.seg \in DOMAIN segs
    BY <1>7, TruncateEffect
  <2>3. Clean(x) /\ StubsAreLast(x)
    BY <2>1 DEF AllGood, Clean, StubsAreLast, Good
  <2> QED BY <1>7, <2>1, <2>2, <2>3, <1>2, <1>3
<1>8. CASE FinishOpen /\ segs' # segs
  <2>1. active \notin DOMAIN segs /\ segs' = WithSegment(active, <<>>) /\ pc = "tears"
    BY <1>8 DEF FinishOpen
  <2>2. active = 1
    BY <2>1 DEF RepairInv, TearsFit
  <2>3. active \in Segment
    BY <2>2, RepairAssumption DEF Segment
  <2> QED BY <2>1, <2>3, <1>2, <1>4
<1>9. ASSUME NEW k \in Keys, Write(k)
      PROVE  \E x : Puts(active, x)
  <2>1. active \in DOMAIN segs
    BY <1>9, WriteEffect
  <2>2. PICK x \in Seq(Cell) :
          segs' = [segs EXCEPT ![active] = x] /\ AllGood(x) /\ StubsAreLast(x)
    BY <1>9, WriteEffect
  <2>3. Clean(x)
    BY <2>2 DEF AllGood, Clean
  <2>4. ~Damaged(segs[active], active)
    BY <1>9, <2>1, ServingFits DEF RepairInv, Write
  <2> QED BY <2>1, <2>2, <2>3, <2>4, <1>3
<1>10. CASE Kill /\ segs' # segs
  <2>1. pc = "up" /\ active \in DOMAIN segs
    BY <1>10, KillEffect
  <2>2. PICK x \in Seq(Cell) :
          segs' = [segs EXCEPT ![active] = x] /\ Clean(x) /\ StubsAreLast(x)
    BY <1>10, KillEffect
  <2>3. ~Damaged(segs[active], active)
    BY <2>1, ServingFits DEF RepairInv
  <2> QED BY <2>1, <2>2, <2>3, <1>2, <1>3
<1>11. CASE PowerLoss
  <2>1. /\ entries \subseteq DOMAIN segs' /\ DOMAIN segs' \subseteq DOMAIN segs
        /\ segs' \in [DOMAIN segs' -> Seq(Cell)]
        /\ \A s \in DOMAIN segs' : \/ segs'[s] = segs[s]
                                   \/ s \notin synced /\ segs'[s] \in Remains(segs[s])
    BY <1>11, PowerLossEffect
  <2>2. ASSUME NEW s \in DOMAIN segs', s \notin synced, segs'[s] \in Remains(segs[s])
        PROVE  Clean(segs'[s]) /\ StubsAreLast(segs'[s])
    <3>1. segs[s] \in Seq(Cell) /\ Clean(segs[s]) /\ StubsAreLast(segs[s])
      BY <2>1, <2>2, <1>0 DEF RepairInv, FilesFit
    <3> QED BY <2>2, <3>1, RemainsFit
  <2>3. \A s \in DOMAIN segs : Damaged(segs[s], s) =>
                                 s \in DOMAIN segs' /\ s \in synced
    BY <2>1, DamageIsDurable DEF RepairInv
  <2> QED BY <1>0, <1>11, <2>1, <2>2, <2>3
<1> QED BY <1>1, <1>2, <1>5, <1>6, <1>7, <1>8, <1>9, <1>10, <1>11, WhichMove

\* No step damages a file.
LEMMA NoNewDamage ==
  ASSUME RepairInv, Next, NEW s \in DOMAIN segs', Damaged(segs'[s], s)
  PROVE  s \in DOMAIN segs /\ segs'[s] = segs[s] /\ Damaged(segs[s], s)
<1>1. segs'[s] \in Seq(Cell)
  BY FilesMove
<1>2. ~Clean(segs'[s])
  BY <1>1, DamagedFits
<1> QED BY <1>2, FilesMove

-----------------------------------------------------------------------------
(* Every variable keeps its type.                                          *)

LEMMA WholeType ==
  ASSUME NEW s \in Seq(Cell)
  PROVE  Whole(s) \subseteq [seq : Nat, key : Keys]
<1>1. \A i \in DOMAIN s : s[i] \in Cell
  OBVIOUS
<1> QED BY <1>1 DEF Whole, Frame, Cell

\* What an open reads from the files.
LEMMA OpenReads ==
  ASSUME Types
  PROVE  /\ TearsOf(segs) \subseteq [seg : Segment, at : Nat, len : Nat, kind : Kinds, floor : Nat]
         /\ Replay(segs) \subseteq [seg : Segment, seq : Nat, key : Keys]
         /\ TopSeq(UNION { Readable(segs[s]) : s \in DOMAIN segs }) \in Nat
         /\ \A s \in DOMAIN segs : \A f \in Readable(segs[s]) :
              f.seq <= TopSeq(UNION { Readable(segs[x]) : x \in DOMAIN segs })
<1>1. DOMAIN segs \subseteq Segment /\ segs \in [DOMAIN segs -> Seq(Cell)]
  BY DEF Types, RepairTypeOK
<1>2. PICK b \in Nat : \A s \in DOMAIN segs : \A i \in DOMAIN segs[s] : segs[s][i].seq <= b
  BY <1>1, AllIds
<1>3. ASSUME NEW s \in DOMAIN segs, NEW i \in DOMAIN segs[s]
      PROVE  segs[s][i] \in Cell /\ segs[s][i].seq \in Nat /\ segs[s][i].seq <= b
  <2>1. segs[s] \in Seq(Cell)
    BY <1>1
  <2>2. segs[s][i] \in Cell
    BY <2>1
  <2> QED BY <2>2, <1>2 DEF Cell
<1>4. ASSUME NEW s \in DOMAIN segs, IsTorn(segs[s])
      PROVE  Tear(segs[s], s) \in
               [seg : Segment, at : Nat, len : Nat, kind : Kinds, floor : Nat]
  <2> DEFINE n == PrefixLen(segs[s])
             C == Range(SubSeq(segs[s], 1, n))
  <2>1. segs[s] \in Seq(Cell) /\ Len(segs[s]) \in Nat /\ s \in Segment
    BY <1>1
  <2>2. n + 1 \in 1..Len(segs[s]) /\ segs[s][n + 1].kind \in Kinds /\ n + 1 \in Nat
        /\ n \in 0..Len(segs[s])
    <3>1. n \in 0..Len(segs[s]) /\ n # Len(segs[s])
      BY <2>1, <1>4, PrefixFits DEF IsTorn
    <3> HIDE DEF n
    <3>2. n + 1 \in 1..Len(segs[s]) /\ n + 1 \in Nat
      BY <3>1, <2>1
    <3>3. segs[s][n + 1] \in Cell
      BY <3>2, <2>1
    <3> QED BY <3>1, <3>2, <3>3 DEF Cell
  <2>3. ASSUME NEW c \in C PROVE c.seq \in Nat /\ c.seq <= b
    <3> DEFINE r == SubSeq(segs[s], 1, n)
    <3>1. \E i \in DOMAIN r : c = r[i]
      BY DEF Range
    <3>2. /\ r \in Seq(Cell) /\ Len(r) = IF 1 <= n THEN n - 1 + 1 ELSE 0
          /\ \A i \in 1..Len(r) : r[i] = segs[s][1 + i - 1]
      <4>1. 1 \in 1..(Len(segs[s]) + 1)
        BY <2>1
      <4> HIDE DEF n
      <4> QED BY <2>1, <2>2, <4>1, PartsHold
    <3> HIDE DEF r, n
    <3>3. \A i \in DOMAIN r : i \in DOMAIN segs[s] /\ r[i] = segs[s][i]
      BY <2>1, <2>2, <3>2
    <3> QED BY <3>1, <3>3, <1>3
  <2>4. TopSeq(C) \in Nat
    <3> HIDE DEF C
    <3> QED BY <2>3, TopSeqFits
  <2>5. Tear(segs[s], s) = [seg |-> s, at |-> n + 1, len |-> Len(segs[s]),
                            kind |-> segs[s][n + 1].kind, floor |-> TopSeq(C)]
    BY DEF Tear
  <2> HIDE DEF n, C
  <2> QED BY <2>1, <2>2, <2>4, <2>5
<1>5. TearsOf(segs) \subseteq [seg : Segment, at : Nat, len : Nat, kind : Kinds, floor : Nat]
  BY <1>4 DEF TearsOf
<1> DEFINE F == UNION { Readable(segs[s]) : s \in DOMAIN segs }
<1>6. ASSUME NEW s \in DOMAIN segs, NEW f \in Readable(segs[s])
      PROVE  f.seq \in Nat /\ f.seq <= b
  <2>1. segs[s] \in Seq(Cell)
    BY <1>1
  <2>2. f \in Whole(segs[s])
    BY <2>1, ReadableInFile
  <2>3. PICK i \in DOMAIN segs[s] : f = Frame(segs[s][i])
    BY <2>2 DEF Whole
  <2> QED BY <2>3, <1>3 DEF Frame
<1>7. \A f \in F : f.seq \in Nat /\ f.seq <= b
  BY <1>6
<1>8. TopSeq(F) \in Nat /\ \A f \in F : f.seq <= TopSeq(F)
  <2> HIDE DEF F
  <2> QED BY <1>7, TopSeqFits
<1>9. Replay(segs) \subseteq [seg : Segment, seq : Nat, key : Keys]
  <2>1. ASSUME NEW s \in DOMAIN segs, NEW f \in Readable(segs[s])
        PROVE  s \in Segment /\ f.seq \in Nat /\ f.key \in Keys
    <3>1. segs[s] \in Seq(Cell) /\ s \in Segment
      BY <1>1
    <3>2. f \in [seq : Nat, key : Keys]
      BY <3>1, ReadableInFile, WholeType
    <3> QED BY <3>1, <3>2
  <2>2. Pointers(segs) \subseteq [seg : Segment, seq : Nat, key : Keys]
    BY <2>1 DEF Pointers
  <2> QED BY <2>2 DEF Replay
<1> QED BY <1>5, <1>8, <1>9

\* max_normal_segment_id + 1 is no file, and SalvageTarget a normal segment.
LEMMA FreshId ==
  ASSUME Types
  PROVE  /\ NextSalvageId \in Nat \ {0}
         /\ \A s \in DOMAIN segs : IsNormal(s) => s < NextSalvageId
<1> DEFINE T == {0} \cup { s \in DOMAIN segs : IsNormal(s) }
<1>1. T \subseteq Nat /\ T # {} /\ \A x \in T : x <= 2 * CompactionBase
      /\ 2 * CompactionBase \in Nat
  <2>1. DOMAIN segs \subseteq 1..(2 * CompactionBase) /\ 2 * CompactionBase \in Nat
    BY RepairAssumption DEF Types, RepairTypeOK, Segment
  <2> QED BY <2>1
<1>2. \A s \in DOMAIN segs : IsNormal(s) => s \in T
  OBVIOUS
<1> HIDE DEF T
<1>3. Max(T) \in T /\ \A x \in T : x <= Max(T)
  BY <1>1, MaxOf
<1>4. NextSalvageId = 1 + Max(T)
  BY DEF NextSalvageId, T
<1>5. Max(T) \in Nat
  BY <1>1, <1>3
<1>6. \A s \in DOMAIN segs : IsNormal(s) => s <= Max(T) /\ s \in Nat
  BY <1>1, <1>2, <1>3
<1> QED BY <1>4, <1>5, <1>6

LEMMA TargetFits ==
  ASSUME RepairInv, StartSalvage
  PROVE  /\ SalvageTarget \in { s \in Segment : IsNormal(s) }
         /\ pc = "tears" /\ Here \in tears /\ Here.seg \in DOMAIN segs
         /\ segs[Here.seg] \in Seq(Cell)
         /\ Damaged(segs[Here.seg], Here.seg) /\ Here = Tear(segs[Here.seg], Here.seg)
         /\ StrandedHere = Left(segs[Here.seg], Here.seg)
         /\ StrandedHere \in Seq(Cell)
         /\ \A m \in MarkersHere : Pending(m)
         /\ MarkersHere = {} => SalvageTarget = NextSalvageId
         /\ MarkersHere # {} => \E m \in MarkersHere : SalvageTarget = m.id
<1>1. pc = "tears" /\ tears # {} /\ StrandedHere # <<>> /\ ~Refuses
  BY DEF StartSalvage, Concerned
<1>2. /\ Here \in tears /\ Here.seg \in DOMAIN segs /\ segs[Here.seg] \in Seq(Cell)
      /\ Here.at \in 1..Len(segs[Here.seg]) /\ Here.len \in 0..Len(segs[Here.seg])
      /\ \/ IsTorn(segs[Here.seg]) /\ Here = Tear(segs[Here.seg], Here.seg)
         \/ Here.at = Here.len
  BY <1>1, HerePlace DEF Recovering
<1>3. Here.at \in Nat /\ Here.at < Here.len /\ StrandedHere \in Seq(Cell)
  BY <1>1, <1>2, StrandedFits DEF StrandedHere
<1>4. IsTorn(segs[Here.seg]) /\ Here = Tear(segs[Here.seg], Here.seg)
  BY <1>2, <1>3
<1>5. StrandedHere = Left(segs[Here.seg], Here.seg)
  BY <1>4 DEF StrandedHere, Left
<1>6. Damaged(segs[Here.seg], Here.seg)
  BY <1>1, <1>4, <1>5 DEF Damaged
<1>7. Here.at = PrefixLen(segs[Here.seg]) + 1
  BY <1>2, <1>4, TearPlace
<1>8. \A m \in MarkersHere : Pending(m)
  BY <1>2, <1>6, <1>7 DEF MarkersHere, Pending
<1>9. CASE MarkersHere = {}
  <2>1. SalvageTarget = NextSalvageId /\ IsNormal(NextSalvageId)
    BY <1>1, <1>9 DEF SalvageTarget, Refuses
  <2>2. NextSalvageId \in Nat \ {0} /\ NextSalvageId < CompactionBase
    BY <2>1, FreshId DEF IsNormal, RepairInv
  <2>3. NextSalvageId \in Segment
    BY <2>2, RepairAssumption DEF Segment
  <2> QED BY <2>1, <2>3, <1>1, <1>2, <1>3, <1>4, <1>5, <1>6, <1>8, <1>9
<1>10. CASE MarkersHere # {}
  <2>1. PICK m \in MarkersHere : SalvageTarget = m.id
    BY <1>10 DEF SalvageTarget
  <2>2. m \in markers /\ Pending(m)
    BY <1>8 DEF MarkersHere
  <2>3. IsNormal(m.id) /\ m.id \in Segment
    BY <2>2 DEF RepairInv, MarkersFit, Types, RepairTypeOK
  <2> QED BY <2>1, <2>3, <1>1, <1>2, <1>3, <1>4, <1>5, <1>6, <1>8, <1>10
<1> QED BY <1>9, <1>10

LEMMA NextTypes == RepairInv /\ Next => Types'
<1> SUFFICES ASSUME RepairInv, Next PROVE Types'
  OBVIOUS
<1>1. DOMAIN segs' \subseteq Segment /\ segs' \in [DOMAIN segs' -> Seq(Cell)]
      /\ (~PowerLoss => DOMAIN segs \subseteq DOMAIN segs')
  BY FilesMove
<1>2. Types /\ TearsFit /\ SalvageFits
  BY DEF RepairInv
<1>3. /\ {} \subseteq [seg : Segment, at : Nat, len : Nat, kind : Kinds, floor : Nat]
      /\ <<>> \in Seq(Cell) /\ 0 \in Nat /\ 1 \in Segment
  BY RepairAssumption DEF Segment
<1>4. CASE Stop /\ UNCHANGED <<disk, valid, whole, mishaps>>
  BY <1>2, <1>3, <1>4 DEF Stop, disk, Types, RepairTypeOK, Recovering, Modes
<1>5. ASSUME NEW m \in Modes, Open(m) PROVE Types'
  <2>1. active' \in Segment
    BY <1>1, <1>2, <1>3, <1>5, ActiveFits DEF Open, Types, RepairTypeOK
  <2>2. nextSeq' \in Nat /\ index' \subseteq [seg : Segment, seq : Nat, key : Keys]
        /\ tears' \subseteq [seg : Segment, at : Nat, len : Nat, kind : Kinds, floor : Nat]
    <3> DEFINE N == TopSeq(UNION { Readable(segs[s]) : s \in DOMAIN segs })
    <3>1. N \in Nat
      BY <1>2, OpenReads
    <3>2. nextSeq' = 1 + N
      BY <1>5 DEF Open
    <3> HIDE DEF N
    <3> QED BY <3>1, <3>2, <1>2, <1>5, OpenReads DEF Open
  <2> QED BY <1>2, <1>5, <2>1, <2>2 DEF Open, disk, Types, RepairTypeOK, Recovering
<1>6. CASE IgnoreTrailing \/ SkipRemainder
  <2>1. tears' \subseteq tears /\ index' \subseteq index
    BY <1>6 DEF IgnoreTrailing, SkipRemainder
  <2>2. skipped' \subseteq Keys
    <3>1. \A f \in index : f.key \in Keys
      BY <1>2 DEF Types
    <3> QED BY <1>2, <1>6, <3>1
          DEF IgnoreTrailing, SkipRemainder, observed, Types, RepairTypeOK
  <2> QED BY <1>2, <1>6, <2>1, <2>2
        DEF IgnoreTrailing, SkipRemainder, disk, observed, Types, RepairTypeOK
<1>7. CASE RefuseToOpen \/ Close
  BY <1>4, <1>7 DEF RefuseToOpen, Close
<1>8. CASE PrepareCut
  BY <1>2, <1>3, <1>8 DEF PrepareCut, disk, observed, Types, RepairTypeOK, Recovering,
                          Working, Cutting
<1>9. CASE StartSalvage
  <2>1. SalvageTarget \in { s \in Segment : IsNormal(s) } /\ StrandedHere \in Seq(Cell)
    BY <1>9, TargetFits
  <2> QED BY <1>2, <1>9, <2>1 DEF StartSalvage, observed, Types, RepairTypeOK, Recovering,
                                  Working, Copying
<1>10. CASE WriteMarker
  <2>1. Here \in tears /\ target # 0
    BY <1>2, <1>10, HereFits DEF WriteMarker, TearsFit, SalvageFits, Working, Copying
  <2>2. Here.seg \in Segment /\ Here.at \in Nat /\ target \in Segment
        /\ Len(stranded) \in Nat
    BY <1>2, <2>1 DEF Types, RepairTypeOK
  <2> QED BY <1>2, <1>10, <2>2 DEF WriteMarker, Types, RepairTypeOK, Recovering,
                                   Working, Copying, Cutting
<1>11. CASE CreateTarget
  <2>1. synced' \subseteq DOMAIN segs' /\ entries' \subseteq DOMAIN segs'
    BY <1>2, <1>11 DEF CreateTarget, WithSegment, Types, RepairTypeOK
  <2> QED BY <1>1, <1>2, <1>11, <2>1 DEF CreateTarget, observed, Types, RepairTypeOK,
                                         Recovering, Working, Copying
<1>12. CASE CopyFirstChunk \/ CopyFrame
  <2>1. DOMAIN segs' = DOMAIN segs
    <3>1. \E x : segs' = [segs EXCEPT ![target] = x]
      BY <1>12, CopyEffect
    <3> QED BY <3>1, <1>2 DEF Types
  <2> QED BY <1>1, <1>2, <1>12, <2>1 DEF CopyFirstChunk, CopyFrame, engine, observed,
                                         Types, RepairTypeOK
<1>13. CASE SyncTarget
  <2>1. target \in DOMAIN segs
    BY <1>2, <1>13 DEF SyncTarget, SalvageFits
  <2> QED BY <1>2, <1>13, <2>1 DEF SyncTarget, observed, Types, RepairTypeOK, Recovering,
                                   Working, Copying
<1>14. CASE SyncDirectory
  BY <1>2, <1>14 DEF SyncDirectory, observed, Types, RepairTypeOK, Recovering, Working,
                     Cutting
<1>15. CASE CreateSidecar
  BY <1>2, <1>15 DEF CreateSidecar, Types, RepairTypeOK, Recovering, Working, Cutting
<1>16. CASE WriteSidecar
  <2>1. /\ Here \in tears /\ Here.seg \in DOMAIN segs /\ segs[Here.seg] \in Seq(Cell)
        /\ Here.at \in 1..Len(segs[Here.seg])
    BY <1>2, <1>16, HerePlace DEF WriteSidecar, TearsFit, Recovering, Working, Cutting
  <2>2. Here.seg \in Segment /\ Here.at \in Nat
    BY <1>2, <2>1 DEF Types
  <2>3. TornRegion \in Seq(Cell)
    <3>1. /\ Here.at \in 1..(Len(segs[Here.seg]) + 1)
          /\ Len(segs[Here.seg]) \in 0..Len(segs[Here.seg])
      BY <2>1
    <3> QED BY <2>1, <3>1, PartsHold DEF TornRegion
  <2>4. [seg |-> Here.seg, at |-> Here.at, cells |-> TornRegion]
          \in [seg : Segment, at : Nat, cells : Seq(Cell)]
    BY <2>2, <2>3
  <2>5. sidecars' = sidecars \cup {[seg |-> Here.seg, at |-> Here.at, cells |-> TornRegion]}
    BY <1>16 DEF WriteSidecar
  <2>6. sidecars' \subseteq [seg : Segment, at : Nat, cells : Seq(Cell)]
    BY <1>2, <2>4, <2>5 DEF Types
  <2> QED BY <1>2, <1>16, <2>6 DEF WriteSidecar, observed, Types, RepairTypeOK,
                                   Recovering, Working, Cutting
<1>17. CASE Truncate
  <2>1. Here.seg \in DOMAIN segs /\ \E x : segs' = [segs EXCEPT ![Here.seg] = x]
    BY <1>17, TruncateEffect
  <2>2. DOMAIN segs' = DOMAIN segs /\ tears' \subseteq tears
    BY <2>1, <1>17 DEF Truncate
  <2>3. mishaps' \subseteq {"trusted", "recut", "overwritten"}
    BY <1>2, <1>17 DEF Truncate, Types, RepairTypeOK
  <2>4. pc' \in Recovering
    BY <1>17 DEF Truncate, Recovering, Working
  <2> QED BY <1>1, <1>2, <1>17, <2>1, <2>2, <2>3, <2>4 DEF Truncate, Types, RepairTypeOK
<1>18. CASE RemoveMarker
  BY <1>2, <1>3, <1>18 DEF RemoveMarker, observed, Types, RepairTypeOK, Recovering
<1>19. CASE FinishOpen
  <2>1. synced' \subseteq DOMAIN segs' /\ entries' \subseteq DOMAIN segs'
    BY <1>2, <1>19 DEF FinishOpen, WithSegment, Types, RepairTypeOK
  <2> QED BY <1>1, <1>2, <1>19, <2>1 DEF FinishOpen, observed, Types, RepairTypeOK
<1>20. ASSUME NEW k \in Keys, Write(k) PROVE Types'
  <2>1. active \in DOMAIN segs /\ \E x : segs' = [segs EXCEPT ![active] = x]
    BY <1>20, WriteEffect
  <2>2. DOMAIN segs' = DOMAIN segs /\ active \in Segment
    BY <2>1, <1>2 DEF Types, RepairTypeOK
  <2>3. [seq |-> nextSeq, key |-> k] \in [seq : Nat, key : Keys]
        /\ [seg |-> active, seq |-> nextSeq, key |-> k]
             \in [seg : Segment, seq : Nat, key : Keys]
    BY <1>2, <2>2 DEF Types
  <2>4. /\ valid' = valid \cup {[seq |-> nextSeq, key |-> k]}
        /\ whole' = whole \cup {[seq |-> nextSeq, key |-> k]}
        /\ index' = { e \in index : e.key # k }
                      \cup {[seg |-> active, seq |-> nextSeq, key |-> k]}
        /\ nextSeq' = nextSeq + 1
    BY <1>20 DEF Write
  <2>5. /\ valid' \subseteq whole' /\ whole' \subseteq [seq : Nat, key : Keys]
        /\ index' \subseteq [seg : Segment, seq : Nat, key : Keys] /\ nextSeq' \in Nat
    BY <1>2, <2>3, <2>4 DEF Types, RepairTypeOK
  <2> QED BY <1>1, <1>2, <1>20, <2>1, <2>2, <2>5 DEF Write, Types, RepairTypeOK
<1>21. CASE Kill
  <2>1. DOMAIN segs' = DOMAIN segs
    <3>1. segs' # segs => \E x : segs' = [segs EXCEPT ![active] = x]
      BY <1>21, KillEffect
    <3> QED BY <3>1, <1>2 DEF Types
  <2> QED BY <1>1, <1>2, <1>3, <1>21, <2>1 DEF Kill, Stop, Types, RepairTypeOK,
                                               Recovering, Modes
<1>22. CASE PowerLoss
  <2>1. synced' = DOMAIN segs' /\ entries' = DOMAIN segs'
    BY <1>22, PowerLossEffect
  <2> QED BY <1>1, <1>2, <1>3, <1>22, <2>1 DEF PowerLoss, Stop, Types, RepairTypeOK,
                                               Recovering, Modes
<1> QED BY <1>5, <1>6, <1>7, <1>8, <1>9, <1>10, <1>11, <1>12, <1>13, <1>14, <1>15, <1>16,
           <1>17, <1>18, <1>19, <1>20, <1>21, <1>22 DEF Next, Recover

-----------------------------------------------------------------------------
(* The files.                                                              *)

\* While nothing is written, files only become durable.
LEMMA QuietFiles ==
  ASSUME RepairInv, Next, segs' = segs
  PROVE  \/ synced \subseteq synced' /\ entries \subseteq entries' /\ ~SyncTarget
            /\ synced' \subseteq synced
         \/ SyncTarget /\ synced' = synced \cup {target} /\ entries' = entries
            /\ target \in DOMAIN segs /\ segs[target] = stranded
         \/ CreateTarget /\ synced' = synced \ {target} /\ entries' = entries
         \/ PowerLoss \/ \E k \in Keys : Write(k)
         \/ Truncate \/ FinishOpen
<1>1. SyncTarget => target \in DOMAIN segs
  BY DEF SyncTarget, RepairInv, SalvageFits
<1>2. entries \subseteq DOMAIN segs
  BY DEF RepairInv, Types, RepairTypeOK
<1> QED BY <1>1, <1>2
        DEF Next, Recover, Open, IgnoreTrailing, RefuseToOpen, SkipRemainder, PrepareCut,
            StartSalvage, WriteMarker, CopyFirstChunk, CopyFrame, SyncTarget, CreateTarget,
            SyncDirectory, CreateSidecar, WriteSidecar, RemoveMarker, Close, Kill, disk

\* A step that says nothing else keeps the entries.
LEMMA EntriesMove ==
  ASSUME RepairInv, Next
  PROVE  \/ entries' = entries \/ entries' = DOMAIN segs'
  BY FilesMove
     DEF Next, Recover, Open, IgnoreTrailing, RefuseToOpen, SkipRemainder, PrepareCut,
         StartSalvage, WriteMarker, CopyFirstChunk, CopyFrame, SyncTarget, CreateTarget,
         SyncDirectory, CreateSidecar, WriteSidecar, Truncate, RemoveMarker, FinishOpen,
         WithSegment, Write, Close, Kill, PowerLoss, disk

LEMMA NextFiles == RepairInv /\ Next => FilesFit'
<1> SUFFICES ASSUME RepairInv, Next PROVE FilesFit'
  OBVIOUS
<1>1. Types /\ FilesFit /\ TearsFit /\ SalvageFits /\ MarkersFit
  BY DEF RepairInv
<1>2. \A s \in DOMAIN segs' : StubsAreLast(segs'[s])
  BY <1>1, FilesMove DEF FilesFit
<1>3. ASSUME NEW s \in DOMAIN segs' \ synced' PROVE Clean(segs'[s])
  <2> SUFFICES ASSUME s \in DOMAIN segs, segs'[s] = segs[s], s \in synced
               PROVE  Clean(segs'[s])
    BY <1>1, FilesMove DEF FilesFit
  <2>1. CreateTarget \/ PowerLoss
    BY DEF Next, Recover, Open, IgnoreTrailing, RefuseToOpen, SkipRemainder, PrepareCut,
           StartSalvage, WriteMarker, CopyFirstChunk, CopyFrame, SyncTarget, CreateTarget,
           SyncDirectory, CreateSidecar, WriteSidecar, Truncate, RemoveMarker, FinishOpen,
           Write, Close, Kill, disk
  <2>2. CASE CreateTarget
    <3>1. s = target
      BY <2>2 DEF CreateTarget
    <3>2. segs'[s] = <<>>
      BY <3>1, <2>2 DEF CreateTarget, WithSegment
    <3> QED BY <3>2, EmptyFits
  <2>3. CASE PowerLoss
    BY <2>3, PowerLossEffect
  <2> QED BY <2>1, <2>2, <2>3
<1>4. ASSUME NEW s \in synced' \ entries' PROVE AllGood(segs'[s])
  <2>1. CASE SyncTarget
    <3>1. pc = "copy" /\ segs[target] = stranded /\ segs' = segs /\ entries' = entries
          /\ synced' = synced \cup {target}
      BY <2>1 DEF SyncTarget
    <3>2. Salvaging
      BY <3>1 DEF Salvaging, Copying
    <3>3. AllGood(stranded)
      BY <3>2, SalvagingFits
    <3> QED BY <3>1, <3>3, <1>1 DEF FilesFit
  <2>2. CASE CreateTarget
    <3>1. s \in synced \ entries /\ s # target
      BY <2>2 DEF CreateTarget
    <3>2. s \in DOMAIN segs
      BY <3>1, <1>1 DEF Types, RepairTypeOK
    <3>3. segs'[s] = segs[s]
      BY <3>1, <3>2, <2>2 DEF CreateTarget, WithSegment
    <3> QED BY <3>1, <3>3, <1>1 DEF FilesFit
  <2>3. CASE CopyFirstChunk \/ CopyFrame
    <3>1. s \in synced \ entries /\ target \notin synced
      BY <2>3, <1>1 DEF CopyFirstChunk, CopyFrame, SalvageFits
    <3>2. segs'[s] = segs[s]
      <4>1. PICK x : segs' = [segs EXCEPT ![target] = x]
        BY <2>3, CopyEffect
      <4>2. s \in DOMAIN segs
        BY <3>1, <1>1 DEF Types, RepairTypeOK
      <4> QED BY <4>1, <4>2, <3>1
    <3> QED BY <3>1, <3>2, <1>1 DEF FilesFit
  <2>4. CASE Truncate
    <3>1. PICK x \in Seq(Cell) : segs' = [segs EXCEPT ![Here.seg] = x] /\ AllGood(x)
      BY <2>4, TruncateEffect
    <3>2. Here.seg \in DOMAIN segs
      BY <2>4, TruncateEffect
    <3>3. s = Here.seg \/ s \in synced \ entries
      BY <2>4 DEF Truncate
    <3>4. s \in DOMAIN segs
      BY <3>2, <3>3, <1>1 DEF Types, RepairTypeOK
    <3> QED BY <3>1, <3>2, <3>3, <3>4, <1>1 DEF FilesFit
  <2>5. CASE FinishOpen
    <3>1. s \in synced \ entries /\ segs'[s] = segs[s]
      BY <2>5, <1>1 DEF FinishOpen, WithSegment, Types, RepairTypeOK
    <3> QED BY <3>1, <1>1 DEF FilesFit
  <2>6. CASE (\E k \in Keys : Write(k)) \/ (Kill /\ segs' # segs)
    <3>1. pc = "up" /\ entries' = entries
      BY <2>6, KillEffect DEF Write, Kill
    <3>2. entries = DOMAIN segs /\ active \in DOMAIN segs
      BY <3>1, <1>1, ServingFits DEF TearsFit
    <3>3. s \in DOMAIN segs
      BY <3>2, <2>6, <1>1 DEF Write, Kill, Types, RepairTypeOK
    <3> QED BY <3>1, <3>2, <3>3
  <2>7. CASE PowerLoss
    BY <2>7, PowerLossEffect
  <2>8. CASE segs' = segs /\ ~SyncTarget /\ ~CreateTarget /\ ~PowerLoss /\ ~Truncate
             /\ ~FinishOpen /\ ~(\E k \in Keys : Write(k))
    <3>1. s \in synced \ entries
      BY <2>8, QuietFiles
    <3> QED BY <3>1, <2>8, <1>1 DEF FilesFit
  <2> QED BY <2>1, <2>2, <2>3, <2>4, <2>5, <2>6, <2>7, <2>8, WhichMove
<1>5. \/ entries' = DOMAIN segs'
      \/ \E s \in DOMAIN segs' : Damaged(segs'[s], s)
  <2> SUFFICES ASSUME entries' = entries, entries' # DOMAIN segs'
               PROVE  \E s \in DOMAIN segs' : Damaged(segs'[s], s)
    BY EntriesMove
  <2>1. CASE Truncate
    <3>1. PICK x : segs' = [segs EXCEPT ![Here.seg] = x]
      BY <2>1, TruncateEffect
    <3>2. DOMAIN segs' = DOMAIN segs /\ pc = "cut"
      BY <2>1, <3>1, <1>1 DEF Truncate, Types
    <3> QED BY <3>2, <1>1 DEF FilesFit
  <2>2. CASE ~Truncate /\ \E s \in DOMAIN segs : Damaged(segs[s], s)
    <3>1. PICK s \in DOMAIN segs : Damaged(segs[s], s)
      BY <2>2
    <3>2. s \in DOMAIN segs' /\ segs'[s] = segs[s]
      BY <2>2, <3>1, FilesMove
    <3> QED BY <3>1, <3>2
  <2>3. CASE ~\E s \in DOMAIN segs : Damaged(segs[s], s)
    <3>1. entries = DOMAIN segs
      BY <2>3, <1>1 DEF FilesFit
    <3>2. ~CreateTarget /\ ~CopyFirstChunk /\ ~CopyFrame
      <4> SUFFICES ASSUME CreateTarget \/ CopyFirstChunk \/ CopyFrame PROVE FALSE
        OBVIOUS
      <4>1. Salvaging
        BY DEF Salvaging, Copying, CreateTarget, CopyFirstChunk, CopyFrame
      <4> QED BY <4>1, <2>3, SalvagingFits
    <3>3. DOMAIN segs' = DOMAIN segs
      <4>1. CASE FinishOpen
        BY <4>1, <3>1 DEF FinishOpen, WithSegment
      <4>2. CASE (\E k \in Keys : Write(k)) \/ Kill \/ Truncate
        <5>1. segs' = segs \/ \E f, x : segs' = [segs EXCEPT ![f] = x]
          BY <4>2, WriteEffect, KillEffect, TruncateEffect
        <5> QED BY <5>1, <1>1 DEF Types
      <4>3. CASE PowerLoss
        BY <4>3, PowerLossEffect
      <4> QED BY <4>1, <4>2, <4>3, <3>2, WhichMove
    <3> QED BY <3>1, <3>3
  <2> QED BY <2>1, <2>2, <2>3
<1>6. ASSUME pc' = "cut" PROVE entries' = DOMAIN segs'
  <2>1. \A m \in Modes : ~Open(m)
    BY <1>6 DEF Open
  <2>2. ~RefuseToOpen /\ ~Close /\ ~Kill /\ ~PowerLoss
    BY <1>6 DEF RefuseToOpen, Close, Kill, PowerLoss, Stop
  <2>3. ~IgnoreTrailing /\ ~SkipRemainder /\ ~CopyFirstChunk /\ ~CopyFrame
        /\ \A k \in Keys : ~Write(k)
    BY <1>6 DEF IgnoreTrailing, SkipRemainder, Concerned, CopyFirstChunk, CopyFrame,
                Write, engine
  <2>4. ~PrepareCut /\ ~StartSalvage /\ ~WriteMarker /\ ~CreateTarget /\ ~SyncTarget
        /\ ~SyncDirectory /\ ~CreateSidecar
    BY <1>6 DEF PrepareCut, StartSalvage, WriteMarker, CreateTarget, SyncTarget,
                SyncDirectory, CreateSidecar
  <2>5. ~Truncate /\ ~RemoveMarker /\ ~FinishOpen
    BY <1>6 DEF Truncate, RemoveMarker, FinishOpen
  <2>6. WriteSidecar
    BY <2>1, <2>2, <2>3, <2>4, <2>5 DEF Next, Recover
  <2> QED BY <2>6 DEF WriteSidecar
<1> QED BY <1>2, <1>3, <1>4, <1>5, <1>6 DEF FilesFit

-----------------------------------------------------------------------------
(* The tears.                                                              *)

\* A tear fits as long as nobody writes its file.
LEMMA TearStays ==
  ASSUME NEW t, TearFits(t), t.seg \in DOMAIN segs', segs'[t.seg] = segs[t.seg],
         t.seg \in synced => t.seg \in synced',
         t.seg \in entries => t.seg \in entries',
         pc = "dirsync" => t.seg \in entries' \/ pc' = "dirsync",
         ~(pc = "copy" /\ target = t.seg)
  PROVE  TearFits(t)'
BY DEF TearFits

\* A tear of the file that is copied to is that of an interrupted copy.
LEMMA CopyTear ==
  ASSUME RepairInv, Salvaging, target \in DOMAIN segs, NEW t \in tears, t.seg = target
  PROVE  t.at = t.len /\ t.at > 0 /\ t.kind = "cut" /\ t.at <= Len(stranded)
<1>1. /\ segs[target] \in Seq(Cell) /\ PartOf(segs[target], stranded)
      /\ Clean(segs[target]) /\ AllGood(stranded) /\ stranded \in Seq(Cell)
  BY SalvagingFits
<1>2. pc # "unmark" /\ TearFits(t)
  BY DEF RepairInv, TearsFit, Salvaging, Copying, Cutting
<1>3. Len(segs[target]) \in Nat /\ Len(stranded) \in Nat
      /\ Len(segs[target]) <= Len(stranded) /\ t.at \in Nat
  BY <1>1 DEF PartOf, RepairInv, Types
<1>4. CASE IsTorn(segs[target]) /\ t = Tear(segs[target], target)
  <2>1. t.at = Len(segs[target]) /\ t.len = Len(segs[target])
        /\ t.kind = segs[target][t.at].kind
    BY <1>1, <1>4, TearPlace, CleanTear
  <2>2. Len(segs[target]) > 0 /\ segs[target][Len(segs[target])].kind = "cut"
    BY <1>1, <1>4, PartFits
  <2> QED BY <2>1, <2>2, <1>3
<1>5. CASE t.at = t.len /\ t.at > 0 /\ t.kind = "cut" /\ t.at <= Len(segs[target])
  BY <1>3, <1>5
<1>6. CASE t.at = t.len /\ t.at > 0 /\ t.kind = "cut" /\ t.at <= Len(stranded)
  BY <1>6
<1> QED BY <1>2, <1>4, <1>5, <1>6 DEF TearFits

\* A tear that is passed over or left is not that of a damaged file.
LEMMA TearPassed ==
  ASSUME RepairInv, pc = "tears", tears # {}, Here.kind = "stub" \/ StrandedHere = <<>>
  PROVE  Here \in tears /\ Here.seg \in DOMAIN segs /\ ~Damaged(segs[Here.seg], Here.seg)
<1> DEFINE s == segs[Here.seg]
<1>1. /\ Here \in tears /\ Here.seg \in DOMAIN segs /\ s \in Seq(Cell)
      /\ Here.at \in 1..Len(s)
      /\ \A i \in 1..(Here.at - 1) : Good(s[i])
      /\ \/ IsTorn(s) /\ Here = Tear(s, Here.seg)
         \/ AllGood(s) /\ Here.kind = "cut"
  BY HerePlace DEF Recovering
<1>2. StubsAreLast(s)
  BY <1>1 DEF RepairInv, FilesFit
<1>3. StrandedHere = Stranded(s, Here)
  BY DEF StrandedHere
<1> HIDE DEF s
<1>4. CASE AllGood(s)
  BY <1>1, <1>4, DamagedFits DEF s
<1>5. CASE IsTorn(s) /\ Here = Tear(s, Here.seg) /\ StrandedHere = <<>>
  BY <1>1, <1>3, <1>5 DEF Damaged, Left, s
<1>6. CASE IsTorn(s) /\ Here = Tear(s, Here.seg) /\ Here.kind = "stub"
  <2>1. Here.kind = s[Here.at].kind
    BY <1>1, <1>6, TearPlace
  <2>2. Here.at = Len(s)
    BY <1>1, <1>2, <1>6, <2>1 DEF StubsAreLast
  <2>3. Clean(s)
    BY <1>1, <2>2 DEF Clean
  <2> QED BY <1>1, <2>3, CleanTear DEF s
<1> QED BY <1>1, <1>4, <1>5, <1>6

\* The first tear is processed when it is the one taken from the list.
LEMMA NextTears == RepairInv /\ Next => TearsFit'
<1> SUFFICES ASSUME RepairInv, Next PROVE TearsFit'
  OBVIOUS
<1>1. Types /\ FilesFit /\ TearsFit /\ SalvageFits
  BY DEF RepairInv
<1>2. \A s \in DOMAIN segs' : Damaged(segs'[s], s) =>
        s \in DOMAIN segs /\ segs'[s] = segs[s] /\ Damaged(segs[s], s)
  BY NoNewDamage
<1>3. CASE Stop
  BY <1>3 DEF Stop, TearsFit, Working, Copying, Cutting, Recovering
<1>4. ASSUME NEW m \in Modes, Open(m) PROVE TearsFit'
  <2>1. pc' = "tears" /\ segs' = segs /\ tears' = TearsOf(segs)
        /\ active' = ChooseActive(segs)
    BY <1>4 DEF Open, disk
  <2>2. \A t \in tears' : /\ t.seg \in DOMAIN segs /\ IsTorn(segs[t.seg])
                          /\ t = Tear(segs[t.seg], t.seg)
    BY <2>1 DEF TearsOf, Tear
  <2>3. ASSUME NEW s \in DOMAIN segs, IsTorn(segs[s]) PROVE \E t \in tears' : t.seg = s
    <3>1. Tear(segs[s], s) \in tears' /\ Tear(segs[s], s).seg = s
      <4>1. Tear(segs[s], s) \in tears'
        BY <2>1, <2>3 DEF TearsOf
      <4> QED BY <4>1 DEF Tear
    <3> QED BY <3>1
  <2>4. active' \in DOMAIN segs \cup {1}
    BY <2>1, <1>1, ActiveFits DEF Types, RepairTypeOK
  <2>5. \A s \in DOMAIN segs : AllGood(segs[s]) \/ IsTorn(segs[s])
    BY <1>1, UntornIsGood DEF Types
  <2>6. \A t \in tears' : TearFits(t)'
    BY <2>1, <2>2 DEF TearFits
  <2>7. \A t, u \in tears' : t.seg = u.seg => t = u
    BY <2>2
  <2>8. \A s \in DOMAIN segs' : Damaged(segs'[s], s) => \E t \in tears' : t.seg = s
    BY <2>1, <2>3 DEF Damaged
  <2> QED BY <2>1, <2>3, <2>4, <2>5, <2>6, <2>7, <2>8
          DEF TearsFit, Working, Copying, Cutting, Recovering
\* Steps that write no file and leave the tears as they are.
<1>5. CASE /\ segs' = segs /\ tears' = tears /\ active' = active
           /\ PrepareCut \/ StartSalvage \/ WriteMarker \/ SyncTarget \/ SyncDirectory
              \/ CreateSidecar \/ WriteSidecar
  <2>1. /\ synced \subseteq synced' /\ entries \subseteq entries'
        /\ pc' \in Working /\ pc' # "unmark" /\ pc # "unmark" /\ pc \in Recovering
        /\ tears # {}
        /\ pc = "dirsync" => entries' = DOMAIN segs
        /\ pc = "copy" => SyncTarget
    <3>1. entries \subseteq DOMAIN segs
      BY <1>1 DEF Types, RepairTypeOK
    <3>2. pc \in Working => tears # {}
      BY <1>1 DEF TearsFit
    <3>3. CASE PrepareCut \/ StartSalvage
      BY <3>1, <3>3 DEF PrepareCut, StartSalvage, Concerned, disk, Working, Copying,
                        Cutting, Recovering
    <3>4. CASE WriteMarker \/ SyncTarget
      BY <3>1, <3>2, <3>4 DEF WriteMarker, SyncTarget, Working, Copying, Cutting,
                              Recovering
    <3>5. CASE SyncDirectory \/ CreateSidecar \/ WriteSidecar
      BY <3>1, <3>2, <3>5 DEF SyncDirectory, CreateSidecar, WriteSidecar, Working,
                              Copying, Cutting, Recovering
    <3> QED BY <1>5, <3>3, <3>4, <3>5
  <2>2. \A t \in tears : TearFits(t) /\ t.seg \in DOMAIN segs
    BY <1>1, <2>1 DEF TearsFit, TearFits
  <2>3. ASSUME SyncTarget
        PROVE  /\ pc = "copy" /\ pc' = "dirsync" /\ target \in synced' /\ Salvaging
               /\ target \in DOMAIN segs
               /\ segs[target] = stranded /\ AllGood(segs[target])
    <3>1. pc = "copy" /\ pc' = "dirsync" /\ target \in synced' /\ segs[target] = stranded
      BY <2>3 DEF SyncTarget
    <3>2. Salvaging /\ target \in DOMAIN segs
      BY <3>1, <1>1 DEF Salvaging, Copying, SalvageFits
    <3> QED BY <3>1, <3>2, SalvagingFits
  <2>4. ASSUME NEW t \in tears PROVE TearFits(t)'
    <3>1. CASE pc = "copy" /\ target = t.seg
      <4>1. SyncTarget
        BY <2>1, <3>1
      <4>2. t.at = t.len /\ t.at > 0 /\ t.kind = "cut" /\ t.at <= Len(stranded)
        BY <2>3, <3>1, <4>1, CopyTear
      <4> QED BY <2>3, <3>1, <4>1, <4>2, <1>5 DEF TearFits
    <3>2. CASE ~(pc = "copy" /\ target = t.seg)
      <4>1. t.seg \in DOMAIN segs' /\ segs'[t.seg] = segs[t.seg] /\ TearFits(t)
        BY <2>2, <1>5
      <4>2. /\ t.seg \in synced => t.seg \in synced'
            /\ t.seg \in entries => t.seg \in entries'
            /\ pc = "dirsync" => t.seg \in entries' \/ pc' = "dirsync"
        BY <2>1, <2>2
      <4> QED BY <3>2, <4>1, <4>2, TearStays
    <3> QED BY <3>1, <3>2
  <2>5. active \in DOMAIN segs =>
          AllGood(segs[active]) \/ \E t \in tears : t.seg = active
    BY <1>1, <2>1, <2>3 DEF TearsFit, Recovering, Working, Copying, Cutting
  <2> QED BY <1>1, <1>2, <1>5, <2>1, <2>4, <2>5
          DEF TearsFit, Recovering, Working, Copying, Cutting
<1>6. CASE IgnoreTrailing \/ SkipRemainder
  <2>1. /\ pc = "tears" /\ pc' = "tears" /\ tears # {} /\ tears' = tears \ {Here}
        /\ segs' = segs /\ synced' = synced /\ entries' = entries /\ active' = active
        /\ Here.kind = "stub" \/ StrandedHere = <<>>
        /\ Here.seg # active
    BY <1>6 DEF IgnoreTrailing, SkipRemainder, Concerned, disk
  <2>2. Here \in tears /\ ~Damaged(segs[Here.seg], Here.seg)
    BY <2>1, TearPassed
  <2>3. ASSUME NEW t \in tears' PROVE TearFits(t)'
    <3>1. TearFits(t)
      BY <2>1, <1>1 DEF TearsFit
    <3> QED BY <3>1, <2>1 DEF TearFits
  <2>4. \A s \in DOMAIN segs' : Damaged(segs'[s], s) => \E t \in tears' : t.seg = s
    BY <1>1, <2>1, <2>2 DEF TearsFit
  <2>5. active \in DOMAIN segs => AllGood(segs[active]) \/ \E t \in tears' : t.seg = active
    BY <1>1, <2>1 DEF TearsFit
  <2> QED BY <1>1, <2>1, <2>3, <2>4, <2>5
          DEF TearsFit, Recovering, Working, Copying, Cutting
<1>7. CASE CreateTarget
  <2>1. /\ pc = "create" /\ pc' = "copy" /\ segs' = WithSegment(target, <<>>)
        /\ synced' = synced \ {target} /\ entries' = entries /\ tears' = tears
        /\ active' = active /\ target' = target /\ stranded' = stranded
    BY <1>7 DEF CreateTarget
  <2>2. Salvaging /\ tears # {} /\ DOMAIN segs' = DOMAIN segs \cup {target}
        /\ \A s \in DOMAIN segs : s # target => segs'[s] = segs[s]
    BY <2>1, <1>1 DEF Salvaging, Copying, TearsFit, Working, WithSegment
  <2>3. ASSUME NEW t \in tears PROVE TearFits(t)'
    <3>1. TearFits(t) /\ t.seg \in DOMAIN segs
      BY <1>1, <2>1 DEF TearsFit, TearFits
    <3>2. CASE t.seg = target
      <4>1. t.at = t.len /\ t.at > 0 /\ t.kind = "cut" /\ t.at <= Len(stranded)
        BY <3>1, <3>2, <2>2, CopyTear
      <4> QED BY <4>1, <3>2, <2>1, <2>2 DEF TearFits
    <3>3. CASE t.seg # target
      BY <3>1, <3>3, <2>1, <2>2, TearStays
    <3> QED BY <3>2, <3>3
  <2>4. \A s \in DOMAIN segs' : Damaged(segs'[s], s) => \E t \in tears' : t.seg = s
    BY <1>1, <1>2, <2>1 DEF TearsFit
  <2>5. active \in DOMAIN segs' =>
            \/ AllGood(segs'[active]) \/ \E t \in tears : t.seg = active
            \/ pc' = "copy" /\ target = active
    BY <1>1, <2>1, <2>2 DEF TearsFit
  <2>6. active \in DOMAIN segs' \cup {1}
    BY <1>1, <2>1, <2>2 DEF TearsFit
  <2> QED BY <1>1, <2>1, <2>2, <2>3, <2>4, <2>5, <2>6
          DEF TearsFit, Recovering, Working, Copying, Cutting
<1>8. CASE CopyFirstChunk \/ CopyFrame
  <2>1. /\ pc = "copy" /\ pc' = "copy" /\ synced' = synced /\ entries' = entries
        /\ tears' = tears /\ active' = active /\ target' = target /\ stranded' = stranded
    BY <1>8 DEF CopyFirstChunk, CopyFrame, engine
  <2>2. Salvaging /\ tears # {} /\ target \in DOMAIN segs
    BY <2>1, <1>1 DEF Salvaging, Copying, TearsFit, Working, SalvageFits
  <2>3. DOMAIN segs' = DOMAIN segs /\ \A s \in DOMAIN segs : s # target => segs'[s] = segs[s]
    <3>1. PICK x : segs' = [segs EXCEPT ![target] = x]
      BY <1>8, CopyEffect
    <3> QED BY <3>1, <1>1 DEF Types
  <2>4. ASSUME NEW t \in tears PROVE TearFits(t)'
    <3>1. TearFits(t) /\ t.seg \in DOMAIN segs
      BY <1>1, <2>1 DEF TearsFit, TearFits
    <3>2. CASE t.seg = target
      <4>1. t.at = t.len /\ t.at > 0 /\ t.kind = "cut" /\ t.at <= Len(stranded)
        BY <3>2, <2>2, CopyTear
      <4> QED BY <4>1, <3>1, <3>2, <2>1, <2>3 DEF TearFits
    <3>3. CASE t.seg # target
      BY <3>1, <3>3, <2>1, <2>3, TearStays
    <3> QED BY <3>2, <3>3
  <2>5. \A s \in DOMAIN segs' : Damaged(segs'[s], s) => \E t \in tears' : t.seg = s
    BY <1>1, <1>2, <2>1 DEF TearsFit
  <2>6. active \in DOMAIN segs' =>
            \/ AllGood(segs'[active]) \/ \E t \in tears : t.seg = active
            \/ pc' = "copy" /\ target = active
    BY <1>1, <2>1, <2>3 DEF TearsFit
  <2> QED BY <1>1, <2>1, <2>2, <2>3, <2>4, <2>5, <2>6
          DEF TearsFit, Recovering, Working, Copying, Cutting
<1>9. CASE Truncate
  <2>1. pc = "cut" /\ active' = active /\ entries' = entries /\ synced \subseteq synced'
        /\ \/ target = 0 /\ pc' = "tears" /\ tears' = tears \ {Here}
           \/ target # 0 /\ pc' = "unmark" /\ tears' = tears
    BY <1>9 DEF Truncate
  <2>2. Here \in tears /\ Here.seg \in DOMAIN segs /\ tears # {}
    BY <1>9, TruncateEffect
  <2>3. PICK x : segs' = [segs EXCEPT ![Here.seg] = x] /\ AllGood(x)
    BY <1>9, TruncateEffect
  <2>4. /\ DOMAIN segs' = DOMAIN segs /\ AllGood(segs'[Here.seg])
        /\ \A s \in DOMAIN segs : s # Here.seg => segs'[s] = segs[s]
    BY <2>2, <2>3, <1>1 DEF Types
  <2>5. ASSUME NEW t \in tears, t # Here PROVE TearFits(t)'
    <3>1. TearFits(t) /\ t.seg \in DOMAIN segs /\ t.seg # Here.seg
      BY <1>1, <2>1, <2>2, <2>5 DEF TearsFit, TearFits
    <3> QED BY <3>1, <2>1, <2>4, TearStays
  <2>6. \A s \in DOMAIN segs' : Damaged(segs'[s], s) =>
          \E t \in tears : t.seg = s /\ t # Here
    <3>1. SUFFICES ASSUME NEW s \in DOMAIN segs', Damaged(segs'[s], s)
                   PROVE  \E t \in tears : t.seg = s /\ t # Here
      OBVIOUS
    <3>2. s # Here.seg
      <4>1. segs'[s] \in Seq(Cell)
        BY FilesMove
      <4> QED BY <4>1, <3>1, <2>4, DamagedFits
    <3> QED BY <3>1, <3>2, <1>1, <1>2, <2>1 DEF TearsFit
  <2>7. active \in DOMAIN segs =>
            AllGood(segs'[active]) \/ \E t \in tears : t.seg = active /\ t # Here
    BY <1>1, <2>1, <2>4 DEF TearsFit
  <2>8. CASE target = 0
    BY <1>1, <2>1, <2>4, <2>5, <2>6, <2>7, <2>8
       DEF TearsFit, Recovering, Working, Copying, Cutting
  <2>9. CASE target # 0
    <3>1. Here' = Here
      BY <2>1, <2>9 DEF Here
    <3>2. \A t \in tears' : (pc' = "unmark" /\ t = Here') \/ TearFits(t)'
      BY <2>1, <2>5, <2>9, <3>1
    <3>3. \A s \in DOMAIN segs' : Damaged(segs'[s], s) => \E t \in tears' : t.seg = s
      BY <2>1, <2>6, <2>9
    <3> HIDE DEF Here
    <3> QED BY <1>1, <2>1, <2>2, <2>4, <2>7, <2>9, <3>1, <3>2, <3>3
            DEF TearsFit, Recovering, Working, Copying, Cutting
  <2> QED BY <2>8, <2>9
<1>10. CASE RemoveMarker
  <2>1. /\ pc = "unmark" /\ pc' = "tears" /\ tears' = tears \ {Here} /\ segs' = segs
        /\ active' = active /\ entries' = DOMAIN segs /\ synced' = synced
    BY <1>10 DEF RemoveMarker
  <2>2. Here.seg \in DOMAIN segs /\ AllGood(segs[Here.seg]) /\ entries \subseteq DOMAIN segs
    BY <1>1, <2>1 DEF TearsFit, Types, RepairTypeOK
  <2>3. ASSUME NEW t \in tears' PROVE TearFits(t)'
    <3>1. TearFits(t)
      BY <2>1, <1>1 DEF TearsFit
    <3> QED BY <3>1, <2>1, <2>2 DEF TearFits
  <2>4. ~Damaged(segs[Here.seg], Here.seg)
    BY <1>1, <2>2, DamagedFits DEF Types
  <2>5. \A s \in DOMAIN segs' : Damaged(segs'[s], s) => \E t \in tears' : t.seg = s
    BY <1>1, <2>1, <2>4 DEF TearsFit
  <2>6. active \in DOMAIN segs => AllGood(segs[active]) \/ \E t \in tears' : t.seg = active
    BY <1>1, <2>1, <2>2 DEF TearsFit
  <2> QED BY <1>1, <2>1, <2>3, <2>5, <2>6
          DEF TearsFit, Recovering, Working, Copying, Cutting
<1>11. CASE FinishOpen
  <2>1. /\ pc = "tears" /\ pc' \in {"up", "repaired"} /\ tears = {} /\ tears' = {}
        /\ active' = active
        /\ \/ active \in DOMAIN segs /\ segs' = segs
           \/ active \notin DOMAIN segs /\ segs' = WithSegment(active, <<>>)
    BY <1>11 DEF FinishOpen
  <2>2. active \in DOMAIN segs' /\ AllGood(segs'[active])
    BY <2>1, <1>1, EmptyFits DEF TearsFit, WithSegment
  <2>3. \A s \in DOMAIN segs' : ~Damaged(segs'[s], s)
    BY <1>1, <1>2, <2>1 DEF TearsFit
  <2> QED BY <2>1, <2>2, <2>3 DEF TearsFit, Recovering, Working, Copying, Cutting
<1>12. ASSUME NEW k \in Keys, Write(k) PROVE TearsFit'
  <2>1. pc = "up" /\ pc' = "up" /\ tears' = tears /\ active' = active
    BY <1>12 DEF Write
  <2>2. tears = {}
    BY <1>1, <2>1 DEF TearsFit, Recovering, Working, Copying, Cutting
  <2>3. active \in DOMAIN segs
    BY <1>12, WriteEffect
  <2>4. PICK x : segs' = [segs EXCEPT ![active] = x] /\ AllGood(x)
    BY <1>12, WriteEffect
  <2>5. active \in DOMAIN segs' /\ AllGood(segs'[active])
    BY <2>3, <2>4, <1>1 DEF Types
  <2>6. \A s \in DOMAIN segs' : ~Damaged(segs'[s], s)
    BY <1>1, <1>2, <2>1, <2>2 DEF TearsFit
  <2> QED BY <2>1, <2>2, <2>5, <2>6 DEF TearsFit, Recovering, Working, Copying, Cutting
<1>13. CASE RefuseToOpen \/ Close \/ Kill \/ PowerLoss
  BY <1>3, <1>13 DEF RefuseToOpen, Close, Kill, PowerLoss
<1>14. CASE PrepareCut \/ StartSalvage \/ WriteMarker \/ SyncTarget \/ SyncDirectory
            \/ CreateSidecar \/ WriteSidecar
  BY <1>5, <1>14 DEF PrepareCut, StartSalvage, WriteMarker, SyncTarget, SyncDirectory,
                     CreateSidecar, WriteSidecar, disk
<1> QED BY <1>4, <1>6, <1>7, <1>8, <1>9, <1>10, <1>11, <1>12, <1>13, <1>14
        DEF Next, Recover

-----------------------------------------------------------------------------
(* The salvage.                                                            *)

LEMMA HereStays ==
  ASSUME tears' = tears
  PROVE  Here' = Here
BY DEF Here

\* The new file of a salvage is not its source, and holds nothing else.
LEMMA TargetIsOwn ==
  ASSUME RepairInv, StartSalvage
  PROVE  /\ SalvageTarget # Here.seg
         /\ SalvageTarget \in DOMAIN segs => PartOf(segs[SalvageTarget], StrandedHere)
<1>1. /\ SalvageTarget \in Segment /\ IsNormal(SalvageTarget)
      /\ Here.seg \in DOMAIN segs
      /\ StrandedHere = Left(segs[Here.seg], Here.seg)
      /\ \A m \in MarkersHere : Pending(m)
      /\ MarkersHere = {} => SalvageTarget = NextSalvageId
      /\ MarkersHere # {} => \E m \in MarkersHere : SalvageTarget = m.id
  BY TargetFits
<1>2. CASE MarkersHere = {}
  <2>1. SalvageTarget \notin DOMAIN segs
    <3> SUFFICES ASSUME SalvageTarget \in DOMAIN segs PROVE FALSE
      OBVIOUS
    <3>1. SalvageTarget < NextSalvageId /\ NextSalvageId \in Nat
      BY <1>1, FreshId DEF RepairInv
    <3> QED BY <1>1, <1>2, <3>1
  <2> QED BY <1>1, <2>1
<1>3. CASE MarkersHere # {}
  <2>1. PICK m \in MarkersHere : SalvageTarget = m.id
    BY <1>1, <1>3
  <2>2. m \in markers /\ m.seg = Here.seg /\ Pending(m)
    BY <1>1 DEF MarkersHere
  <2>3. /\ m.id # m.seg
        /\ m.id \in DOMAIN segs => PartOf(segs[m.id], Left(segs[m.seg], m.seg))
    BY <2>2 DEF RepairInv, MarkersFit
  <2> QED BY <1>1, <2>1, <2>2, <2>3
<1> QED BY <1>2, <1>3

\* A salvage that goes on without a write to its source or its target.
LEMMA SalvageStays ==
  ASSUME RepairInv, Salvaging, tears' = tears, segs' = segs, target' = target,
         stranded' = stranded
  PROVE  /\ Damaged(segs'[Here'.seg], Here'.seg)
         /\ Here' = Tear(segs'[Here'.seg], Here'.seg)
         /\ stranded' = Left(segs'[Here'.seg], Here'.seg) /\ target' # Here'.seg
         /\ target' \in DOMAIN segs' => PartOf(segs'[target'], stranded')
<1>1. Here' = Here
  BY HereStays
<1> HIDE DEF Here
<1> QED BY <1>1 DEF RepairInv, SalvageFits

LEMMA NextSalvage == RepairInv /\ Next => SalvageFits'
<1> SUFFICES ASSUME RepairInv, Next PROVE SalvageFits'
  OBVIOUS
<1>1. Types /\ FilesFit /\ TearsFit /\ SalvageFits
  BY DEF RepairInv
<1> USE DEF Working, Copying, Cutting
<1>2. CASE Stop
  BY <1>2 DEF Stop, SalvageFits, Salvaging
<1>3. CASE /\ pc \notin Working /\ pc' \notin Working /\ target' = target
           /\ stranded' = stranded
  BY <1>1, <1>3 DEF SalvageFits, Salvaging
<1>4. CASE PrepareCut
  <2>1. /\ pc = "tears" /\ pc' = "backup" /\ target' = 0 /\ stranded' = <<>> /\ segs' = segs
        /\ tears' = tears /\ tears # {} /\ StrandedHere = <<>>
    BY <1>4 DEF PrepareCut, Concerned, disk
  <2>2. ~Damaged(segs[Here.seg], Here.seg) /\ Here' = Here
    BY <2>1, TearPassed, HereStays
  <2> HIDE DEF Here
  <2> QED BY <2>1, <2>2 DEF SalvageFits, Salvaging
<1>5. CASE StartSalvage
  <2>1. /\ pc' \in {"reuse", "mark"} /\ target' = SalvageTarget /\ stranded' = StrandedHere
        /\ segs' = segs /\ synced' = synced /\ tears' = tears
        /\ pc' = "reuse" => Reusable(StrandedHere, SalvageTarget)
    BY <1>5 DEF StartSalvage
  <2>2. /\ SalvageTarget \in Segment /\ SalvageTarget # 0
        /\ Here.seg \in DOMAIN segs /\ segs[Here.seg] \in Seq(Cell)
        /\ Damaged(segs[Here.seg], Here.seg) /\ Here = Tear(segs[Here.seg], Here.seg)
        /\ StrandedHere = Left(segs[Here.seg], Here.seg) /\ StrandedHere \in Seq(Cell)
    BY <1>5, TargetFits, RepairAssumption DEF Segment
  <2>3. /\ SalvageTarget # Here.seg
        /\ SalvageTarget \in DOMAIN segs => PartOf(segs[SalvageTarget], StrandedHere)
    BY <1>5, TargetIsOwn
  <2>4. pc' = "reuse" => /\ SalvageTarget \in DOMAIN segs
                         /\ segs[SalvageTarget] = StrandedHere
    <3> SUFFICES ASSUME Reusable(StrandedHere, SalvageTarget)
                 PROVE  /\ SalvageTarget \in DOMAIN segs
                        /\ segs[SalvageTarget] = StrandedHere
      BY <2>1
    <3>1. /\ SalvageTarget \in DOMAIN segs
          /\ Len(segs[SalvageTarget]) = Len(StrandedHere) /\ ~IsTorn(segs[SalvageTarget])
      BY DEF Reusable
    <3>2. segs[SalvageTarget] \in Seq(Cell)
      BY <1>1, <3>1 DEF Types
    <3>3. AllGood(StrandedHere)
      BY <2>2, DamagedFits
    <3> QED BY <2>2, <2>3, <3>1, <3>2, <3>3, PartFits
  <2>5. Here' = Here
    BY <2>1, HereStays
  <2> HIDE DEF Here
  <2> QED BY <2>1, <2>2, <2>3, <2>4, <2>5 DEF SalvageFits, Salvaging
<1>6. CASE WriteMarker
  <2>1. /\ \/ pc = "mark" /\ pc' = "create"
           \/ pc = "reuse" /\ pc' = "backup"
        /\ pc = "reuse" => target \in synced \/ "trusted" \in mishaps'
        /\ segs' = segs /\ synced' = synced /\ tears' = tears /\ target' = target
        /\ stranded' = stranded /\ entries' = DOMAIN segs
    BY <1>6 DEF WriteMarker
  <2>2. Salvaging
    BY <2>1 DEF Salvaging
  <2>3. /\ Damaged(segs'[Here'.seg], Here'.seg)
        /\ Here' = Tear(segs'[Here'.seg], Here'.seg)
        /\ stranded' = Left(segs'[Here'.seg], Here'.seg) /\ target' # Here'.seg
        /\ target' \in DOMAIN segs' => PartOf(segs'[target'], stranded')
    BY <2>1, <2>2, SalvageStays
  <2> HIDE DEF Here
  <2> QED BY <1>1, <2>1, <2>3 DEF SalvageFits, Salvaging
<1>7. CASE CreateTarget
  <2>1. /\ pc = "create" /\ pc' = "copy" /\ segs' = WithSegment(target, <<>>)
        /\ synced' = synced \ {target} /\ tears' = tears /\ target' = target
        /\ stranded' = stranded
    BY <1>7 DEF CreateTarget
  <2>2. Salvaging
    BY <2>1 DEF Salvaging
  <2>3. /\ Here.seg \in DOMAIN segs /\ target # Here.seg /\ target # 0
        /\ stranded = Left(segs[Here.seg], Here.seg) /\ stranded \in Seq(Cell)
        /\ Damaged(segs[Here.seg], Here.seg) /\ Here = Tear(segs[Here.seg], Here.seg)
    BY <2>1, <2>2, <1>1, SalvagingFits DEF SalvageFits
  <2>4. /\ target \in DOMAIN segs' /\ segs'[target] = <<>>
        /\ segs'[Here.seg] = segs[Here.seg]
    BY <2>1, <2>3 DEF WithSegment
  <2>5. PartOf(<<>>, stranded)
    BY <2>3 DEF PartOf
  <2>6. Here' = Here
    BY <2>1, HereStays
  <2> HIDE DEF Here
  <2> QED BY <2>1, <2>3, <2>4, <2>5, <2>6 DEF SalvageFits, Salvaging
<1>8. CASE CopyFirstChunk \/ CopyFrame
  <2>1. /\ pc = "copy" /\ pc' = "copy" /\ synced' = synced /\ tears' = tears
        /\ target' = target /\ stranded' = stranded
    BY <1>8 DEF CopyFirstChunk, CopyFrame, engine
  <2>2. Salvaging
    BY <2>1 DEF Salvaging
  <2>3. /\ Here.seg \in DOMAIN segs /\ target # Here.seg /\ target # 0
        /\ target \in DOMAIN segs \ synced
        /\ stranded = Left(segs[Here.seg], Here.seg) /\ stranded \in Seq(Cell)
        /\ Damaged(segs[Here.seg], Here.seg) /\ Here = Tear(segs[Here.seg], Here.seg)
    BY <2>1, <2>2, <1>1, SalvagingFits DEF SalvageFits
  <2>4. PICK x \in Seq(Cell) : segs' = [segs EXCEPT ![target] = x] /\ PartOf(x, stranded)
    BY <1>8, CopyEffect
  <2>5. /\ target \in DOMAIN segs' /\ segs'[target] = x
        /\ segs'[Here.seg] = segs[Here.seg]
    BY <2>3, <2>4, <1>1 DEF Types
  <2>6. Here' = Here
    BY <2>1, HereStays
  <2> HIDE DEF Here
  <2> QED BY <2>1, <2>3, <2>4, <2>5, <2>6 DEF SalvageFits, Salvaging
<1>9. CASE SyncTarget \/ SyncDirectory
  <2>1. /\ \/ /\ pc = "copy" /\ pc' = "dirsync" /\ segs[target] = stranded
              /\ synced' = synced \cup {target} /\ entries' = entries
           \/ /\ pc = "dirsync" /\ pc' = "backup" /\ synced' = synced
              /\ entries' = DOMAIN segs
        /\ segs' = segs /\ tears' = tears /\ target' = target /\ stranded' = stranded
    BY <1>9 DEF SyncTarget, SyncDirectory
  <2>2. Salvaging
    BY <2>1 DEF Salvaging
  <2>3. /\ Damaged(segs'[Here'.seg], Here'.seg)
        /\ Here' = Tear(segs'[Here'.seg], Here'.seg)
        /\ stranded' = Left(segs'[Here'.seg], Here'.seg) /\ target' # Here'.seg
        /\ target' \in DOMAIN segs' => PartOf(segs'[target'], stranded')
    BY <2>1, <2>2, SalvageStays
  <2> HIDE DEF Here
  <2> QED BY <1>1, <2>1, <2>3 DEF SalvageFits, Salvaging
<1>10. CASE CreateSidecar \/ WriteSidecar
  <2>1. /\ \/ /\ pc = "backup" /\ pc' = "sidecar" /\ entries' = entries
           \/ /\ pc = "sidecar" /\ pc' = "cut" /\ entries' = DOMAIN segs
              /\ [seg |-> Here.seg, at |-> Here.at, cells |-> TornRegion] \in sidecars'
        /\ segs' = segs /\ tears' = tears /\ target' = target /\ stranded' = stranded
        /\ synced' = synced /\ mishaps \subseteq mishaps'
    BY <1>10 DEF CreateSidecar, WriteSidecar, observed
  <2>2. Here' = Here /\ TornRegion' = TornRegion
    BY <2>1, HereStays DEF TornRegion
  <2> HIDE DEF Here
  <2>3. CASE target = 0
    BY <1>1, <2>1, <2>2, <2>3 DEF SalvageFits, Salvaging
  <2>4. CASE target # 0
    <3>1. Salvaging
      BY <2>1, <2>4 DEF Salvaging
    <3>2. /\ Damaged(segs'[Here'.seg], Here'.seg)
          /\ Here' = Tear(segs'[Here'.seg], Here'.seg)
          /\ stranded' = Left(segs'[Here'.seg], Here'.seg) /\ target' # Here'.seg
          /\ target' \in DOMAIN segs' => PartOf(segs'[target'], stranded')
      BY <2>1, <3>1, SalvageStays
    <3>3. target \in entries'
      BY <1>1, <2>1, <2>4 DEF SalvageFits
    <3> QED BY <1>1, <2>1, <2>2, <2>4, <3>2, <3>3 DEF SalvageFits, Salvaging
  <2> QED BY <2>3, <2>4
<1>11. CASE Truncate
  <2>1. /\ pc = "cut" /\ target' = target /\ stranded' = stranded
        /\ IF target = 0 THEN pc' = "tears" ELSE pc' = "unmark"
    BY <1>11 DEF Truncate
  <2> QED BY <1>1, <2>1 DEF SalvageFits, Salvaging
<1>12. CASE RemoveMarker
  BY <1>12 DEF RemoveMarker, SalvageFits, Salvaging
<1>13. CASE RefuseToOpen \/ Close \/ Kill \/ PowerLoss
  BY <1>2, <1>13 DEF RefuseToOpen, Close, Kill, PowerLoss
<1>14. ASSUME NEW m \in Modes, Open(m) PROVE SalvageFits'
  BY <1>3, <1>14 DEF Open
<1>15. ASSUME NEW k \in Keys, Write(k) PROVE SalvageFits'
  BY <1>3, <1>15 DEF Write
<1>16. CASE IgnoreTrailing \/ SkipRemainder \/ FinishOpen
  BY <1>3, <1>16 DEF IgnoreTrailing, SkipRemainder, Concerned, FinishOpen
<1> QED BY <1>4, <1>5, <1>6, <1>7, <1>8, <1>9, <1>10, <1>11, <1>12, <1>13, <1>14, <1>15,
           <1>16 DEF Next, Recover

-----------------------------------------------------------------------------
(* The markers.                                                            *)

\* Where a salvage comes from.
LEMMA SalvageGoesOn ==
  ASSUME RepairInv, Next, Salvaging'
  PROVE  \/ StartSalvage
         \/ Salvaging /\ tears' = tears /\ target' = target /\ stranded' = stranded
<1> USE DEF Working, Copying, Cutting
<1>1. ~Stop /\ (pc' = "backup" => ~PrepareCut) /\ pc' # "down"
  BY DEF Stop, Salvaging, PrepareCut
<1>2. CASE PrepareCut
  BY <1>1, <1>2 DEF PrepareCut
<1>3. CASE \/ WriteMarker \/ CreateTarget \/ CopyFirstChunk \/ CopyFrame \/ SyncTarget
           \/ SyncDirectory
  BY <1>3 DEF Salvaging, WriteMarker, CreateTarget, CopyFirstChunk, CopyFrame, SyncTarget,
              SyncDirectory, engine
<1>4. CASE CreateSidecar \/ WriteSidecar
  BY <1>4 DEF Salvaging, CreateSidecar, WriteSidecar
<1>5. CASE Truncate \/ RemoveMarker \/ FinishOpen
  BY <1>5 DEF Salvaging, Truncate, RemoveMarker, FinishOpen
<1>6. CASE IgnoreTrailing \/ SkipRemainder \/ \E m \in Modes : Open(m)
  BY <1>6 DEF Salvaging, IgnoreTrailing, SkipRemainder, Concerned, Open
<1>7. CASE \E k \in Keys : Write(k)
  BY <1>7 DEF Salvaging, Write
<1>8. CASE RefuseToOpen \/ Close \/ Kill \/ PowerLoss
  BY <1>1, <1>8 DEF RefuseToOpen, Close, Kill, PowerLoss
<1> QED BY <1>2, <1>3, <1>4, <1>5, <1>6, <1>7, <1>8 DEF Next, Recover

\* A marker that counts has counted before, if it was there.
LEMMA PendingBefore ==
  ASSUME RepairInv, Next, NEW m, Pending(m)'
  PROVE  /\ Pending(m) /\ m.seg \in DOMAIN segs' /\ segs'[m.seg] = segs[m.seg]
         /\ Left(segs[m.seg], m.seg) \in Seq(Cell) /\ AllGood(Left(segs[m.seg], m.seg))
<1>1. m.seg \in DOMAIN segs' /\ Damaged(segs'[m.seg], m.seg)
      /\ m.at = PrefixLen(segs'[m.seg]) + 1
  BY DEF Pending
<1>2. m.seg \in DOMAIN segs /\ segs'[m.seg] = segs[m.seg] /\ Damaged(segs[m.seg], m.seg)
  BY <1>1, NoNewDamage
<1>3. segs[m.seg] \in Seq(Cell)
  BY <1>2 DEF RepairInv, Types
<1> QED BY <1>1, <1>2, <1>3, DamagedFits DEF Pending

\* The markers that count are those of the first tear.
LEMMA PendingIsHere ==
  ASSUME RepairInv, pc # "down", tears # {}, NEW m \in markers, Pending(m),
         Here.seg \in DOMAIN segs, Damaged(segs[Here.seg], Here.seg),
         Here = Tear(segs[Here.seg], Here.seg)
  PROVE  m \in MarkersHere
<1>1. m.seg <= Here.seg /\ m.seg \in DOMAIN segs /\ Damaged(segs[m.seg], m.seg)
  BY DEF RepairInv, MarkersFit, Pending
<1>2. \E t \in tears : t.seg = m.seg
  BY <1>1 DEF RepairInv, TearsFit
<1>3. Here.seg <= m.seg
  BY <1>2, HereFits DEF RepairInv
<1>4. m.seg \in Nat /\ Here.seg \in Nat
  <2>1. m.seg \in Segment /\ Here.seg \in Segment
    BY <1>1 DEF RepairInv, Types, RepairTypeOK
  <2> QED BY <2>1, RepairAssumption DEF Segment
<1>5. m.seg = Here.seg
  BY <1>1, <1>3, <1>4
<1>6. Here.at = PrefixLen(segs[Here.seg]) + 1
  <2>1. segs[Here.seg] \in Seq(Cell) /\ IsTorn(segs[Here.seg])
    BY DEF RepairInv, Types, Damaged
  <2> QED BY <2>1, TearPlace
<1> QED BY <1>5, <1>6 DEF Pending, MarkersHere

\* What the file that a marker names may hold after a step.
LEMMA NamedFile ==
  ASSUME RepairInv, Next, NEW m \in markers, Pending(m)', m.id \in DOMAIN segs'
  PROVE  PartOf(segs'[m.id], Left(segs'[m.seg], m.seg))
<1> DEFINE L == Left(segs[m.seg], m.seg)
<1>1. /\ Pending(m) /\ segs'[m.seg] = segs[m.seg] /\ L \in Seq(Cell) /\ AllGood(L)
      /\ m.seg \in DOMAIN segs /\ Damaged(segs[m.seg], m.seg)
  BY PendingBefore DEF Pending
<1>2. m.id \in DOMAIN segs => PartOf(segs[m.id], L)
  BY <1>1 DEF RepairInv, MarkersFit
<1>3. Salvaging => m.seg = Here.seg /\ m.id = target
  BY <1>1 DEF RepairInv, MarkersFit
<1>4. PartOf(<<>>, L)
  <2>1. Len(L) \in Nat
    BY <1>1
  <2> QED BY <2>1 DEF PartOf
<1>5. SUFFICES PartOf(segs'[m.id], L)
  BY <1>1
<1> HIDE DEF L
<1>6. CASE segs' = segs
  BY <1>2, <1>6
<1>7. CASE CreateTarget
  <2>1. segs' = WithSegment(target, <<>>)
    BY <1>7 DEF CreateTarget
  <2> QED BY <2>1, <1>2, <1>4 DEF WithSegment
<1>8. CASE CopyFirstChunk \/ CopyFrame
  <2>1. pc = "copy"
    BY <1>8 DEF CopyFirstChunk, CopyFrame
  <2>2. Salvaging /\ target \in DOMAIN segs
    BY <2>1 DEF Salvaging, Copying, RepairInv, SalvageFits
  <2>3. stranded = L
    BY <2>2, <1>3, SalvagingFits DEF L
  <2>4. PICK x \in Seq(Cell) : segs' = [segs EXCEPT ![target] = x] /\ PartOf(x, stranded)
    BY <1>8, CopyEffect
  <2> QED BY <2>2, <2>3, <2>4, <1>3
<1>9. CASE Truncate
  <2>1. Here.seg \in DOMAIN segs
    BY <1>9, TruncateEffect
  <2>2. PICK x \in Seq(Cell) :
          /\ segs' = [segs EXCEPT ![Here.seg] = x]
          /\ \A r \in Seq(Cell) : AllGood(r) /\ PartOf(segs[Here.seg], r) => PartOf(x, r)
    BY <1>9, TruncateEffect
  <2>3. DOMAIN segs' = DOMAIN segs
    BY <2>2 DEF RepairInv, Types
  <2> QED BY <2>1, <2>2, <2>3, <1>1, <1>2
<1>10. CASE PowerLoss
  <2>1. /\ DOMAIN segs' \subseteq DOMAIN segs
        /\ \/ segs'[m.id] = segs[m.id]
           \/ m.id \notin synced /\ segs'[m.id] \in Remains(segs[m.id])
    BY <1>10, PowerLossEffect
  <2>2. segs[m.id] \in Seq(Cell) /\ (m.id \notin synced => Clean(segs[m.id]))
    BY <2>1 DEF RepairInv, Types, FilesFit
  <2> QED BY <2>1, <2>2, <1>1, <1>2, RemainsFit
<1>11. CASE FinishOpen \/ (\E k \in Keys : Write(k)) \/ (Kill /\ segs' # segs)
  <2>1. pc = "up" \/ (pc = "tears" /\ tears = {})
    BY <1>11, KillEffect DEF FinishOpen, Write
  <2>2. ~Damaged(segs[m.seg], m.seg)
    BY <1>1, <2>1, ServingFits DEF RepairInv, TearsFit
  <2> QED BY <2>2, <1>1
<1> QED BY <1>6, <1>7, <1>8, <1>9, <1>10, <1>11, WhichMove

LEMMA NextMarkers == RepairInv /\ Next => MarkersFit'
<1> SUFFICES ASSUME RepairInv, Next PROVE MarkersFit'
  OBVIOUS
<1>1. Types /\ FilesFit /\ TearsFit /\ SalvageFits /\ MarkersFit
  BY DEF RepairInv
<1>2. ASSUME NEW s \in DOMAIN segs', Damaged(segs'[s], s)
      PROVE  s \in DOMAIN segs /\ Damaged(segs[s], s)
  BY <1>2, NoNewDamage
\* A marker that stays.
<1>3. ASSUME NEW m \in markers, Pending(m)'
      PROVE  /\ m.id # m.seg /\ IsNormal(m.id)
             /\ m.id \in DOMAIN segs' => PartOf(segs'[m.id], Left(segs'[m.seg], m.seg))
             /\ \A s \in DOMAIN segs' : Damaged(segs'[s], s) => m.seg <= s
  <2>1. Pending(m)
    BY <1>3, PendingBefore
  <2>2. /\ m.id # m.seg /\ IsNormal(m.id)
        /\ \A s \in DOMAIN segs : Damaged(segs[s], s) => m.seg <= s
    BY <2>1, <1>1 DEF MarkersFit
  <2>3. m.id \in DOMAIN segs' => PartOf(segs'[m.id], Left(segs'[m.seg], m.seg))
    BY <1>3, NamedFile
  <2> QED BY <1>2, <2>2, <2>3
<1>4. \A m, n \in markers : Pending(m)' /\ Pending(n)' => m = n
  <2>1. \A m \in markers : Pending(m)' => Pending(m)
    BY PendingBefore
  <2> QED BY <2>1, <1>1 DEF MarkersFit
<1>5. CASE WriteMarker
  <2> DEFINE n == [seg |-> Here.seg, at |-> Here.at, id |-> target, len |-> Len(stranded)]
  <2>1. /\ pc \in {"mark", "reuse"} /\ markers' = markers \cup {n} /\ segs' = segs
        /\ tears' = tears /\ target' = target /\ pc' \in {"backup", "create"}
    BY <1>5 DEF WriteMarker
  <2>2. Salvaging /\ \A m \in markers : ~Pending(m)
    BY <2>1, <1>1 DEF Salvaging, Copying, MarkersFit
  <2>3. \A m \in markers : ~Pending(m)'
    BY <2>2, PendingBefore
  <2>4. /\ IsNormal(target) /\ target # Here.seg /\ tears # {}
        /\ Damaged(segs[Here.seg], Here.seg) /\ stranded = Left(segs[Here.seg], Here.seg)
        /\ target \in DOMAIN segs => PartOf(segs[target], stranded)
    BY <2>2, SalvagingFits
  <2>5. \A s \in DOMAIN segs : Damaged(segs[s], s) => Here.seg <= s
    <3>1. \A u \in tears : Here.seg <= u.seg
      BY <2>4, <1>1, HereFits
    <3> QED BY <3>1, <2>1, <1>1 DEF TearsFit
  <2>6. /\ n.id # n.seg /\ IsNormal(n.id)
        /\ n.id \in DOMAIN segs' => PartOf(segs'[n.id], Left(segs'[n.seg], n.seg))
        /\ \A s \in DOMAIN segs' : Damaged(segs'[s], s) => n.seg <= s
    BY <2>1, <2>4, <2>5
  <2>7. n.seg = Here.seg /\ n.id = target /\ Here' = Here
    BY <2>1, HereStays
  <2> HIDE DEF n, Here
  <2>8. \A m \in markers' : Pending(m)' => m = n
    BY <2>1, <2>3
  <2> QED BY <2>1, <2>6, <2>7, <2>8 DEF MarkersFit
<1>6. CASE StartSalvage
  <2>1. /\ markers' = markers \ MarkersHere /\ pc = "tears" /\ tears # {}
    BY <1>6 DEF StartSalvage, Concerned
  <2>2. /\ Here.seg \in DOMAIN segs /\ Damaged(segs[Here.seg], Here.seg)
        /\ Here = Tear(segs[Here.seg], Here.seg)
    BY <1>6, TargetFits
  <2>3. \A m \in markers : Pending(m) => m \in MarkersHere
    BY <2>1, <2>2, PendingIsHere
  <2>4. \A m \in markers' : ~Pending(m)'
    BY <2>1, <2>3, PendingBefore
  <2> QED BY <2>4 DEF MarkersFit
<1>7. CASE ~WriteMarker /\ ~StartSalvage
  <2>1. markers' \subseteq markers
    BY <1>7 DEF Next, Recover, Open, IgnoreTrailing, RefuseToOpen, SkipRemainder,
         PrepareCut, CopyFirstChunk, CopyFrame, SyncTarget, CreateTarget,
         SyncDirectory, CreateSidecar, WriteSidecar, Truncate, RemoveMarker, FinishOpen,
         Write, Close, Kill, PowerLoss, disk
  <2>2. ASSUME Salvaging', NEW m \in markers', Pending(m)'
        PROVE  m.seg = Here'.seg /\ m.id = target'
    <3>1. Salvaging /\ tears' = tears /\ target' = target
      BY <1>7, <2>2, SalvageGoesOn
    <3>2. Here' = Here /\ Pending(m) /\ m \in markers
      BY <2>1, <2>2, <3>1, HereStays, PendingBefore
    <3> HIDE DEF Here
    <3> QED BY <3>1, <3>2, <1>1 DEF MarkersFit
  <2>3. pc' \notin {"mark", "reuse"}
    <3> SUFFICES ASSUME pc' \in {"mark", "reuse"} PROVE FALSE
      OBVIOUS
    <3>1. ~RefuseToOpen /\ ~Close /\ ~Kill /\ ~PowerLoss
      BY DEF RefuseToOpen, Close, Kill, PowerLoss, Stop
    <3>2. ~IgnoreTrailing /\ ~SkipRemainder /\ ~CopyFirstChunk /\ ~CopyFrame
          /\ \A k \in Keys : ~Write(k)
      BY DEF IgnoreTrailing, SkipRemainder, Concerned, CopyFirstChunk, CopyFrame, Write,
             engine
    <3>3. ~PrepareCut /\ ~CreateTarget /\ ~SyncTarget /\ ~SyncDirectory /\ ~CreateSidecar
          /\ ~WriteSidecar /\ \A m \in Modes : ~Open(m)
      BY DEF PrepareCut, CreateTarget, SyncTarget, SyncDirectory, CreateSidecar,
             WriteSidecar, Open
    <3>4. ~Truncate /\ ~RemoveMarker /\ ~FinishOpen
      BY DEF Truncate, RemoveMarker, FinishOpen
    <3> QED BY <1>7, <3>1, <3>2, <3>3, <3>4 DEF Next, Recover
  <2> QED BY <1>3, <1>4, <2>1, <2>2, <2>3 DEF MarkersFit
<1> QED BY <1>5, <1>6, <1>7

-----------------------------------------------------------------------------
(* What no open may lose.                                                  *)

\* A durable file stays as it is, except for four steps.
LEMMA DurableFile ==
  ASSUME RepairInv, Next, NEW s \in synced \cap entries
  PROVE  \/ s \in synced' \cap entries' /\ segs'[s] = segs[s]
         \/ CreateTarget /\ s = target
         \/ Truncate /\ s = Here.seg
         \/ (\E k \in Keys : Write(k)) /\ s = active
         \/ Kill /\ segs' # segs /\ s = active
<1>1. s \in DOMAIN segs /\ segs \in [DOMAIN segs -> Seq(Cell)]
  BY DEF RepairInv, Types, RepairTypeOK
<1>2. s \in entries' \/ PowerLoss
  <2>1. PowerLoss \/ DOMAIN segs \subseteq DOMAIN segs'
    BY FilesMove
  <2> QED BY <1>1, <2>1, EntriesMove
<1>3. CASE PowerLoss
  <2>1. s \in DOMAIN segs' /\ segs'[s] = segs[s]
    BY <1>3, PowerLossEffect
  <2> QED BY <1>3, <2>1, PowerLossEffect
<1>4. CASE ~PowerLoss
  <2>1. s \in synced' \/ (CreateTarget /\ s = target)
    BY <1>4
       DEF Next, Recover, Open, IgnoreTrailing, RefuseToOpen, SkipRemainder, PrepareCut,
         StartSalvage, WriteMarker, CopyFirstChunk, CopyFrame, SyncTarget, CreateTarget,
         SyncDirectory, CreateSidecar, WriteSidecar, Truncate, RemoveMarker, FinishOpen,
         Write, Close, Kill, disk
  <2>2. CASE segs' = segs
    BY <1>2, <1>4, <2>1, <2>2
  <2>3. CASE CreateTarget
    <3>1. s # target => segs'[s] = segs[s]
      BY <2>3, <1>1 DEF CreateTarget, WithSegment
    <3> QED BY <1>2, <1>4, <2>1, <2>3, <3>1
  <2>4. CASE CopyFirstChunk \/ CopyFrame
    <3>1. PICK x : segs' = [segs EXCEPT ![target] = x]
      BY <2>4, CopyEffect
    <3>2. target \notin synced
      BY <2>4 DEF CopyFirstChunk, CopyFrame, RepairInv, SalvageFits
    <3>3. segs'[s] = segs[s]
      BY <1>1, <3>1, <3>2
    <3>4. synced' = synced
      BY <2>4 DEF CopyFirstChunk, CopyFrame
    <3> QED BY <1>2, <1>4, <3>3, <3>4
  <2>5. CASE Truncate
    <3>1. PICK x : segs' = [segs EXCEPT ![Here.seg] = x]
      BY <2>5, TruncateEffect
    <3>2. synced \subseteq synced'
      BY <2>5 DEF Truncate
    <3> QED BY <1>1, <1>2, <1>4, <2>5, <3>1, <3>2
  <2>6. CASE FinishOpen
    <3>1. segs'[s] = segs[s] /\ synced \subseteq synced'
      BY <2>6, <1>1 DEF FinishOpen, WithSegment
    <3> QED BY <1>2, <1>4, <3>1
  <2>7. CASE \E k \in Keys : Write(k)
    <3>1. PICK x : segs' = [segs EXCEPT ![active] = x]
      BY <2>7, WriteEffect
    <3>2. synced \subseteq synced'
      BY <2>7 DEF Write
    <3> QED BY <1>1, <1>2, <1>4, <2>7, <3>1, <3>2
  <2>8. CASE Kill /\ segs' # segs
    <3>1. PICK x : segs' = [segs EXCEPT ![active] = x]
      BY <2>8, KillEffect
    <3>2. synced \subseteq synced'
      BY <2>8 DEF Kill
    <3> QED BY <1>1, <1>2, <1>4, <2>8, <3>1, <3>2
  <2> QED BY <1>4, <2>2, <2>3, <2>4, <2>5, <2>6, <2>7, <2>8, WhichMove
<1> QED BY <1>3, <1>4

\* Who records frames, sidecars and mishaps.
LEMMA Recorded ==
  ASSUME Next
  PROVE  /\ mishaps \subseteq mishaps'
         /\ CreateSidecar \/ sidecars \subseteq sidecars'
         /\ (valid' = valid /\ whole' = whole) \/ \E k \in Keys : Write(k)
BY DEF Next, Recover, Open, IgnoreTrailing, RefuseToOpen, SkipRemainder, PrepareCut,
       StartSalvage, WriteMarker, CopyFirstChunk, CopyFrame, SyncTarget, CreateTarget,
       SyncDirectory, CreateSidecar, WriteSidecar, Truncate, RemoveMarker, FinishOpen,
       Write, Close, Kill, PowerLoss, disk, observed

\* A write is in a durable file.
LEMMA WriteIsDurable ==
  ASSUME RepairInv, NEW k \in Keys, Write(k)
  PROVE  /\ active \in synced' \cap entries' /\ segs'[active] \in Seq(Cell)
         /\ AllGood(segs'[active]) /\ AllGood(segs[active]) /\ segs[active] \in Seq(Cell)
         /\ Whole(segs'[active]) = Whole(segs[active]) \cup {[seq |-> nextSeq, key |-> k]}
<1>1. pc = "up" /\ active \in DOMAIN segs /\ active \in synced' /\ entries' = entries
  BY WriteEffect DEF Write
<1>2. entries = DOMAIN segs /\ AllGood(segs[active])
  BY <1>1, ServingFits DEF RepairInv
<1>3. segs \in [DOMAIN segs -> Seq(Cell)]
  BY DEF RepairInv, Types
<1>4. PICK x \in Seq(Cell) :
        /\ segs' = [segs EXCEPT ![active] = x] /\ AllGood(x)
        /\ Whole(x) = Whole(segs[active]) \cup {[seq |-> nextSeq, key |-> k]}
  BY WriteEffect
<1> QED BY <1>1, <1>2, <1>3, <1>4

\* A kill in the middle of a frame takes nothing from the file.
LEMMA KillKeeps ==
  ASSUME RepairInv, Kill, segs' # segs
  PROVE  /\ synced' = synced /\ entries' = entries
         /\ segs'[active] \in Seq(Cell) /\ segs[active] \in Seq(Cell)
         /\ Readable(segs'[active]) = Whole(segs[active])
<1>1. active \in DOMAIN segs /\ synced' = synced /\ entries' = entries
  BY KillEffect DEF Kill
<1>2. segs \in [DOMAIN segs -> Seq(Cell)]
  BY DEF RepairInv, Types
<1>3. PICK x \in Seq(Cell) :
        segs' = [segs EXCEPT ![active] = x] /\ Readable(x) = Whole(segs[active])
  BY KillEffect
<1> QED BY <1>1, <1>2, <1>3

\* The torn region is in a durable file, if there is a complete frame in it.
LEMMA RegionIsDurable ==
  ASSUME RepairInv, pc = "backup"
  PROVE  Whole(TornRegion) \subseteq Durable
<1> DEFINE s == segs[Here.seg]
<1>1. tears # {}
  BY DEF RepairInv, TearsFit, Working, Cutting
<1>2. /\ Here.seg \in DOMAIN segs /\ s \in Seq(Cell) /\ Here.at \in 1..Len(s)
      /\ \/ IsTorn(s) /\ Here = Tear(s, Here.seg)
         \/ Here.seg \in synced /\ Here.seg \in entries
  BY <1>1, HerePlace DEF Recovering, Working, Cutting
<1>3. Whole(TornRegion) \subseteq Whole(s)
  <2>1. Here.at \in 1..(Len(s) + 1) /\ Len(s) \in 0..Len(s)
    BY <1>2
  <2> QED BY <2>1, <1>2, PartsHold DEF TornRegion
<1>4. CASE Here.seg \in synced \cap entries
  BY <1>3, <1>4 DEF Durable
<1>5. CASE Here.seg \notin synced \cap entries
  <2>1. IsTorn(s) /\ Here = Tear(s, Here.seg)
    BY <1>2, <1>5
  <2>2. ~AllGood(s)
    BY <1>2, <2>1, GoodReads
  <2>3. Clean(s)
    BY <1>2, <1>5, <2>2 DEF RepairInv, FilesFit
  <2>4. Here.at = Len(s) /\ Whole(SubSeq(s, Len(s), Len(s))) = {}
    BY <1>2, <2>1, <2>3, CleanTear
  <2> QED BY <2>4 DEF TornRegion
<1> QED BY <1>4, <1>5

LEMMA NextKept == RepairInv /\ Next => CutFramesAreKept'
<1> SUFFICES ASSUME RepairInv, Next, "overwritten" \notin mishaps', NEW f \in whole'
             PROVE  f \in Durable' \cup Kept'
  BY DEF CutFramesAreKept
<1>1. whole \subseteq Durable \cup Kept
  BY Recorded DEF RepairInv, CutFramesAreKept
<1>2. CASE f \in Kept
  <2>1. PICK b \in sidecars : f \in Whole(b.cells)
    BY <1>2 DEF Kept
  <2>2. CASE b \in sidecars'
    BY <2>1, <2>2 DEF Kept
  <2>3. CASE b \notin sidecars'
    <3>1. CreateSidecar
      BY <2>3, Recorded
    <3>2. f \in Whole(TornRegion) /\ pc = "backup"
      BY <2>1, <2>3, <3>1 DEF CreateSidecar
    <3>3. Durable' = Durable
      BY <3>1 DEF CreateSidecar, Durable
    <3> QED BY <3>2, <3>3, RegionIsDurable
  <2> QED BY <2>2, <2>3
<1>3. CASE f \in Durable
  <2>1. PICK s \in synced \cap entries : f \in Whole(segs[s])
    BY <1>3 DEF Durable
  <2>2. CASE s \in synced' \cap entries' /\ segs'[s] = segs[s]
    BY <2>1, <2>2 DEF Durable
  <2>3. CASE CreateTarget /\ s = target
    <3>1. pc = "create"
      BY <2>3 DEF CreateTarget
    <3>2. Salvaging /\ target \in DOMAIN segs
      BY <2>1, <2>3, <3>1 DEF Salvaging, Copying, RepairInv, Types, RepairTypeOK
    <3>3. /\ f \in Whole(segs[Here.seg]) /\ Here.seg \in synced \cap entries
          /\ Here.seg # target
      BY <2>1, <2>3, <3>2, SalvagingFits
    <3>4. Here.seg \in synced' \cap entries' /\ segs'[Here.seg] = segs[Here.seg]
      <4>1. ~Truncate /\ ~Kill /\ \A k \in Keys : ~Write(k)
        BY <2>3, <3>1 DEF Truncate, Write, Kill, Stop, CreateTarget
      <4> QED BY <3>3, <4>1, DurableFile
    <3> QED BY <3>3, <3>4 DEF Durable
  <2>4. CASE Truncate /\ s = Here.seg
    <3>1. PICK x \in Seq(Cell) :
            /\ segs' = [segs EXCEPT ![Here.seg] = x]
            /\ Whole(segs[Here.seg]) \subseteq Whole(x) \cup Whole(TornRegion)
      BY <2>4, TruncateEffect
    <3>2. /\ pc = "cut" /\ synced' = synced \cup {Here.seg} /\ entries' = entries
          /\ sidecars' = sidecars
      BY <2>4 DEF Truncate
    <3>3. Here.seg \in synced' \cap entries' /\ segs'[Here.seg] = x
      BY <2>1, <2>4, <3>1, <3>2 DEF RepairInv, Types, RepairTypeOK
    <3>4. [seg |-> Here.seg, at |-> Here.at, cells |-> TornRegion] \in sidecars'
      BY <3>2 DEF RepairInv, SalvageFits
    <3>5. Whole(TornRegion) \subseteq Kept'
      BY <3>4 DEF Kept
    <3>6. Whole(x) \subseteq Durable'
      BY <3>3 DEF Durable
    <3> QED BY <2>1, <2>4, <3>1, <3>5, <3>6
  <2>5. CASE (\E k \in Keys : Write(k)) /\ s = active
    <3>1. active \in synced' \cap entries' /\ Whole(segs[active]) \subseteq Whole(segs'[active])
      BY <2>5, WriteIsDurable
    <3> QED BY <2>1, <2>5, <3>1 DEF Durable
  <2>6. CASE Kill /\ segs' # segs /\ s = active
    <3>1. /\ synced' = synced /\ entries' = entries
          /\ Whole(segs[active]) \subseteq Whole(segs'[active])
      BY <2>6, KillKeeps, ReadableInFile
    <3> QED BY <2>1, <2>6, <3>1 DEF Durable
  <2> QED BY <2>2, <2>3, <2>4, <2>5, <2>6, DurableFile
<1>4. CASE f \notin whole
  <2>1. PICK k \in Keys : Write(k)
    BY <1>4, Recorded
  <2>2. f = [seq |-> nextSeq, key |-> k]
    BY <1>4, <2>1 DEF Write
  <2>3. active \in synced' \cap entries' /\ f \in Whole(segs'[active])
    BY <2>1, <2>2, WriteIsDurable
  <2> QED BY <2>3 DEF Durable
<1> QED BY <1>1, <1>2, <1>3, <1>4

LEMMA NextRescued == RepairInv /\ Next => (Uninterrupted => valid \subseteq Rescued)'
<1> SUFFICES ASSUME RepairInv, Next, Uninterrupted', NEW f \in valid'
             PROVE  f \in Rescued'
  OBVIOUS
<1>1. /\ mishaps \subseteq mishaps' /\ Uninterrupted
      /\ "trusted" \notin mishaps' /\ "recut" \notin mishaps'
  BY Recorded DEF Uninterrupted
<1>2. valid \subseteq Rescued
  BY <1>1 DEF RepairInv
<1>3. CASE f \in valid
  <2>1. PICK s \in synced \cap entries : f \in Rescuable(segs[s], s)
    BY <1>2, <1>3 DEF Rescued
  <2>2. s \in DOMAIN segs /\ segs[s] \in Seq(Cell)
    BY <2>1 DEF RepairInv, Types, RepairTypeOK
  <2>3. f \in Whole(segs[s])
    BY <2>1, <2>2, RescuableFits
  <2>4. CASE s \in synced' \cap entries' /\ segs'[s] = segs[s]
    BY <2>1, <2>4 DEF Rescued
  <2>5. CASE CreateTarget /\ s = target
    <3>1. pc = "create"
      BY <2>5 DEF CreateTarget
    <3>2. Salvaging /\ target \in DOMAIN segs
      BY <2>2, <2>5, <3>1 DEF Salvaging, Copying
    <3>3. /\ f \in Whole(Left(segs[Here.seg], Here.seg))
          /\ Damaged(segs[Here.seg], Here.seg)
          /\ Here.seg \in synced \cap entries /\ Here.seg # target
          /\ segs[Here.seg] \in Seq(Cell)
      BY <2>3, <2>5, <3>2, SalvagingFits
    <3>4. Here.seg \in synced' \cap entries' /\ segs'[Here.seg] = segs[Here.seg]
      <4>1. ~Truncate /\ ~Kill /\ \A k \in Keys : ~Write(k)
        BY <2>5, <3>1 DEF Truncate, Write, Kill, Stop, CreateTarget
      <4> QED BY <3>3, <4>1, DurableFile
    <3>5. f \in Rescuable(segs[Here.seg], Here.seg)
      BY <3>3, RescuableFits
    <3> QED BY <3>4, <3>5 DEF Rescued
  <2>6. CASE Truncate /\ s = Here.seg
    <3>1. PICK x \in Seq(Cell) :
            /\ segs' = [segs EXCEPT ![Here.seg] = x] /\ AllGood(x)
            /\ IsTorn(segs[Here.seg]) /\ Here = Tear(segs[Here.seg], Here.seg) =>
                 Readable(x) = Readable(segs[Here.seg])
            /\ ~IsTorn(segs[Here.seg]) => "recut" \in mishaps'
      BY <2>6, TruncateEffect
    <3>2. /\ pc = "cut" /\ synced' = synced \cup {Here.seg} /\ entries' = entries
      BY <2>6 DEF Truncate
    <3>3. Here.seg \in synced' \cap entries' /\ segs'[Here.seg] = x
      BY <2>1, <2>2, <2>6, <3>1, <3>2
    <3>4. IsTorn(segs[Here.seg])
      BY <1>1, <3>1
    <3>5. Here = Tear(segs[Here.seg], Here.seg)
      <4>1. tears # {}
        BY <3>2 DEF RepairInv, TearsFit, Working, Cutting
      <4>2. \/ IsTorn(segs[Here.seg]) /\ Here = Tear(segs[Here.seg], Here.seg)
            \/ AllGood(segs[Here.seg])
        BY <3>2, <4>1, HerePlace DEF Recovering, Working, Cutting
      <4> QED BY <2>2, <2>6, <3>4, <4>2, GoodReads
    <3>6. Readable(segs[Here.seg]) \subseteq Rescued'
      <4>1. Readable(segs[Here.seg]) \subseteq Rescuable(x, Here.seg)
        BY <3>1, <3>4, <3>5, RescuableFits
      <4> QED BY <3>3, <4>1 DEF Rescued
    <3>7. CASE Damaged(segs[Here.seg], Here.seg)
      <4>1. target # 0
        BY <3>2, <3>7 DEF RepairInv, SalvageFits, Cutting
      <4>2. Salvaging
        BY <3>2, <4>1 DEF Salvaging, Cutting
      <4>3. target \in DOMAIN segs /\ segs[target] = stranded /\ target \in synced \cap entries
        BY <1>1, <3>2, <4>1 DEF RepairInv, SalvageFits, Cutting
      <4>4. /\ target # Here.seg /\ AllGood(stranded) /\ stranded \in Seq(Cell)
            /\ stranded = Left(segs[Here.seg], Here.seg)
        BY <4>2, SalvagingFits
      <4>5. target \in synced' \cap entries' /\ segs'[target] = stranded
        BY <3>1, <3>2, <4>3, <4>4
      <4>6. Whole(Left(segs[Here.seg], Here.seg)) \subseteq Rescuable(segs'[target], target)
        BY <4>4, <4>5, RescuableFits
      <4>7. Whole(Left(segs[Here.seg], Here.seg)) \subseteq Rescued'
        BY <4>5, <4>6 DEF Rescued
      <4> QED BY <2>1, <2>2, <2>6, <3>6, <3>7, <4>7, RescuableFits
    <3>8. CASE ~Damaged(segs[Here.seg], Here.seg)
      BY <2>1, <2>2, <2>6, <3>6, <3>8, RescuableFits
    <3> QED BY <3>7, <3>8
  <2>7. CASE (\E k \in Keys : Write(k)) /\ s = active
    <3>1. /\ active \in synced' \cap entries' /\ segs'[active] \in Seq(Cell)
          /\ AllGood(segs'[active])
          /\ Whole(segs[active]) \subseteq Whole(segs'[active])
      BY <2>7, WriteIsDurable
    <3>2. f \in Rescuable(segs'[active], active)
      BY <2>3, <2>7, <3>1, RescuableFits
    <3> QED BY <3>1, <3>2 DEF Rescued
  <2>8. CASE Kill /\ segs' # segs /\ s = active
    <3>1. /\ synced' = synced /\ entries' = entries /\ segs'[active] \in Seq(Cell)
          /\ Readable(segs'[active]) = Whole(segs[active])
      BY <2>8, KillKeeps
    <3>2. f \in Rescuable(segs'[active], active)
      BY <2>3, <2>8, <3>1, RescuableFits
    <3> QED BY <2>1, <2>8, <3>1, <3>2 DEF Rescued
  <2> QED BY <2>4, <2>5, <2>6, <2>7, <2>8, DurableFile
<1>4. CASE f \notin valid
  <2>1. PICK k \in Keys : Write(k)
    BY <1>4, Recorded
  <2>2. f = [seq |-> nextSeq, key |-> k]
    BY <1>4, <2>1 DEF Write
  <2>3. /\ active \in synced' \cap entries' /\ f \in Whole(segs'[active])
        /\ AllGood(segs'[active]) /\ segs'[active] \in Seq(Cell)
    BY <2>1, <2>2, WriteIsDurable
  <2>4. f \in Rescuable(segs'[active], active)
    BY <2>3, RescuableFits
  <2> QED BY <2>3, <2>4 DEF Rescued
<1> QED BY <1>3, <1>4

-----------------------------------------------------------------------------
(* The invariant holds in every state.                                     *)

LEMMA InitRepair == Init => RepairInv
<1> SUFFICES ASSUME Init PROVE RepairInv
  OBVIOUS
<1>1. /\ DOMAIN segs \subseteq Segment /\ segs \in [DOMAIN segs -> Seq(Cell)]
      /\ \A s \in DOMAIN segs : StubsAreLast(segs[s])
  BY RepairAssumption DEF Init
<1>2. /\ pc = "down" /\ synced = DOMAIN segs /\ entries = DOMAIN segs /\ markers = {}
      /\ sidecars = {} /\ tears = {} /\ target = 0 /\ stranded = <<>>
      /\ valid = UNION { Rescuable(segs[s], s) : s \in DOMAIN segs }
      /\ whole = UNION { Whole(segs[s]) : s \in DOMAIN segs }
  BY DEF Init, Idle
<1>3. Types
  <2>1. valid \subseteq whole
    <3>1. \A s \in DOMAIN segs : Rescuable(segs[s], s) \subseteq Whole(segs[s])
      BY <1>1, RescuableFits
    <3> QED BY <3>1, <1>2
  <2>2. whole \subseteq [seq : Nat, key : Keys]
    <3>1. \A s \in DOMAIN segs : Whole(segs[s]) \subseteq [seq : Nat, key : Keys]
      BY <1>1, WholeType
    <3> QED BY <3>1, <1>2
  <2>3. /\ mode = "default" /\ active = 0 /\ index = {} /\ nextSeq = 0 /\ mishaps = {}
        /\ skipped = {}
    BY DEF Init, Idle
  <2> QED BY <1>1, <1>2, <2>1, <2>2, <2>3 DEF Types, RepairTypeOK, Modes
<1>4. FilesFit
  BY <1>1, <1>2 DEF FilesFit
<1>5. TearsFit
  BY <1>2 DEF TearsFit, Recovering, Working, Copying, Cutting
<1>6. SalvageFits /\ MarkersFit
  BY <1>2 DEF SalvageFits, MarkersFit, Salvaging, Working, Copying, Cutting
<1>7. CutFramesAreKept
  BY <1>2 DEF CutFramesAreKept, Durable
<1>8. valid \subseteq Rescued
  BY <1>2 DEF Rescued
<1> QED BY <1>3, <1>4, <1>5, <1>6, <1>7, <1>8 DEF RepairInv

LEMMA StutterRepair == RepairInv /\ UNCHANGED vars => RepairInv'
<1> SUFFICES ASSUME RepairInv, UNCHANGED vars PROVE RepairInv'
  OBVIOUS
<1>1. UNCHANGED <<segs, synced, entries, markers, sidecars, pc, mode, tears, active,
                  index, nextSeq, stranded, target, valid, whole, skipped, mishaps>>
  BY DEF vars, disk, engine, observed
<1>2. Here' = Here /\ TornRegion' = TornRegion /\ Salvaging' = Salvaging
  BY <1>1 DEF Here, TornRegion, Salvaging
<1>3. Types' /\ FilesFit'
  BY <1>1 DEF RepairInv, Types, RepairTypeOK, FilesFit
<1>4. TearsFit'
  <2>1. \A t \in tears : TearFits(t)' <=> TearFits(t)
    BY <1>1 DEF TearFits
  <2> HIDE DEF Here
  <2> QED BY <1>1, <1>2, <2>1 DEF RepairInv, TearsFit
<1>5. SalvageFits'
  <2> HIDE DEF Here, TornRegion, Salvaging
  <2> QED BY <1>1, <1>2 DEF RepairInv, SalvageFits
<1>6. MarkersFit'
  <2>1. \A m \in markers : Pending(m)' <=> Pending(m)
    BY <1>1 DEF Pending
  <2> HIDE DEF Here, Salvaging
  <2> QED BY <1>1, <1>2, <2>1 DEF RepairInv, MarkersFit
<1>7. CutFramesAreKept' /\ (Uninterrupted => valid \subseteq Rescued)'
  BY <1>1 DEF RepairInv, CutFramesAreKept, Durable, Kept, Uninterrupted, Rescued
<1> QED BY <1>3, <1>4, <1>5, <1>6, <1>7 DEF RepairInv

\* The inductive invariant of recovery.
THEOREM RepairInvariant == Spec => []RepairInv
<1>1. Init => RepairInv
  BY InitRepair
<1>2. RepairInv /\ [Next]_vars => RepairInv'
  <2>1. RepairInv /\ Next => RepairInv'
    BY NextTypes, NextFiles, NextTears, NextSalvage, NextMarkers, NextKept, NextRescued
       DEF RepairInv
  <2> QED BY <2>1, StutterRepair
<1> QED BY <1>1, <1>2, PTL DEF Spec

-----------------------------------------------------------------------------
(* What it means.                                                          *)

\* Every variable has its type: no repair, however interrupted, leaves a
\* salvage segment without a normal id or a frame that was never written.
THEOREM RepairTypes == Spec => []RepairTypeOK
<1>1. RepairInv => RepairTypeOK
  BY DEF RepairInv, Types
<1> QED BY <1>1, RepairInvariant, PTL

\* No complete frame is cut off before it is durable elsewhere
\* (backup_torn_region), but for a region that is replaced under its name.
THEOREM CutFramesStay == Spec => []CutFramesAreKept
<1>1. RepairInv => CutFramesAreKept
  BY DEF RepairInv
<1> QED BY <1>1, RepairInvariant, PTL

\* Readable and salvageable frames stay in durable segment files, unless an
\* interrupted copy was trusted or cut again (recover_active_segment_tail,
\* write_salvage_segment).
THEOREM StrandedStay == Spec => []StrandedFramesStay
<1>1. RepairInv => StrandedFramesStay
  <2> SUFFICES ASSUME RepairInv, Uninterrupted PROVE valid \subseteq Durable
    BY DEF StrandedFramesStay
  <2>1. \A s \in synced \cap entries : Rescuable(segs[s], s) \subseteq Whole(segs[s])
    <3>1. \A s \in synced \cap entries : segs[s] \in Seq(Cell)
      BY DEF RepairInv, Types, RepairTypeOK
    <3> QED BY <3>1, RescuableFits
  <2> QED BY <2>1 DEF RepairInv, Rescued, Durable
<1> QED BY <1>1, RepairInvariant, PTL

\* A repair that ends leaves nothing stranded: the next open is not refused.
THEOREM RepairedOpens == Spec => []RepairedStoreOpens
<1>1. RepairInv => RepairedStoreOpens
  <2> SUFFICES ASSUME RepairInv, pc = "repaired", NEW s \in DOMAIN segs, IsTorn(segs[s])
               PROVE  Stranded(segs[s], Tear(segs[s], s)) = <<>>
    BY DEF RepairedStoreOpens
  <2>1. ~Damaged(segs[s], s)
    BY ServingFits DEF RepairInv
  <2> QED BY <2>1 DEF Damaged, Left
<1> QED BY <1>1, RepairInvariant, PTL

-----------------------------------------------------------------------------
(* The index of a serving engine.                                          *)

\* An open that may end serving has in its index, for every frame that replay
\* reads, an entry as new or a key it has dropped; what it points at is there.
IndexFits ==
  /\ pc = "up" => mode # "repair"
  /\ Uninterrupted /\ pc \in Recovering \cup {"up"} /\ mode # "repair" =>
       /\ target = 0
       /\ \A s \in DOMAIN segs : \A f \in Readable(segs[s]) :
            /\ f.seq < nextSeq
            /\ f.key \in skipped \/ \E e \in index : e.key = f.key /\ e.seq >= f.seq
       /\ \A e \in index : /\ e.seg \in DOMAIN segs
                           /\ [seq |-> e.seq, key |-> e.key] \in Readable(segs[e.seg])

\* Replay keeps the newest frame of every key.
LEMMA ReplayKeeps ==
  ASSUME Types, NEW s \in DOMAIN segs, NEW f \in Readable(segs[s])
  PROVE  \E e \in Replay(segs) : e.key = f.key /\ e.seq >= f.seq
<1> DEFINE P == { p \in Pointers(segs) : p.key = f.key }
           M == TopSeq(UNION { Readable(segs[x]) : x \in DOMAIN segs })
           T == { p.seq : p \in P }
<1>1. M \in Nat /\ \A x \in DOMAIN segs : \A g \in Readable(segs[x]) : g.seq <= M
  BY OpenReads
<1>2. ASSUME NEW x \in DOMAIN segs, NEW g \in Readable(segs[x])
      PROVE  x \in Nat /\ g.seq \in Nat /\ g = [seq |-> g.seq, key |-> g.key]
  <2>1. segs[x] \in Seq(Cell) /\ x \in Segment
    BY DEF Types, RepairTypeOK
  <2>2. g \in [seq : Nat, key : Keys]
    BY <2>1, ReadableInFile, WholeType
  <2> QED BY <2>1, <2>2, RepairAssumption DEF Segment
<1> HIDE DEF M
<1>3. ASSUME NEW p \in Pointers(segs)
      PROVE  p.seg \in Nat /\ p.seq \in Nat /\ p.seq <= M
  <2>1. PICK x \in DOMAIN segs : \E g \in Readable(segs[x]) :
               p = [seg |-> x, seq |-> g.seq, key |-> g.key]
    BY DEF Pointers
  <2> QED BY <2>1, <1>1, <1>2
<1>4. [seg |-> s, seq |-> f.seq, key |-> f.key] \in P
  BY DEF Pointers
<1>5. T \subseteq Nat /\ T # {} /\ (\A n \in T : n <= M) /\ f.seq \in T
  BY <1>3, <1>4
<1>6. \A p \in P : p.seq \in T
  OBVIOUS
<1> DEFINE top == Max(T)
<1>7. top \in T /\ \A n \in T : n <= top
  <2> HIDE DEF T
  <2> QED BY <1>1, <1>5, MaxOf
<1> DEFINE B == { p.seg : p \in { q \in P : q.seq = top } }
<1>8. B \subseteq Nat /\ B # {}
  BY <1>3, <1>7
<1>9. PICK b \in B : \A c \in B : b <= c
  BY <1>8, LowestOf
<1>10. PICK e \in P : e.seq = top /\ e.seg = b
  OBVIOUS
<1>11. ASSUME NEW g \in Pointers(segs), g.key = e.key
       PROVE  g.seq < e.seq \/ (g.seq = e.seq /\ g.seg >= e.seg)
  <2>1. g \in P /\ g.seq \in T /\ g.seq <= top /\ g.seq \in Nat /\ top \in Nat
    BY <1>3, <1>5, <1>6, <1>7, <1>11
  <2>2. g.seq = top => g.seg \in B
    BY <2>1
  <2> HIDE DEF B, T, P, top
  <2>3. g.seq = top => b <= g.seg
    BY <2>2, <1>9
  <2> QED BY <2>1, <2>3, <1>3, <1>8, <1>10, <1>11
<1>12. e \in Replay(segs) /\ e.key = f.key
  BY <1>11 DEF Replay
<1>13. e.seq >= f.seq
  BY <1>3, <1>5, <1>7, <1>10
<1> QED BY <1>12, <1>13

\* The index that an open builds.
LEMMA OpenIndex ==
  ASSUME RepairInv, NEW m \in Modes, Open(m)
  PROVE  IndexFits'
<1>1. /\ pc = "down" /\ pc' = "tears" /\ segs' = segs /\ target' = target
      /\ index' = Replay(segs) /\ skipped' = skipped
      /\ nextSeq' = 1 + TopSeq(UNION { Readable(segs[s]) : s \in DOMAIN segs })
  BY DEF Open, disk
<1>2. target = 0
  BY <1>1 DEF RepairInv, SalvageFits, Working, Copying, Cutting
<1>3. ASSUME NEW s \in DOMAIN segs, NEW f \in Readable(segs[s])
      PROVE  /\ f.seq < nextSeq'
             /\ \E e \in index' : e.key = f.key /\ e.seq >= f.seq
  <2> DEFINE M == TopSeq(UNION { Readable(segs[x]) : x \in DOMAIN segs })
  <2>1. M \in Nat /\ f.seq <= M /\ f.seq \in Nat
    <3>1. segs[s] \in Seq(Cell)
      BY DEF RepairInv, Types
    <3>2. f \in [seq : Nat, key : Keys]
      BY <3>1, ReadableInFile, WholeType
    <3> QED BY <3>2, OpenReads DEF RepairInv
  <2>2. nextSeq' = 1 + M
    BY <1>1
  <2> HIDE DEF M
  <2>3. f.seq < nextSeq'
    BY <2>1, <2>2
  <2> QED BY <2>3, <1>1, ReplayKeeps DEF RepairInv
<1>4. ASSUME NEW e \in index'
      PROVE  /\ e.seg \in DOMAIN segs
             /\ [seq |-> e.seq, key |-> e.key] \in Readable(segs[e.seg])
  <2>1. PICK s \in DOMAIN segs : \E f \in Readable(segs[s]) :
               e = [seg |-> s, seq |-> f.seq, key |-> f.key]
    BY <1>1 DEF Replay, Pointers
  <2>2. PICK f \in Readable(segs[s]) : e = [seg |-> s, seq |-> f.seq, key |-> f.key]
    BY <2>1
  <2>3. segs[s] \in Seq(Cell)
    BY DEF RepairInv, Types
  <2>4. f = [seq |-> f.seq, key |-> f.key]
    BY <2>3, ReadableInFile, WholeType
  <2> QED BY <2>2, <2>4
<1> QED BY <1>1, <1>2, <1>3, <1>4 DEF IndexFits

LEMMA NextIndex == ~RepairServes /\ RepairInv /\ IndexFits /\ Next => IndexFits'
<1> SUFFICES ASSUME ~RepairServes, RepairInv, IndexFits, Next PROVE IndexFits'
  OBVIOUS
<1> USE DEF Recovering, Working, Copying, Cutting
<1>0. Types /\ SalvageFits
  BY DEF RepairInv
<1>1. CASE Stop
  BY <1>1 DEF Stop, IndexFits
<1>2. Uninterrupted' => Uninterrupted
  BY Recorded DEF Uninterrupted
\* While nothing is written and no entry changes.
<1>3. CASE /\ segs' = segs /\ index' = index /\ nextSeq' = nextSeq /\ mode' = mode
           /\ skipped' = skipped /\ pc \in Recovering /\ pc' \in Recovering
           /\ target' = target \/ target' = 0 \/ mode = "repair"
  BY <1>2, <1>3 DEF IndexFits
<1>4. CASE SkipRemainder
  <2>1. /\ pc = "tears" /\ pc' = "tears" /\ segs' = segs /\ nextSeq' = nextSeq
        /\ mode' = mode /\ target' = target /\ skipped \subseteq skipped'
        /\ index' \subseteq index
        /\ \A e \in index : e \in index' \/ e.key \in skipped'
    BY <1>4 DEF SkipRemainder, Concerned, disk
  <2> QED BY <2>1, <1>2 DEF IndexFits
<1>5. CASE Truncate
  <2> SUFFICES ASSUME Uninterrupted', mode' # "repair" PROVE IndexFits'
    BY <1>5 DEF IndexFits, Truncate
  <2>1. /\ pc = "cut" /\ pc' \in Recovering /\ index' = index /\ nextSeq' = nextSeq
        /\ mode' = mode /\ skipped' = skipped /\ target' = target /\ "recut" \notin mishaps'
    BY <1>5 DEF Truncate, Uninterrupted
  <2>2. PICK x \in Seq(Cell) :
          /\ segs' = [segs EXCEPT ![Here.seg] = x]
          /\ IsTorn(segs[Here.seg]) /\ Here = Tear(segs[Here.seg], Here.seg) =>
               Readable(x) = Readable(segs[Here.seg])
          /\ ~IsTorn(segs[Here.seg]) => "recut" \in mishaps'
    BY <1>5, TruncateEffect
  <2>3. Here.seg \in DOMAIN segs
    BY <1>5, TruncateEffect
  <2>4. IsTorn(segs[Here.seg])
    BY <2>1, <2>2
  <2>5. Here = Tear(segs[Here.seg], Here.seg)
    <3>1. tears # {}
      BY <2>1 DEF RepairInv, TearsFit
    <3>2. \/ IsTorn(segs[Here.seg]) /\ Here = Tear(segs[Here.seg], Here.seg)
          \/ AllGood(segs[Here.seg]) /\ segs[Here.seg] \in Seq(Cell)
      BY <2>1, <3>1, HerePlace
    <3> QED BY <2>4, <3>2, GoodReads
  <2>6. DOMAIN segs' = DOMAIN segs
        /\ \A s \in DOMAIN segs : Readable(segs'[s]) = Readable(segs[s])
    BY <2>2, <2>3, <2>4, <2>5, <1>0 DEF Types
  <2> HIDE DEF Here
  <2> QED BY <1>2, <2>1, <2>6 DEF IndexFits
<1>6. CASE FinishOpen
  <2>1. /\ pc = "tears" /\ pc' \in {"up", "repaired"} /\ index' = index
        /\ nextSeq' = nextSeq /\ mode' = mode /\ skipped' = skipped /\ target' = target
        /\ pc' = "up" => mode # "repair"
    BY <1>6 DEF FinishOpen, observed
  <2>2. /\ DOMAIN segs \subseteq DOMAIN segs'
        /\ \A s \in DOMAIN segs : segs'[s] = segs[s]
        /\ \A s \in DOMAIN segs' \ DOMAIN segs : segs'[s] = <<>>
    BY <1>6 DEF FinishOpen, WithSegment
  <2>3. Readable(<<>>) = {}
    BY EmptyFits, GoodReads
  <2>4. \A s \in DOMAIN segs' : \A f \in Readable(segs'[s]) :
          s \in DOMAIN segs /\ f \in Readable(segs[s])
    BY <2>2, <2>3
  <2> QED BY <1>2, <2>1, <2>2, <2>4 DEF IndexFits
<1>7. ASSUME NEW k \in Keys, Write(k) PROVE IndexFits'
  <2> SUFFICES ASSUME Uninterrupted' PROVE IndexFits'
    BY <1>7 DEF IndexFits, Write
  <2> DEFINE w == [seq |-> nextSeq, key |-> k]
             n == [seg |-> active, seq |-> nextSeq, key |-> k]
  <2>1. /\ pc = "up" /\ pc' = "up" /\ mode' = mode /\ target' = target
        /\ nextSeq' = nextSeq + 1 /\ skipped' = skipped
        /\ index' = { e \in index : e.key # k } \cup {n}
    BY <1>7 DEF Write
  <2>2. PICK x \in Seq(Cell) :
          /\ segs' = [segs EXCEPT ![active] = x] /\ AllGood(x)
          /\ Whole(x) = Whole(segs[active]) \cup {w}
    BY <1>7, WriteEffect
  <2>3. active \in DOMAIN segs /\ AllGood(segs[active]) /\ segs[active] \in Seq(Cell)
    BY <1>0, <1>7, WriteEffect, WriteIsDurable
  <2>4. Readable(x) = Readable(segs[active]) \cup {w}
    BY <2>2, <2>3, GoodReads
  <2>5. DOMAIN segs' = DOMAIN segs /\ segs'[active] = x
        /\ \A s \in DOMAIN segs : s # active => segs'[s] = segs[s]
    BY <2>2, <2>3, <1>0 DEF Types
  <2>6. /\ mode # "repair" /\ target = 0
        /\ \A s \in DOMAIN segs : \A f \in Readable(segs[s]) :
            /\ f.seq < nextSeq
            /\ f.key \in skipped \/ \E e \in index : e.key = f.key /\ e.seq >= f.seq
        /\ \A e \in index : /\ e.seg \in DOMAIN segs
                            /\ [seq |-> e.seq, key |-> e.key] \in Readable(segs[e.seg])
    BY <2>1, <1>2 DEF IndexFits
  <2>7. \A s \in DOMAIN segs' : \A f \in Readable(segs'[s]) :
          f \in Readable(segs[s]) \/ f = w
    BY <2>4, <2>5
  <2>8. w.seq = nextSeq /\ w.key = k /\ n.seg = active /\ n.seq = nextSeq /\ n.key = k
        /\ [seq |-> n.seq, key |-> n.key] = w
    OBVIOUS
  <2> HIDE DEF w, n
  <2>9. nextSeq \in Nat
    BY <1>0 DEF Types
  <2>10. \A s \in DOMAIN segs : \A f \in Readable(segs[s]) : f.seq \in Nat
    <3>1. \A s \in DOMAIN segs : segs[s] \in Seq(Cell)
      BY <1>0 DEF Types
    <3>2. \A s \in DOMAIN segs : \A f \in Readable(segs[s]) : f \in [seq : Nat, key : Keys]
      BY <3>1, ReadableInFile, WholeType
    <3> QED BY <3>2
  <2>11. ASSUME NEW s \in DOMAIN segs', NEW f \in Readable(segs'[s])
         PROVE  /\ f.seq < nextSeq'
                /\ f.key \in skipped' \/ \E e \in index' : e.key = f.key /\ e.seq >= f.seq
    <3>1. CASE f = w
      <4>1. n \in index' /\ n.seq >= f.seq /\ n.key = f.key /\ f.seq < nextSeq'
        BY <2>1, <2>8, <2>9, <3>1
      <4> QED BY <4>1
    <3>2. CASE f \in Readable(segs[s]) /\ f.key = k
      <4>1. f.seq < nextSeq /\ f.seq \in Nat
        BY <2>5, <2>6, <2>10, <3>2
      <4>2. n \in index' /\ n.seq >= f.seq /\ n.key = f.key /\ f.seq < nextSeq'
        BY <2>1, <2>8, <2>9, <3>2, <4>1
      <4> QED BY <4>2
    <3>3. CASE f \in Readable(segs[s]) /\ f.key # k
      <4>1. /\ f.seq < nextSeq /\ f.seq \in Nat
            /\ f.key \in skipped \/ \E e \in index : e.key = f.key /\ e.seq >= f.seq
        BY <2>5, <2>6, <2>10, <3>3
      <4>2. f.seq < nextSeq'
        BY <2>1, <2>9, <4>1
      <4>3. \A e \in index : e.key = f.key => e \in index'
        BY <2>1, <3>3
      <4>4. f.key \in skipped' \/ \E e \in index' : e.key = f.key /\ e.seq >= f.seq
        BY <2>1, <4>1, <4>3
      <4> QED BY <4>2, <4>4
    <3> QED BY <2>7, <3>1, <3>2, <3>3
  <2>12. ASSUME NEW e \in index'
         PROVE  /\ e.seg \in DOMAIN segs'
                /\ [seq |-> e.seq, key |-> e.key] \in Readable(segs'[e.seg])
    <3>1. CASE e = n
      BY <2>3, <2>4, <2>5, <2>8, <3>1
    <3>2. CASE e \in index
      BY <2>4, <2>5, <2>6, <3>2
    <3> QED BY <2>1, <3>1, <3>2
  <2> QED BY <2>1, <2>6, <2>11, <2>12 DEF IndexFits
\* Salvages are Repair's.
<1>8. CASE \/ StartSalvage \/ WriteMarker \/ CreateTarget \/ CopyFirstChunk \/ CopyFrame
           \/ SyncTarget \/ SyncDirectory \/ RemoveMarker
  <2>1. mode' = mode /\ pc \in Recovering /\ pc' \in Recovering
    BY <1>8 DEF StartSalvage, Concerned, WriteMarker, CreateTarget, CopyFirstChunk,
                CopyFrame, SyncTarget, SyncDirectory, RemoveMarker, engine
  <2>2. StartSalvage => mode = "repair"
    BY DEF StartSalvage, Refuses
  <2>3. ~StartSalvage => target # 0
    BY <1>0, <1>8 DEF SalvageFits, WriteMarker, CreateTarget, CopyFirstChunk, CopyFrame,
                      SyncTarget, SyncDirectory, RemoveMarker
  <2> QED BY <1>2, <2>1, <2>2, <2>3 DEF IndexFits
<1>9. CASE IgnoreTrailing \/ PrepareCut \/ CreateSidecar \/ WriteSidecar
  BY <1>3, <1>9 DEF IgnoreTrailing, PrepareCut, Concerned, CreateSidecar, WriteSidecar,
                    disk, observed
<1>10. CASE RefuseToOpen \/ Close \/ Kill \/ PowerLoss
  BY <1>1, <1>10 DEF RefuseToOpen, Close, Kill, PowerLoss
<1> QED BY <1>4, <1>5, <1>6, <1>7, <1>8, <1>9, <1>10, OpenIndex DEF Next, Recover

LEMMA StutterIndex == IndexFits /\ UNCHANGED vars => IndexFits'
BY DEF IndexFits, Uninterrupted, vars, disk, engine, observed

THEOREM IndexInvariant == ASSUME ~RepairServes PROVE Spec => []IndexFits
<1>1. Init => IndexFits
  BY DEF Init, IndexFits, Recovering, Working, Copying, Cutting
<1>2. RepairInv /\ IndexFits /\ [Next]_vars => IndexFits'
  BY NextIndex, StutterIndex
<1> QED BY <1>1, <1>2, RepairInvariant, PTL DEF Spec

\* A frame that may not be lost is read from its segment while an engine serves.
LEMMA ServedFrames ==
  ASSUME RepairInv, pc = "up", Uninterrupted, NEW f \in valid
  PROVE  \E s \in DOMAIN segs : f \in Readable(segs[s])
<1>1. PICK s \in synced \cap entries : f \in Rescuable(segs[s], s)
  BY DEF RepairInv, Rescued
<1>2. s \in DOMAIN segs /\ segs[s] \in Seq(Cell)
  BY <1>1 DEF RepairInv, Types, RepairTypeOK
<1>3. ~Damaged(segs[s], s)
  BY <1>2, ServingFits DEF RepairInv
<1> QED BY <1>1, <1>2, <1>3, RescuableFits

\* An open store serves the newest frame of every key (recover's merge by
\* sequence id, skip_corrupted_segment), as long as Repair opens serve nobody.
THEOREM NewestServed == ASSUME ~RepairServes PROVE Spec => []NewestIsServed
<1>1. RepairInv /\ IndexFits => NewestIsServed
  BY ServedFrames DEF IndexFits, NewestIsServed
<1> QED BY <1>1, RepairInvariant, IndexInvariant, PTL

\* What is appended next is read by the next replay and is the newest.
THEOREM NextWriteReadable == ASSUME ~RepairServes PROVE Spec => []NextWriteIsReadable
<1>1. RepairInv /\ IndexFits => NextWriteIsReadable
  <2> SUFFICES ASSUME RepairInv, IndexFits, pc = "up", Uninterrupted
               PROVE  ~IsTorn(segs[active]) /\ \A f \in valid : f.seq < nextSeq
    BY DEF NextWriteIsReadable
  <2>1. active \in DOMAIN segs
    BY DEF RepairInv, TearsFit
  <2>2. AllGood(segs[active]) /\ segs[active] \in Seq(Cell)
    BY <2>1, ServingFits DEF RepairInv, Types
  <2>3. ~IsTorn(segs[active])
    BY <2>2, GoodReads
  <2> QED BY <2>3, ServedFrames DEF IndexFits
<1> QED BY <1>1, RepairInvariant, IndexInvariant, PTL
=============================================================================
