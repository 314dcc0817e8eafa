--------------------------- MODULE LiveQueryProofs ---------------------------
(***************************************************************************)
(* Proofs about LiveQuery, for every value of its constants: a listener    *)
(* that has caught up has the value of every key, unless its newest record *)
(* is one that the listener could never get.                               *)
(***************************************************************************)
EXTENDS LiveQuery, FiniteSetTheorems, SequenceTheorems, WellFoundedInduction, TLAPS

Record == [key : Keys, del : BOOLEAN]

\* The flusher is at most one record ahead of what it has broadcast.
WriterFits ==
  /\ log \in Seq(Record) /\ applied \in Nat /\ sent \in Nat
  /\ sent <= applied /\ applied <= Len(log) /\ Len(log) <= sent + 1

Subscribed(l) == pc[l] \in {"live", "between"}

\* What the variables of the listeners hold.
ListenerTypes ==
  /\ kind \in [Listeners -> Kinds]
  /\ pc \in [Listeners -> {"new", "history", "live", "between"}]
  /\ unread \in [Listeners -> SUBSET Keys] /\ seen \in [Listeners -> Seq(Nat)]
  /\ pos \in [Listeners -> Nat] /\ mark \in [Listeners -> Nat]
  /\ missed \in [Listeners -> SUBSET Nat]

\* A receiver stands behind the place where its listener began.
Placed(l) ==
  /\ pc[l] = "history" => kind[l] = "listen"
  /\ pc[l] = "new" => seen[l] = <<>> /\ mark[l] = 0
  /\ mark[l] <= sent
  /\ Subscribed(l) => mark[l] < pos[l] /\ pos[l] <= sent + 1

\* What a listener has been given are records the index shows, one that is not
\* broadcast yet included; while it reads the history one of a key at most,
\* afterwards in the order of the log.
SeenFits(l) ==
  /\ \A i \in DOMAIN seen[l] : seen[l][i] \in 1..applied
  /\ pc[l] = "history" =>
       /\ \A i, j \in DOMAIN seen[l] : seen[l][i] = seen[l][j] => i = j
       /\ \A i \in DOMAIN seen[l] : log[seen[l][i]].key \notin unread[l]
  /\ Subscribed(l) =>
       /\ \A i, j \in DOMAIN seen[l] : i < j => seen[l][i] <= seen[l][j]
       /\ \A i \in DOMAIN seen[l] : seen[l][i] <= pos[l]

Given(l, n) == \E i \in DOMAIN seen[l] : seen[l][i] = n

\* The history gives record n, or n need not be given: it is a delete, or a
\* newer record of its key is in the log.
Told(l, n) ==
  \/ Given(l, n) \/ log[n].del
  \/ \E m \in (n + 1)..Len(log) : log[m].key = log[n].key

\* The history is as new as its beginning: of the records from before that,
\* none is given that another of its key supersedes, and none is left out once
\* its key is read.
HistoryFits(l) ==
  kind[l] = "listen" =>
    \A n \in 1..mark[l] :
      /\ \A i \in DOMAIN seen[l] : log[seen[l][i]].key = log[n].key => seen[l][i] >= n
      /\ Subscribed(l) \/ (pc[l] = "history" /\ log[n].key \notin unread[l]) => Told(l, n)

\* Every record since the beginning that the receiver has passed was given to
\* the listener or is one it could not get.
StreamFits(l) ==
  Subscribed(l) =>
    \A n \in (mark[l] + 1)..(pos[l] - 1) : n \in missed[l] \/ Given(l, n)

Fits(l) == Placed(l) /\ SeenFits(l) /\ HistoryFits(l) /\ StreamFits(l)

\* The inductive invariant.
FollowInv == WriterFits /\ ListenerTypes /\ \A l \in Listeners : Fits(l)

-----------------------------------------------------------------------------
(* Highest elements, sorted sequences.                                     *)

\* A set of natural numbers that is not empty has a lowest element.
LEMMA LowestOf ==
  ASSUME NEW T, T \subseteq Nat, T # {}
  PROVE  \E x \in T : \A y \in T : x <= y
<1>1. PICK x \in T : \A y \in T : ~ (<<y, x>> \in OpToRel(<, Nat))
  BY WFMin, NatLessThanWellFounded
<1>2. ASSUME NEW y \in T PROVE x <= y
  <2>1. x \in Nat /\ y \in Nat
    OBVIOUS
  <2>2. ~ (y < x)
    BY <1>1, <2>1 DEF OpToRel
  <2> QED BY <2>1, <2>2
<1> QED BY <1>2

\* Max finds the highest element of a bounded set of natural numbers.
LEMMA MaxOf ==
  ASSUME NEW T, T \subseteq Nat, T # {}, NEW b \in Nat, \A x \in T : x <= b
  PROVE  Max(T) \in T /\ \A y \in T : y <= Max(T)
<1> DEFINE D == { b - x : x \in T }
<1>1. D \subseteq Nat /\ D # {}
  <2>1. \A x \in T : b - x \in Nat
    OBVIOUS
  <2>2. D # {}
    OBVIOUS
  <2> QED BY <2>1, <2>2
<1> HIDE DEF D
<1>2. PICK d \in D : \A e \in D : d <= e
  BY <1>1, LowestOf
<1>3. PICK x \in T : d = b - x
  BY DEF D
<1>4. ASSUME NEW y \in T PROVE x >= y
  <2>1. b - y \in D
    BY DEF D
  <2>2. b - x <= b - y
    BY <1>2, <1>3, <2>1
  <2>3. x \in Nat /\ y \in Nat
    OBVIOUS
  <2> QED BY <2>2, <2>3
<1>5. \E z \in T : \A y \in T : z >= y
  BY <1>4
<1>6. Max(T) \in T /\ \A y \in T : Max(T) >= y
  BY <1>5 DEF Max
<1> QED BY <1>6

\* Sorting different records keeps them and puts them in order: the place of a
\* record is the number of those up to it.
LEMMA InOrderSorts ==
  ASSUME NEW s \in Seq(Nat), \A i, j \in DOMAIN s : s[i] = s[j] => i = j
  PROVE  /\ InOrder(s) \in Seq(Nat)
         /\ \A i \in DOMAIN InOrder(s) : \E j \in DOMAIN s : InOrder(s)[i] = s[j]
         /\ \A j \in DOMAIN s : \E i \in DOMAIN InOrder(s) : InOrder(s)[i] = s[j]
         /\ \A i, j \in DOMAIN InOrder(s) : i < j => InOrder(s)[i] <= InOrder(s)[j]
<1>1. PICK n \in Nat : DOMAIN s = 1..n
  BY LenProperties
<1> DEFINE T == Range(s)
           UpTo(x) == { y \in T : y <= x }
           r == [x \in T |-> Cardinality(UpTo(x))]
<1>2. T = { s[i] : i \in 1..n }
  BY <1>1 DEF Range
<1>3. T \subseteq Nat
  BY <1>1, <1>2
<1> HIDE DEF T
<1>4. IsFiniteSet(T) /\ Cardinality(T) = n
  <2>1. IsFiniteSet(1..n) /\ Cardinality(1..n) = n
    <3>1. 1 \in Int /\ n \in Int
      OBVIOUS
    <3>2. IsFiniteSet(1..n) /\ Cardinality(1..n) = IF 1 > n THEN 0 ELSE n - 1 + 1
      BY <3>1, FS_Interval
    <3> QED BY <3>2
  <2>2. s \in Bijection(1..n, T)
    <3>1. s \in [1..n -> T]
      BY <1>1, <1>2
    <3>2. \A x \in T : \E i \in 1..n : s[i] = x
      BY <1>2
    <3> QED BY <1>1, <3>1, <3>2 DEF Bijection, Injection, Surjection, IsInjective
  <2>3. ExistsBijection(1..n, T)
    BY <2>2 DEF ExistsBijection
  <2> QED BY <2>1, <2>3, FS_Bijection
<1>5. ASSUME NEW x \in T
      PROVE  IsFiniteSet(UpTo(x)) /\ r[x] = Cardinality(UpTo(x)) /\ r[x] \in 1..n
  <2>1. UpTo(x) \in SUBSET T
    OBVIOUS
  <2>2. IsFiniteSet(UpTo(x)) /\ Cardinality(UpTo(x)) <= n
    BY <1>4, <2>1, FS_Subset
  <2>3. Cardinality(UpTo(x)) \in Nat
    BY <2>2, FS_CardinalityType
  <2>4. x \in UpTo(x)
    BY <1>3
  <2>5. Cardinality(UpTo(x)) # 0
    BY <2>2, <2>4, FS_EmptySet
  <2>6. r[x] = Cardinality(UpTo(x))
    OBVIOUS
  <2> HIDE DEF UpTo, r
  <2> QED BY <2>2, <2>3, <2>5, <2>6
<1>6. ASSUME NEW x \in T, NEW y \in T, x < y
      PROVE  r[x] < r[y]
  <2>1. UpTo(x) \in SUBSET UpTo(y) /\ UpTo(x) # UpTo(y)
    <3>1. y \in UpTo(y) /\ y \notin UpTo(x)
      BY <1>3, <1>6
    <3>2. \A z \in T : z <= x => z <= y
      BY <1>3, <1>6
    <3> QED BY <3>1, <3>2
  <2>2. /\ Cardinality(UpTo(x)) <= Cardinality(UpTo(y))
        /\ Cardinality(UpTo(y)) = Cardinality(UpTo(x)) => UpTo(y) = UpTo(x)
    BY <1>5, <2>1, FS_Subset
  <2> HIDE DEF UpTo, r
  <2> QED BY <1>5, <2>1, <2>2
<1>7. r \in [T -> 1..n]
  BY <1>5
<1> HIDE DEF r
<1>8. r \in Surjection(T, 1..n)
  <2>1. \A x, y \in T : r[x] = r[y] => x = y
    BY <1>3, <1>6, <1>7
  <2>2. r \in Injection(T, 1..n)
    BY <1>7, <2>1 DEF Injection, IsInjective
  <2>3. IsFiniteSet(1..n) /\ Cardinality(1..n) = n
    <3>1. 1 \in Int /\ n \in Int
      OBVIOUS
    <3>2. IsFiniteSet(1..n) /\ Cardinality(1..n) = IF 1 > n THEN 0 ELSE n - 1 + 1
      BY <3>1, FS_Interval
    <3> QED BY <3>2
  <2> QED BY <1>4, <2>2, <2>3, FS_Injection
<1> DEFINE q == InOrder(s)
<1>9. /\ DOMAIN q = 1..n /\ q = [i \in 1..n |-> q[i]]
      /\ \A i \in 1..n : q[i] \in T /\ r[q[i]] = i
  <2>1. q = [i \in 1..n |-> CHOOSE x \in T : Cardinality(UpTo(x)) = i]
    BY <1>1 DEF InOrder, T
  <2>2. \A i \in 1..n : \E x \in T : Cardinality(UpTo(x)) = i
    BY <1>5, <1>8 DEF Surjection
  <2> HIDE DEF q, UpTo
  <2>3. \A i \in 1..n : q[i] \in T /\ Cardinality(UpTo(q[i])) = i
    BY <2>1, <2>2
  <2> QED BY <1>5, <2>1, <2>3
<1> HIDE DEF q
<1>10. q \in Seq(Nat)
  <2>1. q \in [1..n -> Nat]
    BY <1>3, <1>9
  <2> QED BY <2>1
<1>11. \A i \in 1..n : \E j \in 1..n : q[i] = s[j]
  BY <1>2, <1>9
<1>12. ASSUME NEW j \in 1..n
       PROVE  \E i \in 1..n : q[i] = s[j]
  <2>1. s[j] \in T
    BY <1>2
  <2>2. r[s[j]] \in 1..n
    BY <1>7, <2>1
  <2>3. ~(q[r[s[j]]] < s[j]) /\ ~(s[j] < q[r[s[j]]])
    <3>1. q[r[s[j]]] \in T /\ r[q[r[s[j]]]] = r[s[j]]
      BY <1>9, <2>2
    <3> QED BY <1>6, <2>1, <2>2, <3>1
  <2>4. q[r[s[j]]] = s[j]
    <3>1. q[r[s[j]]] \in Nat /\ s[j] \in Nat
      BY <1>3, <1>9, <2>1, <2>2
    <3> QED BY <2>3, <3>1
  <2> QED BY <2>2, <2>4
<1>13. ASSUME NEW i \in 1..n, NEW j \in 1..n, i < j
       PROVE  q[i] <= q[j]
  <2>1. ~(q[j] < q[i])
    BY <1>6, <1>9, <1>13
  <2>2. q[i] \in Nat /\ q[j] \in Nat
    BY <1>3, <1>9
  <2> QED BY <2>1, <2>2
<1> QED BY <1>1, <1>9, <1>10, <1>11, <1>12, <1>13 DEF q

-----------------------------------------------------------------------------
(* The records of a key.                                                   *)

\* Newest is the last of the first n records of a key, if there is one.
LEMMA NewestOf ==
  ASSUME WriterFits, NEW k \in Keys, NEW n \in 0..Len(log)
  PROVE  /\ Newest(k, n) \in 0..n
         /\ Newest(k, n) # 0 => log[Newest(k, n)].key = k
         /\ \A i \in 1..n : log[i].key = k => i <= Newest(k, n)
<1> DEFINE T == {0} \cup { i \in 1..n : log[i].key = k }
<1>1. Len(log) \in Nat /\ n \in Nat
  BY DEF WriterFits
<1>2. T \subseteq Nat /\ T # {} /\ \A x \in T : x <= n
  BY <1>1
<1>3. Max(T) \in T /\ \A x \in T : x <= Max(T)
  <2> HIDE DEF T
  <2> QED BY <1>1, <1>2, MaxOf
<1>4. Newest(k, n) = Max(T)
  BY DEF Newest
<1> QED BY <1>1, <1>3, <1>4

\* LastSeen is the place of the last record of a key that a listener was given.
LEMMA LastSeenOf ==
  ASSUME ListenerTypes, NEW l \in Listeners, NEW k \in Keys
  PROVE  /\ LastSeen(l, k) \in {0} \cup DOMAIN seen[l]
         /\ LastSeen(l, k) # 0 => log[seen[l][LastSeen(l, k)]].key = k
         /\ \A i \in DOMAIN seen[l] : log[seen[l][i]].key = k => i <= LastSeen(l, k)
         /\ 0 \notin DOMAIN seen[l] /\ DOMAIN seen[l] \subseteq Nat
<1> DEFINE T == {0} \cup { i \in DOMAIN seen[l] : log[seen[l][i]].key = k }
<1>1. PICK n \in Nat : DOMAIN seen[l] = 1..n
  <2>1. seen[l] \in Seq(Nat)
    BY DEF ListenerTypes
  <2> QED BY <2>1, LenProperties
<1>2. T \subseteq Nat /\ T # {} /\ \A x \in T : x <= n
  BY <1>1
<1>3. Max(T) \in T /\ \A x \in T : x <= Max(T)
  <2> HIDE DEF T
  <2> QED BY <1>2, MaxOf
<1>4. LastSeen(l, k) = Max(T)
  BY DEF LastSeen
<1> DEFINE m == LastSeen(l, k)
<1>5. m \in T /\ \A x \in T : x <= m
  BY <1>3, <1>4
<1> HIDE DEF m
<1>6. /\ m \in {0} \cup DOMAIN seen[l]
      /\ m # 0 => log[seen[l][m]].key = k
      /\ \A i \in DOMAIN seen[l] : log[seen[l][i]].key = k => i <= m
  BY <1>5
<1> QED BY <1>1, <1>6 DEF m

\* The oldest record of the channel is one that has been sent, or the next.
LEMMA OldestFits ==
  ASSUME WriterFits
  PROVE  Oldest \in Nat /\ 1 <= Oldest /\ Oldest <= sent + 1
<1>1. sent \in Nat /\ Capacity \in Nat /\ Capacity >= 1
  BY LiveQueryAssumption DEF WriterFits
<1> DEFINE a == sent - Capacity + 1
<1>2. a \in Int /\ a <= sent + 1
  BY <1>1
<1> HIDE DEF a
<1>3. \E x \in {1, a} : \A y \in {1, a} : x >= y
  BY <1>2
<1>4. Max({1, a}) \in {1, a} /\ \A y \in {1, a} : Max({1, a}) >= y
  BY <1>3 DEF Max
<1>5. Oldest = Max({1, a})
  BY DEF Oldest, a
<1> QED BY <1>1, <1>2, <1>4, <1>5

-----------------------------------------------------------------------------
(* The flusher.                                                            *)

\* What is written, applied or sent takes nothing from what a listener has.
LEMMA WriterStep ==
  ASSUME FollowInv,
         (\E k \in Keys, del \in BOOLEAN : Write(k, del)) \/ Apply \/ Broadcast
  PROVE  FollowInv'
<1>1. /\ WriterFits /\ ListenerTypes
      /\ UNCHANGED <<kind, pc, unread, seen, pos, mark, missed>>
  BY DEF FollowInv, Write, Apply, Broadcast, listeners
<1>2. Len(log) \in Nat /\ DOMAIN log = 1..Len(log)
  BY <1>1 DEF WriterFits
<1>3. WriterFits'
  <2>1. CASE \E k \in Keys, del \in BOOLEAN : Write(k, del)
    <3>1. PICK k \in Keys, del \in BOOLEAN : Write(k, del)
      BY <2>1
    <3>2. [key |-> k, del |-> del] \in Record
      BY DEF Record
    <3>3. log' \in Seq(Record) /\ Len(log') = Len(log) + 1
      BY <1>1, <3>1, <3>2 DEF WriterFits, Write
    <3> QED BY <1>1, <1>2, <3>1, <3>3 DEF WriterFits, Write
  <2>2. CASE Apply
    BY <1>1, <1>2, <2>2 DEF WriterFits, Apply
  <2>3. CASE Broadcast
    BY <1>1, <1>2, <2>3 DEF WriterFits, Broadcast
  <2> QED BY <2>1, <2>2, <2>3
<1>4. /\ sent <= sent' /\ applied <= applied' /\ Len(log) <= Len(log')
      /\ \A n \in 1..Len(log) : log'[n] = log[n]
  <2>1. CASE \E k \in Keys, del \in BOOLEAN : Write(k, del)
    BY <1>1, <1>2, <2>1 DEF WriterFits, Write
  <2>2. CASE Apply
    BY <1>1, <1>2, <2>2 DEF WriterFits, Apply
  <2>3. CASE Broadcast
    BY <1>1, <1>2, <2>3 DEF WriterFits, Broadcast
  <2> QED BY <2>1, <2>2, <2>3
<1>5. ListenerTypes'
  BY <1>1 DEF ListenerTypes
<1>6. ASSUME NEW l \in Listeners
      PROVE  Fits(l)'
  <2>1. Placed(l) /\ SeenFits(l) /\ HistoryFits(l) /\ StreamFits(l)
    BY DEF FollowInv, Fits
  <2>2. /\ mark[l] \in Nat /\ pos[l] \in Nat /\ sent \in Nat /\ applied \in Nat
        /\ sent' \in Nat /\ applied' \in Nat /\ Len(log') \in Nat
        /\ sent <= applied /\ applied <= Len(log)
    BY <1>1, <1>3 DEF WriterFits, ListenerTypes
  <2>3. Placed(l)'
    BY <1>1, <1>4, <2>1, <2>2 DEF Placed, Subscribed
  <2>4. \A i \in DOMAIN seen[l] : seen[l][i] \in 1..applied /\ log'[seen[l][i]] = log[seen[l][i]]
    BY <1>2, <1>4, <2>1, <2>2 DEF SeenFits
  <2>5. SeenFits(l)'
    BY <1>1, <1>4, <2>1, <2>2, <2>4 DEF SeenFits, Subscribed
  <2>6. \A n \in 1..mark[l] : n \in 1..Len(log) /\ log'[n] = log[n]
    BY <1>2, <1>4, <2>1, <2>2 DEF Placed
  <2>7. ASSUME NEW n \in 1..mark[l], Told(l, n) PROVE Told(l, n)'
    <3>1. CASE \E m \in (n + 1)..Len(log) : log[m].key = log[n].key
      <4>1. PICK m \in (n + 1)..Len(log) : log[m].key = log[n].key
        BY <3>1
      <4>2. m \in 1..Len(log) /\ m \in (n + 1)..Len(log')
        BY <1>2, <1>4, <2>2
      <4> QED BY <1>4, <2>6, <4>1, <4>2 DEF Told
    <3> QED BY <1>1, <2>6, <2>7, <3>1 DEF Told, Given
  <2>8. HistoryFits(l)'
    BY <1>1, <2>1, <2>4, <2>6, <2>7 DEF HistoryFits, Subscribed
  <2>9. StreamFits(l)'
    BY <1>1, <2>1 DEF StreamFits, Subscribed, Given
  <2> QED BY <2>3, <2>5, <2>8, <2>9 DEF Fits
<1> QED BY <1>3, <1>5, <1>6 DEF FollowInv

-----------------------------------------------------------------------------
(* The listeners.                                                          *)

\* A step of one listener leaves the others as they are.
LEMMA OthersFit ==
  ASSUME FollowInv, UNCHANGED writer, NEW x \in Listeners,
         kind'[x] = kind[x], pc'[x] = pc[x], unread'[x] = unread[x], seen'[x] = seen[x],
         pos'[x] = pos[x], mark'[x] = mark[x], missed'[x] = missed[x]
  PROVE  Fits(x)'
<1>1. Placed(x) /\ SeenFits(x) /\ HistoryFits(x) /\ StreamFits(x)
  BY DEF FollowInv, Fits
<1>2. UNCHANGED <<log, applied, sent>>
  BY DEF writer
<1>3. Placed(x)' /\ SeenFits(x)'
  BY <1>1, <1>2 DEF Placed, SeenFits, Subscribed
<1>4. \A n : Told(x, n)' = Told(x, n) /\ Given(x, n)' = Given(x, n)
  BY <1>2 DEF Told, Given
<1>5. HistoryFits(x)' /\ StreamFits(x)'
  BY <1>1, <1>2, <1>4 DEF HistoryFits, StreamFits, Subscribed
<1> QED BY <1>3, <1>5 DEF Fits

\* Listen: nothing is promised yet.
LEMMA ListenStep ==
  ASSUME FollowInv, NEW l \in Listeners, Listen(l)
  PROVE  FollowInv'
<1>1. /\ UNCHANGED writer /\ WriterFits /\ ListenerTypes /\ Fits(l)
      /\ UNCHANGED <<log, applied, sent, kind, seen, pos, missed>>
  BY DEF FollowInv, Listen, writer
<1>2. WriterFits' /\ ListenerTypes'
  BY <1>1 DEF WriterFits, ListenerTypes, Listen
<1>3. /\ pc[l] = "new" /\ kind[l] = "listen" /\ pc'[l] = "history" /\ unread'[l] = Keys
      /\ mark'[l] = sent
  BY <1>1 DEF Listen, ListenerTypes
<1>4. seen[l] = <<>> /\ DOMAIN seen[l] = {}
  BY <1>1, <1>3 DEF Fits, Placed
<1>5. \A n \in 1..sent : log[n].key \in Keys
  <2>1. \A n \in 1..Len(log) : log[n] \in Record
    BY <1>1 DEF WriterFits
  <2> QED BY <1>1, <2>1 DEF WriterFits, Record
<1>6. Fits(l)'
  <2>1. Placed(l)'
    BY <1>1, <1>3 DEF Placed, Subscribed, WriterFits
  <2>2. SeenFits(l)' /\ HistoryFits(l)' /\ StreamFits(l)'
    BY <1>1, <1>3, <1>4, <1>5 DEF SeenFits, HistoryFits, StreamFits, Subscribed
  <2> QED BY <2>1, <2>2 DEF Fits
<1>7. ASSUME NEW x \in Listeners \ {l} PROVE Fits(x)'
  <2>1. /\ kind'[x] = kind[x] /\ pc'[x] = pc[x] /\ unread'[x] = unread[x]
        /\ seen'[x] = seen[x] /\ pos'[x] = pos[x] /\ mark'[x] = mark[x]
        /\ missed'[x] = missed[x]
    BY <1>1 DEF Listen, ListenerTypes
  <2> QED BY <1>1, <2>1, OthersFit
<1> QED BY <1>2, <1>6, <1>7 DEF FollowInv

\* A key of the history: its newest record is as new as any from before the
\* history began.
LEMMA ReadKeyStep ==
  ASSUME FollowInv, NEW l \in Listeners, NEW k \in Keys, ReadKey(l, k)
  PROVE  FollowInv'
<1>1. /\ UNCHANGED writer /\ WriterFits /\ ListenerTypes /\ Fits(l)
      /\ UNCHANGED <<log, applied, sent, kind, pc, pos, mark, missed>>
  BY DEF FollowInv, ReadKey, writer
<1> DEFINE m == Newest(k, applied)
           old == seen[l]
           new == seen'[l]
           told == m # 0 /\ ~log[m].del
<1>2. /\ applied \in Nat /\ sent \in Nat /\ Len(log) \in Nat /\ sent <= applied
      /\ applied <= Len(log) /\ mark[l] \in Nat /\ mark[l] <= sent
  BY <1>1 DEF WriterFits, ListenerTypes, Fits, Placed
<1>3. /\ m \in 0..applied /\ (m # 0 => log[m].key = k)
      /\ \A i \in 1..applied : log[i].key = k => i <= m
  BY <1>1, <1>2, NewestOf
<1>4. /\ pc[l] = "history" /\ kind[l] = "listen" /\ k \in unread[l]
      /\ unread'[l] = unread[l] \ {k}
      /\ new = IF told THEN Append(old, m) ELSE old
      /\ old \in Seq(Nat)
  BY <1>1 DEF ReadKey, ListenerTypes, Fits, Placed
<1>5. seen' = [seen EXCEPT ![l] = new] /\ new \in Seq(Nat)
  <2>1. m \in Nat
    BY <1>2, <1>3
  <2>2. new \in Seq(Nat)
    BY <1>4, <2>1
  <2>3. seen' = IF told THEN [seen EXCEPT ![l] = Append(@, m)] ELSE seen
    BY DEF ReadKey
  <2>4. seen \in [Listeners -> Seq(Nat)]
    BY <1>1 DEF ListenerTypes
  <2> HIDE DEF m
  <2>5. seen' = [seen EXCEPT ![l] = new]
    BY <1>4, <2>3, <2>4
  <2> QED BY <2>2, <2>5
<1>6. PICK c \in Nat :
        /\ DOMAIN old = 1..c /\ DOMAIN new = IF told THEN 1..(c + 1) ELSE 1..c
        /\ \A i \in 1..c : new[i] = old[i]
        /\ told => new[c + 1] = m
  <2>1. Len(old) \in Nat /\ DOMAIN old = 1..Len(old)
    BY <1>4
  <2>2. new = IF told THEN Append(old, m) ELSE old
    BY <1>4
  <2>3. m \in Nat
    BY <1>2, <1>3
  <2> HIDE DEF m, new, old
  <2>4. CASE told
    <3>1. new = Append(old, m)
      BY <2>2, <2>4
    <3>2. /\ DOMAIN new = 1..(Len(old) + 1) /\ new[Len(old) + 1] = m
          /\ \A i \in 1..Len(old) : new[i] = old[i]
      BY <1>4, <2>3, <3>1, AppendProperties
    <3> QED BY <2>1, <2>4, <3>2
  <2>5. CASE ~told
    BY <2>1, <2>2, <2>5
  <2> QED BY <2>4, <2>5
<1> HIDE DEF m, new, old
<1>7. WriterFits' /\ ListenerTypes'
  BY <1>1, <1>5 DEF WriterFits, ListenerTypes, ReadKey
<1>8. /\ \A i \in DOMAIN old : old[i] \in 1..applied
      /\ \A i, j \in DOMAIN old : old[i] = old[j] => i = j
      /\ \A i \in DOMAIN old : log[old[i]].key \notin unread[l]
  BY <1>1, <1>4 DEF Fits, SeenFits, old
<1>9. SeenFits(l)'
  <2>1. \A i \in DOMAIN new : new[i] \in 1..applied
    BY <1>2, <1>3, <1>6, <1>8
  <2>2. \A i \in DOMAIN new : log[new[i]].key \notin unread[l] \ {k}
    BY <1>3, <1>6, <1>8
  <2>3. \A i, j \in DOMAIN new : new[i] = new[j] => i = j
    <3>1. told => \A i \in 1..c : old[i] # m
      BY <1>3, <1>4, <1>6, <1>8
    <3>2. \A i \in DOMAIN new : i \in 1..c \/ (told /\ i = c + 1)
      BY <1>6
    <3> QED BY <1>6, <1>8, <3>1, <3>2
  <2>4. pc'[l] = "history" /\ applied' = applied /\ log' = log
    BY <1>1, <1>4
  <2> QED BY <1>4, <2>1, <2>2, <2>3, <2>4 DEF SeenFits, Subscribed, new
<1>10. HistoryFits(l)'
  <2> SUFFICES ASSUME NEW n \in 1..mark[l]
               PROVE  /\ \A i \in DOMAIN new : log[new[i]].key = log[n].key => new[i] >= n
                      /\ log[n].key \notin unread[l] \ {k} => Told(l, n)'
    BY <1>1, <1>4 DEF HistoryFits, Subscribed, new
  <2>1. n \in 1..applied /\ n \in Nat
    BY <1>2
  <2>2. /\ \A i \in DOMAIN old : log[old[i]].key = log[n].key => old[i] >= n
        /\ log[n].key \notin unread[l] => Told(l, n)
    BY <1>1, <1>4 DEF Fits, HistoryFits, old
  <2>3. \A i \in DOMAIN new : log[new[i]].key = log[n].key => new[i] >= n
    BY <1>3, <1>6, <2>1, <2>2
  <2>4. ASSUME Told(l, n) PROVE Told(l, n)'
    <3>1. Given(l, n) => Given(l, n)'
      BY <1>6 DEF Given, old, new
    <3> QED BY <1>1, <2>4, <3>1 DEF Told
  <2>5. ASSUME log[n].key = k PROVE Told(l, n)'
    <3>1. n <= m /\ m # 0 /\ m \in Nat /\ m <= Len(log)
      BY <1>2, <1>3, <2>1, <2>5
    <3>2. CASE n < m
      <4>1. m \in (n + 1)..Len(log) /\ log[m].key = log[n].key
        BY <1>2, <1>3, <2>1, <2>5, <3>1, <3>2
      <4> QED BY <1>1, <4>1 DEF Told
    <3>3. CASE n = m
      <4>1. ~log[n].del => Given(l, n)'
        BY <1>6, <3>1, <3>3 DEF Given, new
      <4> QED BY <1>1, <4>1 DEF Told
    <3> QED BY <2>1, <3>1, <3>2, <3>3
  <2> QED BY <2>2, <2>3, <2>4, <2>5
<1>11. Fits(l)'
  <2>1. Placed(l)' /\ StreamFits(l)'
    BY <1>1, <1>4 DEF Fits, Placed, StreamFits, Subscribed
  <2> QED BY <1>9, <1>10, <2>1 DEF Fits
<1>12. ASSUME NEW x \in Listeners \ {l} PROVE Fits(x)'
  <2>1. /\ kind'[x] = kind[x] /\ pc'[x] = pc[x] /\ unread'[x] = unread[x]
        /\ seen'[x] = seen[x] /\ pos'[x] = pos[x] /\ mark'[x] = mark[x]
        /\ missed'[x] = missed[x]
    BY <1>1, <1>5 DEF ReadKey, ListenerTypes
  <2> QED BY <1>1, <2>1, OthersFit
<1> QED BY <1>7, <1>11, <1>12 DEF FollowInv

\* Subscribe: what was sent since the history began counts as missed.
LEMMA SubscribeStep ==
  ASSUME FollowInv, NEW l \in Listeners, Subscribe(l)
  PROVE  FollowInv'
<1>1. /\ UNCHANGED writer /\ WriterFits /\ ListenerTypes /\ Fits(l)
      /\ UNCHANGED <<log, applied, sent, kind, unread, mark>>
  BY DEF FollowInv, Subscribe, writer
<1> DEFINE old == seen[l]
           new == InOrder(seen[l])
<1>2. /\ applied \in Nat /\ sent \in Nat /\ Len(log) \in Nat /\ sent <= applied
      /\ applied <= sent + 1 /\ mark[l] \in Nat /\ mark[l] <= sent
  BY <1>1 DEF WriterFits, ListenerTypes, Fits, Placed
<1>3. /\ pc[l] = "history" /\ unread[l] = {} /\ pc'[l] = "live" /\ kind[l] = "listen"
      /\ seen'[l] = new /\ pos'[l] = sent + 1 /\ missed'[l] = (mark[l] + 1)..sent
      /\ seen' = [seen EXCEPT ![l] = new]
  BY <1>1 DEF Subscribe, ListenerTypes, Fits, Placed
<1>4. /\ \A i \in DOMAIN old : old[i] \in 1..applied
      /\ \A i, j \in DOMAIN old : old[i] = old[j] => i = j
      /\ old \in Seq(Nat)
  BY <1>1, <1>3 DEF Fits, SeenFits, ListenerTypes
<1>5. /\ new \in Seq(Nat)
      /\ \A i \in DOMAIN new : \E j \in DOMAIN old : new[i] = old[j]
      /\ \A j \in DOMAIN old : \E i \in DOMAIN new : new[i] = old[j]
      /\ \A i, j \in DOMAIN new : i < j => new[i] <= new[j]
  BY <1>4, InOrderSorts
<1> HIDE DEF new
<1>6. WriterFits' /\ ListenerTypes'
  <2>1. WriterFits'
    BY <1>1 DEF WriterFits
  <2>2. sent + 1 \in Nat /\ (mark[l] + 1)..sent \in SUBSET Nat
    BY <1>2
  <2>3. pos' = [pos EXCEPT ![l] = sent + 1] /\ missed' = [missed EXCEPT ![l] = (mark[l] + 1)..sent]
    BY DEF Subscribe
  <2>4. pc' = [pc EXCEPT ![l] = "live"]
    BY DEF Subscribe
  <2> QED BY <1>1, <1>3, <1>5, <2>1, <2>2, <2>3, <2>4 DEF ListenerTypes
<1>7. Fits(l)'
  <2>1. Placed(l)'
    BY <1>1, <1>2, <1>3 DEF Placed, Subscribed
  <2>2. SeenFits(l)'
    <3>1. \A i \in DOMAIN new : new[i] \in 1..applied /\ new[i] <= sent + 1
      BY <1>2, <1>4, <1>5
    <3> QED BY <1>1, <1>3, <1>5, <3>1 DEF SeenFits, Subscribed
  <2>3. ASSUME NEW n \in 1..mark[l]
        PROVE  /\ \A i \in DOMAIN new : log[new[i]].key = log[n].key => new[i] >= n
               /\ Told(l, n)'
    <3>1. /\ \A i \in DOMAIN old : log[old[i]].key = log[n].key => old[i] >= n
          /\ Told(l, n)
      BY <1>1, <1>3 DEF Fits, HistoryFits
    <3>2. Given(l, n) => Given(l, n)'
      BY <1>3, <1>5 DEF Given
    <3> QED BY <1>1, <1>5, <3>1, <3>2 DEF Told
  <2>4. HistoryFits(l)'
    BY <1>1, <1>3, <2>3 DEF HistoryFits
  <2>5. StreamFits(l)'
    BY <1>1, <1>2, <1>3 DEF StreamFits
  <2> QED BY <2>1, <2>2, <2>4, <2>5 DEF Fits
<1>8. ASSUME NEW x \in Listeners \ {l} PROVE Fits(x)'
  <2>1. /\ kind'[x] = kind[x] /\ pc'[x] = pc[x] /\ unread'[x] = unread[x]
        /\ seen'[x] = seen[x] /\ pos'[x] = pos[x] /\ mark'[x] = mark[x]
        /\ missed'[x] = missed[x]
    BY <1>1 DEF Subscribe, ListenerTypes
  <2> QED BY <1>1, <2>1, OthersFit
<1> QED BY <1>6, <1>7, <1>8 DEF FollowInv

\* A tail or a poll begins with the next record.
LEMMA FollowStep ==
  ASSUME FollowInv, NEW l \in Listeners, Follow(l)
  PROVE  FollowInv'
<1>1. /\ UNCHANGED writer /\ WriterFits /\ ListenerTypes /\ Fits(l)
      /\ UNCHANGED <<log, applied, sent, kind, unread, seen, missed>>
  BY DEF FollowInv, Follow, writer
<1>2. sent \in Nat /\ sent + 1 \in Nat
  BY <1>1 DEF WriterFits
<1>3. WriterFits' /\ ListenerTypes'
  BY <1>1, <1>2 DEF WriterFits, ListenerTypes, Follow
<1>4. /\ pc[l] = "new" /\ kind[l] # "listen" /\ pc'[l] = "live" /\ pos'[l] = sent + 1
      /\ mark'[l] = sent
  BY <1>1 DEF Follow, ListenerTypes
<1>5. seen[l] = <<>> /\ DOMAIN seen[l] = {}
  BY <1>1, <1>4 DEF Fits, Placed
<1>6. Fits(l)'
  <2>1. Placed(l)'
    BY <1>1, <1>2, <1>4 DEF Placed, Subscribed
  <2>2. SeenFits(l)' /\ HistoryFits(l)' /\ StreamFits(l)'
    BY <1>1, <1>2, <1>4, <1>5 DEF SeenFits, HistoryFits, StreamFits, Subscribed
  <2> QED BY <2>1, <2>2 DEF Fits
<1>7. ASSUME NEW x \in Listeners \ {l} PROVE Fits(x)'
  <2>1. /\ kind'[x] = kind[x] /\ pc'[x] = pc[x] /\ unread'[x] = unread[x]
        /\ seen'[x] = seen[x] /\ pos'[x] = pos[x] /\ mark'[x] = mark[x]
        /\ missed'[x] = missed[x]
    BY <1>1 DEF Follow, ListenerTypes
  <2> QED BY <1>1, <2>1, OthersFit
<1> QED BY <1>3, <1>6, <1>7 DEF FollowInv

\* A receiver goes forward: it is given `got`, records between the place where
\* it stood and the one where it stands, in their order, and misses the rest.
LEMMA Forward ==
  ASSUME FollowInv, NEW l \in Listeners, Subscribed(l), UNCHANGED writer,
         NEW got \in {<<>>, <<pos[l]>>},
         got = <<>> \/ (pos[l] <= sent /\ pos[l] < pos'[l]),
         pos[l] <= pos'[l], pos'[l] <= sent + 1, pos'[l] \in Nat,
         ListenerTypes', Subscribed(l)', kind'[l] = kind[l], mark'[l] = mark[l],
         seen'[l] = seen[l] \o got, missed[l] \subseteq missed'[l],
         \A n \in pos[l]..(pos'[l] - 1) : n \in missed'[l] \/ got = <<n>>
  PROVE  Fits(l)'
<1>1. /\ WriterFits /\ ListenerTypes /\ Fits(l)
      /\ UNCHANGED <<log, applied, sent>>
  BY DEF FollowInv, writer
<1> DEFINE old == seen[l]
           new == seen'[l]
<1>2. /\ applied \in Nat /\ sent \in Nat /\ sent <= applied /\ mark[l] \in Nat
      /\ pos[l] \in Nat /\ mark[l] < pos[l] /\ mark[l] <= sent /\ old \in Seq(Nat)
      /\ pc[l] \notin {"new", "history"} /\ pc'[l] \notin {"new", "history"}
  BY <1>1 DEF WriterFits, ListenerTypes, Fits, Placed, Subscribed
<1>3. PICK c \in Nat :
        /\ DOMAIN old = 1..c
        /\ \A i \in 1..c : i \in DOMAIN new /\ new[i] = old[i]
        /\ \A i \in DOMAIN new : \/ i \in 1..c
                                 \/ /\ i = c + 1 /\ new[i] = pos[l]
                                    /\ pos[l] <= sent /\ pos[l] < pos'[l]
        /\ got # <<>> => c + 1 \in DOMAIN new /\ new[c + 1] = pos[l]
  <2>1. Len(old) \in Nat /\ DOMAIN old = 1..Len(old)
    BY <1>2
  <2>2. CASE got = <<>>
    <3>1. new = old
      BY <1>2, <2>2
    <3> QED BY <2>1, <2>2, <3>1
  <2>3. CASE got = <<pos[l]>> /\ got # <<>>
    <3>1. new = Append(old, pos[l])
      BY <1>2, <2>3
    <3>2. /\ DOMAIN new = 1..(Len(old) + 1) /\ new[Len(old) + 1] = pos[l]
          /\ \A i \in 1..Len(old) : new[i] = old[i]
      BY <1>2, <3>1, AppendProperties
    <3>3. pos[l] <= sent /\ pos[l] < pos'[l]
      BY <2>3
    <3> HIDE DEF old, new
    <3>4. \A i \in DOMAIN new : i \in 1..Len(old) \/ i = Len(old) + 1
      BY <2>1, <3>2
    <3>5. \A i \in 1..Len(old) : i \in DOMAIN new
      BY <2>1, <3>2
    <3>6. Len(old) + 1 \in DOMAIN new
      BY <2>1, <3>2
    <3> QED BY <2>1, <3>2, <3>3, <3>4, <3>5, <3>6
  <2> QED BY <2>2, <2>3
<1>4. /\ \A i \in DOMAIN old : old[i] \in 1..applied /\ old[i] <= pos[l]
      /\ \A i, j \in DOMAIN old : i < j => old[i] <= old[j]
  BY <1>1 DEF Fits, SeenFits
<1> HIDE DEF old, new
<1>5. Placed(l)'
  BY <1>1, <1>2 DEF Placed
<1>6. SeenFits(l)'
  <2>1. \A i \in DOMAIN new : new[i] \in 1..applied /\ new[i] <= pos'[l]
    BY <1>2, <1>3, <1>4
  <2>2. \A i, j \in DOMAIN new : i < j => new[i] <= new[j]
    <3> SUFFICES ASSUME NEW i \in DOMAIN new, NEW j \in DOMAIN new, i < j
                 PROVE  new[i] <= new[j]
      OBVIOUS
    <3>1. CASE j \in 1..c
      BY <1>3, <1>4, <3>1
    <3>2. CASE j = c + 1 /\ new[j] = pos[l]
      <4>1. i \in 1..c
        BY <1>3, <3>2
      <4> QED BY <1>3, <1>4, <3>2, <4>1
    <3> QED BY <1>3, <3>1, <3>2
  <2> QED BY <1>1, <1>2, <2>1, <2>2 DEF SeenFits, new
<1>7. \A n : Given(l, n) => Given(l, n)'
  BY <1>3 DEF Given, old, new
<1>8. HistoryFits(l)'
  <2> SUFFICES ASSUME kind[l] = "listen", NEW n \in 1..mark[l]
               PROVE  /\ \A i \in DOMAIN new : log[new[i]].key = log[n].key => new[i] >= n
                      /\ Told(l, n)'
    BY <1>1 DEF HistoryFits, new
  <2>1. /\ \A i \in DOMAIN old : log[old[i]].key = log[n].key => old[i] >= n
        /\ Told(l, n)
    BY <1>1 DEF Fits, HistoryFits, old
  <2>2. pos[l] >= n
    BY <1>2
  <2> QED BY <1>1, <1>3, <1>7, <2>1, <2>2 DEF Told
<1>9. StreamFits(l)'
  <2> SUFFICES ASSUME NEW n \in (mark[l] + 1)..(pos'[l] - 1)
               PROVE  n \in missed'[l] \/ Given(l, n)'
    BY DEF StreamFits
  <2>1. CASE n < pos[l]
    <3>1. n \in missed[l] \/ Given(l, n)
      BY <1>1, <1>2, <2>1 DEF Fits, StreamFits
    <3> QED BY <1>7, <3>1
  <2>2. CASE n >= pos[l]
    <3>1. n \in missed'[l] \/ got = <<n>>
      BY <1>2, <2>2
    <3>2. ASSUME got = <<n>> PROVE Given(l, n)'
      <4>1. got # <<>> /\ n = pos[l]
        BY <3>2
      <4> QED BY <1>3, <4>1 DEF Given, new
    <3> QED BY <3>1, <3>2
  <2> QED BY <1>2, <2>1, <2>2
<1> QED BY <1>5, <1>6, <1>8, <1>9 DEF Fits

\* Receive: the next record, or the oldest one there is.
LEMMA ReceiveStep ==
  ASSUME FollowInv, NEW l \in Listeners, Receive(l)
  PROVE  FollowInv'
<1>1. /\ UNCHANGED writer /\ WriterFits /\ ListenerTypes /\ Fits(l)
      /\ UNCHANGED <<log, applied, sent, kind, pc, unread, mark>>
  BY DEF FollowInv, Receive, writer
<1>2. /\ pc[l] = "live" /\ pos[l] <= sent /\ pos[l] \in Nat /\ sent \in Nat
      /\ seen[l] \in Seq(Nat) /\ missed[l] \subseteq Nat
  BY <1>1 DEF Receive, Ready, WriterFits, ListenerTypes
<1>3. WriterFits'
  BY <1>1 DEF WriterFits
<1>4. ListenerTypes' /\ Fits(l)'
  <2>1. CASE pos[l] < Oldest
    <3>1. Oldest \in Nat /\ Oldest <= sent + 1
      BY <1>1, OldestFits
    <3>2. /\ pos' = [pos EXCEPT ![l] = Oldest] /\ UNCHANGED seen
          /\ missed' = [missed EXCEPT ![l] = missed[l] \cup pos[l]..(Oldest - 1)]
      BY <2>1 DEF Receive
    <3>3. missed[l] \cup pos[l]..(Oldest - 1) \in SUBSET Nat
      BY <1>2, <3>1
    <3>4. ListenerTypes'
      BY <1>1, <3>1, <3>2, <3>3 DEF ListenerTypes
    <3>5. /\ pos'[l] = Oldest /\ missed'[l] = missed[l] \cup pos[l]..(Oldest - 1)
          /\ seen'[l] = seen[l] \o <<>>
      BY <1>1, <1>2, <3>2 DEF ListenerTypes
    <3>6. <<>> \in {<<>>, <<pos[l]>>} /\ Subscribed(l) /\ Subscribed(l)'
      BY <1>1, <1>2 DEF Subscribed
    <3>7. /\ pos[l] <= pos'[l] /\ pos'[l] <= sent + 1 /\ pos'[l] \in Nat
          /\ missed[l] \subseteq missed'[l]
          /\ \A n \in pos[l]..(pos'[l] - 1) : n \in missed'[l]
      BY <1>2, <2>1, <3>1, <3>5
    <3> QED BY <1>1, <3>4, <3>5, <3>6, <3>7, Forward
  <2>2. CASE ~(pos[l] < Oldest)
    <3>1. /\ pos' = [pos EXCEPT ![l] = pos[l] + 1] /\ UNCHANGED missed
          /\ seen' = [seen EXCEPT ![l] = Append(seen[l], pos[l])]
      BY <2>2 DEF Receive
    <3>2. Append(seen[l], pos[l]) \in Seq(Nat) /\ pos[l] + 1 \in Nat
      BY <1>2
    <3>3. ListenerTypes'
      BY <1>1, <3>1, <3>2 DEF ListenerTypes
    <3>4. /\ pos'[l] = pos[l] + 1 /\ missed'[l] = missed[l]
          /\ seen'[l] = seen[l] \o <<pos[l]>>
      BY <1>1, <1>2, <3>1 DEF ListenerTypes
    <3>5. <<pos[l]>> \in {<<>>, <<pos[l]>>} /\ Subscribed(l) /\ Subscribed(l)'
      BY <1>1, <1>2 DEF Subscribed
    <3>6. /\ pos[l] < pos'[l] /\ pos[l] <= pos'[l] /\ pos'[l] <= sent + 1
          /\ pos'[l] \in Nat /\ missed[l] \subseteq missed'[l]
          /\ kind'[l] = kind[l] /\ mark'[l] = mark[l]
      BY <1>1, <1>2, <3>4
    <3>7. \A n \in pos[l]..(pos'[l] - 1) : n = pos[l]
      BY <1>2, <3>4
    <3>8. \A n \in pos[l]..(pos'[l] - 1) : n \in missed'[l] \/ <<pos[l]>> = <<n>>
      BY <3>7
    <3> QED BY <1>1, <1>2, <3>3, <3>4, <3>5, <3>6, <3>8, Forward
  <2> QED BY <2>1, <2>2
<1>5. ASSUME NEW x \in Listeners \ {l} PROVE Fits(x)'
  <2>1. /\ kind'[x] = kind[x] /\ pc'[x] = pc[x] /\ unread'[x] = unread[x]
        /\ seen'[x] = seen[x] /\ pos'[x] = pos[x] /\ mark'[x] = mark[x]
        /\ missed'[x] = missed[x]
    BY <1>1 DEF Receive, ListenerTypes
  <2> QED BY <1>1, <2>1, OthersFit
<1> QED BY <1>3, <1>4, <1>5 DEF FollowInv

\* The sequence of a set of at most one element.
LEMMA SeqOfOne ==
  ASSUME NEW x \in Nat
  PROVE  SetToSeq({x}) = <<x>> /\ SetToSeq({}) = <<>>
<1>1. Cardinality({x}) = 1 /\ Cardinality({}) = 0
  BY FS_Singleton, FS_EmptySet
<1>2. SetToSeq({x}) = <<x>>
  <2> DEFINE f == CHOOSE f \in [1..1 -> {x}] : IsInjective(f)
  <2>1. \E g \in [1..1 -> {x}] : IsInjective(g)
    <3>1. [i \in 1..1 |-> x] \in [1..1 -> {x}] /\ IsInjective([i \in 1..1 |-> x])
      BY DEF IsInjective
    <3> QED BY <3>1
  <2>2. f \in [1..1 -> {x}]
    BY <2>1
  <2>3. SetToSeq({x}) = f
    BY <1>1 DEF SetToSeq
  <2> HIDE DEF f
  <2>4. f = <<x>>
    <3>1. 1..1 = {1}
      OBVIOUS
    <3> QED BY <2>2, <3>1
  <2> QED BY <2>3, <2>4
<1>3. SetToSeq({}) = <<>>
  <2> DEFINE f == CHOOSE f \in [1..0 -> {}] : IsInjective(f)
  <2>1. \E g \in [1..0 -> {}] : IsInjective(g)
    <3>1. <<>> \in [1..0 -> {}] /\ IsInjective(<<>>)
      BY DEF IsInjective
    <3> QED BY <3>1
  <2>2. f \in [1..0 -> {}]
    BY <2>1
  <2>3. SetToSeq({}) = f
    BY <1>1 DEF SetToSeq
  <2> HIDE DEF f
  <2>4. f = <<>>
    BY <2>2
  <2> QED BY <2>3, <2>4
<1> QED BY <1>2, <1>3

\* A poll returns with the first record since it began, or with nothing.
LEMMA PollReturnsStep ==
  ASSUME FollowInv, NEW l \in Listeners, PollReturns(l)
  PROVE  FollowInv'
<1>1. /\ UNCHANGED writer /\ WriterFits /\ ListenerTypes /\ Fits(l)
      /\ UNCHANGED <<log, applied, sent, kind, unread, mark>>
  BY DEF FollowInv, PollReturns, writer
<1> DEFINE taken == IF pos[l] <= sent /\ pos[l] >= Oldest THEN {pos[l]} ELSE {}
           got == SetToSeq(taken)
<1>2. /\ pc[l] = "live" /\ pos[l] \in Nat /\ sent \in Nat /\ pos[l] <= sent + 1
      /\ seen[l] \in Seq(Nat) /\ missed[l] \subseteq Nat
  BY <1>1 DEF PollReturns, WriterFits, ListenerTypes, Fits, Placed, Subscribed
<1>3. /\ got \in {<<>>, <<pos[l]>>} /\ (got = <<>> \/ pos[l] <= sent)
      /\ \A n \in pos[l]..sent : n \in (pos[l]..sent \ taken) \/ got = <<n>>
  <2>1. CASE pos[l] <= sent /\ pos[l] >= Oldest
    <3>1. taken = {pos[l]}
      BY <2>1
    <3>2. got = <<pos[l]>>
      BY <1>2, <3>1, SeqOfOne
    <3> QED BY <2>1, <3>1, <3>2
  <2>2. CASE ~(pos[l] <= sent /\ pos[l] >= Oldest)
    <3>1. taken = {}
      BY <2>2
    <3>2. got = <<>>
      BY <1>2, <3>1, SeqOfOne
    <3> QED BY <3>1, <3>2
  <2> QED BY <2>1, <2>2
<1>4. /\ pc' = [pc EXCEPT ![l] = "between"]
      /\ seen' = [seen EXCEPT ![l] = seen[l] \o got]
      /\ missed' = [missed EXCEPT ![l] = missed[l] \cup (pos[l]..sent \ taken)]
      /\ pos' = [pos EXCEPT ![l] = sent + 1]
  BY DEF PollReturns
<1> HIDE DEF taken, got
<1>5. /\ seen[l] \o got \in Seq(Nat) /\ sent + 1 \in Nat
      /\ missed[l] \cup (pos[l]..sent \ taken) \in SUBSET Nat
  <2>1. got \in Seq(Nat)
    <3>1. <<>> \in Seq(Nat) /\ <<pos[l]>> \in Seq(Nat)
      BY <1>2
    <3> QED BY <1>3, <3>1
  <2>2. pos[l]..sent \subseteq Nat
    BY <1>2
  <2>3. seen[l] \o got \in Seq(Nat)
    BY <1>2, <2>1, ConcatProperties
  <2> QED BY <1>2, <2>2, <2>3
<1>6. WriterFits' /\ ListenerTypes'
  BY <1>1, <1>4, <1>5 DEF WriterFits, ListenerTypes
<1>7. /\ pc'[l] = "between" /\ seen'[l] = seen[l] \o got /\ pos'[l] = sent + 1
      /\ missed'[l] = missed[l] \cup (pos[l]..sent \ taken)
      /\ kind'[l] = kind[l] /\ mark'[l] = mark[l]
  BY <1>1, <1>4 DEF ListenerTypes
<1>8. Fits(l)'
  <2>1. Subscribed(l) /\ Subscribed(l)'
    BY <1>2, <1>7 DEF Subscribed
  <2>2. /\ got = <<>> \/ (pos[l] <= sent /\ pos[l] < pos'[l])
        /\ pos[l] <= pos'[l] /\ pos'[l] <= sent + 1 /\ pos'[l] \in Nat
        /\ missed[l] \subseteq missed'[l]
    BY <1>2, <1>3, <1>7
  <2>3. \A n \in pos[l]..(pos'[l] - 1) : n \in missed'[l] \/ got = <<n>>
    <3>1. pos'[l] - 1 = sent
      BY <1>2, <1>7
    <3> QED BY <1>3, <1>7, <3>1
  <2> QED BY <1>1, <1>3, <1>6, <1>7, <2>1, <2>2, <2>3, Forward
<1>9. ASSUME NEW x \in Listeners \ {l} PROVE Fits(x)'
  <2>1. /\ kind'[x] = kind[x] /\ pc'[x] = pc[x] /\ unread'[x] = unread[x]
        /\ seen'[x] = seen[x] /\ pos'[x] = pos[x] /\ mark'[x] = mark[x]
        /\ missed'[x] = missed[x]
    BY <1>1, <1>4 DEF ListenerTypes
  <2> QED BY <1>1, <2>1, OthersFit
<1> QED BY <1>6, <1>8, <1>9 DEF FollowInv

\* The next poll misses what was sent since the last.
LEMMA PollAgainStep ==
  ASSUME FollowInv, NEW l \in Listeners, PollAgain(l)
  PROVE  FollowInv'
<1>1. /\ UNCHANGED writer /\ WriterFits /\ ListenerTypes /\ Fits(l)
      /\ UNCHANGED <<log, applied, sent, kind, unread, seen, mark>>
  BY DEF FollowInv, PollAgain, writer
<1>2. /\ pc[l] = "between" /\ pos[l] \in Nat /\ sent \in Nat /\ pos[l] <= sent + 1
      /\ seen[l] \in Seq(Nat) /\ missed[l] \subseteq Nat
  BY <1>1 DEF PollAgain, WriterFits, ListenerTypes, Fits, Placed, Subscribed
<1>3. /\ pc' = [pc EXCEPT ![l] = "live"]
      /\ missed' = [missed EXCEPT ![l] = missed[l] \cup pos[l]..sent]
      /\ pos' = [pos EXCEPT ![l] = sent + 1]
  BY DEF PollAgain
<1>4. sent + 1 \in Nat /\ missed[l] \cup pos[l]..sent \in SUBSET Nat
  BY <1>2
<1>5. WriterFits' /\ ListenerTypes'
  BY <1>1, <1>3, <1>4 DEF WriterFits, ListenerTypes
<1>6. /\ pc'[l] = "live" /\ seen'[l] = seen[l] \o <<>> /\ pos'[l] = sent + 1
      /\ missed'[l] = missed[l] \cup pos[l]..sent
      /\ kind'[l] = kind[l] /\ mark'[l] = mark[l]
  BY <1>1, <1>2, <1>3 DEF ListenerTypes
<1>7. Fits(l)'
  <2>1. Subscribed(l) /\ Subscribed(l)' /\ <<>> \in {<<>>, <<pos[l]>>}
    BY <1>2, <1>6 DEF Subscribed
  <2>2. /\ pos[l] <= pos'[l] /\ pos'[l] <= sent + 1 /\ pos'[l] \in Nat
        /\ missed[l] \subseteq missed'[l]
        /\ \A n \in pos[l]..(pos'[l] - 1) : n \in missed'[l]
    BY <1>2, <1>6
  <2> QED BY <1>1, <1>5, <1>6, <2>1, <2>2, Forward
<1>8. ASSUME NEW x \in Listeners \ {l} PROVE Fits(x)'
  <2>1. /\ kind'[x] = kind[x] /\ pc'[x] = pc[x] /\ unread'[x] = unread[x]
        /\ seen'[x] = seen[x] /\ pos'[x] = pos[x] /\ mark'[x] = mark[x]
        /\ missed'[x] = missed[x]
    BY <1>1, <1>3 DEF ListenerTypes
  <2> QED BY <1>1, <2>1, OthersFit
<1> QED BY <1>5, <1>7, <1>8 DEF FollowInv

-----------------------------------------------------------------------------
(* The theorem.                                                            *)

LEMMA InitFollowInv == Init => FollowInv
<1> SUFFICES ASSUME Init PROVE FollowInv
  OBVIOUS
<1>1. log = <<>> /\ applied = 0 /\ sent = 0 /\ Len(log) = 0 /\ log \in Seq(Record)
  BY DEF Init
<1>2. WriterFits
  BY <1>1 DEF WriterFits
<1>3. ListenerTypes
  BY DEF Init, ListenerTypes
<1>4. ASSUME NEW l \in Listeners PROVE Fits(l)
  <2>1. /\ pc[l] = "new" /\ seen[l] = <<>> /\ mark[l] = 0 /\ pos[l] = 0
        /\ DOMAIN seen[l] = {}
    BY DEF Init
  <2> QED BY <1>1, <2>1 DEF Fits, Placed, SeenFits, HistoryFits, StreamFits, Subscribed
<1> QED BY <1>2, <1>3, <1>4 DEF FollowInv

LEMMA NextFollowInv == FollowInv /\ [Next]_vars => FollowInv'
<1> SUFFICES ASSUME FollowInv, [Next]_vars PROVE FollowInv'
  OBVIOUS
<1>1. CASE (\E k \in Keys, del \in BOOLEAN : Write(k, del)) \/ Apply \/ Broadcast
  BY <1>1, WriterStep
<1>2. ASSUME NEW l \in Listeners,
             \/ Listen(l) \/ \E k \in Keys : ReadKey(l, k)
             \/ Subscribe(l) \/ Follow(l) \/ Receive(l)
             \/ PollReturns(l) \/ PollAgain(l)
      PROVE  FollowInv'
  BY <1>2, ListenStep, ReadKeyStep, SubscribeStep, FollowStep, ReceiveStep,
     PollReturnsStep, PollAgainStep
<1>3. CASE UNCHANGED vars
  <2>1. UNCHANGED writer /\ UNCHANGED <<log, applied, sent>> /\ UNCHANGED listeners
    BY <1>3 DEF vars, writer
  <2>2. UNCHANGED <<kind, pc, unread, seen, pos, mark, missed>>
    BY <2>1 DEF listeners
  <2>3. WriterFits' /\ ListenerTypes'
    BY <2>1, <2>2 DEF FollowInv, WriterFits, ListenerTypes
  <2>4. ASSUME NEW x \in Listeners PROVE Fits(x)'
    BY <2>1, <2>2, OthersFit
  <2> QED BY <2>3, <2>4 DEF FollowInv
<1> QED BY <1>1, <1>2, <1>3 DEF Next

\* A listener that has caught up has the same value for a key as the index.
LEMMA CaughtUpFollows == FollowInv => ListenersFollowTheIndex
<1> SUFFICES ASSUME FollowInv, NEW l \in Listeners, NEW k \in Keys, CaughtUp(l),
                    Newest(k, Len(log)) >= First(l),
                    Newest(k, Len(log)) \notin missed[l]
             PROVE  \/ /\ LastSeen(l, k) # 0
                       /\ seen[l][LastSeen(l, k)] = Newest(k, Len(log))
                    \/ LastSeen(l, k) = 0 /\ log[Newest(k, Len(log))].del
  <2>1. ASSUME FollowInv, NEW l \in Listeners, NEW k \in Keys
        PROVE  Newest(k, Len(log)) \in Int /\ First(l) \in Int
    <3>1. Len(log) \in 0..Len(log) /\ WriterFits /\ ListenerTypes
      BY <2>1 DEF FollowInv, WriterFits
    <3>2. Newest(k, Len(log)) \in 0..Len(log)
      BY <3>1, NewestOf
    <3> QED BY <3>1, <3>2 DEF First, ListenerTypes, WriterFits
  <2>2. FollowInv => \A l \in Listeners, k \in Keys :
          Newest(k, Len(log)) >= First(l) \/ Newest(k, Len(log)) < First(l)
    BY <2>1
  <2> QED BY <2>2 DEF ListenersFollowTheIndex
<1> DEFINE n == Newest(k, Len(log))
           i == LastSeen(l, k)
<1>1. /\ WriterFits /\ ListenerTypes /\ Fits(l) /\ Len(log) \in Nat
      /\ Len(log) \in 0..Len(log) /\ Subscribed(l) /\ pos[l] = Len(log) + 1
      /\ mark[l] \in Nat /\ applied \in Nat /\ applied <= Len(log)
  BY DEF FollowInv, WriterFits, ListenerTypes, CaughtUp, Subscribed
<1>2. /\ n \in 0..Len(log) /\ (n # 0 => log[n].key = k)
      /\ \A m \in 1..Len(log) : log[m].key = k => m <= n
  BY <1>1, NewestOf
<1>3. /\ i \in {0} \cup DOMAIN seen[l]
      /\ i # 0 => log[seen[l][i]].key = k
      /\ \A j \in DOMAIN seen[l] : log[seen[l][j]].key = k => j <= i
      /\ 0 \notin DOMAIN seen[l] /\ DOMAIN seen[l] \subseteq Nat
  BY <1>1, LastSeenOf
<1>4. n >= First(l) /\ n \notin missed[l] /\ First(l) >= 1 /\ First(l) \in Nat
  BY <1>1 DEF First
<1> HIDE DEF n, i
<1>5. n # 0 /\ n \in 1..Len(log) /\ log[n].key = k
  BY <1>1, <1>2, <1>4
<1>6. \A j \in DOMAIN seen[l] : seen[l][j] \in 1..Len(log)
  <2>1. \A j \in DOMAIN seen[l] : seen[l][j] \in 1..applied
    BY <1>1 DEF Fits, SeenFits
  <2> QED BY <1>1, <2>1
<1>7. i # 0 => i \in DOMAIN seen[l] /\ seen[l][i] <= n
  BY <1>2, <1>3, <1>6
<1>8. ASSUME Given(l, n)
      PROVE  i # 0 /\ seen[l][i] = n
  <2>1. PICK j \in DOMAIN seen[l] : seen[l][j] = n
    BY <1>8 DEF Given
  <2>2. j <= i /\ i # 0 /\ i \in DOMAIN seen[l] /\ j \in Nat /\ i \in Nat
    BY <1>3, <1>5, <2>1
  <2>3. \A x, y \in DOMAIN seen[l] : x < y => seen[l][x] <= seen[l][y]
    BY <1>1 DEF Fits, SeenFits
  <2>4. n <= seen[l][i]
    <3>1. CASE j = i
      BY <1>5, <2>1, <3>1
    <3>2. CASE j < i
      BY <2>1, <2>2, <2>3, <3>2
    <3> QED BY <2>2, <3>1, <3>2
  <2> QED BY <1>5, <1>6, <1>7, <2>2, <2>4
<1>9. CASE n > mark[l]
  <2>1. n \in (mark[l] + 1)..(pos[l] - 1)
    BY <1>1, <1>5, <1>9
  <2>2. Given(l, n)
    BY <1>1, <1>4, <2>1 DEF Fits, StreamFits
  <2> QED BY <1>8, <2>2 DEF n, i
<1>10. CASE n <= mark[l]
  <2>1. kind[l] = "listen"
    BY <1>1, <1>4, <1>5, <1>10 DEF First
  <2>2. n \in 1..mark[l]
    BY <1>1, <1>5, <1>10
  <2>3. /\ \A j \in DOMAIN seen[l] : log[seen[l][j]].key = log[n].key => seen[l][j] >= n
        /\ Told(l, n)
    BY <1>1, <2>1, <2>2 DEF Fits, HistoryFits
  <2>4. Given(l, n) \/ log[n].del
    BY <1>1, <1>2, <1>5, <2>3 DEF Told
  <2>5. ASSUME log[n].del, i # 0 PROVE seen[l][i] = n
    BY <1>3, <1>5, <1>6, <1>7, <2>3, <2>5
  <2> QED BY <1>8, <2>4, <2>5 DEF n, i
<1> QED BY <1>1, <1>5, <1>9, <1>10

\* A listener that has received everything there is has the same value for every
\* key as the index, whatever was written while it read the history, unless the
\* newest record of the key is one it could never get: however many listeners,
\* keys and records there are and whatever the channel's capacity (the listener
\* loop of executor.rs, subscribe_sync of embed.rs).
THEOREM FollowersAgree == Spec => []ListenersFollowTheIndex
<1>1. Init => FollowInv
  BY InitFollowInv
<1>2. FollowInv /\ [Next]_vars => FollowInv'
  BY NextFollowInv
<1>3. FollowInv => ListenersFollowTheIndex
  BY CaughtUpFollows
<1> QED BY <1>1, <1>2, <1>3, PTL DEF Spec
=============================================================================
