--------------------------- MODULE ExecutorProofs ---------------------------
(***************************************************************************)
(* Proofs about Executor, for every value of its constants: reservations,  *)
(* the stream limit and list, what a query writes over, and that nobody is *)
(* stuck.                                                                  *)
(***************************************************************************)
EXTENDS Executor, FiniteSetTheorems, SequenceTheorems, TLAPS

Request == [call : Calls, del : BOOLEAN, keys : Seq(Keys)]

Places == AtRest \cup {"lock", "look", "reserve", "check", "register",
                       "register_batch", "send", "wait", "unlist"}

\* Every variable has its type (executor.rs, storage.rs:184-213).
ExecTypeOK ==
  /\ lock \in Calls \cup {Nobody} /\ pending \subseteq Keys
  /\ streams \subseteq Streams /\ index \subseteq Keys
  /\ queue \in Seq(Request) /\ applied \in Nat /\ failed \in BOOLEAN
  /\ recorded \subseteq Streams /\ reopens \in Nat
  /\ pc \in [Calls -> Places] /\ job \in [Calls -> Job \cup {<<>>}]
  /\ todo \in [Calls -> Seq(Keys)] /\ seen \in [Calls -> SUBSET Keys]
  /\ stale \in [Calls -> SUBSET Keys] /\ reserved \in [Calls -> SUBSET Keys]
  /\ answer \in [Calls -> {"none", "ok", "err"}] /\ races \subseteq Races

Busy(c) == pc[c] \notin AtRest

Is(c, kinds) == job[c].kind \in kinds

\* It has the list of the keys it writes.
Listed(c) == pc[c] \in {"check", "register", "register_batch", "send", "wait"}

\* Each kind of query goes through its own places, and what it knows of itself
\* fits the place.
StageFits(c) ==
  /\ pc[c] \in AtRest => seen[c] = {} /\ stale[c] = {} /\ reserved[c] = {}
  /\ Busy(c) => job[c] \in Job
  /\ pc[c] = "lock" => ~Is(c, Unlocked) /\ reserved[c] = {}
  /\ pc[c] = "lock" => seen[c] = {} /\ stale[c] = {}
  /\ pc[c] = "look" /\ ~Is(c, Inserts) => seen[c] = {} /\ stale[c] = {}
  /\ pc[c] = "reserve" => Is(c, Inserts)
  /\ pc[c] \in {"check", "register_batch"} => Is(c, {"insert_batch"})
  /\ pc[c] = "unlist" => Is(c, {"drop"}) /\ seen[c] = {}
  /\ answer[c] # "none" => pc[c] = "wait"
  /\ Busy(c) /\ ~Is(c, Inserts) => reserved[c] = {}
  /\ Busy(c) /\ job[c].made => Is(c, {"pipeline_update", "pipeline_delete"})

\* It needs the lock where it is.
NeedsLock(c) ==
  /\ Busy(c) /\ pc[c] # "lock"
  /\ Is(c, Holders) \/ (Is(c, Inserts) /\ pc[c] # "wait")

LockFits == \A c \in Calls : lock = c <=> NeedsLock(c)

NoTwice(t) == \A i, j \in DOMAIN t : t[i] = t[j] => i = j

\* The keys of a query are keys of one stream; a list that is not an insert's
\* names none twice.
ListFits(c) ==
  Busy(c) =>
    /\ \A i, j \in DOMAIN todo[c] : StreamOf[todo[c][i]] = StreamOf[todo[c][j]]
    /\ ~Is(c, Inserts) => NoTwice(todo[c])
    /\ Listed(c) \/ ~Is(c, {"empty", "drop", "pipeline_update", "pipeline_delete"})
         => todo[c] # <<>>
    /\ Is(c, {"update", "delete"}) => Len(todo[c]) = 1

\* An insert has reserved a prefix of its list, and all of it before it goes on.
PrefixReserved(c) ==
  Busy(c) /\ Is(c, Inserts) =>
    \E n \in 0..Len(todo[c]) :
      /\ Cardinality(reserved[c]) = n
      /\ \A i \in 1..n : todo[c][i] \in reserved[c]
      /\ \A k \in reserved[c] : \E i \in 1..n : todo[c][i] = k
      /\ \A i, j \in 1..n : todo[c][i] = todo[c][j] => i = j
      /\ Listed(c) <=> n = Len(todo[c])

Reserving ==
  /\ pending = UNION { reserved[c] : c \in Calls }
  /\ \A c, d \in Calls : c # d => reserved[c] \cap reserved[d] = {}

\* The requests in the channel q are those of the calls that wait; while the
\* holder of the lock has one in it, no insert comes behind.
Queued(q) ==
  /\ \A i \in DOMAIN q :
       LET c == q[i].call IN
       /\ pc[c] = "wait" /\ answer[c] = "none"
       /\ q[i].del = Deletes(c) /\ q[i].keys = NextWrites(c)
  /\ \A i, j \in DOMAIN q : q[i].call = q[j].call => i = j
  /\ \A i, j \in DOMAIN q :
       i < j /\ Is(q[i].call, Holders) => ~Is(q[j].call, Inserts)
  /\ \A c \in Calls : pc[c] = "wait" /\ answer[c] = "none" =>
       \E i \in DOMAIN q : q[i].call = c

Progress ==
  /\ queue = <<>> => applied = 0
  /\ queue # <<>> => applied < Len(Head(queue).keys)

\* How many keys of its list a query has written.
Done(c) ==
  IF answer[c] = "ok" THEN Len(NextWrites(c))
  ELSE IF queue # <<>> /\ Head(queue).call = c THEN applied
  ELSE 0

\* What it has not written it has in mind, but for keys made up; an insert and a
\* drop have nothing else.
InMind(c) ==
  /\ Busy(c) /\ Is(c, Inserts) /\ ~Listed(c) =>
       /\ reserved[c] \subseteq seen[c]
       /\ \A k \in seen[c] :
            k \in reserved[c] \/ (pc[c] = "reserve" /\ k = NextToReserve(c))
  /\ pc[c] = "reserve" => NextToReserve(c) \in seen[c]
  /\ Listed(c) /\ answer[c] # "err" /\ ~Is(c, Unlocked) =>
       /\ \A j \in DOMAIN todo[c] : j > Done(c) => todo[c][j] \in seen[c] \/ job[c].made
       /\ Is(c, Inserts) \/ Is(c, {"drop"}) =>
            \A k \in seen[c] : \E j \in DOMAIN todo[c] : j > Done(c) /\ todo[c][j] = k

\* While no race has happened, the keys an insert has reserved and will write
\* are not live, and those that the holder of the lock has read are, unchanged.
Undisturbed(c) ==
  Busy(c) =>
    /\ Is(c, Inserts) /\ answer[c] # "err" => reserved[c] \cap seen[c] \cap index = {}
    /\ Is(c, Holders) => seen[c] \subseteq index /\ stale[c] = {}

NothingRaced == races \cap {"late", "crossed"} = {}

\* A write on its way, past the registration of its stream.
Brings(c) ==
  /\ pc[c] = "send" \/ (pc[c] = "wait" /\ answer[c] = "none")
  /\ ~Deletes(c)

StreamsFit ==
  /\ \A k \in index : StreamOf[k] \in recorded
  /\ Cardinality(streams) <= MaxStreams + 1
  /\ (\E c \in Calls : pc[c] = "register_batch") => Cardinality(streams) <= MaxStreams
  /\ "dropped_under" \notin races =>
       /\ \A k \in index : StreamOf[k] \in streams
       /\ \A c \in Calls : Brings(c) => WriteStream(c) \in streams

CallFits(c) == StageFits(c) /\ ListFits(c) /\ PrefixReserved(c) /\ InMind(c)

\* The protocol between the callers, the lock, the reservations and the flusher.
ProtocolInv ==
  /\ \A c \in Calls : CallFits(c)
  /\ LockFits /\ Reserving /\ Queued(queue) /\ Progress

RaceInv == NothingRaced => \A c \in Calls : Undisturbed(c)

ExecInv == ExecTypeOK /\ ProtocolInv /\ RaceInv /\ StreamsFit

-----------------------------------------------------------------------------
(* Lists of keys.                                                          *)

\* Sets of keys and of streams are finite, and so is what one more is added to.
LEMMA Finite ==
  /\ \A T \in SUBSET Keys : IsFiniteSet(T) /\ Cardinality(T) \in Nat
  /\ \A T \in SUBSET Streams : IsFiniteSet(T) /\ Cardinality(T) \in Nat
BY ExecutorAssumption, FS_Subset, FS_CardinalityType

\* A listing of a set of keys has each of them once.
LEMMA OrdersType ==
  ASSUME NEW T \in SUBSET Keys, NEW t \in Orders(T)
  PROVE  /\ t \in Seq(Keys) /\ NoTwice(t)
         /\ \A i \in DOMAIN t : t[i] \in T
         /\ \A k \in T : \E i \in DOMAIN t : t[i] = k
         /\ T # {} => t # <<>>
<1>1. Cardinality(T) \in Nat /\ IsFiniteSet(T)
  BY Finite
<1>2. PICK n \in Nat : n = Cardinality(T)
  BY <1>1
<1>3. t \in [1..n -> T] /\ \A k \in T : \E i \in 1..n : t[i] = k
  BY <1>2 DEF Orders
<1>4. t \in Surjection(1..n, T)
  BY <1>3 DEF Surjection
<1>5. IsFiniteSet(1..n) /\ Cardinality(1..n) = n
  BY FS_Interval
<1>6. t \in Injection(1..n, T)
  BY <1>2, <1>4, <1>5, FS_Surjection
<1>7. \A i, j \in 1..n : t[i] = t[j] => i = j
  BY <1>6 DEF Injection, IsInjective
<1>8. DOMAIN t = 1..n /\ t \in Seq(Keys)
  BY <1>3
<1>9. T # {} => t # <<>>
  BY <1>3, <1>8
<1> QED BY <1>3, <1>7, <1>8, <1>9 DEF NoTwice

\* A list of n keys of a stream.
LEMMA ListOf ==
  ASSUME NEW n \in Nat, n > 0, NEW s,
         NEW t \in [1..n -> { k \in Keys : StreamOf[k] = s }]
  PROVE  /\ t \in Seq(Keys) /\ t # <<>>
         /\ \A i \in DOMAIN t : i \in 1..n /\ StreamOf[t[i]] = s
<1>1. DOMAIN t = 1..n /\ t \in Seq(Keys)
  OBVIOUS
<1>2. t # <<>> /\ \A i \in DOMAIN t : StreamOf[t[i]] = s
  BY <1>1
<1> QED BY <1>1, <1>2

\* What a query may be asked to write.
LEMMA KeyListsType ==
  ASSUME NEW kind \in Ops, NEW s \in Streams, NEW t \in KeyLists(kind, s)
  PROVE  /\ t \in Seq(Keys)
         /\ \A i \in DOMAIN t : StreamOf[t[i]] = s
         /\ kind \notin Inserts => NoTwice(t)
         /\ kind \notin {"empty", "drop", "pipeline_update", "pipeline_delete"} =>
              t # <<>>
         /\ kind \in {"update", "delete"} => Len(t) = 1
<1> DEFINE K == { k \in Keys : StreamOf[k] = s }
<1> USE ExecutorAssumption
<1>1. CASE kind = "insert_batch"
  <2>1. PICK n \in 1..MaxBatch : t \in [1..n -> K]
    BY <1>1 DEF KeyLists
  <2>2. n \in Nat /\ n > 0
    BY <2>1
  <2> QED BY <1>1, <2>1, <2>2, ListOf DEF Inserts
<1>2. CASE kind = "upsert"
  <2>1. PICK T \in SUBSET K : Cardinality(T) \in 1..MaxBatch /\ t \in Orders(T)
    BY <1>2 DEF KeyLists
  <2>2. T # {} /\ T \in SUBSET Keys
    BY <2>1, FS_EmptySet
  <2> QED BY <1>2, <2>1, <2>2, OrdersType
<1>3. CASE kind \in {"insert", "update", "delete", "keyed_delete"}
  <2>1. PICK n \in Nat : n > 0 /\ n <= 1 /\ t \in [1..n -> K]
    BY <1>3 DEF KeyLists
  <2>2. /\ t \in Seq(Keys) /\ t # <<>>
        /\ \A i \in DOMAIN t : i \in 1..n /\ StreamOf[t[i]] = s
    BY <2>1, ListOf
  <2>3. NoTwice(t) /\ Len(t) = 1
    BY <2>1, <2>2 DEF NoTwice
  <2> QED BY <1>3, <2>2, <2>3
<1>4. CASE kind \in {"empty", "drop", "pipeline_update", "pipeline_delete"}
  <2>1. t = <<>>
    BY <1>4 DEF KeyLists, Inserts
  <2> QED BY <1>4, <2>1 DEF NoTwice
<1> QED BY <1>1, <1>2, <1>3, <1>4 DEF Inserts, Holders, Unlocked

-----------------------------------------------------------------------------
(* Types.                                                                  *)

\* The next write of a query under way.
LEMMA WritesType ==
  ASSUME ExecTypeOK, NEW c \in Calls, ListFits(c), Listed(c), job[c] \in Job
  PROVE  /\ todo[c] \in Seq(Keys) /\ todo[c] # <<>> /\ Head(todo[c]) \in Keys
         /\ NextWrites(c) \in Seq(Keys) /\ NextWrites(c) # <<>>
         /\ Deletes(c) \in BOOLEAN
         /\ \A j \in DOMAIN NextWrites(c) :
              j \in DOMAIN todo[c] /\ NextWrites(c)[j] = todo[c][j]
<1>1. todo[c] \in Seq(Keys) /\ todo[c] # <<>>
  BY DEF ExecTypeOK, ListFits, Busy, Listed, AtRest
<1>2. PICK n \in Nat : n = Len(todo[c]) /\ todo[c] \in [1..n -> Keys] /\ n > 0
  BY <1>1
<1>3. Head(todo[c]) = todo[c][1] /\ Head(todo[c]) \in Keys
  BY <1>1, <1>2
<1>4. CASE OneByOne(c)
  <2>1. NextWrites(c) = <<todo[c][1]>>
    BY <1>3, <1>4 DEF NextWrites
  <2> QED BY <1>1, <1>2, <1>3, <2>1 DEF Deletes
<1>5. CASE ~OneByOne(c)
  BY <1>1, <1>3, <1>5 DEF NextWrites, Deletes
<1> QED BY <1>4, <1>5

\* The keys of a list are in the stream of its first.
LEMMA WriteStreamType ==
  ASSUME ExecInv, NEW c \in Calls, Listed(c)
  PROVE  /\ WriteStream(c) \in Streams /\ todo[c] # <<>>
         /\ \A i \in DOMAIN todo[c] : StreamOf[todo[c][i]] = WriteStream(c)
<1>1. ExecTypeOK /\ ListFits(c) /\ Busy(c) /\ job[c] \in Job
  BY DEF ExecInv, ProtocolInv, CallFits, StageFits, Listed, Busy, AtRest
<1>2. todo[c] \in Seq(Keys) /\ todo[c] # <<>> /\ Head(todo[c]) \in Keys
  BY <1>1, WritesType
<1>3. Head(todo[c]) = todo[c][1] /\ 1 \in DOMAIN todo[c]
  BY <1>2
<1> QED BY <1>1, <1>2, <1>3, ExecutorAssumption DEF WriteStream, ListFits

\* The write the flusher applies next is one of a query that waits.
LEMMA FrontType ==
  ASSUME ExecInv, queue # <<>>, NEW c, c = Head(queue).call
  PROVE  /\ c \in Calls /\ pc[c] = "wait" /\ answer[c] = "none" /\ Listed(c) /\ Busy(c)
         /\ Head(queue) = queue[1] /\ 1 \in DOMAIN queue
         /\ Head(queue).del = Deletes(c) /\ Head(queue).keys = NextWrites(c)
         /\ applied \in Nat /\ applied < Len(NextWrites(c))
         /\ applied + 1 \in DOMAIN NextWrites(c) /\ applied + 1 \in DOMAIN todo[c]
         /\ NextKey = todo[c][applied + 1] /\ NextKey \in Keys
         /\ Tail(queue) \in Seq(Request)
<1>1. queue \in Seq(Request) /\ applied \in Nat
  BY DEF ExecInv, ExecTypeOK
<1>2. Head(queue) = queue[1] /\ 1 \in DOMAIN queue /\ Head(queue) \in Request
      /\ Tail(queue) \in Seq(Request)
  BY <1>1
<1>3. c \in Calls /\ pc[c] = "wait" /\ answer[c] = "none"
      /\ Head(queue).del = Deletes(c) /\ Head(queue).keys = NextWrites(c)
  BY <1>2 DEF ExecInv, ProtocolInv, Queued, Request
<1>4. Listed(c) /\ Busy(c)
  BY <1>3 DEF Listed, Busy, AtRest
<1>5. ListFits(c) /\ job[c] \in Job
  BY <1>3, <1>4 DEF ExecInv, ProtocolInv, CallFits, StageFits
<1>6. applied < Len(NextWrites(c))
  BY <1>3 DEF ExecInv, ProtocolInv, Progress
<1>7. /\ NextWrites(c) \in Seq(Keys)
      /\ \A j \in DOMAIN NextWrites(c) :
           j \in DOMAIN todo[c] /\ NextWrites(c)[j] = todo[c][j]
  BY <1>3, <1>4, <1>5, WritesType DEF ExecInv
<1>8. applied + 1 \in DOMAIN NextWrites(c)
  BY <1>1, <1>6, <1>7
<1>9. NextWrites(c)[applied + 1] \in Keys
  BY <1>7, <1>8
<1> QED BY <1>1, <1>2, <1>3, <1>4, <1>6, <1>7, <1>8, <1>9 DEF NextKey

\* A write is the last of its request, which is answered, or it is not.
LEMMA ApplyCases ==
  ASSUME ApplyWrite, NEW c, c = Head(queue).call
  PROVE  \/ /\ applied + 1 = Len(Head(queue).keys)
            /\ applied' = 0 /\ queue' = Tail(queue) /\ answer' = [answer EXCEPT ![c] = "ok"]
         \/ /\ applied + 1 # Len(Head(queue).keys)
            /\ applied' = applied + 1 /\ queue' = queue /\ answer' = answer
<1>1. CASE applied + 1 = Len(Head(queue).keys)
  <2>1. applied' = 0
    BY <1>1 DEF ApplyWrite
  <2>2. queue' = Tail(queue)
    BY <1>1 DEF ApplyWrite
  <2>3. answer' = [answer EXCEPT ![c] = "ok"]
    BY <1>1 DEF ApplyWrite
  <2> QED BY <1>1, <2>1, <2>2, <2>3
<1>2. CASE applied + 1 # Len(Head(queue).keys)
  <2>1. applied' = applied + 1
    BY <1>2 DEF ApplyWrite
  <2>2. queue' = queue /\ answer' = answer
    BY <1>2 DEF ApplyWrite
  <2> QED BY <1>2, <2>1, <2>2
<1> QED BY <1>1, <1>2

\* A sequence without its i-th element.
Without(q, i) == SubSeq(q, 1, i - 1) \o SubSeq(q, i + 1, Len(q))

\* The other elements remain, in their order.
LEMMA WithoutOne ==
  ASSUME NEW T, NEW q \in Seq(T), NEW i \in DOMAIN q
  PROVE  /\ Without(q, i) \in Seq(T) /\ i \in Nat /\ i >= 1
         /\ Len(Without(q, i)) = Len(q) - 1
         /\ \A j \in DOMAIN Without(q, i) :
              Without(q, i)[j] = IF j < i THEN q[j] ELSE q[j + 1]
         /\ \A j \in DOMAIN Without(q, i) :
              /\ j \in DOMAIN q /\ j + 1 \in DOMAIN q /\ j \in Nat
         /\ \A j \in DOMAIN q : j < i => j \in DOMAIN Without(q, i)
         /\ \A j \in DOMAIN q : j > i => j - 1 \in DOMAIN Without(q, i) /\ j - 1 >= i
<1>1. PICK m \in Nat : m = Len(q) /\ q \in [1..m -> T]
  OBVIOUS
<1>2. i \in 1..m
  BY <1>1
<1>3. SubSeq(q, 1, i - 1) \in Seq(T) /\ Len(SubSeq(q, 1, i - 1)) = i - 1
      /\ \A j \in 1..(i - 1) : SubSeq(q, 1, i - 1)[j] = q[j]
  BY <1>1, <1>2
<1>4. SubSeq(q, i + 1, m) \in Seq(T) /\ Len(SubSeq(q, i + 1, m)) = m - i
      /\ \A j \in 1..(m - i) : SubSeq(q, i + 1, m)[j] = q[j + i]
  <2>1. i + 1 \in Int /\ m \in Int /\ \A j \in (i + 1)..m : q[j] \in T
    BY <1>1, <1>2
  <2>2. /\ SubSeq(q, i + 1, m) \in Seq(T)
        /\ Len(SubSeq(q, i + 1, m)) = IF i + 1 <= m THEN m - (i + 1) + 1 ELSE 0
        /\ \A j \in 1..(m - (i + 1) + 1) : SubSeq(q, i + 1, m)[j] = q[(i + 1) + j - 1]
    BY <2>1, SubSeqProperties
  <2> QED BY <1>1, <1>2, <2>2
<1>5. DEFINE a == SubSeq(q, 1, i - 1)
             b == SubSeq(q, i + 1, Len(q))
<1> HIDE DEF a, b
<1>6. a \in Seq(T) /\ b \in Seq(T) /\ Len(a) = i - 1 /\ Len(b) = m - i
      /\ (\A j \in 1..(i - 1) : a[j] = q[j]) /\ (\A j \in 1..(m - i) : b[j] = q[j + i])
  BY <1>1, <1>3, <1>4 DEF a, b
<1>7. a \o b \in Seq(T) /\ Len(a \o b) = m - 1
      /\ \A j \in 1..(m - 1) : (a \o b)[j] = IF j < i THEN q[j] ELSE q[j + 1]
  <2>1. /\ a \o b \in Seq(T) /\ Len(a \o b) = Len(a) + Len(b)
        /\ \A j \in 1..(Len(a) + Len(b)) :
             (a \o b)[j] = IF j <= Len(a) THEN a[j] ELSE b[j - Len(a)]
    BY <1>6, ConcatProperties
  <2>2. Len(a) + Len(b) = m - 1
    BY <1>1, <1>2, <1>6
  <2>3. ASSUME NEW j \in 1..(m - 1)
        PROVE  (a \o b)[j] = IF j < i THEN q[j] ELSE q[j + 1]
    <3>1. (a \o b)[j] = IF j <= i - 1 THEN a[j] ELSE b[j - (i - 1)]
      BY <1>6, <2>1, <2>2
    <3>2. CASE j < i
      BY <1>1, <1>2, <1>6, <3>1, <3>2
    <3>3. CASE ~(j < i)
      <4>1. j - (i - 1) \in 1..(m - i) /\ (j - (i - 1)) + i = j + 1
        BY <1>1, <1>2, <3>3
      <4>2. b[j - (i - 1)] = q[j + 1]
        BY <1>6, <4>1
      <4> QED BY <1>1, <1>2, <3>1, <3>3, <4>2
    <3> QED BY <3>2, <3>3
  <2>4. a \o b \in Seq(T) /\ Len(a \o b) = m - 1
    BY <2>1, <2>2
  <2> QED BY <2>3, <2>4
<1>8. Without(q, i) = a \o b
  BY DEF Without, a, b
<1> DEFINE w == a \o b
<1> HIDE DEF w
<1>9. /\ w \in Seq(T) /\ Len(w) = m - 1
      /\ \A j \in 1..(m - 1) : w[j] = IF j < i THEN q[j] ELSE q[j + 1]
  BY <1>7 DEF w
<1>10. DOMAIN w = 1..(m - 1) /\ DOMAIN q = 1..m
  BY <1>1, <1>9
<1>11. Without(q, i) = w
  BY <1>8 DEF w
<1>12. \A j \in 1..(m - 1) : w[j] = IF j < i THEN q[j] ELSE q[j + 1]
  BY <1>9
<1>13. Len(w) = Len(q) - 1 /\ DOMAIN w = 1..(m - 1) /\ i \in Nat /\ i >= 1
  BY <1>1, <1>2, <1>9, <1>10
<1>14. \A j \in 1..(m - 1) : j \in 1..m /\ j + 1 \in 1..m /\ j \in Nat
  BY <1>1
<1>15. \A j \in 1..m : /\ j < i => j \in 1..(m - 1)
                       /\ j > i => j - 1 \in 1..(m - 1) /\ j - 1 >= i
  BY <1>1, <1>2
<1> QED BY <1>9, <1>10, <1>11, <1>12, <1>13, <1>14, <1>15

\* The key an insert checks next.
LEMMA NextToReserveType ==
  ASSUME ExecInv, NEW c \in Calls, pc[c] \in {"look", "reserve"}, Is(c, Inserts)
  PROVE  \E n \in Nat : /\ n = Cardinality(reserved[c]) /\ n + 1 \in DOMAIN todo[c]
                        /\ NextToReserve(c) = todo[c][n + 1]
                        /\ NextToReserve(c) \in Keys
<1>1. Busy(c) /\ ~Listed(c) /\ todo[c] \in Seq(Keys)
  BY DEF Busy, AtRest, Listed, ExecInv, ExecTypeOK
<1>2. PICK n \in 0..Len(todo[c]) : Cardinality(reserved[c]) = n /\ n # Len(todo[c])
  BY <1>1 DEF ExecInv, ProtocolInv, CallFits, PrefixReserved
<1>3. n + 1 \in DOMAIN todo[c] /\ n \in Nat
  BY <1>1, <1>2
<1>4. todo[c][n + 1] \in Keys
  BY <1>1, <1>3
<1> QED BY <1>2, <1>3, <1>4 DEF NextToReserve

\* Every query that leaves keeps the types.
LEMMA LeaveType ==
  ASSUME ExecTypeOK, NEW c \in Calls, NEW how \in {"ok", "err"}, Leave(c, how)
  PROVE  /\ lock' \in Calls \cup {Nobody} /\ pending' \subseteq Keys
         /\ pc' \in [Calls -> Places] /\ job' \in [Calls -> Job \cup {<<>>}]
         /\ todo' \in [Calls -> Seq(Keys)] /\ seen' \in [Calls -> SUBSET Keys]
         /\ stale' \in [Calls -> SUBSET Keys] /\ reserved' \in [Calls -> SUBSET Keys]
<1>1. <<>> \in Seq(Keys) /\ how \in Places
  BY DEF Places, AtRest
<1> QED BY <1>1 DEF ExecTypeOK, Leave, Goto, Released, Unreserved

\* A query that goes on with its list, or stays at it, keeps the types.
LEMMA GoOnType ==
  ASSUME ExecTypeOK, NEW c \in Calls, NEW where \in Places, StayAt(c, where)
  PROVE  /\ lock' \in Calls \cup {Nobody} /\ pending' \subseteq Keys
         /\ pc' \in [Calls -> Places] /\ job' \in [Calls -> Job \cup {<<>>}]
         /\ todo' \in [Calls -> Seq(Keys)] /\ seen' \in [Calls -> SUBSET Keys]
         /\ stale' \in [Calls -> SUBSET Keys] /\ reserved' \in [Calls -> SUBSET Keys]
BY DEF ExecTypeOK, StayAt, Goto

\* A new list keeps the types.
LEMMA ListType ==
  ASSUME ExecTypeOK, NEW c \in Calls, NEW T \in SUBSET Keys, GoOnWith(c, T)
  PROVE  /\ lock' \in Calls \cup {Nobody} /\ pending' \subseteq Keys
         /\ pc' \in [Calls -> Places] /\ job' \in [Calls -> Job \cup {<<>>}]
         /\ todo' \in [Calls -> Seq(Keys)] /\ seen' \in [Calls -> SUBSET Keys]
         /\ stale' \in [Calls -> SUBSET Keys] /\ reserved' \in [Calls -> SUBSET Keys]
<1>1. CASE /\ T # {} /\ Goto(c, "register") /\ Look(c, T)
           /\ \E t \in Orders(T) : todo' = [todo EXCEPT ![c] = t]
           /\ UNCHANGED <<lock, pending, reserved, stale, job>>
  <2>1. PICK t \in Orders(T) : todo' = [todo EXCEPT ![c] = t]
    BY <1>1
  <2>2. t \in Seq(Keys)
    BY <2>1, OrdersType
  <2> QED BY <1>1, <2>1, <2>2 DEF ExecTypeOK, Goto, Look, Places
<1>2. CASE StayAt(c, "unlist")
  BY <1>2, GoOnType DEF Places
<1>3. CASE Leave(c, "ok")
  BY <1>3, LeaveType
<1> QED BY <1>1, <1>2, <1>3 DEF GoOnWith

\* Keys made up are keys of one stream, and there are some.
LEMMA MadeUpType ==
  ASSUME ExecTypeOK, NEW c \in Calls, NEW T \in MadeUp(c)
  PROVE  T \in SUBSET Keys /\ T # {} /\ \A k, l \in T : StreamOf[k] = StreamOf[l]
<1> DEFINE K == { k \in Keys : StreamOf[k] = job[c].stream }
           n == Cardinality(LiveKeys(job[c].stream))
<1>1. n \in Nat
  BY Finite DEF LiveKeys, ExecTypeOK
<1>2. CASE T \in SUBSET K /\ Cardinality(T) \in 1..n
  BY <1>1, <1>2, FS_EmptySet
<1>3. CASE \E k \in Keys : T = {k}
  BY <1>3
<1> QED BY <1>2, <1>3 DEF MadeUp

\* They keep the types.
LEMMA MadeUpKeepsTypes ==
  ASSUME ExecTypeOK, NEW c \in Calls, NEW T \in MadeUp(c), GoOnWithMadeUp(c, T),
         job[c] \in Job
  PROVE  /\ lock' \in Calls \cup {Nobody} /\ pending' \subseteq Keys
         /\ pc' \in [Calls -> Places] /\ job' \in [Calls -> Job \cup {<<>>}]
         /\ todo' \in [Calls -> Seq(Keys)] /\ seen' \in [Calls -> SUBSET Keys]
         /\ stale' \in [Calls -> SUBSET Keys] /\ reserved' \in [Calls -> SUBSET Keys]
<1>1. T \in SUBSET Keys
  BY MadeUpType
<1>2. PICK t \in Orders(T) : todo' = [todo EXCEPT ![c] = t]
  BY DEF GoOnWithMadeUp
<1>3. t \in Seq(Keys)
  BY <1>1, <1>2, OrdersType
<1>4. [job[c] EXCEPT !.made = TRUE] \in Job
  BY DEF Job
<1>5. job' \in [Calls -> Job \cup {<<>>}]
  BY <1>4 DEF GoOnWithMadeUp, ExecTypeOK
<1> QED BY <1>1, <1>2, <1>3, <1>5 DEF GoOnWithMadeUp, ExecTypeOK, Goto, Look, Places

\* Every step keeps the types.
LEMMA NextTypes == ExecInv /\ [Next]_vars => ExecTypeOK'
<1> SUFFICES ASSUME ExecInv, [Next]_vars PROVE ExecTypeOK'
  OBVIOUS
<1> USE DEF disk
<1>0. ExecTypeOK
  BY DEF ExecInv
<1>1. ASSUME NEW c \in Calls, Start(c) PROVE ExecTypeOK'
  <2>1. PICK kind \in Ops, s \in Streams :
          /\ job' = [job EXCEPT ![c] = [kind |-> kind, stream |-> s, made |-> FALSE]]
          /\ \E t \in KeyLists(kind, s) : todo' = [todo EXCEPT ![c] = t]
          /\ \E where \in {"err", "register", "look", "lock"} : Goto(c, where)
    BY <1>1 DEF Start
  <2>2. PICK t \in KeyLists(kind, s) : todo' = [todo EXCEPT ![c] = t]
    BY <2>1
  <2>3. t \in Seq(Keys)
    BY <2>2, KeyListsType
  <2>4. pc' \in [Calls -> Places]
    BY <1>0, <2>1 DEF Goto, ExecTypeOK, Places, AtRest
  <2>5. job' \in [Calls -> Job \cup {<<>>}]
    BY <1>0, <2>1 DEF ExecTypeOK, Job
  <2> QED BY <1>0, <1>1, <2>2, <2>3, <2>4, <2>5 DEF Start, ExecTypeOK, shared
<1>2. ASSUME NEW c \in Calls, Lock(c) PROVE ExecTypeOK'
  BY <1>0, <1>2 DEF Lock, Goto, ExecTypeOK, Places
<1>3. ASSUME NEW c \in Calls, InsertLooks(c) PROVE ExecTypeOK'
  <2>1. CASE Leave(c, "err")
    BY <1>0, <1>3, <2>1, LeaveType DEF InsertLooks, ExecTypeOK
  <2>2. CASE /\ Goto(c, "reserve") /\ Look(c, {NextToReserve(c)})
             /\ UNCHANGED <<lock, pending, reserved, stale, todo, job>>
    <3>1. NextToReserve(c) \in Keys
      BY <1>3, NextToReserveType DEF InsertLooks, Is
    <3> QED BY <1>0, <1>3, <2>2, <3>1 DEF InsertLooks, Look, Goto, ExecTypeOK, Places
  <2> QED BY <1>3, <2>1, <2>2 DEF InsertLooks
<1>4. ASSUME NEW c \in Calls, InsertReserves(c) PROVE ExecTypeOK'
  <2>1. CASE Leave(c, "err") /\ UNCHANGED races
    BY <1>0, <1>4, <2>1, LeaveType DEF InsertReserves, ExecTypeOK
  <2>2. CASE ~Taken(NextToReserve(c))
    <3>1. NextToReserve(c) \in Keys
      BY <1>4, NextToReserveType DEF InsertReserves, Is, ExecInv, ProtocolInv, CallFits, StageFits
    <3>2. \E where \in {"look", "register", "check"} : Goto(c, where)
      BY <1>4, <2>2 DEF InsertReserves
    <3>3. pc' \in [Calls -> Places]
      BY <1>0, <3>2 DEF Goto, ExecTypeOK, Places
    <3>4. races' \subseteq Races
      BY <1>0, <1>4, <2>2 DEF InsertReserves, Note, Races, ExecTypeOK
    <3>5. pending' \subseteq Keys /\ reserved' \in [Calls -> SUBSET Keys]
      <4>1. /\ pending' = pending \cup {NextToReserve(c)}
            /\ reserved' = [reserved EXCEPT ![c] = @ \cup {NextToReserve(c)}]
        BY <1>4, <2>2 DEF InsertReserves
      <4> QED BY <1>0, <3>1, <4>1 DEF ExecTypeOK
    <3>6. UNCHANGED <<lock, streams, index, queue, applied, failed, recorded, reopens, job,
                      todo, seen, stale, answer>>
      BY <1>0, <1>4, <2>2 DEF InsertReserves
    <3> QED BY <1>0, <3>3, <3>4, <3>5, <3>6 DEF ExecTypeOK
  <2> QED BY <1>4, <2>1, <2>2 DEF InsertReserves
<1>5. ASSUME NEW c \in Calls, LookUp(c) PROVE ExecTypeOK'
  <2>1. CASE Leave(c, "ok") \/ Leave(c, "err")
    BY <1>0, <1>5, <2>1, LeaveType DEF LookUp, ExecTypeOK
  <2>2. CASE /\ Head(todo[c]) \in index
             /\ Goto(c, "register") /\ Look(c, {Head(todo[c])})
             /\ UNCHANGED <<lock, pending, reserved, stale, todo, job>>
    BY <1>0, <1>5, <2>2 DEF LookUp, Look, Goto, ExecTypeOK, Places
  <2> QED BY <1>5, <2>1, <2>2 DEF LookUp
<1>6. ASSUME NEW c \in Calls, ListKeys(c) PROVE ExecTypeOK'
  <2>1. LiveKeys(job[c].stream) \in SUBSET Keys
    BY <1>0 DEF LiveKeys, ExecTypeOK
  <2>2. CASE Leave(c, "err")
    BY <1>0, <1>6, <2>2, LeaveType DEF ListKeys, ExecTypeOK
  <2>3. CASE GoOnWith(c, LiveKeys(job[c].stream))
    BY <1>0, <1>6, <2>1, <2>3, ListType DEF ListKeys, ExecTypeOK
  <2> QED BY <1>6, <2>2, <2>3 DEF ListKeys
<1>7. ASSUME NEW c \in Calls, Scan(c) PROVE ExecTypeOK'
  <2>1. LiveKeys(job[c].stream) \in SUBSET Keys
    BY <1>0 DEF LiveKeys, ExecTypeOK
  <2>2. CASE Leave(c, "err")
    BY <1>0, <1>7, <2>2, LeaveType DEF Scan, ExecTypeOK
  <2>3. ASSUME NEW T \in SUBSET LiveKeys(job[c].stream), GoOnWith(c, T)
        PROVE  ExecTypeOK'
    <3>1. T \in SUBSET Keys
      BY <2>1, <2>3
    <3> QED BY <1>0, <1>7, <2>3, <3>1, ListType DEF Scan, ExecTypeOK
  <2>4. ASSUME NEW T \in MadeUp(c), GoOnWithMadeUp(c, T)
        PROVE  ExecTypeOK'
    <3>1. job[c] \in Job
      BY <1>7 DEF Scan, Busy, AtRest, ExecInv, ProtocolInv, CallFits, StageFits
    <3> QED BY <1>0, <1>7, <2>4, <3>1, MadeUpKeepsTypes DEF Scan, ExecTypeOK
  <2> QED BY <1>7, <2>2, <2>3, <2>4 DEF Scan
<1>8. ASSUME NEW c \in Calls, Register(c) PROVE ExecTypeOK'
  <2>1. WriteStream(c) \in Streams
    BY <1>8, WriteStreamType DEF Register, Listed
  <2>2. streams' \subseteq Streams
    BY <1>0, <1>8, <2>1 DEF Register, ExecTypeOK
  <2>3. CASE Leave(c, "err")
    BY <1>0, <1>8, <2>2, <2>3, LeaveType DEF Register, ExecTypeOK
  <2>4. CASE StayAt(c, "send")
    BY <1>0, <1>8, <2>2, <2>4, GoOnType DEF Register, ExecTypeOK, Places
  <2> QED BY <1>8, <2>3, <2>4 DEF Register
<1>9. ASSUME NEW c \in Calls, CheckBatch(c) PROVE ExecTypeOK'
  <2>1. CASE Leave(c, "err")
    BY <1>0, <1>9, <2>1, LeaveType DEF CheckBatch, ExecTypeOK
  <2>2. CASE StayAt(c, "register_batch")
    BY <1>0, <1>9, <2>2, GoOnType DEF CheckBatch, ExecTypeOK, Places
  <2> QED BY <1>9, <2>1, <2>2 DEF CheckBatch
<1>10. ASSUME NEW c \in Calls, RegisterBatch(c) PROVE ExecTypeOK'
  <2>1. WriteStream(c) \in Streams
    BY <1>10, WriteStreamType DEF RegisterBatch, Listed
  <2> QED BY <1>0, <1>10, <2>1, GoOnType DEF RegisterBatch, ExecTypeOK, Places
<1>11. ASSUME NEW c \in Calls, Send(c) PROVE ExecTypeOK'
  <2>1. CASE Leave(c, "err") /\ UNCHANGED queue
    BY <1>0, <1>11, <2>1, LeaveType DEF Send, ExecTypeOK
  <2>2. CASE ~failed
    <3>1. Listed(c) /\ Busy(c) /\ job[c] \in Job
      BY <1>11 DEF Send, Busy, AtRest, Listed, ExecInv, ProtocolInv, CallFits, StageFits
    <3>2. NextWrites(c) \in Seq(Keys) /\ Deletes(c) \in BOOLEAN
      BY <1>0, <3>1, WritesType DEF ExecInv, ProtocolInv, CallFits
    <3>3. PICK r : /\ r = [call |-> c, del |-> Deletes(c), keys |-> NextWrites(c)]
                   /\ queue' = Append(queue, r)
      BY <1>11, <2>2 DEF Send
    <3>4. r \in Request /\ queue \in Seq(Request)
      BY <1>0, <3>2, <3>3 DEF Request, ExecTypeOK
    <3>5. queue' \in Seq(Request)
      BY <3>3, <3>4
    <3> QED BY <1>0, <1>11, <2>2, <3>5
          DEF Send, ExecTypeOK, Goto, Places, LockAfterSend
  <2> QED BY <1>11, <2>1, <2>2 DEF Send
<1>12. ASSUME NEW c \in Calls, Answered(c) PROVE ExecTypeOK'
  <2>1. answer' \in [Calls -> {"none", "ok", "err"}]
    BY <1>0, <1>12 DEF Answered, ExecTypeOK
  <2>2. CASE Leave(c, "ok") \/ Leave(c, "err")
    BY <1>0, <1>12, <2>1, <2>2, LeaveType DEF Answered, ExecTypeOK
  <2>3. CASE StayAt(c, "unlist")
    BY <1>0, <1>12, <2>1, <2>3, GoOnType DEF Answered, ExecTypeOK, Places
  <2>4. CASE /\ todo' = [todo EXCEPT ![c] = Tail(@)] /\ Goto(c, "register")
             /\ UNCHANGED <<lock, pending, reserved, seen, stale, job>>
             /\ Len(todo[c]) > 1
    <3>1. todo[c] \in Seq(Keys) /\ todo[c] # <<>>
      BY <1>0, <2>4 DEF ExecTypeOK
    <3>2. Tail(todo[c]) \in Seq(Keys)
      BY <3>1
    <3> QED BY <1>0, <1>12, <2>1, <2>4, <3>2 DEF Answered, ExecTypeOK, Goto, Places
  <2> QED BY <1>12, <2>2, <2>3, <2>4 DEF Answered
<1>13. ASSUME NEW c \in Calls, Unlist(c) PROVE ExecTypeOK'
  <2>1. races' \subseteq Races
    BY <1>0, <1>13 DEF Unlist, Note, Races, ExecTypeOK
  <2> QED BY <1>0, <1>13, <2>1, LeaveType DEF Unlist, ExecTypeOK
<1>14. CASE ApplyWrite
  <2>0. PICK c : c = Head(queue).call
    OBVIOUS
  <2>1. /\ c \in Calls /\ NextKey \in Keys /\ Tail(queue) \in Seq(Request)
        /\ applied + 1 \in Nat
    BY <1>14, <2>0, FrontType DEF ApplyWrite
  <2>2. index' \subseteq Keys /\ recorded' \subseteq Streams
    BY <1>0, <1>14, <2>1, ExecutorAssumption DEF ApplyWrite, ExecTypeOK
  <2>3. seen' \in [Calls -> SUBSET Keys] /\ stale' \in [Calls -> SUBSET Keys]
    BY <1>0, <1>14, <2>0, <2>1 DEF ApplyWrite, ExecTypeOK
  <2>4. queue' \in Seq(Request) /\ applied' \in Nat
        /\ answer' \in [Calls -> {"none", "ok", "err"}]
    <3>1. \/ applied' = 0 /\ queue' = Tail(queue) /\ answer' = [answer EXCEPT ![c] = "ok"]
          \/ applied' = applied + 1 /\ queue' = queue /\ answer' = answer
      BY <1>14, <2>0, ApplyCases
    <3>2. queue' \in Seq(Request)
      BY <1>0, <2>1, <3>1 DEF ExecTypeOK
    <3>3. applied' \in Nat
      BY <2>1, <3>1 DEF ExecTypeOK
    <3>4. answer' \in [Calls -> {"none", "ok", "err"}]
      BY <1>0, <3>1 DEF ExecTypeOK
    <3> QED BY <3>2, <3>3, <3>4
  <2>5. races' \subseteq Races
    BY <1>0, <1>14 DEF ApplyWrite, Note, Races, ExecTypeOK
  <2> QED BY <1>0, <1>14, <2>2, <2>3, <2>4, <2>5 DEF ApplyWrite, ExecTypeOK
<1>15. CASE Refuse
  <2>1. PICK i \in DOMAIN queue : /\ queue' = Without(queue, i)
                                  /\ answer' = [answer EXCEPT ![queue[i].call] = "err"]
    BY <1>15 DEF Refuse, Without
  <2>2. queue' \in Seq(Request)
    BY <1>0, <2>1, WithoutOne DEF ExecTypeOK
  <2> QED BY <1>0, <1>15, <2>1, <2>2 DEF Refuse, ExecTypeOK
<1>16. CASE FlushFails
  <2>1. answer' \in [Calls -> {"none", "ok", "err"}] /\ queue' \in Seq(Request)
    BY <1>0, <1>16 DEF FlushFails, AnswersToAll, ExecTypeOK
  <2> QED BY <1>0, <1>16, <2>1 DEF FlushFails, ExecTypeOK
<1>17. CASE Reopen
  BY <1>0, <1>17 DEF Reopen, ExecTypeOK, local
<1>18. CASE UNCHANGED vars
  BY <1>0, <1>18 DEF ExecTypeOK, vars, shared, local
<1> QED BY <1>1, <1>2, <1>3, <1>4, <1>5, <1>6, <1>7, <1>8, <1>9, <1>10, <1>11, <1>12,
           <1>13, <1>14, <1>15, <1>16, <1>17, <1>18 DEF Next, CallStep

-----------------------------------------------------------------------------
(* What a step of one caller leaves alone.                                 *)

\* The step changes nothing of the call d.
Same(d) ==
  /\ pc'[d] = pc[d] /\ job'[d] = job[d] /\ todo'[d] = todo[d] /\ seen'[d] = seen[d]
  /\ stale'[d] = stale[d] /\ reserved'[d] = reserved[d] /\ answer'[d] = answer[d]

\* It has no request in the channel.
Free(c) == ~(pc[c] = "wait" /\ answer[c] = "none")

\* A call that nothing changes of fits as before, ...
LEMMA SameFits ==
  ASSUME NEW d, Same(d), StageFits(d), ListFits(d), PrefixReserved(d)
  PROVE  StageFits(d)' /\ ListFits(d)' /\ PrefixReserved(d)'
<1>1. StageFits(d)'
  BY DEF Same, StageFits, Busy, Is
<1>2. ListFits(d)'
  BY DEF Same, ListFits, Busy, Is, Listed
<1>3. PrefixReserved(d)'
  <2>1. (Busy(d) /\ Is(d, Inserts))' <=> Busy(d) /\ Is(d, Inserts)
    BY DEF Same, Busy, Is
  <2>2. Listed(d)' <=> Listed(d)
    BY DEF Same, Listed
  <2>3. todo'[d] = todo[d] /\ reserved'[d] = reserved[d]
    BY DEF Same
  <2> SUFFICES ASSUME Busy(d), Is(d, Inserts)
               PROVE  \E n \in 0..Len(todo[d]) :
                        /\ Cardinality(reserved[d]) = n
                        /\ \A i \in 1..n : todo[d][i] \in reserved[d]
                        /\ \A k \in reserved[d] : \E i \in 1..n : todo[d][i] = k
                        /\ \A i, j \in 1..n : todo[d][i] = todo[d][j] => i = j
                        /\ Listed(d) <=> n = Len(todo[d])
    BY <2>1, <2>2, <2>3, Zenon DEF PrefixReserved
  <2> QED BY Zenon DEF PrefixReserved
<1> QED BY <1>1, <1>2, <1>3

\* ... as long as it has written as much ...
LEMMA SameInMind ==
  ASSUME NEW d, Same(d), InMind(d), Done(d)' = Done(d)
  PROVE  InMind(d)'
BY DEF Same, InMind, Busy, Is, Listed, NextToReserve

\* ... and no live key comes or goes.
LEMMA SameUndisturbed ==
  ASSUME NEW d, Same(d), Undisturbed(d), index' = index
  PROVE  Undisturbed(d)'
BY DEF Same, Undisturbed, Busy, Is

\* Without a change of the channel a call has written what it had.
LEMMA SameDone ==
  ASSUME NEW d, Same(d), queue' = queue, applied' = applied
  PROVE  Done(d)' = Done(d)
BY DEF Same, Done, NextWrites, OneByOne

\* A step of a call that has no request in the channel, neither before nor after.
LEMMA CallerStep ==
  ASSUME ExecInv, NEW c \in Calls, \A d \in Calls \ {c} : Same(d),
         queue' = queue, applied' = applied, Free(c), Free(c)', CallFits(c)'
  PROVE  (\A d \in Calls : CallFits(d)') /\ Queued(queue)' /\ Progress'
<1>1. ASSUME NEW d \in Calls PROVE CallFits(d)'
  <2>1. CASE d = c
    BY <2>1
  <2>2. CASE d # c
    <3>1. Same(d) /\ CallFits(d)
      BY <2>2 DEF ExecInv, ProtocolInv
    <3> QED BY <3>1, SameFits, SameInMind, SameDone DEF CallFits
  <2> QED BY <2>1, <2>2
<1>2. Queued(queue)'
  <2>1. ASSUME NEW i \in DOMAIN queue, NEW d, d = queue[i].call
        PROVE  /\ pc'[d] = "wait" /\ answer'[d] = "none"
               /\ queue[i].del = Deletes(d)' /\ queue[i].keys = NextWrites(d)'
    <3>1. /\ pc[d] = "wait" /\ answer[d] = "none"
          /\ queue[i].del = Deletes(d) /\ queue[i].keys = NextWrites(d)
      BY <2>1 DEF ExecInv, ProtocolInv, Queued
    <3>2. d \in Calls \ {c}
      <4>1. queue \in Seq(Request)
        BY DEF ExecInv, ExecTypeOK
      <4>2. queue[i] \in Request
        BY <2>1, <4>1
      <4> QED BY <2>1, <3>1, <4>2 DEF Free, Request
    <3> QED BY <3>1, <3>2 DEF Same, Deletes, NextWrites, OneByOne
  <2>2. ASSUME NEW d \in Calls, pc'[d] = "wait", answer'[d] = "none"
        PROVE  \E i \in DOMAIN queue : queue[i].call = d
    <3>1. d # c
      BY <2>2 DEF Free
    <3>2. pc[d] = "wait" /\ answer[d] = "none"
      BY <2>2, <3>1 DEF Same
    <3> QED BY <3>2 DEF ExecInv, ProtocolInv, Queued
  <2>3. \A i, j \in DOMAIN queue : queue[i].call = queue[j].call => i = j
    BY DEF ExecInv, ProtocolInv, Queued
  <2>4. ASSUME NEW i \in DOMAIN queue, NEW j \in DOMAIN queue, i < j
        PROVE  Is(queue[i].call, Holders)' => ~Is(queue[j].call, Inserts)'
    <3>1. queue[i].call \in Calls \ {c} /\ queue[j].call \in Calls \ {c}
      <4>1. queue \in Seq(Request)
        BY DEF ExecInv, ExecTypeOK
      <4>2. queue[i] \in Request /\ queue[j] \in Request
        BY <4>1
      <4>3. /\ pc[queue[i].call] = "wait" /\ answer[queue[i].call] = "none"
            /\ pc[queue[j].call] = "wait" /\ answer[queue[j].call] = "none"
        BY DEF ExecInv, ProtocolInv, Queued
      <4> QED BY <4>2, <4>3 DEF Free, Request
    <3>2. Is(queue[i].call, Holders) => ~Is(queue[j].call, Inserts)
      BY <2>4 DEF ExecInv, ProtocolInv, Queued
    <3> QED BY <3>1, <3>2 DEF Same, Is
  <2> QED BY <2>1, <2>2, <2>3, <2>4 DEF Queued
<1>3. Progress'
  BY DEF Progress, ExecInv, ProtocolInv
<1> QED BY <1>1, <1>2, <1>3

\* The rest stays as well when the lock and the reservations do.
LEMMA Moves ==
  ASSUME ExecInv, NEW c \in Calls, \A d \in Calls \ {c} : Same(d),
         queue' = queue, applied' = applied, Free(c), Free(c)', CallFits(c)',
         lock' = lock, NeedsLock(c)' <=> NeedsLock(c),
         pending' = pending, reserved' = reserved
  PROVE  ProtocolInv'
<1>1. (\A d \in Calls : CallFits(d)') /\ Queued(queue)' /\ Progress'
  BY CallerStep
<1>2. ASSUME NEW d \in Calls PROVE lock' = d <=> NeedsLock(d)'
  BY DEF ExecInv, ProtocolInv, LockFits, NeedsLock, Busy, Is, Same
<1>3. Reserving'
  BY DEF ExecInv, ProtocolInv, Reserving
<1> QED BY <1>1, <1>2, <1>3 DEF ProtocolInv, LockFits

\* A query that leaves takes nothing with it but its own.
LEMMA Leaves ==
  ASSUME ExecInv, NEW c \in Calls, NEW how \in {"ok", "err"}, Leave(c, how),
         Busy(c), Free(c), queue' = queue, applied' = applied, index' = index,
         answer' = [answer EXCEPT ![c] = "none"]
  PROVE  /\ ProtocolInv'
         /\ (\A d \in Calls : Undisturbed(d)) => (\A d \in Calls : Undisturbed(d))'
         /\ pc' = [pc EXCEPT ![c] = how]
         /\ \A d \in Calls \ {c} : Same(d)
<1>0. ExecTypeOK
  BY DEF ExecInv
<1>1. /\ pc'[c] = how /\ seen'[c] = {} /\ stale'[c] = {} /\ reserved'[c] = {}
      /\ answer'[c] = "none" /\ ~Busy(c)' /\ pc' = [pc EXCEPT ![c] = how]
  BY <1>0 DEF ExecTypeOK, Leave, Goto, Busy, AtRest
<1>2. \A d \in Calls \ {c} : Same(d)
  BY <1>0 DEF ExecTypeOK, Leave, Goto, Same
<1>3. CallFits(c)'
  <2>1. StageFits(c)'
    BY <1>1 DEF StageFits, AtRest
  <2>2. ListFits(c)' /\ PrefixReserved(c)'
    BY <1>1 DEF ListFits, PrefixReserved
  <2>3. InMind(c)'
    BY <1>1 DEF InMind, Listed
  <2> QED BY <2>1, <2>2, <2>3 DEF CallFits
<1>4. Free(c)'
  BY <1>1 DEF Free
<1>5. (\A d \in Calls : CallFits(d)') /\ Queued(queue)' /\ Progress'
  BY <1>2, <1>3, <1>4, CallerStep
<1>6. ASSUME NEW d \in Calls PROVE lock' = d <=> NeedsLock(d)'
  <2>1. CASE d = c
    BY <1>1, <2>1, ExecutorAssumption DEF Leave, Released, NeedsLock
  <2>2. CASE d # c
    <3>1. NeedsLock(d)' <=> NeedsLock(d)
      BY <1>2, <2>2 DEF Same, NeedsLock, Busy, Is
    <3>2. lock' = d <=> lock = d
      BY <2>2, ExecutorAssumption DEF Leave, Released
    <3> QED BY <3>1, <3>2 DEF ExecInv, ProtocolInv, LockFits
  <2> QED BY <2>1, <2>2
<1>7. Reserving'
  <2>1. /\ pending = UNION { reserved[d] : d \in Calls }
        /\ \A d, e \in Calls : d # e => reserved[d] \cap reserved[e] = {}
    BY DEF ExecInv, ProtocolInv, Reserving
  <2>2. pending' = pending \ reserved[c] /\ reserved' = [reserved EXCEPT ![c] = {}]
    BY DEF Leave, Unreserved
  <2>3. \A d \in Calls : reserved'[d] = IF d = c THEN {} ELSE reserved[d]
    BY <1>0, <2>2 DEF ExecTypeOK
  <2>4. pending' = UNION { reserved'[d] : d \in Calls }
    BY <2>1, <2>2, <2>3
  <2>5. \A d, e \in Calls : d # e => reserved'[d] \cap reserved'[e] = {}
    BY <2>1, <2>3
  <2> QED BY <2>4, <2>5 DEF Reserving
<1>8. ASSUME \A d \in Calls : Undisturbed(d), NEW d \in Calls PROVE Undisturbed(d)'
  <2>1. CASE d = c
    BY <1>1, <2>1 DEF Undisturbed
  <2>2. CASE d # c
    BY <1>2, <1>8, <2>2, SameUndisturbed
  <2> QED BY <2>1, <2>2
<1> QED BY <1>1, <1>2, <1>5, <1>6, <1>7, <1>8 DEF ProtocolInv, LockFits

-----------------------------------------------------------------------------
(* The protocol, step by step.                                             *)

\* What a caller's step keeps besides the types and the streams.
Kept == ProtocolInv' /\ (NothingRaced' => (\A d \in Calls : Undisturbed(d))')

\* A query that leaves without a new race.
LEMMA LeavesQuietly ==
  ASSUME ExecInv, NEW c \in Calls, NEW how \in {"ok", "err"}, Leave(c, how),
         Busy(c), Free(c), queue' = queue, applied' = applied, index' = index,
         answer' = [answer EXCEPT ![c] = "none"] \/ (pc[c] # "wait" /\ answer' = answer),
         NothingRaced' => NothingRaced
  PROVE  Kept
<1>1. answer' = [answer EXCEPT ![c] = "none"]
  <2>1. CASE pc[c] # "wait" /\ answer' = answer
    <3>1. answer[c] = "none"
      BY <2>1 DEF ExecInv, ProtocolInv, CallFits, StageFits
    <3> QED BY <2>1, <3>1 DEF ExecInv, ExecTypeOK
  <2> QED BY <2>1
<1>2. ProtocolInv' /\ ((\A d \in Calls : Undisturbed(d)) => (\A d \in Calls : Undisturbed(d))')
  BY <1>1, Leaves
<1> QED BY <1>2 DEF Kept, ExecInv, RaceInv

\* The same for one that goes on.
LEMMA MovesQuietly ==
  ASSUME ExecInv, NEW c \in Calls, \A d \in Calls \ {c} : Same(d),
         queue' = queue, applied' = applied, index' = index,
         Free(c), Free(c)', CallFits(c)',
         lock' = lock, NeedsLock(c)' <=> NeedsLock(c),
         pending' = pending, reserved' = reserved,
         NothingRaced' => NothingRaced, NothingRaced' => Undisturbed(c)'
  PROVE  Kept
<1>1. ProtocolInv'
  BY Moves
<1>2. ASSUME NothingRaced', NEW d \in Calls PROVE Undisturbed(d)'
  <2>1. CASE d = c
    BY <1>2, <2>1
  <2>2. CASE d # c
    BY <1>2, <2>2, SameUndisturbed DEF ExecInv, RaceInv
  <2> QED BY <2>1, <2>2
<1> QED BY <1>1, <1>2 DEF Kept

\* A query arrives.
LEMMA StartKept == ASSUME ExecInv, NEW c \in Calls, Start(c) PROVE Kept
<1>0. ExecTypeOK /\ pc[c] = "new" /\ CallFits(c)
  BY DEF ExecInv, ProtocolInv, Start
<1>1. PICK kind \in Ops, s \in Streams :
        /\ job' = [job EXCEPT ![c] = [kind |-> kind, stream |-> s, made |-> FALSE]]
        /\ \E t \in KeyLists(kind, s) : todo' = [todo EXCEPT ![c] = t]
        /\ Goto(c, CASE kind \notin Inserts \cup {"upsert", "empty", "drop"}
                         /\ s \notin streams -> "err"
                    [] kind = "upsert" -> "register"
                    [] kind = "keyed_delete" -> "look"
                    [] OTHER -> "lock")
  BY DEF Start
<1>2. PICK t \in KeyLists(kind, s) : todo' = [todo EXCEPT ![c] = t]
  BY <1>1
<1>3. /\ t \in Seq(Keys)
      /\ \A i \in DOMAIN t : StreamOf[t[i]] = s
      /\ kind \notin Inserts => NoTwice(t)
      /\ kind \notin {"empty", "drop", "pipeline_update", "pipeline_delete"} => t # <<>>
      /\ kind \in {"update", "delete"} => Len(t) = 1
  BY <1>2, KeyListsType
<1>4. PICK where \in {"err", "register", "look", "lock"} :
        /\ Goto(c, where)
        /\ where = "register" => kind = "upsert"
        /\ where = "look" => kind = "keyed_delete"
        /\ where = "lock" => kind \notin {"upsert", "keyed_delete"}
  BY <1>1
<1>5. /\ pc'[c] = where /\ job'[c] = [kind |-> kind, stream |-> s, made |-> FALSE] /\ todo'[c] = t
      /\ seen'[c] = {} /\ stale'[c] = {} /\ reserved'[c] = {} /\ answer'[c] = "none"
  BY <1>0, <1>1, <1>2, <1>4
     DEF Start, ExecTypeOK, Goto, CallFits, StageFits, AtRest
<1>6. \A d \in Calls \ {c} : Same(d)
  BY <1>0, <1>1, <1>2, <1>4 DEF Start, ExecTypeOK, Goto, Same
<1>7. StageFits(c)'
  BY <1>4, <1>5, ExecutorAssumption DEF StageFits, Busy, AtRest, Is, Job, Unlocked, Inserts
<1>8. ListFits(c)'
  BY <1>3, <1>4, <1>5 DEF ListFits, Busy, AtRest, Is, Listed, Inserts
<1>9. PrefixReserved(c)'
  <2>1. Len(t) \in Nat /\ Cardinality({}) = 0 /\ (kind \in Inserts => 0 # Len(t))
    BY <1>3, FS_EmptySet DEF Inserts
  <2>2. kind \in Inserts => ~(pc'[c] \in {"check", "register", "register_batch", "send", "wait"})
    BY <1>4, <1>5 DEF Inserts
  <2> QED BY <1>5, <2>1, <2>2 DEF PrefixReserved, Listed, Is
<1>10. InMind(c)'
  BY <1>4, <1>5 DEF InMind, Listed, Is, Unlocked
<1>11. ~NeedsLock(c) /\ ~NeedsLock(c)'
  BY <1>0, <1>4, <1>5 DEF NeedsLock, Busy, AtRest, Is, Holders, Inserts
<1>12. Free(c) /\ Free(c)'
  BY <1>0, <1>4, <1>5 DEF Free
<1>13. Undisturbed(c)'
  BY <1>5 DEF Undisturbed
<1> QED BY <1>6, <1>7, <1>8, <1>9, <1>10, <1>11, <1>12, <1>13, MovesQuietly
        DEF CallFits, Start, shared, NothingRaced

\* A query takes the lock.
LEMMA LockKept == ASSUME ExecInv, NEW c \in Calls, Lock(c) PROVE Kept
<1>0. /\ ExecTypeOK /\ pc[c] = "lock" /\ CallFits(c) /\ lock = Nobody /\ lock' = c
      /\ pc' = [pc EXCEPT ![c] = "look"] /\ Busy(c)
      /\ UNCHANGED <<job, todo, seen, stale, reserved, answer, queue, applied, index,
                     pending, races>>
  BY DEF ExecInv, ProtocolInv, Lock, Goto, Busy, AtRest
<1>1. pc'[c] = "look" /\ answer[c] = "none" /\ Free(c) /\ Free(c)'
  BY <1>0 DEF ExecTypeOK, CallFits, StageFits, Free
<1>2. \A d \in Calls \ {c} : Same(d)
  BY <1>0 DEF ExecTypeOK, Same
<1>3. StageFits(c)'
  BY <1>0, <1>1 DEF CallFits, StageFits, Busy, AtRest, Is
<1>4. ListFits(c)' /\ PrefixReserved(c)'
  <2>1. ListFits(c)'
    BY <1>0, <1>1 DEF CallFits, ListFits, Busy, AtRest, Is, Listed
  <2>2. PrefixReserved(c)'
    BY <1>0, <1>1 DEF CallFits, PrefixReserved, Busy, AtRest, Is, Listed
  <2> QED BY <2>1, <2>2
<1>5. InMind(c)'
  BY <1>0, <1>1 DEF CallFits, StageFits, InMind, Busy, Is, Listed
<1>6. (\A d \in Calls : CallFits(d)') /\ Queued(queue)' /\ Progress'
  BY <1>0, <1>1, <1>2, <1>3, <1>4, <1>5, CallerStep DEF CallFits
<1>7. ASSUME NEW d \in Calls PROVE lock' = d <=> NeedsLock(d)'
  <2>1. CASE d = c
    <3>1. Is(c, Holders \cup Inserts)
      BY <1>0, ExecutorAssumption DEF CallFits, StageFits, Is, Job
    <3> QED BY <1>0, <1>1, <2>1, <3>1 DEF NeedsLock, Busy, AtRest, Is
  <2>2. CASE d # c
    BY <1>0, <1>2, <2>2, ExecutorAssumption
       DEF ExecInv, ProtocolInv, LockFits, NeedsLock, Busy, Is, Same
  <2> QED BY <2>1, <2>2
<1>8. Reserving'
  BY <1>0 DEF ExecInv, ProtocolInv, Reserving
<1>9. ASSUME NothingRaced', NEW d \in Calls PROVE Undisturbed(d)'
  <2>1. Undisturbed(d)
    BY <1>0, <1>9 DEF NothingRaced, ExecInv, RaceInv
  <2>2. CASE d = c
    BY <1>0, <1>1, <2>1, <2>2 DEF Undisturbed, Busy, Is
  <2>3. CASE d # c
    BY <1>0, <1>2, <2>1, <2>3, SameUndisturbed
  <2> QED BY <2>2, <2>3
<1> QED BY <1>6, <1>7, <1>8, <1>9 DEF Kept, ProtocolInv, LockFits

\* An insert looks whether its next key is live.
LEMMA InsertLooksKept == ASSUME ExecInv, NEW c \in Calls, InsertLooks(c) PROVE Kept
<1>0. /\ ExecTypeOK /\ pc[c] = "look" /\ Is(c, Inserts) /\ CallFits(c) /\ Busy(c)
      /\ UNCHANGED <<index, queue, applied, answer, races>> /\ Free(c)
  BY DEF ExecInv, ProtocolInv, InsertLooks, Is, Busy, AtRest, Free
<1>1. CASE Leave(c, "err")
  BY <1>0, <1>1, LeavesQuietly DEF NothingRaced
<1>2. CASE NextToReserve(c) \notin index
  <2> DEFINE k == NextToReserve(c)
  <2>1. /\ pc' = [pc EXCEPT ![c] = "reserve"] /\ seen' = [seen EXCEPT ![c] = @ \cup {k}]
        /\ UNCHANGED <<lock, pending, reserved, stale, todo, job>>
    BY <1>2 DEF InsertLooks, Goto, Look
  <2>2. pc'[c] = "reserve" /\ seen'[c] = seen[c] \cup {k}
    BY <1>0, <2>1 DEF ExecTypeOK
  <2>3. \A d \in Calls \ {c} : Same(d)
    BY <1>0, <2>1 DEF ExecTypeOK, Same
  <2>4. StageFits(c)'
    BY <1>0, <2>1, <2>2 DEF CallFits, StageFits, Busy, AtRest, Is
  <2>5. ListFits(c)' /\ PrefixReserved(c)'
    <3>1. ListFits(c)'
      BY <1>0, <2>1, <2>2 DEF CallFits, ListFits, Busy, AtRest, Is, Listed
    <3>2. PrefixReserved(c)'
      BY <1>0, <2>1, <2>2 DEF CallFits, PrefixReserved, Busy, AtRest, Is, Listed
    <3> QED BY <3>1, <3>2
  <2>6. InMind(c)'
    <3>1. reserved[c] \subseteq seen[c] /\ seen[c] \subseteq reserved[c]
      BY <1>0 DEF CallFits, InMind, Listed
    <3>2. NextToReserve(c)' = k
      BY <2>1 DEF NextToReserve
    <3> QED BY <2>1, <2>2, <3>1, <3>2 DEF InMind, Listed
  <2>7. NeedsLock(c)' <=> NeedsLock(c)
    BY <1>0, <2>1, <2>2 DEF NeedsLock, Busy, AtRest, Is
  <2>8. NothingRaced' => Undisturbed(c)'
    BY <1>0, <1>2, <2>1, <2>2
       DEF NothingRaced, ExecInv, RaceInv, Undisturbed, Is, Inserts, Holders
  <2>9. Free(c)'
    BY <2>2 DEF Free
  <2> QED BY <1>0, <2>1, <2>3, <2>4, <2>5, <2>6, <2>7, <2>8, <2>9, MovesQuietly
          DEF CallFits, NothingRaced
<1> QED BY <1>1, <1>2 DEF InsertLooks

\* An insert reserves a key.
LEMMA InsertReservesKept == ASSUME ExecInv, NEW c \in Calls, InsertReserves(c) PROVE Kept
<1>0. /\ ExecTypeOK /\ pc[c] = "reserve" /\ Is(c, Inserts) /\ CallFits(c) /\ Busy(c)
      /\ UNCHANGED <<index, queue, applied, answer>> /\ Free(c)
  BY DEF ExecInv, ProtocolInv, CallFits, StageFits, InsertReserves, Busy, AtRest, Free
<1>1. CASE Leave(c, "err") /\ UNCHANGED races
  BY <1>0, <1>1, LeavesQuietly DEF NothingRaced
<1>2. CASE NextToReserve(c) \notin pending
  <2>1. PICK n \in Nat, k \in Keys :
          /\ n = Cardinality(reserved[c]) /\ n + 1 \in DOMAIN todo[c]
          /\ NextToReserve(c) = k /\ k = todo[c][n + 1]
    BY <1>0, NextToReserveType
  <2>2. /\ pending' = pending \cup {k} /\ reserved' = [reserved EXCEPT ![c] = @ \cup {k}]
        /\ UNCHANGED <<lock, seen, stale, todo, job>>
        /\ Note("late", k \in index)
    BY <1>2, <2>1 DEF InsertReserves, Taken
  <2>3. reserved'[c] = reserved[c] \cup {k}
    BY <1>0, <2>2 DEF ExecTypeOK
  <2>4. k \notin reserved[c] /\ \A d \in Calls : k \notin reserved[d]
    BY <1>2, <2>1 DEF ExecInv, ProtocolInv, Reserving
  <2>5. Cardinality(reserved'[c]) = n + 1
    BY <1>0, <2>1, <2>3, <2>4, Finite, FS_AddElement DEF ExecTypeOK
  <2>6. PICK m \in Nat : m = Len(todo[c]) /\ DOMAIN todo[c] = 1..m
    BY <1>0 DEF ExecTypeOK
  <2>7. PICK where : /\ Goto(c, where)
                     /\ \/ where = "look" /\ n + 1 < m
                        \/ /\ where \in {"register", "check"} /\ ~(n + 1 < m)
                           /\ where = "check" => ~Is(c, {"insert"})
    BY <1>2, <2>1, <2>5, <2>6 DEF InsertReserves, Taken, Is
  <2>8. pc'[c] = where
    BY <1>0, <2>7 DEF Goto, ExecTypeOK
  <2>9. \A d \in Calls \ {c} : Same(d)
    BY <1>0, <2>2, <2>7 DEF ExecTypeOK, Same, Goto
  <2>10. StageFits(c)'
    BY <1>0, <2>2, <2>7, <2>8 DEF CallFits, StageFits, Busy, AtRest, Is, Inserts
  <2>11. ListFits(c)'
    BY <1>0, <2>2, <2>7, <2>8 DEF CallFits, ListFits, Busy, AtRest, Is, Inserts
  <2>12. /\ \A i \in 1..n : todo[c][i] \in reserved[c]
         /\ \A x \in reserved[c] : \E i \in 1..n : todo[c][i] = x
         /\ \A i, j \in 1..n : todo[c][i] = todo[c][j] => i = j
    BY <1>0, <2>1 DEF CallFits, PrefixReserved
  <2>13. PrefixReserved(c)'
    <3>1. n + 1 \in 0..m /\ \A i \in 1..(n + 1) : i \in 1..n \/ i = n + 1
      BY <2>1, <2>6
    <3>2. \A i \in 1..(n + 1) : todo[c][i] \in reserved'[c]
      BY <2>1, <2>3, <2>12, <3>1
    <3>3. \A x \in reserved'[c] : \E i \in 1..(n + 1) : todo[c][i] = x
      <4>1. n + 1 \in 1..(n + 1) /\ \A i \in 1..n : i \in 1..(n + 1)
        OBVIOUS
      <4> QED BY <2>1, <2>3, <2>12, <4>1
    <3>4. \A i, j \in 1..(n + 1) : todo[c][i] = todo[c][j] => i = j
      BY <2>1, <2>4, <2>12, <3>1
    <3>5. Listed(c)' <=> n + 1 = m
      BY <2>7, <2>8, <3>1 DEF Listed
    <3> QED BY <2>2, <2>5, <2>6, <3>1, <3>2, <3>3, <3>4, <3>5 DEF PrefixReserved
  <2>14. reserved'[c] \subseteq seen[c] /\ seen[c] \subseteq reserved'[c]
    BY <1>0, <2>1, <2>3 DEF CallFits, InMind, Listed
  <2>15. InMind(c)'
    <3>1. ASSUME Listed(c)', NEW j \in DOMAIN todo[c] PROVE todo[c][j] \in seen[c]
      <4>1. n + 1 = m
        BY <2>1, <2>6, <2>7, <2>8, <3>1 DEF Listed
      <4>2. j \in 1..n \/ j = n + 1
        BY <2>6, <3>1, <4>1
      <4> QED BY <2>1, <2>3, <2>12, <2>14, <4>2
    <3>2. pc'[c] # "reserve" /\ ~Is(c, {"drop"})'
      BY <1>0, <2>2, <2>7, <2>8 DEF Is, Inserts
    <3>3. ASSUME Listed(c)', NEW x \in seen[c]
          PROVE  \E j \in DOMAIN todo[c] : j > Done(c)' /\ todo[c][j] = x
      <4>1. n + 1 = m
        BY <2>1, <2>6, <2>7, <2>8, <3>3 DEF Listed
      <4>2. x \in reserved[c] \/ x = k
        BY <2>3, <2>14
      <4>3. PICK j \in 1..(n + 1) : todo[c][j] = x
        <5>1. n + 1 \in 1..(n + 1) /\ \A i \in 1..n : i \in 1..(n + 1)
          OBVIOUS
        <5> QED BY <2>1, <2>12, <4>2, <5>1
      <4>4. Done(c)' = 0
        <5>1. queue # <<>> => Head(queue).call # c
          BY <1>0, FrontType DEF Free
        <5>2. answer'[c] = "none"
          BY <1>0 DEF CallFits, StageFits
        <5> QED BY <1>0, <5>1, <5>2 DEF Done
      <4> QED BY <2>6, <4>1, <4>3, <4>4
    <3> QED BY <2>2, <2>14, <3>1, <3>2, <3>3 DEF InMind
  <2>16. NeedsLock(c) /\ NeedsLock(c)'
    BY <1>0, <2>2, <2>7, <2>8 DEF NeedsLock, Busy, AtRest, Is
  <2>17. Free(c)'
    BY <2>7, <2>8 DEF Free
  <2>18. (\A d \in Calls : CallFits(d)') /\ Queued(queue)' /\ Progress'
    BY <1>0, <2>9, <2>10, <2>11, <2>13, <2>15, <2>17, CallerStep DEF CallFits
  <2>19. LockFits'
    BY <2>2, <2>9, <2>16 DEF ExecInv, ProtocolInv, LockFits, NeedsLock, Busy, Is, Same
  <2>20. Reserving'
    <3>1. \A d \in Calls : reserved'[d] = IF d = c THEN reserved[c] \cup {k} ELSE reserved[d]
      BY <1>0, <2>2 DEF ExecTypeOK
    <3>2. /\ pending = UNION { reserved[d] : d \in Calls }
          /\ \A d, e \in Calls : d # e => reserved[d] \cap reserved[e] = {}
      BY DEF ExecInv, ProtocolInv, Reserving
    <3>3. pending' = UNION { reserved'[d] : d \in Calls }
      BY <2>2, <3>1, <3>2
    <3>4. \A d, e \in Calls : d # e => reserved'[d] \cap reserved'[e] = {}
      BY <2>4, <3>1, <3>2
    <3> QED BY <3>3, <3>4 DEF Reserving
  <2>21. ASSUME NothingRaced', NEW d \in Calls PROVE Undisturbed(d)'
    <3>1. NothingRaced /\ k \notin index
      BY <2>2, <2>21 DEF Note, NothingRaced
    <3>2. Undisturbed(d)
      BY <3>1 DEF ExecInv, RaceInv
    <3>3. CASE d = c
      BY <1>0, <2>2, <2>3, <3>1, <3>2, <3>3
         DEF Undisturbed, Is, Inserts, Holders
    <3>4. CASE d # c
      BY <1>0, <2>9, <3>2, <3>4, SameUndisturbed
    <3> QED BY <3>3, <3>4
  <2> QED BY <2>18, <2>19, <2>20, <2>21 DEF Kept, ProtocolInv
<1> QED BY <1>1, <1>2 DEF InsertReserves, Taken

\* A query that names its key looks it up.
LEMMA LookUpKept == ASSUME ExecInv, NEW c \in Calls, LookUp(c) PROVE Kept
<1>0. /\ ExecTypeOK /\ pc[c] = "look" /\ Is(c, {"update", "delete", "keyed_delete"})
      /\ CallFits(c) /\ Busy(c)
      /\ UNCHANGED <<index, queue, applied, answer, races>> /\ Free(c)
  BY DEF ExecInv, ProtocolInv, LookUp, Is, Busy, AtRest, Free
<1>1. CASE Leave(c, "err") \/ Leave(c, "ok")
  BY <1>0, <1>1, LeavesQuietly DEF NothingRaced
<1>2. CASE /\ Head(todo[c]) \in index
           /\ Goto(c, "register") /\ Look(c, {Head(todo[c])})
           /\ UNCHANGED <<lock, pending, reserved, stale, todo, job>>
  <2>1. pc'[c] = "register" /\ seen'[c] = {Head(todo[c])}
    BY <1>0, <1>2 DEF ExecTypeOK, Goto, Look, CallFits, StageFits, Is, Inserts
  <2>2. \A d \in Calls \ {c} : Same(d)
    BY <1>0, <1>2 DEF ExecTypeOK, Same, Goto, Look
  <2>3. StageFits(c)'
    BY <1>0, <1>2, <2>1 DEF CallFits, StageFits, Busy, AtRest, Is
  <2>4. ListFits(c)' /\ PrefixReserved(c)'
    BY <1>0, <1>2, <2>1
       DEF CallFits, ListFits, PrefixReserved, Busy, AtRest, Is, Listed, Inserts
  <2>5. InMind(c)'
    <3>1. ASSUME Is(c, {"update", "delete"})
          PROVE  \A j \in DOMAIN todo[c] : todo[c][j] = Head(todo[c])
      <4>1. Len(todo[c]) = 1 /\ todo[c] \in Seq(Keys)
        BY <1>0, <3>1 DEF CallFits, ListFits, ExecTypeOK
      <4>2. \A j \in DOMAIN todo[c] : j = 1
        BY <4>1
      <4> QED BY <4>1, <4>2
    <3> QED BY <1>0, <1>2, <2>1, <3>1 DEF InMind, Is, Inserts, Unlocked
  <2>6. NeedsLock(c)' <=> NeedsLock(c)
    BY <1>0, <1>2, <2>1 DEF NeedsLock, Busy, AtRest, Is
  <2>7. NothingRaced' => Undisturbed(c)'
    BY <1>0, <1>2, <2>1
       DEF NothingRaced, ExecInv, RaceInv, Undisturbed, CallFits, StageFits, Is,
           Inserts, Holders
  <2>8. Free(c)'
    BY <2>1 DEF Free
  <2> QED BY <1>0, <1>2, <2>2, <2>3, <2>4, <2>5, <2>6, <2>7, <2>8, MovesQuietly
          DEF CallFits, NothingRaced
<1> QED BY <1>1, <1>2 DEF LookUp

\* A query with the lock goes on with the live keys it found.
LEMMA GoOnKept ==
  ASSUME ExecInv, NEW c \in Calls, NEW T \in SUBSET LiveKeys(job[c].stream),
         GoOnWith(c, T), pc[c] = "look",
         Is(c, {"empty", "drop", "pipeline_update", "pipeline_delete"}),
         UNCHANGED <<index, queue, applied, answer, races>>
  PROVE  Kept
<1>0. /\ ExecTypeOK /\ CallFits(c) /\ Busy(c) /\ Free(c)
      /\ T \in SUBSET Keys /\ T \subseteq index /\ \A k \in T : StreamOf[k] = job[c].stream
  BY DEF ExecInv, ProtocolInv, Busy, AtRest, Free, LiveKeys, ExecTypeOK
<1>1. CASE Leave(c, "ok")
  BY <1>0, <1>1, LeavesQuietly DEF NothingRaced
<1>2. CASE StayAt(c, "unlist") /\ job[c].kind = "drop"
  <2>1. /\ pc' = [pc EXCEPT ![c] = "unlist"] /\ pc'[c] = "unlist"
        /\ UNCHANGED <<lock, pending, job, todo, seen, stale, reserved>>
    BY <1>0, <1>2 DEF ExecTypeOK, StayAt, Goto
  <2>2. \A d \in Calls \ {c} : Same(d)
    BY <1>0, <2>1 DEF ExecTypeOK, Same
  <2>3. StageFits(c)'
    BY <1>0, <1>2, <2>1 DEF CallFits, StageFits, Busy, AtRest, Is, Inserts
  <2>4. ListFits(c)'
    BY <1>0, <1>2, <2>1 DEF CallFits, ListFits, Busy, AtRest, Is, Listed
  <2>5. PrefixReserved(c)' /\ InMind(c)'
    BY <1>2, <2>1 DEF PrefixReserved, InMind, Is, Listed, Inserts
  <2>6. NeedsLock(c)' <=> NeedsLock(c)
    BY <1>0, <1>2, <2>1 DEF NeedsLock, Busy, AtRest, Is
  <2>7. NothingRaced' => Undisturbed(c)'
    BY <1>0, <2>1
       DEF NothingRaced, ExecInv, RaceInv, Undisturbed, CallFits, StageFits, Is, Busy
  <2>8. Free(c)'
    BY <2>1 DEF Free
  <2> QED BY <1>0, <2>1, <2>2, <2>3, <2>4, <2>5, <2>6, <2>7, <2>8, MovesQuietly
          DEF CallFits, NothingRaced
<1>3. CASE /\ T # {} /\ Goto(c, "register") /\ Look(c, T)
           /\ \E t \in Orders(T) : todo' = [todo EXCEPT ![c] = t]
           /\ UNCHANGED <<lock, pending, reserved, stale, job>>
  <2>1. PICK t \in Orders(T) : todo' = [todo EXCEPT ![c] = t]
    BY <1>3
  <2>2. /\ t \in Seq(Keys) /\ NoTwice(t) /\ t # <<>>
        /\ \A i \in DOMAIN t : t[i] \in T
        /\ \A k \in T : \E i \in DOMAIN t : t[i] = k
    BY <1>0, <1>3, <2>1, OrdersType
  <2>3. /\ pc'[c] = "register" /\ seen'[c] = T /\ todo'[c] = t /\ stale'[c] = {}
        /\ job'[c] = job[c] /\ reserved'[c] = reserved[c] /\ answer'[c] = answer[c]
    BY <1>0, <1>3, <2>1 DEF ExecTypeOK, Goto, Look, CallFits, StageFits, Is, Inserts
  <2>4. \A d \in Calls \ {c} : Same(d)
    BY <1>0, <1>3, <2>1 DEF ExecTypeOK, Same, Goto, Look
  <2>5. StageFits(c)'
    BY <1>0, <2>3 DEF CallFits, StageFits, Busy, AtRest, Is
  <2>6. ListFits(c)'
    BY <1>0, <2>2, <2>3 DEF ListFits, Busy, AtRest, Is
  <2>7. PrefixReserved(c)'
    BY <2>3 DEF PrefixReserved, Is, Inserts
  <2>8. InMind(c)'
    <3>1. Done(c)' = 0
      <4>1. queue # <<>> => Head(queue).call # c
        BY <1>0, FrontType DEF Free
      <4>2. answer'[c] = "none"
        BY <1>0, <2>3 DEF CallFits, StageFits
      <4> QED BY <4>1, <4>2 DEF Done
    <3>2. \A j \in DOMAIN t : j > 0
      BY <2>2
    <3> QED BY <2>2, <2>3, <3>1, <3>2 DEF InMind, Is, Inserts, Listed
  <2>9. NeedsLock(c)' <=> NeedsLock(c)
    BY <1>0, <2>3 DEF NeedsLock, Busy, AtRest, Is
  <2>10. Undisturbed(c)'
    BY <1>0, <2>3 DEF Undisturbed, Is, Inserts, Holders
  <2>11. Free(c)'
    BY <2>3 DEF Free
  <2> QED BY <1>0, <1>3, <2>4, <2>5, <2>6, <2>7, <2>8, <2>9, <2>10, <2>11, MovesQuietly
          DEF CallFits, NothingRaced
<1> QED BY <1>1, <1>2, <1>3 DEF GoOnWith

\* A pipeline goes on with keys its stages have made up.
LEMMA MadeUpKept ==
  ASSUME ExecInv, NEW c \in Calls, NEW T \in MadeUp(c), GoOnWithMadeUp(c, T),
         pc[c] = "look", Is(c, {"pipeline_update", "pipeline_delete"}),
         UNCHANGED <<index, queue, applied, answer, races>>
  PROVE  Kept
<1>0. /\ ExecTypeOK /\ CallFits(c) /\ Busy(c) /\ Free(c) /\ job[c] \in Job
      /\ T \in SUBSET Keys /\ T # {} /\ \A k, l \in T : StreamOf[k] = StreamOf[l]
  BY MadeUpType DEF ExecInv, ProtocolInv, CallFits, StageFits, Busy, AtRest, Free
<1>1. PICK t \in Orders(T) : todo' = [todo EXCEPT ![c] = t]
  BY DEF GoOnWithMadeUp
<1>2. /\ t \in Seq(Keys) /\ NoTwice(t) /\ t # <<>> /\ \A i \in DOMAIN t : t[i] \in T
  BY <1>0, <1>1, OrdersType
<1>3. /\ job'[c] = [job[c] EXCEPT !.made = TRUE] /\ job'[c] \in Job
      /\ job'[c].kind = job[c].kind /\ job'[c].made
  BY <1>0 DEF GoOnWithMadeUp, ExecTypeOK, Job
<1>4. /\ pc'[c] = "register" /\ seen'[c] = T \cap LiveKeys(job[c].stream)
      /\ todo'[c] = t /\ stale'[c] = {}
      /\ reserved'[c] = reserved[c] /\ answer'[c] = answer[c]
  BY <1>0, <1>1 DEF GoOnWithMadeUp, ExecTypeOK, Goto, Look, CallFits, StageFits, Is, Inserts
<1>5. \A d \in Calls \ {c} : Same(d)
  BY <1>0, <1>1 DEF GoOnWithMadeUp, ExecTypeOK, Same, Goto, Look
<1>6. StageFits(c)'
  BY <1>0, <1>3, <1>4 DEF CallFits, StageFits, Busy, AtRest, Is
<1>7. ListFits(c)'
  BY <1>0, <1>2, <1>3, <1>4 DEF ListFits, Busy, AtRest, Is
<1>8. PrefixReserved(c)'
  BY <1>3, <1>4 DEF PrefixReserved, Is, Inserts
<1>9. InMind(c)'
  BY <1>3, <1>4 DEF InMind, Is, Inserts, Listed
<1>10. NeedsLock(c)' <=> NeedsLock(c)
  BY <1>0, <1>3, <1>4 DEF NeedsLock, Busy, AtRest, Is
<1>11. Undisturbed(c)'
  BY <1>0, <1>3, <1>4 DEF Undisturbed, Is, Inserts, LiveKeys
<1>12. Free(c)'
  BY <1>4 DEF Free
<1> QED BY <1>0, <1>5, <1>6, <1>7, <1>8, <1>9, <1>10, <1>11, <1>12, MovesQuietly
        DEF CallFits, NothingRaced, GoOnWithMadeUp

\* Empty and drop list the keys of the stream, the other pipelines scan it.
LEMMA ListOrScanKept ==
  ASSUME ExecInv, NEW c \in Calls, ListKeys(c) \/ Scan(c) PROVE Kept
<1>0. /\ pc[c] = "look" /\ Busy(c) /\ Free(c)
      /\ Is(c, {"empty", "drop", "pipeline_update", "pipeline_delete"})
      /\ UNCHANGED <<index, queue, applied, answer, races>>
  BY DEF ListKeys, Scan, Busy, AtRest, Free, Is
<1>1. CASE Leave(c, "err")
  BY <1>0, <1>1, LeavesQuietly DEF NothingRaced
<1>2. CASE \E T \in SUBSET LiveKeys(job[c].stream) : GoOnWith(c, T)
  BY <1>0, <1>2, GoOnKept
<1>3. CASE Scan(c) /\ \E T \in MadeUp(c) : GoOnWithMadeUp(c, T)
  BY <1>0, <1>3, MadeUpKept DEF Scan, Is
<1> QED BY <1>1, <1>2, <1>3 DEF ListKeys, Scan

\* A query stays at its list while it registers its stream.
LEMMA RegisterKept ==
  ASSUME ExecInv, NEW c \in Calls, Register(c) \/ CheckBatch(c) \/ RegisterBatch(c)
  PROVE  Kept
<1>0. /\ ExecTypeOK /\ CallFits(c) /\ Busy(c) /\ Free(c)
      /\ pc[c] \in {"register", "check", "register_batch"}
      /\ UNCHANGED <<index, queue, applied, answer, races>>
  BY DEF ExecInv, ProtocolInv, Register, CheckBatch, RegisterBatch, Busy, AtRest, Free
<1>1. CASE Leave(c, "err")
  BY <1>0, <1>1, LeavesQuietly DEF NothingRaced
<1>2. ASSUME NEW where \in {"register_batch", "send"}, StayAt(c, where),
             where = "register_batch" => pc[c] = "check"
      PROVE  Kept
  <2>1. /\ pc' = [pc EXCEPT ![c] = where] /\ pc'[c] = where
        /\ UNCHANGED <<lock, pending, job, todo, seen, stale, reserved>>
    BY <1>0, <1>2 DEF ExecTypeOK, StayAt, Goto
  <2>2. \A d \in Calls \ {c} : Same(d)
    BY <1>0, <2>1 DEF ExecTypeOK, Same
  <2>3. StageFits(c)'
    BY <1>0, <1>2, <2>1 DEF CallFits, StageFits, Busy, AtRest, Is
  <2>4. ListFits(c)'
    BY <1>0, <2>1 DEF CallFits, ListFits, Busy, AtRest, Is, Listed
  <2>5. PrefixReserved(c)'
    BY <1>0, <2>1 DEF CallFits, PrefixReserved, Busy, Is, Listed
  <2>6. InMind(c)'
    <3>1. Done(c)' = Done(c)
      BY <1>0, <2>1 DEF Done, NextWrites, OneByOne
    <3> QED BY <1>0, <2>1, <3>1 DEF CallFits, InMind, Is, Listed, Busy
  <2>7. NeedsLock(c)' <=> NeedsLock(c)
    BY <1>0, <2>1 DEF NeedsLock, Busy, AtRest, Is
  <2>8. NothingRaced' => Undisturbed(c)'
    BY <1>0, <2>1 DEF NothingRaced, ExecInv, RaceInv, Undisturbed, Is
  <2>9. Free(c)'
    BY <2>1 DEF Free
  <2> QED BY <1>0, <2>1, <2>2, <2>3, <2>4, <2>5, <2>6, <2>7, <2>8, <2>9, MovesQuietly
          DEF CallFits, NothingRaced
<1> QED BY <1>1, <1>2 DEF Register, CheckBatch, RegisterBatch

\* A query gets its answer.
LEMMA AnsweredKept == ASSUME ExecInv, NEW c \in Calls, Answered(c) PROVE Kept
<1>0. /\ ExecTypeOK /\ CallFits(c) /\ Busy(c) /\ Free(c) /\ Listed(c) /\ job[c] \in Job
      /\ pc[c] = "wait" /\ answer[c] \in {"ok", "err"}
      /\ answer' = [answer EXCEPT ![c] = "none"] /\ answer'[c] = "none"
      /\ UNCHANGED <<index, queue, applied, races>>
  BY DEF ExecInv, ProtocolInv, Answered, Busy, AtRest, Free, Listed, CallFits, StageFits,
         ExecTypeOK
<1>1. CASE Leave(c, "err") \/ Leave(c, "ok")
  BY <1>0, <1>1, LeavesQuietly DEF NothingRaced
<1>2. PICK m \in Nat : m = Len(todo[c]) /\ todo[c] \in [1..m -> Keys] /\ m > 0
                       /\ todo[c] \in Seq(Keys)
  BY <1>0 DEF ExecTypeOK, CallFits, ListFits
<1>3. queue # <<>> => Head(queue).call # c
  BY <1>0, FrontType
<1>4. CASE /\ answer[c] = "ok" /\ OneByOne(c) /\ m > 1
           /\ todo' = [todo EXCEPT ![c] = Tail(@)] /\ Goto(c, "register")
           /\ UNCHANGED <<lock, pending, reserved, seen, stale, job>>
  <2>1. PICK t \in Seq(Keys) : /\ t = Tail(todo[c]) /\ Len(t) = m - 1
                              /\ \A j \in 1..Len(t) : t[j] = todo[c][j + 1]
    <3>1. todo[c] \in Seq(Keys) /\ todo[c] # <<>> /\ Len(todo[c]) = m
      BY <1>2
    <3> QED BY <3>1, HeadTailProperties
  <2>2. /\ t # <<>> /\ \A j \in DOMAIN t : t[j] = todo[c][j + 1]
        /\ \A j \in DOMAIN t : j + 1 \in DOMAIN todo[c] /\ j \in Nat /\ j > 0
    <3>1. DOMAIN t = 1..(m - 1) /\ DOMAIN todo[c] = 1..m
      BY <1>2, <2>1
    <3>2. t # <<>>
      BY <1>4, <2>1, <3>1
    <3>3. \A j \in 1..(m - 1) : j + 1 \in 1..m /\ j \in Nat /\ j > 0
      BY <1>2
    <3>4. \A j \in 1..(m - 1) : t[j] = todo[c][j + 1]
      BY <2>1, <3>1
    <3> QED BY <3>1, <3>2, <3>3, <3>4
  <2>3. /\ pc'[c] = "register" /\ todo'[c] = t /\ job'[c] = job[c]
        /\ seen'[c] = seen[c] /\ stale'[c] = stale[c] /\ reserved'[c] = reserved[c]
    BY <1>0, <1>4, <2>1 DEF ExecTypeOK, Goto
  <2>4. \A d \in Calls \ {c} : Same(d)
    BY <1>0, <1>4 DEF ExecTypeOK, Same, Goto
  <2>5. StageFits(c)'
    BY <1>0, <2>3 DEF CallFits, StageFits, Busy, AtRest, Is
  <2>6. Is(c, {"upsert", "pipeline_update"}) /\ ~Is(c, Inserts)
    BY <1>4 DEF OneByOne, Is, Inserts
  <2>7. ListFits(c)'
    <3>1. /\ \A i, j \in DOMAIN todo[c] : StreamOf[todo[c][i]] = StreamOf[todo[c][j]]
          /\ NoTwice(todo[c])
      BY <1>0, <2>6 DEF CallFits, ListFits
    <3>2. NoTwice(t)
      BY <2>2, <3>1 DEF NoTwice
    <3>3. \A i, j \in DOMAIN t : StreamOf[t[i]] = StreamOf[t[j]]
      BY <2>2, <3>1
    <3>4. ~Is(c, {"update", "delete"})
      BY <2>6 DEF Is
    <3> QED BY <2>2, <2>3, <3>2, <3>3, <3>4 DEF ListFits, Is
  <2>8. PrefixReserved(c)'
    BY <2>3, <2>6 DEF PrefixReserved, Is
  <2>9. InMind(c)'
    <3>1. Done(c) = 1
      BY <1>4 DEF Done, NextWrites
    <3>2. Done(c)' = 0
      BY <1>0, <1>3 DEF Done
    <3>3. ~Is(c, Unlocked) => \A j \in DOMAIN t : t[j] \in seen[c] \/ job[c].made
      <4>1. ~Is(c, Unlocked) =>
              \A j \in DOMAIN todo[c] : j > 1 => todo[c][j] \in seen[c] \/ job[c].made
        BY <1>0, <1>4, <3>1 DEF CallFits, InMind
      <4>2. \A j \in DOMAIN t : t[j] = todo[c][j + 1] /\ j + 1 \in DOMAIN todo[c] /\ j + 1 > 1
        BY <2>2
      <4> QED BY <4>1, <4>2
    <3>4. ~Is(c, Inserts)' /\ ~Is(c, {"drop"})' /\ pc'[c] # "reserve"
      BY <2>3, <2>6 DEF Is
    <3>5. ASSUME ~Is(c, Unlocked)', NEW j \in DOMAIN t
          PROVE  t[j] \in seen'[c] \/ job'[c].made
      <4>1. t[j] \in seen[c] \/ job[c].made
        BY <2>3, <3>3, <3>5 DEF Is
      <4> QED BY <2>3, <4>1
    <3> QED BY <2>3, <3>4, <3>5 DEF InMind
  <2>10. NeedsLock(c)' <=> NeedsLock(c)
    BY <1>0, <2>3, <2>6 DEF NeedsLock, Busy, AtRest, Is
  <2>11. NothingRaced' => Undisturbed(c)'
    BY <1>0, <2>3, <2>6 DEF NothingRaced, ExecInv, RaceInv, Undisturbed, Is
  <2>12. Free(c)'
    BY <2>3 DEF Free
  <2> QED BY <1>0, <1>4, <2>4, <2>5, <2>7, <2>8, <2>9, <2>10, <2>11, <2>12, MovesQuietly
          DEF CallFits, NothingRaced
<1>5. CASE answer[c] = "ok" /\ Is(c, {"drop"}) /\ StayAt(c, "unlist")
  <2>1. /\ pc' = [pc EXCEPT ![c] = "unlist"] /\ pc'[c] = "unlist"
        /\ UNCHANGED <<lock, pending, job, todo, seen, stale, reserved>>
    BY <1>0, <1>5 DEF ExecTypeOK, StayAt, Goto
  <2>2. \A d \in Calls \ {c} : Same(d)
    BY <1>0, <2>1 DEF ExecTypeOK, Same
  <2>3. seen[c] = {}
    <3>1. Done(c) = m
      BY <1>2, <1>5 DEF Done, NextWrites, OneByOne, Is
    <3>2. \A k \in seen[c] : \E j \in DOMAIN todo[c] : j > m
      BY <1>0, <1>5, <3>1 DEF CallFits, InMind, Is, Unlocked
    <3> QED BY <1>2, <3>2
  <2>4. StageFits(c)'
    BY <1>0, <1>5, <2>1, <2>3 DEF CallFits, StageFits, Busy, AtRest, Is
  <2>5. ListFits(c)'
    BY <1>0, <1>5, <2>1 DEF CallFits, ListFits, Busy, AtRest, Is, Listed
  <2>6. PrefixReserved(c)' /\ InMind(c)'
    BY <1>5, <2>1 DEF PrefixReserved, InMind, Is, Listed, Inserts
  <2>7. NeedsLock(c)' <=> NeedsLock(c)
    BY <1>0, <1>5, <2>1 DEF NeedsLock, Busy, AtRest, Is, Holders
  <2>8. NothingRaced' => Undisturbed(c)'
    BY <1>0, <1>5, <2>1 DEF NothingRaced, ExecInv, RaceInv, Undisturbed, Is, Inserts
  <2>9. Free(c)'
    BY <2>1 DEF Free
  <2> QED BY <1>0, <2>1, <2>2, <2>4, <2>5, <2>6, <2>7, <2>8, <2>9, MovesQuietly
          DEF CallFits, NothingRaced
<1> QED BY <1>0, <1>1, <1>2, <1>4, <1>5 DEF Answered, Refused, Is

\* A drop takes its stream off the list.
LEMMA UnlistKept == ASSUME ExecInv, NEW c \in Calls, Unlist(c) PROVE Kept
<1>1. /\ pc[c] = "unlist" /\ Busy(c) /\ Free(c) /\ Leave(c, "ok")
      /\ UNCHANGED <<index, queue, applied, answer>>
  BY DEF Unlist, Busy, AtRest, Free
<1>2. NothingRaced' => NothingRaced
  BY DEF Unlist, Note, NothingRaced
<1> QED BY <1>1, <1>2, LeavesQuietly

\* A query puts its request into the channel.
LEMMA SendKept == ASSUME ExecInv, NEW c \in Calls, Send(c) PROVE Kept
<1>0. /\ ExecTypeOK /\ CallFits(c) /\ Busy(c) /\ Free(c) /\ Listed(c) /\ job[c] \in Job
      /\ pc[c] = "send" /\ answer[c] = "none"
      /\ UNCHANGED <<index, applied, answer, races>>
  BY DEF ExecInv, ProtocolInv, Send, Busy, AtRest, Free, Listed, CallFits, StageFits
<1>1. CASE Leave(c, "err") /\ UNCHANGED queue
  BY <1>0, <1>1, LeavesQuietly DEF NothingRaced
<1>2. CASE ~failed
  <2>1. PICK r : /\ r = [call |-> c, del |-> Deletes(c), keys |-> NextWrites(c)]
                 /\ queue' = Append(queue, r)
    BY <1>2 DEF Send
  <2>2. /\ pc' = [pc EXCEPT ![c] = "wait"] /\ pc'[c] = "wait" /\ lock' = LockAfterSend(c)
        /\ UNCHANGED <<pending, reserved, seen, stale, todo, job>>
    BY <1>0, <1>2 DEF Send, Goto, ExecTypeOK
  <2>3. /\ NextWrites(c) \in Seq(Keys) /\ NextWrites(c) # <<>>
        /\ Deletes(c) \in BOOLEAN
    BY <1>0, WritesType DEF CallFits
  <2>4. PICK n \in Nat : n = Len(queue) /\ DOMAIN queue = 1..n
    BY <1>0 DEF ExecTypeOK
  <2>5. r \in Request /\ queue \in Seq(Request)
    BY <1>0, <2>1, <2>3 DEF Request, ExecTypeOK
  <2>6. /\ DOMAIN queue' = 1..(n + 1) /\ queue'[n + 1] = r
        /\ \A i \in 1..n : queue'[i] = queue[i]
        /\ \A i \in 1..(n + 1) : i \in 1..n \/ i = n + 1
        /\ n + 1 \in 1..(n + 1) /\ \A i \in 1..n : i \in 1..(n + 1)
    BY <2>1, <2>4, <2>5
  <2>7. queue' # <<>> /\ Head(queue') = IF queue = <<>> THEN r ELSE Head(queue)
    BY <2>1, <2>4, <2>5
  <2>8. \A d \in Calls \ {c} : Same(d)
    BY <1>0, <2>2 DEF ExecTypeOK, Same
  <2>9. \A i \in 1..n : queue[i].call \in Calls \ {c}
    <3>1. \A i \in 1..n : queue[i] \in Request
      BY <2>4, <2>5
    <3>2. \A i \in 1..n : pc[queue[i].call] = "wait"
      BY <2>4 DEF ExecInv, ProtocolInv, Queued
    <3> QED BY <1>0, <3>1, <3>2 DEF Request
  <2>10. ASSUME NEW d \in Calls PROVE Done(d)' = Done(d)
    <3>1. CASE queue = <<>>
      BY <1>0, <2>1, <2>2, <2>7, <3>1
         DEF Done, ExecInv, ProtocolInv, Progress, NextWrites, OneByOne
    <3>2. CASE queue # <<>>
      BY <1>0, <2>2, <2>7, <3>2 DEF Done, NextWrites, OneByOne
    <3> QED BY <3>1, <3>2
  <2>11. CallFits(c)'
    <3>1. StageFits(c)'
      BY <1>0, <2>2 DEF CallFits, StageFits, Busy, AtRest, Is
    <3>2. ListFits(c)'
      BY <1>0, <2>2 DEF CallFits, ListFits, Busy, AtRest, Is, Listed
    <3>3. PrefixReserved(c)'
      BY <1>0, <2>2 DEF CallFits, PrefixReserved, Busy, Is, Listed
    <3>4. InMind(c)'
      BY <1>0, <2>2, <2>10 DEF CallFits, InMind, Is, Listed, Busy
    <3> QED BY <3>1, <3>2, <3>3, <3>4 DEF CallFits
  <2>12. ASSUME NEW d \in Calls PROVE CallFits(d)'
    <3>1. CASE d # c
      BY <2>8, <2>10, <3>1, SameFits, SameInMind DEF CallFits, ExecInv, ProtocolInv
    <3> QED BY <2>11, <3>1
  <2>13. ASSUME NEW d \in Calls PROVE lock' = d <=> NeedsLock(d)'
    <3>1. lock = d <=> NeedsLock(d)
      BY DEF ExecInv, ProtocolInv, LockFits
    <3>2. NeedsLock(c) => lock = c
      BY DEF ExecInv, ProtocolInv, LockFits
    <3>3. NeedsLock(c) <=> Is(c, Inserts \cup Holders)
      BY <1>0 DEF NeedsLock, Is
    <3>4. CASE d = c
      BY <1>0, <2>2, <3>1, <3>4, ExecutorAssumption
         DEF NeedsLock, Busy, AtRest, Is, LockAfterSend, Inserts, Holders
    <3>5. CASE d # c
      <4>1. NeedsLock(d)' <=> NeedsLock(d)
        BY <2>8, <3>5 DEF Same, NeedsLock, Busy, Is
      <4>2. lock' = d <=> lock = d
        BY <2>2, <3>2, <3>3, <3>5, ExecutorAssumption DEF LockAfterSend, Is
      <4> QED BY <3>1, <4>1, <4>2
    <3> QED BY <3>4, <3>5
  <2>14. Reserving'
    BY <2>2 DEF ExecInv, ProtocolInv, Reserving
  <2>15. Queued(queue)'
    <3>1. ASSUME NEW i \in 1..(n + 1), NEW d, d = queue'[i].call
          PROVE  /\ pc'[d] = "wait" /\ answer'[d] = "none"
                 /\ queue'[i].del = Deletes(d)' /\ queue'[i].keys = NextWrites(d)'
      <4>1. CASE i \in 1..n
        <5>1. /\ d \in Calls \ {c} /\ queue'[i] = queue[i]
          BY <2>6, <2>9, <3>1, <4>1
        <5>2. /\ pc[d] = "wait" /\ answer[d] = "none"
              /\ queue[i].del = Deletes(d) /\ queue[i].keys = NextWrites(d)
          BY <2>4, <3>1, <4>1, <5>1 DEF ExecInv, ProtocolInv, Queued
        <5> QED BY <2>8, <5>1, <5>2 DEF Same, Deletes, NextWrites, OneByOne
      <4>2. CASE i = n + 1
        BY <1>0, <2>1, <2>2, <2>6, <3>1, <4>2 DEF Deletes, NextWrites, OneByOne
      <4> QED BY <2>6, <4>1, <4>2
    <3>2. ASSUME NEW i \in 1..(n + 1), NEW j \in 1..(n + 1), queue'[i].call = queue'[j].call
          PROVE  i = j
      <4>1. r.call = c /\ \A x, y \in 1..n : queue[x].call = queue[y].call => x = y
        BY <2>1, <2>4 DEF ExecInv, ProtocolInv, Queued
      <4> QED BY <2>6, <2>9, <3>2, <4>1
    <3>3. ASSUME NEW d \in Calls, pc'[d] = "wait", answer'[d] = "none"
          PROVE  \E i \in 1..(n + 1) : queue'[i].call = d
      <4>1. CASE d = c
        BY <2>1, <2>6, <4>1
      <4>2. CASE d # c
        <5>1. \E i \in 1..n : queue[i].call = d
          BY <2>4, <2>8, <3>3, <4>2 DEF Same, ExecInv, ProtocolInv, Queued
        <5> QED BY <2>6, <5>1
      <4> QED BY <4>1, <4>2
    <3>4. ASSUME NEW i \in 1..(n + 1), NEW j \in 1..(n + 1), i < j,
                 job'[queue'[i].call].kind \in Holders, job'[queue'[j].call].kind \in Inserts
          PROVE  FALSE
      <4>1. i \in 1..n
        BY <3>4
      <4>2. /\ queue'[i] = queue[i] /\ queue[i].call \in Calls \ {c}
            /\ Is(queue[i].call, Holders) /\ pc[queue[i].call] = "wait"
        BY <2>2, <2>4, <2>6, <2>9, <3>4, <4>1 DEF Is, ExecInv, ProtocolInv, Queued
      <4>3. CASE j \in 1..n
        <5>1. queue'[j] = queue[j] /\ Is(queue[j].call, Inserts)
          BY <2>2, <2>6, <3>4, <4>3 DEF Is
        <5> QED BY <2>4, <3>4, <4>1, <4>2, <4>3, <5>1 DEF ExecInv, ProtocolInv, Queued
      <4>4. CASE j = n + 1
        <5>1. Is(c, Inserts)
          BY <2>1, <2>2, <2>6, <3>4, <4>4 DEF Is
        <5>2. lock = c /\ lock = queue[i].call
          BY <1>0, <4>2, <5>1 DEF ExecInv, ProtocolInv, LockFits, NeedsLock, Busy, AtRest
        <5> QED BY <4>2, <5>2
      <4> QED BY <2>6, <4>3, <4>4
    <3> QED BY <2>6, <3>1, <3>2, <3>3, <3>4 DEF Queued, Is
  <2>16. Progress'
    <3>1. CASE queue = <<>>
      <4>1. applied = 0 /\ Head(queue') = r /\ Len(r.keys) > 0
        BY <2>1, <2>3, <2>7, <3>1 DEF ExecInv, ProtocolInv, Progress
      <4> QED BY <1>0, <2>7, <4>1 DEF Progress
    <3>2. CASE queue # <<>>
      BY <1>0, <2>7, <3>2 DEF Progress, ExecInv, ProtocolInv
    <3> QED BY <3>1, <3>2
  <2>17. ASSUME NothingRaced', NEW d \in Calls PROVE Undisturbed(d)'
    <3>1. Undisturbed(d)
      BY <1>0, <2>17 DEF NothingRaced, ExecInv, RaceInv
    <3>2. CASE d = c
      BY <1>0, <2>2, <3>1, <3>2 DEF Undisturbed, Busy, AtRest, Is
    <3>3. CASE d # c
      BY <1>0, <2>8, <3>1, <3>3, SameUndisturbed
    <3> QED BY <3>2, <3>3
  <2> QED BY <2>12, <2>13, <2>14, <2>15, <2>16, <2>17 DEF Kept, ProtocolInv, LockFits
<1> QED BY <1>1, <1>2 DEF Send

-----------------------------------------------------------------------------
(* The flusher's steps.                                                    *)

\* r is q without its i-th element.
Lacks(r, q, i) ==
  /\ \A j \in DOMAIN r : r[j] = IF j < i THEN q[j] ELSE q[j + 1]
  /\ \A j \in DOMAIN r : j \in DOMAIN q /\ j + 1 \in DOMAIN q /\ j \in Nat
  /\ \A j \in DOMAIN q : j \in Nat /\ j < i => j \in DOMAIN r
  /\ \A j \in DOMAIN q : j \in Nat /\ j > i => j - 1 \in DOMAIN r /\ j - 1 >= i

\* The tail lacks the first element.
LEMMA TailLacks ==
  ASSUME NEW T, NEW q \in Seq(T), q # <<>>
  PROVE  Lacks(Tail(q), q, 1)
<1>1. PICK m \in Nat : m = Len(q) /\ m > 0 /\ DOMAIN q = 1..m
  OBVIOUS
<1>2. PICK t \in Seq(T) : /\ t = Tail(q) /\ Len(t) = m - 1
                          /\ \A j \in 1..Len(t) : t[j] = q[j + 1]
  BY <1>1, HeadTailProperties
<1>3. DOMAIN t = 1..(m - 1)
  BY <1>1, <1>2
<1>4. \A j \in 1..(m - 1) : t[j] = q[j + 1] /\ ~(j < 1)
  BY <1>1, <1>2
<1>5. \A j \in 1..(m - 1) : j \in 1..m /\ j + 1 \in 1..m /\ j \in Nat
  BY <1>1
<1>6. \A j \in 1..m : /\ ~(j < 1) /\ j \in Nat
                      /\ j > 1 => j - 1 \in 1..(m - 1) /\ j - 1 >= 1
  BY <1>1
<1> QED BY <1>1, <1>2, <1>3, <1>4, <1>5, <1>6 DEF Lacks

\* A request that is answered leaves the channel, the others stay.
LEMMA AnsweredQueued ==
  ASSUME ExecInv, NEW i \in DOMAIN queue, Lacks(queue', queue, i),
         UNCHANGED <<pc, job, todo>>, NEW how \in {"ok", "err"},
         answer' = [answer EXCEPT ![queue[i].call] = how]
  PROVE  Queued(queue)'
<1>0. /\ Queued(queue) /\ queue \in Seq(Request) /\ i \in Nat
      /\ answer \in [Calls -> {"none", "ok", "err"}]
  BY DEF ExecInv, ExecTypeOK, ProtocolInv
<1>1. queue[i] \in Request /\ \A j \in DOMAIN queue : queue[j] \in Request /\ j \in Nat
  BY <1>0
<1>2. PICK c \in Calls : c = queue[i].call
  BY <1>1 DEF Request
<1>3. answer'[c] = how /\ \A d \in Calls \ {c} : answer'[d] = answer[d]
  BY <1>0, <1>2
<1>4. \A j \in DOMAIN queue' :
        \E l \in DOMAIN queue : /\ l # i /\ queue'[j] = queue[l]
                                /\ l = IF j < i THEN j ELSE j + 1
  BY <1>0, <1>1 DEF Lacks
<1>5. ASSUME NEW j \in DOMAIN queue', NEW d, d = queue'[j].call
      PROVE  /\ pc'[d] = "wait" /\ answer'[d] = "none"
             /\ queue'[j].del = Deletes(d)' /\ queue'[j].keys = NextWrites(d)'
  <2>1. PICK l \in DOMAIN queue : l # i /\ queue'[j] = queue[l]
    BY <1>4
  <2>2. d \in Calls \ {c}
    BY <1>0, <1>1, <1>2, <1>5, <2>1 DEF Queued, Request
  <2>3. /\ pc[d] = "wait" /\ answer[d] = "none"
        /\ queue[l].del = Deletes(d) /\ queue[l].keys = NextWrites(d)
    BY <1>0, <1>5, <2>1 DEF Queued
  <2> QED BY <1>3, <2>1, <2>2, <2>3 DEF Deletes, NextWrites, OneByOne
<1>6. ASSUME NEW j \in DOMAIN queue', NEW k \in DOMAIN queue',
             queue'[j].call = queue'[k].call
      PROVE  j = k
  <2>1. PICK l \in DOMAIN queue : queue'[j] = queue[l] /\ l = IF j < i THEN j ELSE j + 1
    BY <1>4
  <2>2. PICK n \in DOMAIN queue : queue'[k] = queue[n] /\ n = IF k < i THEN k ELSE k + 1
    BY <1>4
  <2>3. l = n
    BY <1>0, <1>6, <2>1, <2>2 DEF Queued
  <2>4. j \in Nat /\ k \in Nat
    BY DEF Lacks
  <2> QED BY <1>0, <2>1, <2>2, <2>3, <2>4
<1>7. ASSUME NEW d \in Calls, pc'[d] = "wait", answer'[d] = "none"
      PROVE  \E j \in DOMAIN queue' : queue'[j].call = d
  <2>1. d # c /\ answer[d] = "none"
    BY <1>3, <1>7
  <2>2. PICK l \in DOMAIN queue : queue[l].call = d
    BY <1>0, <1>7, <2>1 DEF Queued
  <2>3. l \in Nat /\ l # i
    BY <1>1, <1>2, <2>1, <2>2
  <2>4. CASE l < i
    BY <1>0, <2>2, <2>3, <2>4 DEF Lacks
  <2>5. CASE l > i
    <3>1. l - 1 \in DOMAIN queue' /\ l - 1 >= i /\ (l - 1) + 1 = l
      BY <1>0, <2>3, <2>5 DEF Lacks
    <3>2. queue'[l - 1] = queue[(l - 1) + 1]
      BY <1>0, <2>3, <3>1 DEF Lacks
    <3> QED BY <2>2, <3>1, <3>2
  <2> QED BY <1>0, <2>3, <2>4, <2>5
<1>8. ASSUME NEW j \in DOMAIN queue', NEW k \in DOMAIN queue', j < k,
             job'[queue'[j].call].kind \in Holders
      PROVE  job'[queue'[k].call].kind \notin Inserts
  <2>1. PICK l \in DOMAIN queue : queue'[j] = queue[l] /\ l = IF j < i THEN j ELSE j + 1
    BY <1>4
  <2>2. PICK n \in DOMAIN queue : queue'[k] = queue[n] /\ n = IF k < i THEN k ELSE k + 1
    BY <1>4
  <2>3. j \in Nat /\ k \in Nat
    BY DEF Lacks
  <2>4. l < n
    BY <1>0, <1>8, <2>1, <2>2, <2>3
  <2>5. Is(queue[l].call, Holders)
    BY <1>8, <2>1 DEF Is
  <2>6. ~Is(queue[n].call, Inserts)
    BY <1>0, <2>4, <2>5 DEF Queued
  <2> QED BY <2>2, <2>6 DEF Is
<1> QED BY <1>5, <1>6, <1>7, <1>8 DEF Queued, Is

\* A request has something to write.
LEMMA RequestsWrite ==
  ASSUME ExecInv, NEW i \in DOMAIN queue
  PROVE  Len(queue[i].keys) > 0 /\ queue[i].call \in Calls
<1>0. /\ Queued(queue) /\ queue \in Seq(Request) /\ ExecTypeOK
  BY DEF ExecInv, ExecTypeOK, ProtocolInv
<1>1. queue[i] \in Request
  BY <1>0
<1>2. PICK c \in Calls : c = queue[i].call
  BY <1>1 DEF Request
<1>3. pc[c] = "wait" /\ queue[i].keys = NextWrites(c)
  BY <1>0, <1>2 DEF Queued
<1>4. Listed(c) /\ ListFits(c) /\ job[c] \in Job
  BY <1>3 DEF Listed, ExecInv, ProtocolInv, CallFits, StageFits, Busy, AtRest
<1>5. NextWrites(c) \in Seq(Keys) /\ NextWrites(c) # <<>>
  BY <1>0, <1>4, WritesType
<1> QED BY <1>2, <1>3, <1>5

\* The front of the channel after a request has left it.
LEMMA AnsweredProgress ==
  ASSUME ExecInv, ExecTypeOK', NEW i \in DOMAIN queue, Lacks(queue', queue, i),
         i > 1 => applied' = applied, i = 1 => applied' = 0
  PROVE  /\ Progress'
         /\ queue' # <<>> /\ i = 1 => Head(queue').call # Head(queue).call
         /\ i # 1 => queue' # <<>> /\ Head(queue') = Head(queue)
<1>0. queue \in Seq(Request) /\ queue' \in Seq(Request) /\ queue # <<>> /\ i \in Nat /\ i >= 1
  BY DEF ExecInv, ExecTypeOK
<1>1. Head(queue) = queue[1] /\ 1 \in DOMAIN queue
  BY <1>0
<1>2. queue' # <<>> => Head(queue') = queue'[1] /\ 1 \in DOMAIN queue'
  BY <1>0
<1>3. CASE i = 1
  <2>1. queue' # <<>> => /\ Head(queue') = queue[2] /\ 2 \in DOMAIN queue
    BY <1>2, <1>3 DEF Lacks
  <2>2. queue' # <<>> => Len(Head(queue').keys) > 0
    BY <2>1, RequestsWrite
  <2>3. queue' # <<>> => Head(queue').call # Head(queue).call
    BY <1>1, <2>1 DEF ExecInv, ProtocolInv, Queued
  <2> QED BY <1>3, <2>2, <2>3 DEF Progress
<1>4. CASE i # 1
  <2>1. i > 1 /\ 1 \in DOMAIN queue'
    BY <1>0, <1>1, <1>4 DEF Lacks
  <2>2. queue' # <<>>
    BY <1>0, <2>1
  <2>3. Head(queue') = Head(queue)
    BY <1>1, <1>2, <2>1, <2>2 DEF Lacks
  <2> QED BY <1>0, <1>4, <2>1, <2>2, <2>3 DEF Progress, ExecInv, ProtocolInv
<1> QED BY <1>3, <1>4

\* The lock and the reservations stay as they are.
LEMMA LockAndReservationsStay ==
  ASSUME ExecInv, UNCHANGED <<lock, pending, reserved, pc, job>>
  PROVE  LockFits' /\ Reserving'
BY DEF ExecInv, ProtocolInv, LockFits, NeedsLock, Busy, Is, Reserving

\* The flusher applies a write.
LEMMA ApplyWriteKept == ASSUME ExecInv, ExecTypeOK', ApplyWrite PROVE Kept
<1>0. ExecTypeOK /\ queue # <<>>
  BY DEF ExecInv, ApplyWrite
<1>1. PICK c : c = Head(queue).call
  OBVIOUS
<1>2. /\ c \in Calls /\ pc[c] = "wait" /\ answer[c] = "none" /\ Listed(c) /\ Busy(c)
      /\ Head(queue) = queue[1] /\ 1 \in DOMAIN queue
      /\ Head(queue).del = Deletes(c) /\ Head(queue).keys = NextWrites(c)
      /\ applied \in Nat /\ applied + 1 \in DOMAIN todo[c]
      /\ NextKey = todo[c][applied + 1] /\ NextKey \in Keys
  BY <1>0, <1>1, FrontType
<1>3. PICK k \in Keys : k = NextKey /\ k = todo[c][applied + 1]
  BY <1>2
<1>4. /\ index' = IF Deletes(c) THEN index \ {k} ELSE index \cup {k}
      /\ seen' = [seen EXCEPT ![c] = @ \ {k}]
      /\ stale' = [d \in Calls |-> IF d = c THEN stale[d] \ {k}
                                  ELSE stale[d] \cup ({k} \cap seen[d])]
      /\ Note("crossed", job[c].kind \in Unlocked /\ \E d \in Calls \ {c} : k \in seen[d])
      /\ UNCHANGED <<lock, pending, pc, job, todo, reserved>>
  BY <1>1, <1>2, <1>3 DEF ApplyWrite
<1>5. seen'[c] = seen[c] \ {k} /\ stale'[c] = stale[c] \ {k}
      /\ \A d \in Calls \ {c} : /\ seen'[d] = seen[d] /\ answer'[d] = answer[d]
                                /\ stale'[d] = stale[d] \cup ({k} \cap seen[d])
  <2>1. seen'[c] = seen[c] \ {k} /\ \A d \in Calls \ {c} : seen'[d] = seen[d]
    BY <1>0, <1>2, <1>4 DEF ExecTypeOK
  <2>2. stale'[c] = stale[c] \ {k}
        /\ \A d \in Calls \ {c} : stale'[d] = stale[d] \cup ({k} \cap seen[d])
    BY <1>2, <1>4
  <2>3. \A d \in Calls \ {c} : answer'[d] = answer[d]
    BY <1>0, <1>1, <1>2, ApplyCases DEF ExecTypeOK, ApplyWrite
  <2> QED BY <2>1, <2>2, <2>3
<1>6. /\ Queued(queue)' /\ Progress' /\ Done(c)' = applied + 1 /\ Done(c) = applied
      /\ answer'[c] # "err"
      /\ \A d \in Calls \ {c} : Done(d)' = Done(d)
  <2>0. Done(c) = applied
    BY <1>0, <1>1, <1>2 DEF Done
  <2>1. CASE /\ applied + 1 = Len(Head(queue).keys) /\ applied' = 0
             /\ queue' = Tail(queue) /\ answer' = [answer EXCEPT ![c] = "ok"]
    <3>1. Lacks(queue', queue, 1)
      BY <1>0, <2>1, TailLacks DEF ExecTypeOK
    <3>2. Queued(queue)'
      BY <1>1, <1>2, <1>4, <2>1, <3>1, AnsweredQueued
    <3>3. Progress' /\ (queue' # <<>> => Head(queue').call # c)
      BY <1>1, <1>2, <2>1, <3>1, AnsweredProgress
    <3>4. answer'[c] = "ok"
      BY <1>0, <1>2, <2>1 DEF ExecTypeOK
    <3>5. Done(c)' = applied + 1
      BY <1>2, <1>4, <2>1, <3>4 DEF Done, NextWrites, OneByOne
    <3>6. ASSUME NEW d \in Calls \ {c} PROVE Done(d)' = Done(d)
      BY <1>1, <1>4, <1>5, <2>1 DEF Done, NextWrites, OneByOne
    <3> QED BY <2>0, <3>2, <3>3, <3>4, <3>5, <3>6
  <2>2. CASE /\ applied + 1 # Len(Head(queue).keys) /\ applied' = applied + 1
             /\ queue' = queue /\ answer' = answer
    <3>1. Queued(queue)'
      BY <1>4, <2>2 DEF ExecInv, ProtocolInv, Queued, Deletes, NextWrites, OneByOne, Is
    <3>2. Progress'
      <4>1. applied < Len(NextWrites(c)) /\ applied + 1 # Len(NextWrites(c))
        BY <1>0, <1>1, <1>2, <2>2, FrontType
      <4>2. NextWrites(c) \in Seq(Keys)
        BY <1>0, <1>2, WritesType DEF ExecInv, ProtocolInv, CallFits, StageFits
      <4>3. applied + 1 < Len(NextWrites(c))
        BY <1>2, <4>1, <4>2
      <4> QED BY <1>0, <1>2, <2>2, <4>3 DEF Progress
    <3>3. Done(c)' = applied + 1 /\ answer'[c] # "err"
      BY <1>0, <1>1, <1>2, <2>2 DEF Done
    <3>4. ASSUME NEW d \in Calls \ {c} PROVE Done(d)' = Done(d)
      BY <1>1, <1>4, <2>2 DEF Done, NextWrites, OneByOne
    <3> QED BY <2>0, <3>1, <3>2, <3>3, <3>4
  <2> QED BY <1>1, <2>1, <2>2, ApplyCases
<1>7. ASSUME NEW j \in DOMAIN todo[c], j > applied + 1, ~Is(c, Unlocked)
      PROVE  todo[c][j] # k
  <2>1. CallFits(c) /\ todo[c] \in Seq(Keys) /\ job[c] \in Job
    BY <1>0, <1>2 DEF ExecInv, ProtocolInv, ExecTypeOK, CallFits, StageFits
  <2>2. j # applied + 1
    BY <1>2, <1>7, <2>1
  <2>3. CASE Is(c, Inserts)
    <3>1. PICK n \in 0..Len(todo[c]) :
            /\ \A i, l \in 1..n : todo[c][i] = todo[c][l] => i = l
            /\ n = Len(todo[c])
      BY <1>2, <2>1, <2>3 DEF CallFits, PrefixReserved
    <3>2. DOMAIN todo[c] = 1..n
      BY <2>1, <3>1
    <3> QED BY <1>2, <1>3, <1>7, <2>2, <3>1, <3>2
  <2>4. CASE ~Is(c, Inserts)
    BY <1>2, <1>3, <1>7, <2>1, <2>2, <2>4 DEF CallFits, ListFits, NoTwice
  <2> QED BY <2>3, <2>4
<1>8. CallFits(c)'
  <2>0. CallFits(c)
    BY <1>2 DEF ExecInv, ProtocolInv
  <2>1. StageFits(c)'
    BY <1>2, <1>4, <2>0 DEF CallFits, StageFits, Busy, Is, AtRest
  <2>2. ListFits(c)'
    BY <1>4, <2>0 DEF CallFits, ListFits, Busy, Is, Listed
  <2>3. PrefixReserved(c)'
    BY <1>4, <2>0 DEF CallFits, PrefixReserved, Busy, Is, Listed
  <2>4. InMind(c)'
    <3>0. \A j \in DOMAIN todo[c] : j \in Nat
      BY <1>0, <1>2 DEF ExecTypeOK
    <3>1. ASSUME ~Is(c, Unlocked)
          PROVE  /\ \A j \in DOMAIN todo[c] :
                      j > applied => todo[c][j] \in seen[c] \/ job[c].made
                 /\ Is(c, Inserts) \/ Is(c, {"drop"}) =>
                      \A x \in seen[c] :
                        \E j \in DOMAIN todo[c] : j > applied /\ todo[c][j] = x
      BY <1>2, <1>6, <2>0, <3>1 DEF CallFits, InMind
    <3>2. ASSUME ~Is(c, Unlocked), NEW j \in DOMAIN todo[c], j > applied + 1
          PROVE  todo[c][j] \in seen'[c] \/ job[c].made
      BY <1>2, <1>5, <1>7, <3>0, <3>1, <3>2
    <3>3. ASSUME ~Is(c, Unlocked), Is(c, Inserts) \/ Is(c, {"drop"}), NEW x \in seen'[c]
          PROVE  \E j \in DOMAIN todo[c] : j > applied + 1 /\ todo[c][j] = x
      <4>1. PICK j \in DOMAIN todo[c] : j > applied /\ todo[c][j] = x
        BY <1>5, <3>1, <3>3
      <4>2. j # applied + 1
        BY <1>3, <1>5, <3>3, <4>1
      <4> QED BY <1>2, <3>0, <4>1, <4>2
    <3> QED BY <1>2, <1>4, <1>6, <3>2, <3>3 DEF InMind, Is, Listed, Busy
  <2> QED BY <2>1, <2>2, <2>3, <2>4 DEF CallFits
<1>9. ASSUME NEW d \in Calls \ {c} PROVE CallFits(d)'
  <2>0. CallFits(d)
    BY DEF ExecInv, ProtocolInv
  <2>1. StageFits(d)'
    BY <1>4, <1>5, <2>0 DEF CallFits, StageFits, Busy, Is, AtRest
  <2>2. ListFits(d)'
    BY <1>4, <2>0 DEF CallFits, ListFits, Busy, Is, Listed
  <2>3. PrefixReserved(d)'
    BY <1>4, <2>0 DEF CallFits, PrefixReserved, Busy, Is, Listed
  <2>4. InMind(d)'
    BY <1>4, <1>5, <1>6, <2>0 DEF CallFits, InMind, Is, Listed, Busy, NextToReserve
  <2> QED BY <2>1, <2>2, <2>3, <2>4 DEF CallFits
<1>10. ASSUME NothingRaced', NEW d \in Calls PROVE Undisturbed(d)'
  <2>1. NothingRaced /\ ~(job[c].kind \in Unlocked /\ \E e \in Calls \ {c} : k \in seen[e])
    BY <1>4, <1>10 DEF Note, NothingRaced
  <2>2. Undisturbed(d) /\ Undisturbed(c)
    BY <1>2, <2>1 DEF ExecInv, RaceInv
  <2>3. CASE d = c
    BY <1>2, <1>4, <1>5, <2>2, <2>3
       DEF Undisturbed, Busy, Is, Inserts, Holders, Deletes
  <2>4. CASE d # c /\ Busy(d) /\ k \in seen[d]
    <3>1. ~Is(c, Unlocked) /\ job[c] \in Job
      BY <1>2, <2>1, <2>4 DEF Is, ExecInv, ProtocolInv, CallFits, StageFits
    <3>2. Is(c, Inserts) \/ Is(c, Holders)
      BY <3>1, ExecutorAssumption DEF Is, Job
    <3>3. CASE Is(c, Inserts)
      <4>1. k \in reserved[c]
        <5>1. PICK n \in 0..Len(todo[c]) :
                n = Len(todo[c]) /\ \A i \in 1..n : todo[c][i] \in reserved[c]
          BY <1>2, <3>3 DEF ExecInv, ProtocolInv, CallFits, PrefixReserved
        <5>2. DOMAIN todo[c] = 1..n
          BY <1>0, <1>2, <5>1 DEF ExecTypeOK
        <5> QED BY <1>2, <1>3, <5>1, <5>2
      <4>2. k \in seen[c]
        <5>1. CallFits(c) /\ ~job[c].made
          BY <1>2, <3>3 DEF ExecInv, ProtocolInv, CallFits, StageFits, Is, Inserts
        <5> QED BY <1>2, <1>3, <1>6, <3>1, <5>1 DEF CallFits, InMind
      <4>3. k \notin index /\ ~Deletes(c)
        BY <1>2, <2>2, <3>3, <4>1, <4>2 DEF Undisturbed, Deletes, Is, Inserts
      <4>4. k \notin reserved[d]
        BY <1>2, <2>4, <4>1 DEF ExecInv, ProtocolInv, Reserving
      <4>5. ~Is(d, Holders)
        BY <2>2, <2>4, <4>3 DEF Undisturbed
      <4> QED BY <1>4, <1>5, <2>2, <2>4, <4>3, <4>4, <4>5 DEF Undisturbed, Busy, Is
    <3>4. CASE Is(c, Holders)
      <4>1. lock = c
        BY <1>2, <3>4 DEF ExecInv, ProtocolInv, LockFits, NeedsLock
      <4>2. ~Is(d, Holders)
        <5>1. Is(d, Holders) => pc[d] # "lock"
          BY <2>4 DEF ExecInv, ProtocolInv, CallFits, StageFits
        <5> QED BY <2>4, <4>1, <5>1 DEF ExecInv, ProtocolInv, LockFits, NeedsLock
      <4>3. ASSUME Is(d, Inserts), answer[d] # "err" PROVE k \notin reserved[d]
        <5>0. CallFits(d)
          BY DEF ExecInv, ProtocolInv
        <5>1. CASE pc[d] = "wait" /\ answer[d] = "none"
          <6>1. PICK i \in DOMAIN queue : queue[i].call = d
            BY <5>1 DEF ExecInv, ProtocolInv, Queued
          <6>2. i > 1 /\ Is(queue[1].call, Holders)
            BY <1>0, <1>1, <1>2, <2>4, <3>4, <6>1 DEF ExecTypeOK
          <6> QED BY <1>2, <4>3, <6>1, <6>2 DEF ExecInv, ProtocolInv, Queued
        <5>2. CASE pc[d] = "wait" /\ answer[d] = "ok"
          <6>1. Done(d) = Len(todo[d]) /\ todo[d] \in Seq(Keys)
            BY <1>0, <4>3, <5>2 DEF Done, NextWrites, OneByOne, Is, Inserts, ExecTypeOK
          <6>2. \A x \in seen[d] : \E j \in DOMAIN todo[d] : j > Done(d)
            BY <4>3, <5>0, <5>2 DEF CallFits, InMind, Listed, Is, Inserts, Unlocked
          <6> QED BY <2>4, <6>1, <6>2
        <5>3. CASE pc[d] # "wait"
          <6>1. pc[d] = "lock"
            BY <2>4, <4>1, <4>3, <5>3 DEF ExecInv, ProtocolInv, LockFits, NeedsLock
          <6> QED BY <5>0, <6>1 DEF CallFits, StageFits
        <5> QED BY <1>0, <4>3, <5>1, <5>2, <5>3 DEF ExecTypeOK
      <4> QED BY <1>4, <1>5, <2>2, <2>4, <4>2, <4>3 DEF Undisturbed, Busy, Is
    <3> QED BY <3>2, <3>3, <3>4
  <2>5. CASE d # c /\ Busy(d) /\ k \notin seen[d]
    BY <1>4, <1>5, <2>2, <2>5 DEF Undisturbed, Busy, Is
  <2>6. CASE ~Busy(d)
    BY <1>4, <2>6 DEF Undisturbed, Busy
  <2> QED BY <2>3, <2>4, <2>5, <2>6
<1>11. LockFits' /\ Reserving'
  BY <1>4, LockAndReservationsStay
<1> QED BY <1>6, <1>8, <1>9, <1>10, <1>11 DEF Kept, ProtocolInv

\* A request that finds no room is answered and leaves the channel.
LEMMA RefuseKept == ASSUME ExecInv, ExecTypeOK', Refuse PROVE Kept
<1>0. ExecTypeOK /\ queue \in Seq(Request)
  BY DEF ExecInv, ExecTypeOK
<1>1. PICK i \in DOMAIN queue :
        /\ i > 1 \/ applied = 0
        /\ queue' = Without(queue, i)
        /\ answer' = [answer EXCEPT ![queue[i].call] = "err"]
  BY DEF Refuse, Without
<1>2. UNCHANGED <<applied, index, lock, pending, pc, job, todo, seen, stale, reserved, races>>
  BY DEF Refuse
<1>3. Lacks(queue', queue, i) /\ i \in Nat /\ i >= 1
  BY <1>0, <1>1, WithoutOne DEF Lacks
<1>4. PICK c \in Calls : c = queue[i].call
  BY <1>0, <1>1, RequestsWrite
<1>5. Queued(queue)'
  BY <1>1, <1>2, <1>3, AnsweredQueued
<1>6. /\ Progress'
      /\ queue' # <<>> /\ i = 1 => Head(queue').call # Head(queue).call
      /\ i # 1 => queue' # <<>> /\ Head(queue') = Head(queue)
  BY <1>0, <1>1, <1>2, <1>3, AnsweredProgress
<1>7. answer'[c] = "err" /\ \A d \in Calls \ {c} : Same(d)
  BY <1>0, <1>1, <1>2, <1>4 DEF Same, ExecTypeOK
<1>8. ASSUME NEW d \in Calls \ {c} PROVE Done(d)' = Done(d)
  <2>1. CASE i = 1
    <3>1. Head(queue) = queue[1] /\ queue # <<>> /\ applied = 0
      BY <1>0, <1>1, <2>1
    <3> QED BY <1>2, <1>7, <3>1 DEF Done, Same, NextWrites, OneByOne
  <2>2. CASE i # 1
    <3>1. queue # <<>>
      BY <1>0, <1>1
    <3> QED BY <1>2, <1>6, <1>7, <2>2, <3>1 DEF Done, Same, NextWrites, OneByOne
  <2> QED BY <2>1, <2>2
<1>9. ASSUME NEW d \in Calls PROVE CallFits(d)'
  <2>1. CallFits(d)
    BY DEF ExecInv, ProtocolInv
  <2>2. CASE d = c
    <3>1. pc[c] = "wait"
      BY <1>1, <1>4 DEF ExecInv, ProtocolInv, Queued
    <3>2. StageFits(d)'
      BY <1>2, <2>1, <2>2, <3>1 DEF CallFits, StageFits, Busy, Is, AtRest
    <3>3. ListFits(d)'
      BY <1>2, <2>1 DEF CallFits, ListFits, Busy, Is, Listed
    <3>4. PrefixReserved(d)'
      BY <1>2, <2>1 DEF CallFits, PrefixReserved, Busy, Is, Listed
    <3>5. InMind(d)'
      BY <1>2, <1>7, <2>2, <3>1 DEF InMind, Listed
    <3> QED BY <3>2, <3>3, <3>4, <3>5 DEF CallFits
  <2>3. CASE d # c
    BY <1>7, <1>8, <2>1, <2>3, SameFits, SameInMind DEF CallFits
  <2> QED BY <2>2, <2>3
<1>10. ASSUME NothingRaced', NEW d \in Calls PROVE Undisturbed(d)'
  <2>1. answer'[d] # "err" => answer[d] # "err"
    BY <1>7 DEF Same
  <2> QED BY <1>2, <1>10, <2>1 DEF NothingRaced, ExecInv, RaceInv, Undisturbed, Busy, Is
<1>11. LockFits' /\ Reserving'
  BY <1>2, LockAndReservationsStay
<1> QED BY <1>5, <1>6, <1>9, <1>10, <1>11 DEF Kept, ProtocolInv

\* The flusher fails and answers everybody.
LEMMA FlushFailsKept == ASSUME ExecInv, FlushFails PROVE Kept
<1>0. ExecTypeOK /\ queue \in Seq(Request)
  BY DEF ExecInv, ExecTypeOK
<1>1. /\ queue' = <<>> /\ applied = 0 /\ applied' = 0 /\ answer' = AnswersToAll
      /\ UNCHANGED <<index, lock, pending, pc, job, todo, seen, stale, reserved, races>>
  BY DEF FlushFails
<1>2. ASSUME NEW d \in Calls
      PROVE  IF pc[d] = "wait" /\ answer[d] = "none" THEN answer'[d] = "err"
             ELSE answer'[d] = answer[d]
  <2>1. (\E i \in DOMAIN queue : queue[i].call = d) <=> pc[d] = "wait" /\ answer[d] = "none"
    BY DEF ExecInv, ProtocolInv, Queued
  <2> QED BY <1>1, <2>1 DEF AnswersToAll
<1>3. Queued(queue)' /\ Progress'
  <2>1. DOMAIN queue' = {}
    BY <1>1
  <2>2. ASSUME NEW d \in Calls PROVE ~(pc'[d] = "wait" /\ answer'[d] = "none")
    BY <1>1, <1>2
  <2> QED BY <1>1, <2>1, <2>2 DEF Queued, Progress
<1>4. ASSUME NEW d \in Calls PROVE CallFits(d)'
  <2>1. CallFits(d)
    BY DEF ExecInv, ProtocolInv
  <2>2. StageFits(d)'
    BY <1>1, <1>2, <2>1 DEF CallFits, StageFits, Busy, Is, AtRest
  <2>3. ListFits(d)'
    BY <1>1, <2>1 DEF CallFits, ListFits, Busy, Is, Listed
  <2>4. PrefixReserved(d)'
    BY <1>1, <2>1 DEF CallFits, PrefixReserved, Busy, Is, Listed
  <2>5. InMind(d)'
    <3>1. answer'[d] # "err" => Done(d)' = Done(d)
      BY <1>1, <1>2 DEF Done, NextWrites, OneByOne
    <3>2. answer'[d] # "err" => answer[d] # "err"
      BY <1>2
    <3> QED BY <1>1, <2>1, <3>1, <3>2 DEF CallFits, InMind, Is, Listed, Busy, NextToReserve
  <2> QED BY <2>2, <2>3, <2>4, <2>5 DEF CallFits
<1>5. ASSUME NothingRaced', NEW d \in Calls PROVE Undisturbed(d)'
  BY <1>1, <1>2, <1>5 DEF NothingRaced, ExecInv, RaceInv, Undisturbed, Busy, Is
<1>6. LockFits' /\ Reserving'
  BY <1>1, LockAndReservationsStay
<1> QED BY <1>3, <1>4, <1>5, <1>6 DEF Kept, ProtocolInv

\* The database is closed and opened, or nothing happens.
LEMMA RestKept == ASSUME ExecInv, Reopen \/ UNCHANGED vars PROVE Kept
<1>1. UNCHANGED <<lock, pending, index, queue, applied, pc, job, todo, seen, stale,
                  reserved, answer>>
  BY DEF Reopen, vars, shared, local
<1>2. LockFits' /\ Reserving'
  BY <1>1, LockAndReservationsStay
<1>3. Queued(queue)'
  BY <1>1 DEF ExecInv, ProtocolInv, Queued, Deletes, NextWrites, OneByOne, Is
<1>4. Progress'
  BY <1>1 DEF ExecInv, ProtocolInv, Progress
<1>5. ASSUME NEW d \in Calls PROVE CallFits(d)'
  <2>1. CallFits(d) /\ Same(d)
    BY <1>1 DEF ExecInv, ProtocolInv, Same
  <2> QED BY <1>1, <2>1, SameFits, SameInMind, SameDone DEF CallFits
<1>6. ASSUME NothingRaced', NEW d \in Calls PROVE Undisturbed(d)'
  <2>1. CASE Reopen
    BY <1>1, <2>1 DEF Reopen, Undisturbed, Busy
  <2>2. CASE UNCHANGED vars
    BY <1>1, <1>6, <2>2
       DEF vars, NothingRaced, ExecInv, RaceInv, Undisturbed, Busy, Is
  <2> QED BY <2>1, <2>2
<1> QED BY <1>2, <1>3, <1>4, <1>5, <1>6 DEF Kept, ProtocolInv

\* Every step keeps the protocol, and what no race disturbs.
LEMMA NextKept == ASSUME ExecInv, [Next]_vars PROVE ProtocolInv' /\ RaceInv'
<1>1. ExecTypeOK'
  BY NextTypes
<1>2. ASSUME NEW c \in Calls, Start(c) \/ CallStep(c) PROVE Kept
  BY <1>2, StartKept, LockKept, InsertLooksKept, InsertReservesKept, LookUpKept,
     ListOrScanKept, RegisterKept, SendKept, AnsweredKept, UnlistKept DEF CallStep
<1>3. Kept
  BY <1>1, <1>2, ApplyWriteKept, RefuseKept, FlushFailsKept, RestKept DEF Next
<1> QED BY <1>3 DEF Kept, RaceInv

-----------------------------------------------------------------------------
(* The list of streams.                                                    *)

\* Steps that touch neither the list nor the index, and bring nothing.
LEMMA StreamsStay ==
  ASSUME StreamsFit, UNCHANGED <<index, recorded, streams>>,
         "dropped_under" \notin races' => "dropped_under" \notin races,
         \A d \in Calls : pc'[d] = "register_batch" => pc[d] = "register_batch",
         \A d \in Calls : Brings(d)' => Brings(d) /\ WriteStream(d)' = WriteStream(d)
  PROVE  StreamsFit'
BY DEF StreamsFit

\* A step of one caller that brings nothing.
LEMMA BringsNothing ==
  ASSUME ExecInv, NEW c \in Calls, \A d \in Calls \ {c} : Same(d),
         pc'[c] \notin {"register_batch", "send"}, pc'[c] # "wait"
  PROVE  /\ \A d \in Calls : pc'[d] = "register_batch" => pc[d] = "register_batch"
         /\ \A d \in Calls : Brings(d)' => Brings(d) /\ WriteStream(d)' = WriteStream(d)
BY DEF Same, Brings, Deletes, WriteStream

\* A query that leaves brings nothing.
LEMMA LeavesNothing ==
  ASSUME ExecInv, NEW c \in Calls, NEW how \in {"ok", "err"}, Leave(c, how),
         answer' = answer \/ answer' = [answer EXCEPT ![c] = "none"]
  PROVE  /\ \A d \in Calls : pc'[d] = "register_batch" => pc[d] = "register_batch"
         /\ \A d \in Calls : Brings(d)' => Brings(d) /\ WriteStream(d)' = WriteStream(d)
<1>0. ExecTypeOK
  BY DEF ExecInv
<1>1. pc'[c] = how /\ \A d \in Calls \ {c} : Same(d)
  BY <1>0 DEF ExecTypeOK, Leave, Goto, Same
<1> QED BY <1>1, BringsNothing

\* What a query does before and after the registration of its stream.
LEMMA CallerStreams ==
  ASSUME ExecInv, NEW c \in Calls,
         Start(c) \/ Lock(c) \/ InsertLooks(c) \/ InsertReserves(c) \/ LookUp(c)
           \/ ListKeys(c) \/ Scan(c) \/ Answered(c)
  PROVE  StreamsFit'
<1>0. ExecTypeOK /\ StreamsFit
  BY DEF ExecInv
<1> USE DEF disk
<1>1. UNCHANGED <<index, recorded, streams>>
  BY DEF Start, shared, Lock, InsertLooks, InsertReserves, LookUp, ListKeys, Scan, Answered
<1>2. "dropped_under" \notin races' => "dropped_under" \notin races
  BY DEF Start, shared, Lock, InsertLooks, InsertReserves, LookUp, ListKeys, Scan, Answered,
         Note
<1>3. answer' = answer \/ answer' = [answer EXCEPT ![c] = "none"]
  BY DEF Start, Lock, InsertLooks, InsertReserves, LookUp, ListKeys, Scan, Answered
<1>4. CASE Leave(c, "ok") \/ Leave(c, "err")
  BY <1>0, <1>1, <1>2, <1>3, <1>4, LeavesNothing, StreamsStay
<1>5. CASE /\ \A d \in Calls \ {c} : Same(d)
           /\ pc'[c] \in {"err", "lock", "look", "reserve", "check", "register", "unlist"}
  <2>1. pc'[c] \notin {"register_batch", "send", "wait"}
    BY <1>5
  <2> QED BY <1>0, <1>1, <1>2, <1>5, <2>1, BringsNothing, StreamsStay
<1>6. CASE Start(c)
  <2>1. PICK kind \in Ops, s \in Streams :
          /\ job' = [job EXCEPT ![c] = [kind |-> kind, stream |-> s, made |-> FALSE]]
          /\ \E t \in KeyLists(kind, s) : todo' = [todo EXCEPT ![c] = t]
          /\ \E where \in {"err", "register", "look", "lock"} : Goto(c, where)
    BY <1>6 DEF Start
  <2> QED BY <1>0, <1>5, <1>6, <2>1 DEF Start, ExecTypeOK, Same, Goto
<1>7. CASE Lock(c)
  BY <1>0, <1>5, <1>7 DEF Lock, ExecTypeOK, Same, Goto
<1>8. CASE InsertLooks(c)
  BY <1>0, <1>4, <1>5, <1>8 DEF InsertLooks, ExecTypeOK, Same, Goto, Look
<1>9. CASE InsertReserves(c)
  <2>1. CASE Leave(c, "err")
    BY <1>4, <2>1
  <2>2. CASE ~Leave(c, "err")
    <3>1. \E where \in {"look", "register", "check"} : Goto(c, where)
      BY <1>9, <2>2 DEF InsertReserves
    <3>2. \E R \in SUBSET Keys : reserved' = [reserved EXCEPT ![c] = R]
      <4>1. NextToReserve(c) \in Keys
        BY <1>9, NextToReserveType
           DEF InsertReserves, Is, ExecInv, ProtocolInv, CallFits, StageFits
      <4>2. reserved[c] \cup {NextToReserve(c)} \in SUBSET Keys
        BY <1>0, <4>1 DEF ExecTypeOK
      <4> QED BY <1>9, <2>2, <4>2 DEF InsertReserves
    <3> QED BY <1>0, <1>5, <1>9, <2>2, <3>1, <3>2
            DEF InsertReserves, ExecTypeOK, Same, Goto
  <2> QED BY <2>1, <2>2
<1>10. CASE LookUp(c)
  BY <1>0, <1>4, <1>5, <1>10 DEF LookUp, ExecTypeOK, Same, Goto, Look
<1>11. CASE ListKeys(c) \/ Scan(c)
  <2>1. \/ Leave(c, "ok") \/ Leave(c, "err")
        \/ \E T : GoOnWith(c, T) \/ GoOnWithMadeUp(c, T)
    BY <1>11 DEF ListKeys, Scan
  <2>2. ASSUME NEW T, GoOnWith(c, T), ~Leave(c, "ok")
        PROVE  /\ \A d \in Calls \ {c} : Same(d)
               /\ pc'[c] \in {"register", "unlist"}
    BY <1>0, <1>11, <2>2 DEF GoOnWith, StayAt, Goto, Look, ExecTypeOK, Same, ListKeys, Scan
  <2>3. ASSUME NEW T, GoOnWithMadeUp(c, T)
        PROVE  (\A d \in Calls \ {c} : Same(d)) /\ pc'[c] = "register"
    BY <1>0, <1>11, <2>3 DEF GoOnWithMadeUp, Goto, Look, ExecTypeOK, Same, ListKeys, Scan
  <2> QED BY <1>4, <1>5, <2>1, <2>2, <2>3
<1>12. CASE Answered(c)
  BY <1>0, <1>4, <1>5, <1>12 DEF Answered, ExecTypeOK, Same, Goto, StayAt
<1> QED BY <1>6, <1>7, <1>8, <1>9, <1>10, <1>11, <1>12

\* Steps that add a stream the limit has room for.
LEMMA StreamsGrow ==
  ASSUME StreamsFit, UNCHANGED <<index, recorded, races>>, streams \subseteq streams',
         Cardinality(streams') \in Nat,
         streams' = streams \/ Cardinality(streams') <= MaxStreams,
         \A d \in Calls : pc'[d] = "register_batch" => pc[d] = "register_batch",
         \A d \in Calls : Brings(d)' => /\ WriteStream(d)' = WriteStream(d)
                                        /\ Brings(d) \/ WriteStream(d) \in streams'
  PROVE  StreamsFit'
<1>1. /\ \A k \in index' : StreamOf[k] \in recorded'
      /\ (\E c \in Calls : pc'[c] = "register_batch") => Cardinality(streams') <= MaxStreams
  BY DEF StreamsFit
<1>2. Cardinality(streams') <= MaxStreams + 1
  BY ExecutorAssumption DEF StreamsFit
<1>3. ASSUME "dropped_under" \notin races'
      PROVE  /\ \A k \in index' : StreamOf[k] \in streams'
             /\ \A d \in Calls : Brings(d)' => WriteStream(d)' \in streams'
  BY <1>3 DEF StreamsFit
<1> QED BY <1>1, <1>2, <1>3 DEF StreamsFit

\* A query registers its stream.
LEMMA RegisterStreams == ASSUME ExecInv, NEW c \in Calls, Register(c) PROVE StreamsFit'
<1>0. ExecTypeOK /\ StreamsFit /\ pc[c] = "register"
      /\ UNCHANGED <<index, recorded, races, answer>>
  BY DEF ExecInv, Register, disk
<1>1. CASE Leave(c, "err") /\ UNCHANGED streams
  BY <1>0, <1>1, LeavesNothing, StreamsStay
<1>2. CASE Room(WriteStream(c)) /\ streams' = streams \cup {WriteStream(c)}
  <2>1. WriteStream(c) \in Streams
    BY <1>0, WriteStreamType DEF Listed
  <2>2. IsFiniteSet(streams) /\ Cardinality(streams) \in Nat
    BY <1>0, Finite DEF ExecTypeOK
  <2>3. streams' = streams \/ Cardinality(streams') <= MaxStreams
    <3>1. CASE WriteStream(c) \in streams
      BY <1>2, <3>1
    <3>2. CASE WriteStream(c) \notin streams
      <4>1. Cardinality(streams) < MaxStreams
        BY <1>2, <3>2 DEF Room
      <4>2. Cardinality(streams \cup {WriteStream(c)}) = Cardinality(streams) + 1
        BY <2>2, <3>2, FS_AddElement
      <4> QED BY <1>2, <2>2, <4>1, <4>2, ExecutorAssumption
    <3> QED BY <3>1, <3>2
  <2>6. Cardinality(streams') \in Nat
    BY <1>0, <1>2, <2>1, Finite DEF ExecTypeOK
  <2>4. CASE Leave(c, "err")
    <3>1. /\ \A d \in Calls : pc'[d] = "register_batch" => pc[d] = "register_batch"
          /\ \A d \in Calls : Brings(d)' => Brings(d) /\ WriteStream(d)' = WriteStream(d)
      BY <1>0, <2>4, LeavesNothing
    <3> QED BY <1>0, <1>2, <2>3, <2>6, <3>1, StreamsGrow
  <2>5. CASE StayAt(c, "send")
    <3>1. pc'[c] = "send" /\ job' = job /\ todo' = todo /\ \A d \in Calls \ {c} : Same(d)
      BY <1>0, <2>5 DEF StayAt, Goto, ExecTypeOK, Same
    <3>2. \A d \in Calls : pc'[d] = "register_batch" => pc[d] = "register_batch"
      BY <3>1 DEF Same
    <3>3. \A d \in Calls \ {c} : Brings(d)' => Brings(d)
      BY <3>1 DEF Brings, Same, Deletes
    <3>4. \A d \in Calls : Brings(d) \/ WriteStream(d) \in streams' \/ ~Brings(d)'
      BY <1>2, <3>3
    <3>5. \A d \in Calls : WriteStream(d)' = WriteStream(d)
      BY <3>1 DEF WriteStream
    <3> QED BY <1>0, <1>2, <2>3, <2>6, <3>1, <3>2, <3>4, <3>5, StreamsGrow
  <2> QED BY <1>1, <1>2, <2>4, <2>5 DEF Register
<1> QED BY <1>1, <1>2 DEF Register

\* A batch insert checks the limit and registers its stream later.
LEMMA BatchStreams ==
  ASSUME ExecInv, NEW c \in Calls, CheckBatch(c) \/ RegisterBatch(c)
  PROVE  StreamsFit'
<1>0. ExecTypeOK /\ StreamsFit /\ UNCHANGED <<index, recorded, races, answer>>
  BY DEF ExecInv, CheckBatch, RegisterBatch, disk
<1>1. WriteStream(c) \in Streams
  BY WriteStreamType DEF CheckBatch, RegisterBatch, Listed
<1>2. /\ IsFiniteSet(streams) /\ Cardinality(streams) \in Nat
      /\ Cardinality(streams \cup {WriteStream(c)}) \in
           {Cardinality(streams), Cardinality(streams) + 1}
  BY <1>0, Finite, FS_AddElement DEF ExecTypeOK
<1>3. CASE CheckBatch(c) /\ Leave(c, "err")
  BY <1>0, <1>3, LeavesNothing, StreamsStay DEF CheckBatch
<1>4. CASE CheckBatch(c) /\ ~Leave(c, "err")
  <2>1. /\ StayAt(c, "register_batch") /\ streams' = streams
        /\ ~(Cardinality(streams \cup {WriteStream(c)}) > MaxStreams)
    BY <1>4 DEF CheckBatch
  <2>2. pc'[c] = "register_batch" /\ job' = job /\ todo' = todo /\ \A d \in Calls \ {c} : Same(d)
    BY <1>0, <2>1 DEF StayAt, Goto, ExecTypeOK, Same
  <2>3. Cardinality(streams) <= MaxStreams
    BY <1>2, <2>1, ExecutorAssumption
  <2>4. \A d \in Calls : Brings(d)' => Brings(d)
    BY <2>2 DEF Brings, Same, Deletes
  <2> QED BY <1>0, <2>1, <2>2, <2>3, <2>4 DEF StreamsFit, WriteStream
<1>5. CASE RegisterBatch(c)
  <2>1. /\ StayAt(c, "send") /\ streams' = streams \cup {WriteStream(c)}
        /\ pc[c] = "register_batch"
    BY <1>5 DEF RegisterBatch
  <2>2. pc'[c] = "send" /\ job' = job /\ todo' = todo /\ \A d \in Calls \ {c} : Same(d)
    BY <1>0, <2>1 DEF StayAt, Goto, ExecTypeOK, Same
  <2>3. Cardinality(streams) <= MaxStreams
    BY <1>0, <2>1 DEF StreamsFit
  <2>4. Cardinality(streams') <= MaxStreams + 1
    BY <1>2, <2>1, <2>3, ExecutorAssumption
  <2>5. ASSUME NEW d \in Calls, pc'[d] = "register_batch" PROVE FALSE
    <3>1. d # c /\ pc[d] = "register_batch"
      BY <2>2, <2>5 DEF Same
    <3>2. NeedsLock(c) /\ NeedsLock(d)
      BY <2>1, <3>1
         DEF NeedsLock, Busy, AtRest, Is, Inserts, ExecInv, ProtocolInv, CallFits, StageFits
    <3> QED BY <3>1, <3>2 DEF ExecInv, ProtocolInv, LockFits
  <2>6. \A d \in Calls \ {c} : Brings(d)' => Brings(d)
    BY <2>2 DEF Brings, Same, Deletes
  <2> QED BY <1>0, <2>1, <2>2, <2>4, <2>5, <2>6 DEF StreamsFit, WriteStream
<1> QED BY <1>3, <1>4, <1>5

\* A write on its way is in the channel, or the query is about to send it.
LEMMA BringsUnderWay ==
  ASSUME ExecInv, NEW d \in Calls, Brings(d), NEW S
  PROVE  UnderWay(WriteStream(d), S)
<1>1. CASE pc[d] = "send"
  BY <1>1 DEF Brings, UnderWay
<1>2. CASE pc[d] = "wait" /\ answer[d] = "none"
  <2>1. PICK i \in DOMAIN queue : queue[i].call = d
    BY <1>2 DEF ExecInv, ProtocolInv, Queued
  <2>2. ~queue[i].del /\ queue[i].keys = NextWrites(d)
    BY <2>1 DEF Brings, ExecInv, ProtocolInv, Queued
  <2>3. Listed(d) /\ Busy(d) /\ ListFits(d) /\ job[d] \in Job
    BY <1>2 DEF Listed, Busy, AtRest, ExecInv, ProtocolInv, CallFits, StageFits
  <2>4. /\ NextWrites(d) \in Seq(Keys) /\ NextWrites(d) # <<>>
        /\ \A j \in DOMAIN NextWrites(d) :
             j \in DOMAIN todo[d] /\ NextWrites(d)[j] = todo[d][j]
    BY <2>3, WritesType DEF ExecInv
  <2>5. 1 \in DOMAIN NextWrites(d)
    BY <2>4
  <2>6. StreamOf[NextWrites(d)[1]] = WriteStream(d)
    BY <2>3, <2>4, <2>5, WriteStreamType
  <2> QED BY <2>2, <2>5, <2>6 DEF UnderWay
<1> QED BY <1>1, <1>2 DEF Brings

\* A drop takes its stream off the list.
LEMMA UnlistStreams == ASSUME ExecInv, NEW c \in Calls, Unlist(c) PROVE StreamsFit'
<1>0. /\ ExecTypeOK /\ StreamsFit /\ Leave(c, "ok") /\ pc[c] = "unlist"
      /\ streams' = streams \ {job[c].stream} /\ UNCHANGED <<index, recorded, answer>>
      /\ Note("dropped_under", UnderWay(job[c].stream, seen[c]))
  BY DEF ExecInv, Unlist, disk
<1>1. /\ \A d \in Calls : pc'[d] = "register_batch" => pc[d] = "register_batch"
      /\ \A d \in Calls : Brings(d)' => Brings(d) /\ WriteStream(d)' = WriteStream(d)
  BY <1>0, LeavesNothing
<1>2. /\ IsFiniteSet(streams) /\ Cardinality(streams) \in Nat
      /\ Cardinality(streams') <= Cardinality(streams) /\ Cardinality(streams') \in Nat
  <2>1. streams \in SUBSET Streams /\ streams' \in SUBSET Streams
    BY <1>0 DEF ExecTypeOK
  <2>2. IsFiniteSet(streams) /\ Cardinality(streams) \in Nat /\ Cardinality(streams') \in Nat
    BY <2>1, Finite
  <2>3. Cardinality(streams') <= Cardinality(streams)
    BY <1>0, <2>2, FS_Subset
  <2> QED BY <2>2, <2>3
<1>3. ASSUME "dropped_under" \notin races'
      PROVE  /\ \A k \in index : StreamOf[k] \in streams'
             /\ \A d \in Calls : Brings(d)' => WriteStream(d)' \in streams'
  <2>1. "dropped_under" \notin races /\ ~UnderWay(job[c].stream, seen[c])
    BY <1>0, <1>3 DEF Note
  <2>2. seen[c] = {}
    BY <1>0 DEF ExecInv, ProtocolInv, CallFits, StageFits
  <2>3. \A k \in index : StreamOf[k] # job[c].stream
    BY <2>1, <2>2 DEF UnderWay, LiveKeys
  <2>4. \A d \in Calls : Brings(d)' => WriteStream(d) # job[c].stream
    BY <1>1, <2>1, BringsUnderWay
  <2> QED BY <1>0, <1>1, <2>1, <2>3, <2>4 DEF StreamsFit
<1> QED BY <1>0, <1>1, <1>2, <1>3, ExecutorAssumption DEF StreamsFit

\* A query sends its request.
LEMMA SendStreams == ASSUME ExecInv, NEW c \in Calls, Send(c) PROVE StreamsFit'
<1>0. ExecTypeOK /\ StreamsFit /\ pc[c] = "send"
      /\ UNCHANGED <<index, recorded, streams, races, answer>>
  BY DEF ExecInv, Send, disk
<1>1. CASE Leave(c, "err")
  BY <1>0, <1>1, LeavesNothing, StreamsStay
<1>2. CASE ~Leave(c, "err")
  <2>1. /\ pc' = [pc EXCEPT ![c] = "wait"]
        /\ UNCHANGED <<pending, reserved, seen, stale, todo, job>>
    BY <1>2 DEF Send, Goto
  <2>2. pc'[c] = "wait" /\ \A d \in Calls \ {c} : Same(d)
    BY <1>0, <2>1 DEF ExecTypeOK, Same
  <2>3. \A d \in Calls : Brings(d)' => Brings(d) /\ WriteStream(d)' = WriteStream(d)
    BY <1>0, <2>1, <2>2 DEF Brings, Same, Deletes, WriteStream
  <2>4. \A d \in Calls : pc'[d] = "register_batch" => pc[d] = "register_batch"
    BY <2>2 DEF Same
  <2> QED BY <1>0, <2>3, <2>4, StreamsStay
<1> QED BY <1>1, <1>2

\* The flusher's steps.
LEMMA FlusherStreams ==
  ASSUME ExecInv, ApplyWrite \/ Refuse \/ FlushFails PROVE StreamsFit'
<1>0. ExecTypeOK /\ StreamsFit
  BY DEF ExecInv
<1>1. CASE Refuse \/ FlushFails
  <2>1. UNCHANGED <<index, recorded, streams, races, pc, job, todo>>
    BY <1>1 DEF Refuse, FlushFails, disk
  <2>2. ASSUME NEW d \in Calls, answer'[d] = "none" PROVE answer[d] = "none"
    <3>1. CASE Refuse
      BY <1>0, <2>2, <3>1 DEF Refuse, ExecTypeOK
    <3>2. CASE FlushFails
      BY <2>2, <3>2 DEF FlushFails, AnswersToAll
    <3> QED BY <1>1, <3>1, <3>2
  <2>3. \A d \in Calls : Brings(d)' => Brings(d) /\ WriteStream(d)' = WriteStream(d)
    BY <2>1, <2>2 DEF Brings, Deletes, WriteStream
  <2> QED BY <1>0, <2>1, <2>3, StreamsStay
<1>2. CASE ApplyWrite
  <2>0. PICK c : c = Head(queue).call
    OBVIOUS
  <2>1. /\ c \in Calls /\ pc[c] = "wait" /\ answer[c] = "none" /\ Busy(c)
        /\ Head(queue).del = Deletes(c) /\ applied + 1 \in DOMAIN todo[c]
        /\ NextKey = todo[c][applied + 1] /\ NextKey \in Keys
    BY <1>2, <2>0, FrontType DEF ApplyWrite
  <2>2. StreamOf[NextKey] = WriteStream(c)
    BY <2>1, WriteStreamType DEF Listed
  <2>3. /\ index' = IF Deletes(c) THEN index \ {NextKey} ELSE index \cup {NextKey}
        /\ recorded' = IF Deletes(c) THEN recorded ELSE recorded \cup {StreamOf[NextKey]}
        /\ UNCHANGED <<streams, pc, job, todo>>
        /\ "dropped_under" \notin races' => "dropped_under" \notin races
    BY <1>2, <2>1 DEF ApplyWrite, Note
  <2>4. \A d \in Calls : answer'[d] = "none" => answer[d] = "none"
    BY <1>0, <1>2, <2>0, <2>1, ApplyCases DEF ExecTypeOK
  <2>5. \A d \in Calls : Brings(d)' => Brings(d)
    BY <2>3, <2>4 DEF Brings, Deletes
  <2>6. ~Deletes(c) => Brings(c)
    BY <2>1 DEF Brings
  <2> QED BY <1>0, <2>1, <2>2, <2>3, <2>5, <2>6 DEF StreamsFit, WriteStream
<1> QED BY <1>1, <1>2

\* Every step keeps the list of streams.
LEMMA NextStreams == ASSUME ExecInv, [Next]_vars PROVE StreamsFit'
<1>1. CASE Reopen
  <2>1. /\ UNCHANGED <<index, recorded, pc, answer>> /\ streams' = recorded
        /\ Cardinality(recorded) <= MaxStreams /\ \A c \in Calls : pc[c] \in AtRest
    BY <1>1 DEF Reopen, local
  <2>2. \A c \in Calls : ~Brings(c)' /\ pc'[c] # "register_batch"
    BY <2>1 DEF Brings, AtRest
  <2>3. Cardinality(recorded) \in Nat
    BY Finite DEF ExecInv, ExecTypeOK
  <2> QED BY <2>1, <2>2, <2>3, ExecutorAssumption DEF ExecInv, StreamsFit
<1>2. CASE UNCHANGED vars
  BY <1>2, StreamsStay DEF ExecInv, vars, shared, local, disk, Brings, Deletes,
         WriteStream
<1> QED BY <1>1, <1>2, CallerStreams, RegisterStreams, BatchStreams, UnlistStreams,
           SendStreams, FlusherStreams DEF Next, CallStep

-----------------------------------------------------------------------------
(* The theorems.                                                           *)

\* A database just opened.
LEMMA InitExecInv == Init => ExecInv
<1> SUFFICES ASSUME Init PROVE ExecInv
  OBVIOUS
<1>1. ExecTypeOK
  <2>1. index \subseteq Keys /\ recorded \subseteq Streams /\ streams \subseteq Streams
    BY DEF Init
  <2>2. <<>> \in Seq(Keys) /\ queue \in Seq(Request)
    BY DEF Init
  <2>3. todo \in [Calls -> Seq(Keys)]
    BY <2>2 DEF Init
  <2>4. pc \in [Calls -> Places] /\ job \in [Calls -> Job \cup {<<>>}]
    BY DEF Init, Places, AtRest
  <2>5. /\ seen \in [Calls -> SUBSET Keys] /\ stale \in [Calls -> SUBSET Keys]
        /\ reserved \in [Calls -> SUBSET Keys] /\ answer \in [Calls -> {"none", "ok", "err"}]
    BY DEF Init
  <2>6. /\ lock \in Calls \cup {Nobody} /\ pending \subseteq Keys /\ applied \in Nat
        /\ failed \in BOOLEAN /\ reopens \in Nat /\ races \subseteq Races
    BY DEF Init
  <2> QED BY <2>1, <2>2, <2>3, <2>4, <2>5, <2>6 DEF ExecTypeOK
<1>2. \A c \in Calls : CallFits(c)
  BY DEF Init, CallFits, StageFits, ListFits, PrefixReserved, InMind, Busy, AtRest, Listed
<1>3. LockFits
  BY ExecutorAssumption DEF Init, LockFits, NeedsLock, Busy, AtRest
<1>4. Reserving
  BY DEF Init, Reserving
<1>5. Queued(queue) /\ Progress
  BY DEF Init, Queued, Progress
<1>6. RaceInv
  BY DEF Init, RaceInv, Undisturbed, Busy, AtRest
<1>7. StreamsFit
  <2>1. Cardinality(recorded) \in Nat
    BY Finite DEF Init
  <2> QED BY <2>1, ExecutorAssumption DEF Init, StreamsFit, Brings
<1> QED BY <1>1, <1>2, <1>3, <1>4, <1>5, <1>6, <1>7 DEF ExecInv, ProtocolInv

\* Every step keeps the invariant.
LEMMA NextExecInv == ExecInv /\ [Next]_vars => ExecInv'
BY NextTypes, NextKept, NextStreams DEF ExecInv

\* The invariant holds.
THEOREM ExecutorInvariant == Spec => []ExecInv
BY InitExecInv, NextExecInv, PTL DEF Spec

\* A key is reserved exactly while one insert is under way for it (executor.rs,
\* PendingInsertGuard).
THEOREM InsertsShareNoKey == Spec => []ReservationsMatch
<1>1. ExecInv => ReservationsMatch
  <2> SUFFICES ASSUME ExecInv PROVE ReservationsMatch
    OBVIOUS
  <2>0. ExecTypeOK
    BY DEF ExecInv
  <2>1. /\ pending = UNION { reserved[c] : c \in Calls }
        /\ \A c, d \in Calls : c # d => reserved[c] \cap reserved[d] = {}
    BY DEF ExecInv, ProtocolInv, Reserving
  <2>2. \A c \in Calls : reserved[c] # {} => pc[c] \notin {"ok", "err"}
    BY DEF ExecInv, ProtocolInv, CallFits, StageFits, AtRest
  <2>3. ASSUME NEW i \in DOMAIN queue, NEW c, c = queue[i].call, job[c].kind \in Inserts,
               NEW n \in DOMAIN queue[i].keys
        PROVE  queue[i].keys[n] \in reserved[c]
    <3>1. /\ c \in Calls /\ pc[c] = "wait" /\ queue[i].keys = NextWrites(c)
      BY <2>3, RequestsWrite DEF ExecInv, ProtocolInv, Queued
    <3>2. Listed(c) /\ Busy(c) /\ CallFits(c) /\ job[c] \in Job
      BY <3>1 DEF Listed, Busy, AtRest, ExecInv, ProtocolInv, CallFits, StageFits
    <3>3. n \in DOMAIN todo[c] /\ queue[i].keys[n] = todo[c][n]
      BY <2>0, <2>3, <3>1, <3>2, WritesType DEF CallFits
    <3>4. PICK m \in 0..Len(todo[c]) :
            m = Len(todo[c]) /\ \A x \in 1..m : todo[c][x] \in reserved[c]
      BY <2>3, <3>2 DEF CallFits, PrefixReserved, Is
    <3>5. DOMAIN todo[c] = 1..m
      BY <2>0, <3>1, <3>4 DEF ExecTypeOK
    <3> QED BY <3>3, <3>4, <3>5
  <2> QED BY <2>1, <2>2, <2>3 DEF ReservationsMatch
<1> QED BY <1>1, ExecutorInvariant, PTL

\* An insert overwrites nothing, unless it reserved its key too late or a query
\* without the lock wrote the key (executor.rs, Insert and InsertBatch).
THEOREM InsertsAreUnique == Spec => []InsertsOverwriteNothing
<1>1. ExecInv => InsertsOverwriteNothing
  <2> SUFFICES ASSUME ExecInv, NextWriteOf(Inserts), NothingRaced PROVE NextKey \notin index
    BY DEF InsertsOverwriteNothing, NothingRaced
  <2>1. PICK c : c = Head(queue).call
    OBVIOUS
  <2>2. /\ c \in Calls /\ Listed(c) /\ Busy(c) /\ answer[c] = "none" /\ queue # <<>>
        /\ applied + 1 \in DOMAIN todo[c] /\ NextKey = todo[c][applied + 1]
        /\ Is(c, Inserts) /\ applied \in Nat
    BY <2>1, FrontType DEF NextWriteOf, Is
  <2>3. CallFits(c) /\ Undisturbed(c) /\ todo[c] \in Seq(Keys)
    BY <2>2 DEF ExecInv, ProtocolInv, RaceInv, ExecTypeOK
  <2>4. Done(c) = applied
    BY <2>1, <2>2 DEF Done
  <2>5. NextKey \in seen[c]
    BY <2>2, <2>3, <2>4 DEF CallFits, StageFits, InMind, Is, Inserts, Unlocked
  <2>6. PICK m \in 0..Len(todo[c]) :
          m = Len(todo[c]) /\ \A x \in 1..m : todo[c][x] \in reserved[c]
    BY <2>2, <2>3 DEF CallFits, PrefixReserved
  <2>7. NextKey \in reserved[c]
    BY <2>2, <2>3, <2>6
  <2> QED BY <2>2, <2>3, <2>5, <2>7 DEF Undisturbed
<1> QED BY <1>1, ExecutorInvariant, PTL

\* A query with the lock writes over what it has read, unless a query without it
\* or a late insert came between (executor.rs, Update to PipelineDelete).
THEOREM HoldersAreNotOvertaken == Spec => []HoldersWriteWhatTheyRead
<1>1. ExecInv => HoldersWriteWhatTheyRead
  <2> SUFFICES ASSUME ExecInv, NextWriteOf(Holders), NothingRaced
               PROVE  LET c == Head(queue).call IN
                      NextKey \notin stale[c] /\ (NextKey \in seen[c] \/ job[c].made)
    BY DEF HoldersWriteWhatTheyRead, NothingRaced
  <2>1. PICK c : c = Head(queue).call
    OBVIOUS
  <2>2. /\ c \in Calls /\ Listed(c) /\ Busy(c) /\ answer[c] = "none" /\ queue # <<>>
        /\ applied + 1 \in DOMAIN todo[c] /\ NextKey = todo[c][applied + 1]
        /\ Is(c, Holders) /\ applied \in Nat
    BY <2>1, FrontType DEF NextWriteOf, Is
  <2>3. CallFits(c) /\ Undisturbed(c)
    BY <2>2 DEF ExecInv, ProtocolInv, RaceInv
  <2>4. Done(c) = applied
    BY <2>1, <2>2 DEF Done
  <2>5. NextKey \in seen[c] \/ job[c].made
    BY <2>2, <2>3, <2>4 DEF CallFits, InMind, Is, Holders, Unlocked
  <2> QED BY <2>1, <2>2, <2>3, <2>5 DEF Undisturbed
<1> QED BY <1>1, ExecutorInvariant, PTL

\* A live record is in a listed stream, unless a drop came between its
\* registration and its write (storage.rs:1625-1700, executor.rs, Drop).
THEOREM LiveStreamsStayListed == Spec => []LiveStreamsListed
<1>1. ExecInv => LiveStreamsListed
  BY DEF ExecInv, StreamsFit, LiveStreamsListed
<1> QED BY <1>1, ExecutorInvariant, PTL

\* The stream limit is exceeded by one at the most (storage.rs:1625-1700).
THEOREM StreamsAreLimited == Spec => []StreamLimit
<1>1. ExecInv => StreamLimit
  BY DEF ExecInv, StreamsFit, StreamLimit
<1> QED BY <1>1, ExecutorInvariant, PTL

\* Callers and flusher never wait for each other in a circle (storage.rs,
\* the channel and its answers).
THEOREM CallersAreNeverStuck == Spec => []NobodyIsStuck
<1>1. ExecInv => NobodyIsStuck
  <2> SUFFICES ASSUME ExecInv, queue = <<>>, NEW c \in Calls, Busy(c)
               PROVE  \E d \in Calls : Busy(d) /\ ~Waits(d)
    BY DEF NobodyIsStuck, Busy
  <2>1. ASSUME NEW d \in Calls, pc[d] # "lock" PROVE ~Waits(d)
    <3>1. ~(pc[d] = "wait" /\ answer[d] = "none")
      BY DEF ExecInv, ProtocolInv, Queued
    <3>2. ~(Len(queue) >= QueueCap)
      BY ExecutorAssumption
    <3> QED BY <2>1, <3>1, <3>2 DEF Waits
  <2>2. CASE pc[c] # "lock"
    BY <2>1, <2>2
  <2>3. CASE pc[c] = "lock" /\ lock = Nobody
    BY <2>3 DEF Waits
  <2>4. CASE lock # Nobody
    <3>1. lock \in Calls /\ NeedsLock(lock)
      BY <2>4 DEF ExecInv, ExecTypeOK, ProtocolInv, LockFits
    <3> QED BY <2>1, <3>1 DEF NeedsLock
  <2> QED BY <2>2, <2>3, <2>4
<1> QED BY <1>1, ExecutorInvariant, PTL
=============================================================================
