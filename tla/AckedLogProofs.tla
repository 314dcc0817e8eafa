--------------------------- MODULE AckedLogProofs ---------------------------
(***************************************************************************)
(* SegmentLog implements AckedLog: with segments, fsyncs, rollovers and    *)
(* replay hidden, every step of the engine is a step of the log of writes  *)
(* its callers are promised, or changes nothing they can see, for every    *)
(* value of the constants and as long as the run is not exposed.           *)
(***************************************************************************)
EXTENDS SegmentLogProofs

\* The requests of a queue, a group or a plan; each is in it once.
ReqsOf(q) == { q[i].req : i \in DOMAIN q }
Once(q) == \A i, j \in DOMAIN q : q[i].req = q[j].req => i = j

\* A request waits at one place.  Its caller has not been answered, except that
\* the group of a failed flush has.
WaitingInOrder ==
  /\ Once(queue) /\ Once(group) /\ Once(plan)
  /\ ReqsOf(queue) \cap ReqsOf(group) = {} /\ ReqsOf(queue) \cap ReqsOf(plan) = {}
  /\ ReqsOf(group) \cap ReqsOf(plan) = {}
  /\ \A r \in ReqsOf(queue) \cup ReqsOf(group) : answer[r] = "queued"
  /\ \A r \in ReqsOf(plan) :
       answer[r] = IF pc \in {"exit", "stopped"} THEN "err" ELSE "queued"

\* Besides, a caller whose write is in the log has been answered.
RequestsInOrder ==
  /\ WaitingInOrder
  /\ \A f \in Committed : answer[f.req] \notin {"none", "queued"}

-----------------------------------------------------------------------------
(* Sequences of requests.                                                  *)

\* A request handed over is one more.
LEMMA OnceAppend ==
  ASSUME NEW T, NEW q \in Seq(T), NEW e \in T
  PROVE  /\ ReqsOf(Append(q, e)) = ReqsOf(q) \cup {e.req}
         /\ Once(q) /\ e.req \notin ReqsOf(q) => Once(Append(q, e))
<1> DEFINE q2 == Append(q, e)
<1>1. PICK m \in Nat : /\ DOMAIN q = 1..m /\ DOMAIN q2 = 1..(m + 1)
                       /\ q2[m + 1] = e
                       /\ \A i \in 1..m : q2[i] = q[i]
  BY AppendElements
<1> HIDE DEF q2
<1>2. \A i \in 1..(m + 1) : i \in 1..m \/ i = m + 1
  OBVIOUS
<1>3. m + 1 \in 1..(m + 1) /\ \A i \in 1..m : i \in 1..(m + 1)
  OBVIOUS
<1>4. ReqsOf(q2) = ReqsOf(q) \cup {e.req}
  BY <1>1, <1>2, <1>3 DEF ReqsOf
<1>5. ASSUME Once(q), e.req \notin ReqsOf(q) PROVE Once(q2)
  BY <1>1, <1>2, <1>3, <1>5 DEF Once, ReqsOf
<1> QED BY <1>4, <1>5 DEF q2

\* The first request is one of them, and none of the others.
LEMMA OnceTail ==
  ASSUME NEW T, NEW q \in Seq(T), q # <<>>
  PROVE  /\ ReqsOf(q) = ReqsOf(Tail(q)) \cup {Head(q).req}
         /\ Once(q) => Once(Tail(q)) /\ Head(q).req \notin ReqsOf(Tail(q))
<1> DEFINE q2 == Tail(q)
<1>1. PICK m \in Nat : /\ DOMAIN q = 1..(m + 1) /\ DOMAIN q2 = 1..m
                       /\ Head(q) = q[1]
                       /\ \A i \in 1..m : q2[i] = q[i + 1]
  BY TailElements
<1> HIDE DEF q2
<1>2. 1 \in 1..(m + 1) /\ \A i \in 1..m : i + 1 \in 1..(m + 1) /\ i + 1 # 1
  OBVIOUS
<1>3. ASSUME NEW i \in 1..(m + 1), i # 1 PROVE i - 1 \in 1..m /\ q2[i - 1] = q[i]
  <2>1. i - 1 \in 1..m /\ (i - 1) + 1 = i
    BY <1>3
  <2> QED BY <1>1, <2>1
<1>4. ReqsOf(q2) \subseteq ReqsOf(q) /\ Head(q).req \in ReqsOf(q)
  BY <1>1, <1>2 DEF ReqsOf
<1>5. ASSUME NEW r \in ReqsOf(q), r # Head(q).req PROVE r \in ReqsOf(q2)
  <2>1. PICK i \in 1..(m + 1) : r = q[i].req
    BY <1>1 DEF ReqsOf
  <2>2. i # 1
    BY <1>1, <1>5, <2>1
  <2>3. i - 1 \in DOMAIN q2 /\ r = q2[i - 1].req
    BY <1>1, <1>3, <2>1, <2>2
  <2> QED BY <2>3 DEF ReqsOf
<1>6. ASSUME Once(q) PROVE Once(q2) /\ Head(q).req \notin ReqsOf(q2)
  <2>1. ASSUME NEW i \in 1..m, NEW j \in 1..m, q2[i].req = q2[j].req PROVE i = j
    <3>1. i + 1 \in DOMAIN q /\ j + 1 \in DOMAIN q
      BY <1>1, <1>2
    <3>2. q[i + 1].req = q[j + 1].req
      BY <1>1, <2>1
    <3>3. i + 1 = j + 1
      BY <1>6, <3>1, <3>2 DEF Once
    <3> QED BY <3>3
  <2>2. \A i \in 1..m : q2[i].req # Head(q).req
    BY <1>1, <1>2, <1>6 DEF Once
  <2> QED BY <1>1, <2>1, <2>2 DEF Once, ReqsOf
<1> QED BY <1>4, <1>5, <1>6 DEF q2

\* A sequence cut in two parts.
LEMMA OnceCut ==
  ASSUME NEW T, NEW q \in Seq(T), NEW n \in Nat, n <= Len(q)
  PROVE  LET a == SubSeq(q, 1, n)
             b == SubSeq(q, n + 1, Len(q))
         IN  /\ ReqsOf(q) = ReqsOf(a) \cup ReqsOf(b)
             /\ Once(q) => Once(a) /\ Once(b) /\ ReqsOf(a) \cap ReqsOf(b) = {}
<1> DEFINE a == SubSeq(q, 1, n)
           b == SubSeq(q, n + 1, Len(q))
<1>1. PICK m \in Nat : m = Len(q)
  OBVIOUS
<1>2. n <= m /\ DOMAIN q = 1..m
  BY <1>1
<1>3. DOMAIN a = 1..n /\ \A i \in 1..n : a[i] = q[i]
  OBVIOUS
<1>4. DOMAIN b = 1..(m - n) /\ \A i \in 1..(m - n) : b[i] = q[n + i]
  BY <1>1, <1>2
<1> HIDE DEF a, b
<1>5. /\ \A i \in 1..n : i \in 1..m
      /\ \A i \in 1..(m - n) : n + i \in 1..m
      /\ \A i \in 1..n, j \in 1..(m - n) : i # n + j
      /\ \A i, j \in 1..(m - n) : n + i = n + j => i = j
  BY <1>2
<1>6. ASSUME NEW i \in 1..m
      PROVE  i \in 1..n \/ (i - n \in 1..(m - n) /\ b[i - n] = q[i])
  <2>1. i \in 1..n \/ (i - n \in 1..(m - n) /\ n + (i - n) = i)
    BY <1>2
  <2> QED BY <1>4, <2>1
<1>7. ReqsOf(a) \subseteq ReqsOf(q) /\ ReqsOf(b) \subseteq ReqsOf(q)
  <2>1. ReqsOf(a) \subseteq ReqsOf(q)
    BY <1>2, <1>3, <1>5 DEF ReqsOf
  <2>2. ASSUME NEW i \in 1..(m - n) PROVE b[i].req \in ReqsOf(q)
    <3>1. n + i \in DOMAIN q /\ b[i].req = q[n + i].req
      BY <1>2, <1>4, <1>5
    <3> QED BY <3>1 DEF ReqsOf
  <2> QED BY <1>4, <2>1, <2>2 DEF ReqsOf
<1>8. ASSUME NEW r \in ReqsOf(q), r \notin ReqsOf(a) PROVE r \in ReqsOf(b)
  <2>1. PICK i \in 1..m : r = q[i].req
    BY <1>2 DEF ReqsOf
  <2>2. i \notin 1..n
    BY <1>3, <1>8, <2>1 DEF ReqsOf
  <2>3. i - n \in DOMAIN b /\ r = b[i - n].req
    BY <1>4, <1>6, <2>1, <2>2
  <2> QED BY <2>3 DEF ReqsOf
<1>9. ASSUME Once(q) PROVE Once(a) /\ Once(b) /\ ReqsOf(a) \cap ReqsOf(b) = {}
  <2>1. Once(a)
    BY <1>2, <1>3, <1>5, <1>9 DEF Once
  <2>2. Once(b)
    BY <1>2, <1>4, <1>5, <1>9 DEF Once
  <2>3. ASSUME NEW i \in 1..n, NEW j \in 1..(m - n) PROVE a[i].req # b[j].req
    <3>1. i \in DOMAIN q /\ n + j \in DOMAIN q /\ i # n + j
      BY <1>2, <1>5
    <3>2. q[i].req # q[n + j].req
      BY <1>9, <3>1 DEF Once
    <3> QED BY <1>3, <1>4, <3>2
  <2>4. ReqsOf(a) = { a[i].req : i \in 1..n } /\ ReqsOf(b) = { b[j].req : j \in 1..(m - n) }
    BY <1>3, <1>4 DEF ReqsOf
  <2> QED BY <2>1, <2>2, <2>3, <2>4
<1> QED BY <1>7, <1>8, <1>9 DEF a, b

-----------------------------------------------------------------------------
(* Who waits where.                                                        *)

\* The requests of planned frames are the planned ones, and all are requests.
LEMMA ReqsType ==
  ASSUME LooseTypes
  PROVE  /\ ReqsOf(queue) \subseteq Requests /\ ReqsOf(group) \subseteq Requests
         /\ ReqsOf(plan) \subseteq Requests
         /\ \A f \in PlannedFrames : f.req \in ReqsOf(plan)
<1>1. ReqsOf(queue) \subseteq Requests /\ ReqsOf(group) \subseteq Requests
  <2>1. /\ \A i \in DOMAIN queue : queue[i] \in Entry
        /\ \A i \in DOMAIN group : group[i] \in Entry
    BY DEF LooseTypes
  <2> QED BY <2>1 DEF ReqsOf, Entry
<1>2. plan \in Seq(Planned) /\ active \in Nat
  BY DEF LooseTypes
<1>3. \A i \in DOMAIN plan : plan[i] \in Planned
  BY <1>2
<1>4. ReqsOf(plan) \subseteq Requests
  BY <1>3 DEF ReqsOf, Planned
<1>5. ASSUME NEW f \in PlannedFrames PROVE f.req \in ReqsOf(plan)
  <2>1. PICK i \in DOMAIN plan : f \in FramesOf(plan[i], active)
    BY DEF PlannedFrames
  <2>2. f.req = plan[i].req
    BY <1>2, <1>3, <2>1, FrameIds
  <2> QED BY <2>2 DEF ReqsOf
<1> QED BY <1>1, <1>4, <1>5

\* A step that moves and answers nobody.
LEMMA SameWaiting ==
  ASSUME WaitingInOrder, queue' = queue, group' = group, plan' = plan,
         answer' = answer, pc' \in {"exit", "stopped"} <=> pc \in {"exit", "stopped"}
  PROVE  WaitingInOrder'
BY DEF WaitingInOrder

\* Every step keeps the requests under way in order.
LEMMA NextWaiting == LooseTypes /\ WaitingInOrder /\ [Next]_vars => WaitingInOrder'
<1> SUFFICES ASSUME LooseTypes, WaitingInOrder, [Next]_vars PROVE WaitingInOrder'
  OBVIOUS
<1>t. /\ queue \in Seq(Entry) /\ group \in Seq(Entry) /\ plan \in Seq(Planned)
      /\ answer \in [Requests -> Answers]
  BY DEF LooseTypes
<1>r. /\ ReqsOf(queue) \subseteq Requests /\ ReqsOf(group) \subseteq Requests
      /\ ReqsOf(plan) \subseteq Requests
  BY ReqsType
<1>e. ReqsOf(<<>>) = {} /\ Once(<<>>)
  BY DEF ReqsOf, Once
<1> USE DEF disk, engine, flusher, callers, observed
<1>1. ASSUME NEW r \in Requests, Submit(r) PROVE WaitingInOrder'
  <2>1. PICK w \in Writes : queue' = Append(queue, [req |-> r, writes |-> w])
    BY <1>1 DEF Submit
  <2>2. /\ group' = group /\ plan' = plan /\ pc' = pc /\ answer[r] = "none"
        /\ answer' = [answer EXCEPT ![r] = "queued"]
    BY <1>1 DEF Submit
  <2>3. [req |-> r, writes |-> w] \in Entry /\ [req |-> r, writes |-> w].req = r
    BY DEF Entry
  <2>4. r \notin ReqsOf(queue) /\ r \notin ReqsOf(group) /\ r \notin ReqsOf(plan)
    BY <2>2 DEF WaitingInOrder
  <2>5. ReqsOf(queue') = ReqsOf(queue) \cup {r} /\ Once(queue')
    BY <1>t, <2>1, <2>3, <2>4, OnceAppend DEF WaitingInOrder
  <2>6. answer'[r] = "queued" /\ \A x \in Requests : x # r => answer'[x] = answer[x]
    BY <1>t, <2>2
  <2> QED BY <1>r, <2>2, <2>4, <2>5, <2>6 DEF WaitingInOrder
<1>2. CASE Drain
  <2>1. PICK n \in 1..MaxGroup :
          /\ n <= Len(queue)
          /\ group' = SubSeq(queue, 1, n)
          /\ queue' = SubSeq(queue, n + 1, Len(queue))
    BY <1>2 DEF Drain
  <2>2. n \in Nat
    BY <2>1, SegmentLogAssumption
  <2>3. /\ ReqsOf(queue) = ReqsOf(group') \cup ReqsOf(queue')
        /\ Once(queue) => /\ Once(group') /\ Once(queue')
                          /\ ReqsOf(group') \cap ReqsOf(queue') = {}
    BY <1>t, <2>1, <2>2, OnceCut
  <2>4. plan' = <<>> /\ answer' = answer
    BY <1>2 DEF Drain
  <2> QED BY <1>e, <2>3, <2>4 DEF WaitingInOrder
<1>3. CASE PlanRequest
  <2> DEFINE p == [req |-> Head(group).req, writes |-> Head(group).writes, first |-> seq]
  <2>1. /\ group # <<>> /\ plan' = Append(plan, p) /\ group' = Tail(group)
        /\ queue' = queue /\ answer' = answer /\ pc' = "plan" /\ pc = "plan"
    BY <1>3 DEF PlanRequest
  <2>2. Head(group) \in Entry
    BY <1>t, <2>1
  <2>3. p \in Planned /\ p.req = Head(group).req
    BY <1>t, <2>2 DEF Entry, Planned, LooseTypes
  <2> HIDE DEF p
  <2>4. /\ ReqsOf(group) = ReqsOf(group') \cup {Head(group).req}
        /\ Once(group') /\ Head(group).req \notin ReqsOf(group')
    BY <1>t, <2>1, OnceTail DEF WaitingInOrder
  <2>5. Head(group).req \notin ReqsOf(plan)
    BY <2>4 DEF WaitingInOrder
  <2>6. ReqsOf(plan') = ReqsOf(plan) \cup {Head(group).req} /\ Once(plan')
    BY <1>t, <2>1, <2>3, <2>5, OnceAppend DEF WaitingInOrder
  <2> QED BY <2>1, <2>4, <2>6 DEF WaitingInOrder
<1>4. CASE RefuseRequest
  <2>1. /\ group # <<>> /\ plan' = plan /\ group' = Tail(group) /\ queue' = queue
        /\ answer' = [answer EXCEPT ![Head(group).req] = "err"]
        /\ pc' = "plan" /\ pc = "plan"
    BY <1>4 DEF RefuseRequest
  <2>2. /\ ReqsOf(group) = ReqsOf(group') \cup {Head(group).req}
        /\ Once(group') /\ Head(group).req \notin ReqsOf(group')
    BY <1>t, <2>1, OnceTail DEF WaitingInOrder
  <2>3. Head(group).req \in ReqsOf(group) /\ Head(group).req \in Requests
    BY <1>r, <2>2
  <2>4. \A x \in Requests : x # Head(group).req => answer'[x] = answer[x]
    BY <1>t, <2>1, <2>3
  <2>5. Head(group).req \notin ReqsOf(plan) \cup ReqsOf(queue)
    BY <2>3 DEF WaitingInOrder
  <2>6. \A r \in ReqsOf(queue') \cup ReqsOf(group') : answer'[r] = "queued"
    BY <1>r, <2>1, <2>2, <2>4, <2>5 DEF WaitingInOrder
  <2>7. \A r \in ReqsOf(plan') : answer'[r] = "queued"
    BY <1>r, <2>1, <2>4, <2>5 DEF WaitingInOrder
  <2> QED BY <2>1, <2>2, <2>6, <2>7 DEF WaitingInOrder
<1>5. CASE EndPlan \/ EndGroup
  BY <1>5, SameWaiting DEF EndPlan, EndGroup
<1>6. CASE RollSync \/ RollId \/ RollCreate \/ RollDirSync \/ WriteGroup \/ SyncGroup
  BY <1>6, SameWaiting DEF RollSync, RollId, RollCreate, RollDirSync, WriteGroup, SyncGroup
<1>7. CASE ApplyAndAck
  <2> DEFINE r == Head(plan).req
  <2>1. /\ plan # <<>> /\ plan' = Tail(plan) /\ group' = group /\ queue' = queue
        /\ answer' = [answer EXCEPT ![r] = "ok"] /\ pc' = "apply" /\ pc = "apply"
    BY <1>7 DEF ApplyAndAck
  <2>2. /\ ReqsOf(plan) = ReqsOf(plan') \cup {r}
        /\ Once(plan') /\ r \notin ReqsOf(plan')
    BY <1>t, <2>1, OnceTail DEF WaitingInOrder
  <2> HIDE DEF r
  <2>3. r \in Requests
    BY <1>r, <2>2
  <2>4. \A x \in Requests : x # r => answer'[x] = answer[x]
    BY <1>t, <2>1, <2>3
  <2>5. r \notin ReqsOf(queue) \cup ReqsOf(group)
    BY <2>2 DEF WaitingInOrder
  <2>6. \A x \in ReqsOf(queue') \cup ReqsOf(group') : answer'[x] = "queued"
    BY <1>r, <2>1, <2>4, <2>5 DEF WaitingInOrder
  <2>7. \A x \in ReqsOf(plan') : answer'[x] = "queued"
    BY <1>r, <2>1, <2>2, <2>4 DEF WaitingInOrder
  <2> QED BY <2>1, <2>2, <2>6, <2>7 DEF WaitingInOrder
<1>8. CASE FlusherExit
  <2>1. /\ queue' = <<>> /\ group' = group /\ plan' = plan
        /\ answer' = Answered(ReqsOf(queue), "err") /\ pc' = "stopped" /\ pc = "exit"
    BY <1>8 DEF FlusherExit, ReqsOf
  <2>2. \A x \in Requests : answer'[x] = IF x \in ReqsOf(queue) THEN "err" ELSE answer[x]
    BY <2>1 DEF Answered
  <2>3. \A x \in ReqsOf(group') : answer'[x] = "queued"
    BY <1>r, <2>1, <2>2 DEF WaitingInOrder
  <2>4. \A x \in ReqsOf(plan') : answer'[x] = "err"
    BY <1>r, <2>1, <2>2 DEF WaitingInOrder
  <2> QED BY <1>e, <2>1, <2>3, <2>4 DEF WaitingInOrder
<1>9. CASE FlushFails
  <2>1. /\ queue' = queue /\ group' = group /\ plan' = plan
        /\ answer' = Answered(ReqsOf(plan), "err") /\ pc' = "exit"
    BY <1>9 DEF FlushFails, ReqsOf
  <2>2. \A x \in Requests : answer'[x] = IF x \in ReqsOf(plan) THEN "err" ELSE answer[x]
    BY <2>1 DEF Answered
  <2>3. \A x \in ReqsOf(queue') \cup ReqsOf(group') : answer'[x] = "queued"
    BY <1>r, <2>1, <2>2 DEF WaitingInOrder
  <2>4. \A x \in ReqsOf(plan') : answer'[x] = "err"
    BY <1>r, <2>1, <2>2 DEF WaitingInOrder
  <2> QED BY <2>1, <2>3, <2>4 DEF WaitingInOrder
<1>10. CASE GoingDown
  BY <1>10, <1>e DEF GoingDown, Close, Kill, LosePower, GoDown, WaitingInOrder
<1>11. CASE Recover
  BY <1>11, SameWaiting DEF Recover
<1>12. CASE UNCHANGED vars
  BY <1>12, SameWaiting DEF vars
<1> QED BY <1>1, <1>2, <1>3, <1>4, <1>5, <1>6, <1>7, <1>8, <1>9, <1>10, <1>11, <1>12
        DEF Next, FlusherStep, GoingDown

\* The caller of the request that is applied next has been waiting and is told
\* now, nobody else is, and the frames are all of that request.
LEMMA AnswersOfApply ==
  ASSUME LooseTypes, WaitingInOrder, ApplyAndAck
  PROVE  LET r == Head(plan).req IN
         /\ r \in Requests /\ answer[r] = "queued" /\ answer'[r] = "ok"
         /\ \A x \in Requests : x # r => answer'[x] = answer[x]
         /\ \A f \in FramesOf(Head(plan), active) : f.req = r
<1>1. /\ plan # <<>> /\ plan \in Seq(Planned) /\ active \in Nat /\ pc = "apply"
      /\ answer' = [answer EXCEPT ![Head(plan).req] = "ok"]
      /\ answer \in [Requests -> Answers]
  BY DEF ApplyAndAck, LooseTypes
<1>2. Head(plan) \in Planned
  BY <1>1
<1>3. Head(plan).req \in ReqsOf(plan)
  BY <1>1, OnceTail
<1>4. Head(plan).req \in Requests
  BY <1>2 DEF Planned
<1>5. answer[Head(plan).req] = "queued"
  BY <1>1, <1>3 DEF WaitingInOrder
<1> QED BY <1>1, <1>2, <1>4, <1>5, FrameIds

\* Nobody waits for an engine that is down; what it left in the log is of
\* requests that were answered, or whose callers know that it is unknown.
LEMMA DownRequests ==
  ASSUME LogInv, RequestsInOrder, GoingDown
  PROVE  \A f \in Committed' : answer'[f.req] \notin {"none", "queued"}
<1>1. plan' = <<>> /\ TypeOK
  BY DEF GoingDown, Close, Kill, LosePower, GoDown, LogInv
<1>2. PICK with \in {"err", "lost"} : answer' = Answered(Pending, with)
  BY DEF GoingDown, Close, Kill, LosePower
<1>3. files' \subseteq files \cup PlannedFrames
  BY <1>1, FilesGrow DEF Next
<1>4. \A f \in files \cup PlannedFrames : f.req \in Requests
  BY <1>1, ReqsType, TypesSplit DEF TypeOK, Frame
<1>5. \A f \in files \cup PlannedFrames : answer[f.req] # "none"
  BY <1>1, <1>4, ReqsType, TypesSplit DEF RequestsInOrder, WaitingInOrder, Committed
<1>6. \A r \in Requests : answer[r] # "none" => answer'[r] \notin {"none", "queued"}
  BY <1>2 DEF Answered, Pending
<1> QED BY <1>3, <1>4, <1>5, <1>6 DEF Committed

\* Every step keeps the requests under way in the order of the promises.
LEMMA NextRequests == LogInv /\ RequestsInOrder /\ [Next]_vars => RequestsInOrder'
<1> SUFFICES ASSUME LogInv, RequestsInOrder, [Next]_vars
             PROVE  \A f \in Committed' : answer'[f.req] \notin {"none", "queued"}
  BY NextWaiting, TypesSplit DEF RequestsInOrder, LogInv
<1>t. LooseTypes /\ WaitingInOrder /\ answer \in [Requests -> Answers] /\ TypeOK
      /\ group \in Seq(Entry)
  BY TypesSplit DEF RequestsInOrder, LogInv, LooseTypes
<1>r. \A f \in Committed : /\ f.req \in Requests
                           /\ answer[f.req] \notin {"none", "queued"}
  BY <1>t DEF Committed, LooseTypes, Frame, RequestsInOrder
<1>c. up' /\ ~ApplyAndAck /\ ~Recover => Committed' = Committed
  BY CommittedStays
<1>s. ASSUME Committed' = Committed,
             \A r \in Requests : answer[r] \notin {"none", "queued"} =>
                                 answer'[r] \notin {"none", "queued"}
      PROVE  \A f \in Committed' : answer'[f.req] \notin {"none", "queued"}
  BY <1>r, <1>s
<1> USE DEF disk, engine, flusher, callers, observed
<1>1. ASSUME NEW r \in Requests, Submit(r)
      PROVE  /\ Committed' = Committed
             /\ \A x \in Requests : answer[x] # "none" => answer'[x] = answer[x]
  <2>1. files' = files /\ PlannedFrames' = PlannedFrames
    BY <1>1, PlannedFramesUnchanged DEF Submit
  <2> QED BY <1>1, <1>t, <2>1 DEF Submit, Committed
<1>2. CASE Drain \/ PlanRequest \/ EndPlan \/ EndGroup
  <2>1. answer' = answer /\ up' /\ ~ApplyAndAck /\ ~Recover
    BY <1>2 DEF Drain, PlanRequest, EndPlan, EndGroup, ApplyAndAck, Recover
  <2> QED BY <1>c, <1>s, <2>1
<1>3. CASE RollSync \/ RollId \/ RollCreate \/ RollDirSync \/ WriteGroup \/ SyncGroup
  <2>1. answer' = answer /\ up' /\ ~ApplyAndAck /\ ~Recover
    BY <1>3 DEF RollSync, RollId, RollCreate, RollDirSync, WriteGroup, SyncGroup,
                ApplyAndAck, Recover
  <2> QED BY <1>c, <1>s, <2>1
<1>4. CASE RefuseRequest
  <2>1. /\ up' /\ ~ApplyAndAck /\ ~Recover
        /\ answer' = [answer EXCEPT ![Head(group).req] = "err"]
    BY <1>4 DEF RefuseRequest, ApplyAndAck, Recover
  <2>2. \A r \in Requests : answer[r] \notin {"none", "queued"} =>
                            answer'[r] \notin {"none", "queued"}
    BY <1>t, <2>1
  <2> QED BY <1>c, <1>s, <2>1, <2>2
<1>5. CASE FlusherExit \/ FlushFails
  <2>1. up' /\ ~ApplyAndAck /\ ~Recover
    BY <1>5 DEF FlusherExit, FlushFails, ApplyAndAck, Recover
  <2>2. \A r \in Requests : answer[r] \notin {"none", "queued"} =>
                            answer'[r] \notin {"none", "queued"}
    BY <1>5 DEF FlusherExit, FlushFails, Answered
  <2> QED BY <1>c, <1>s, <2>1, <2>2
<1>6. CASE ApplyAndAck
  <2> DEFINE F == FramesOf(Head(plan), active)
  <2>1. Committed' = Committed \cup F
    BY <1>6, CommittedGrows
  <2>2. \A f \in F : answer'[f.req] = "ok"
    BY <1>6, <1>t, AnswersOfApply
  <2>3. \A f \in Committed : answer'[f.req] = answer[f.req]
    BY <1>6, <1>r, <1>t, AnswersOfApply
  <2> HIDE DEF F
  <2> QED BY <1>r, <2>1, <2>2, <2>3
<1>7. CASE GoingDown
  BY <1>7, DownRequests
<1>8. CASE Recover
  <2>1. plan' = plan /\ answer' = answer /\ files' = files /\ ~up
    BY <1>8 DEF Recover
  <2>2. plan = <<>>
    BY <2>1 DEF LogInv, LogOrder, Shape
  <2>3. PlannedFrames = {} /\ PlannedFrames' = {}
    BY <2>1, <2>2 DEF PlannedFrames
  <2> QED BY <1>s, <2>1, <2>3 DEF Committed
<1>9. CASE UNCHANGED vars
  <2>1. answer' = answer /\ files' = files /\ plan' = plan /\ active' = active
    BY <1>9 DEF vars
  <2> QED BY <1>s, <2>1, PlannedFramesUnchanged DEF Committed
<1> QED BY <1>1, <1>2, <1>3, <1>4, <1>5, <1>6, <1>7, <1>8, <1>9, <1>s
        DEF Next, FlusherStep, GoingDown

-----------------------------------------------------------------------------
(* What a caller sees of the frames.                                       *)

\* The record of a frame.
Rec(f) == [seq |-> f.seq, key |-> f.key, del |-> f.del, req |-> f.req]

\* What a record of the engine is in the abstract specification.
LEMMA HideRec ==
  ASSUME NEW F
  PROVE  /\ Hide(F) = { Rec(f) : f \in F }
         /\ \A f : /\ Rec(f).seq = f.seq /\ Rec(f).key = f.key
                   /\ Rec(f).del = f.del /\ Rec(f).req = f.req
BY DEF Hide, Rec

\* What hides is what is hidden: more frames, more records.
LEMMA HideGrows ==
  ASSUME NEW F, NEW G
  PROVE  /\ Hide(F \cup G) = Hide(F) \cup Hide(G)
         /\ F \subseteq G => Hide(F) \subseteq Hide(G)
         /\ \A x \in Hide(G) \ Hide(F) : \E f \in G \ F : x = Rec(f)
BY HideRec

\* When no id names two frames, the newest frames show as the latest records.
LEMMA LatestOfNewest ==
  ASSUME NEW G \in SUBSET Frame, \A f, g \in G : f.seq = g.seq => f = g
  PROVE  Promise!Latest(Hide(G)) = Hide(Newest(G))
<1>1. Hide(G) = { Rec(f) : f \in G } /\ Hide(Newest(G)) = { Rec(f) : f \in Newest(G) }
  BY HideRec
<1>2. \A f : /\ Rec(f).seq = f.seq /\ Rec(f).key = f.key /\ Rec(f).del = f.del
  BY HideRec
<1>3. \A f \in G : f.seq \in Nat /\ f.seg \in Nat
  BY DEF Frame, SeqId
<1>4. ASSUME NEW f \in G, NEW g \in G
      PROVE  Supersedes(g, f) <=> g.key = f.key /\ ~(g.seq <= f.seq)
  <2>1. g.seq = f.seq => ~(g.seg < f.seg)
    BY <1>3
  <2> QED BY <1>3, <2>1 DEF Supersedes
<1>5. ASSUME NEW f \in G
      PROVE  Rec(f) \in Promise!Latest(Hide(G)) <=> f \in Newest(G)
  <2>1. Rec(f) \in Hide(G)
    BY <1>1
  <2>2. Rec(f) \in Promise!Latest(Hide(G)) <=>
          ~f.del /\ \A q \in Hide(G) : q.key = f.key => q.seq <= f.seq
    BY <1>2, <2>1 DEF Promise!Latest
  <2>3. (\A q \in Hide(G) : q.key = f.key => q.seq <= f.seq)
          <=> (\A g \in G : g.key = f.key => g.seq <= f.seq)
    BY <1>1, <1>2
  <2>4. (\A g \in G : ~Supersedes(g, f))
          <=> (\A g \in G : g.key = f.key => g.seq <= f.seq)
    BY <1>4
  <2>5. f \in Newest(G) <=> ~f.del /\ \A g \in G : ~Supersedes(g, f)
    BY DEF Newest
  <2> QED BY <2>2, <2>3, <2>4, <2>5
<1>6. Promise!Latest(Hide(G)) \subseteq Hide(G) /\ Newest(G) \subseteq G
  BY DEF Promise!Latest, Newest
<1>7. ASSUME NEW x \in Promise!Latest(Hide(G)) PROVE x \in Hide(Newest(G))
  <2>1. PICK f \in G : x = Rec(f)
    BY <1>1, <1>6
  <2> QED BY <1>1, <1>5, <2>1
<1>8. ASSUME NEW x \in Hide(Newest(G)) PROVE x \in Promise!Latest(Hide(G))
  <2>1. PICK f \in Newest(G) : x = Rec(f)
    BY <1>1
  <2> QED BY <1>5, <1>6, <2>1
<1> QED BY <1>7, <1>8

-----------------------------------------------------------------------------
(* The steps of the engine as steps of the promise.                        *)

\* The inductive invariant under which every step maps to one of AckedLog.
PromiseInv ==
  /\ LogInv /\ DurabilityInv /\ EntriesInOrder /\ NoneLeftOut /\ IndexIsReplay
  /\ RequestsInOrder

\* The invariant of the refinement holds when a database is created.
LEMMA InitPromiseInv == Init => PromiseInv
<1> SUFFICES ASSUME Init PROVE PromiseInv
  OBVIOUS
<1>1. LogInv /\ TypeOK
  BY InitLogInv, InitTypeOK
<1>2. /\ segs = entries /\ files = {} /\ index = {} /\ acked = {} /\ up /\ active = 1
      /\ entries = {1} /\ pc = "recv" /\ plan = <<>> /\ group = <<>> /\ queue = <<>>
  BY DEF Init
<1>3. DurabilityInv
  BY <1>1, <1>2 DEF DurabilityInv, AckedDurableUnlessExposed, AckedDurable, GroupDurable,
                    DownIsIdle
<1>4. EntriesInOrder
  BY <1>2 DEF EntriesInOrder
<1>5. NoneLeftOut
  <2>1. Low = 1
    BY DEF Init, Low, Top
  <2> QED BY <1>2, <2>1 DEF NoneLeftOut, LogHasNoHoles
<1>6. IndexIsReplay
  BY <1>2 DEF IndexIsReplay, Newest
<1>7. RequestsInOrder
  BY <1>2 DEF RequestsInOrder, WaitingInOrder, Once, ReqsOf, Committed
<1> QED BY <1>1, <1>3, <1>4, <1>5, <1>6, <1>7 DEF PromiseInv

\* Every step keeps the invariant of the refinement.
LEMMA NextPromiseInv == PromiseInv /\ [Next]_vars => PromiseInv'
BY NextLogInv, NextDurability, NextEntries, NextNoneLeftOut, NextIndexIsReplay,
   NextRequests
   DEF PromiseInv

\* A step that changes nothing the callers can see.
LEMMA StutterStep ==
  ASSUME Committed' = Committed, index' = index, up' = up, answer' = answer,
         acked' = acked
  PROVE  UNCHANGED Promise!vars
<1>1. /\ (files \ PlannedFrames)' = files \ PlannedFrames
  BY DEF Committed
<1> QED BY <1>1 DEF Promise!vars

\* A caller hands over a request.
LEMMA AskStep ==
  ASSUME NEW r \in Requests, Submit(r), Committed' = Committed
  PROVE  Promise!Ask
<1>1. /\ up /\ up' = up /\ answer[r] = "none" /\ answer' = [answer EXCEPT ![r] = "queued"]
      /\ index' = index /\ acked' = acked
  BY DEF Submit, engine, observed
<1>2. (files \ PlannedFrames)' = files \ PlannedFrames
  BY DEF Committed
<1> QED BY <1>1, <1>2 DEF Promise!Ask

\* Requests are answered with an error.
LEMMA RefuseStep ==
  ASSUME up, up', Committed' = Committed, index' = index, acked' = acked,
         \A r \in Requests : answer'[r] # answer[r] =>
                               answer[r] = "queued" /\ answer'[r] = "err"
  PROVE  Promise!Refuse
<1>1. (files \ PlannedFrames)' = files \ PlannedFrames
  BY DEF Committed
<1>2. up' = up
  OBVIOUS
<1> QED BY <1>1, <1>2 DEF Promise!Refuse

\* A reopen.
LEMMA ReopenStep ==
  ASSUME ~up, up', Committed' = Committed, index' = Newest(Committed),
         answer' = answer, acked' = acked, Committed \in SUBSET Frame,
         \A f, g \in Committed : f.seq = g.seq => f = g
  PROVE  Promise!Reopen
<1>1. (files \ PlannedFrames)' = files \ PlannedFrames
  BY DEF Committed
<1>2. Hide(index') = Promise!Latest(Hide(files \ PlannedFrames))
  BY LatestOfNewest DEF Committed
<1>3. up' = TRUE
  OBVIOUS
<1> QED BY <1>1, <1>2, <1>3 DEF Promise!Reopen

\* The frames of one request enter the log, become visible and are
\* acknowledged, and they are all the log has of that request.
LEMMA CommitStep ==
  ASSUME PromiseInv, PromiseInv', ApplyAndAck
  PROVE  Promise!Commit
<1> DEFINE F == FramesOf(Head(plan), active)
           r == Head(plan).req
           L == Hide(files \ PlannedFrames)
           K == Hide((files \ PlannedFrames)')
<1>1. /\ up /\ up' = up /\ plan \in Seq(Planned) /\ plan # <<>> /\ active \in Nat
      /\ pc = "apply" /\ acked' = acked \cup F
      /\ answer' = [answer EXCEPT ![r] = "ok"]
  BY DEF ApplyAndAck, PromiseInv, LogInv, TypeOK
<1>2. /\ Committed' = Committed \cup F /\ Committed' \in SUBSET Frame
      /\ \A f \in Committed, g \in F : f.seq < g.seq
  BY CommittedGrows DEF PromiseInv
<1>3. /\ Head(plan) \in Planned /\ r \in Requests /\ r \in ReqsOf(plan)
      /\ \A f \in F : f.req = r
  <2>1. Head(plan) \in Planned
    BY <1>1
  <2>2. r \in ReqsOf(plan)
    BY <1>1, OnceTail
  <2> QED BY <1>1, <2>1, <2>2, FrameIds DEF Planned
<1>4. F # {}
  <2>1. PICK a \in Nat, b \in Nat : a = Head(plan).first /\ b = End(Head(plan)) /\ a < b
    BY <1>3, PlannedRange DEF SeqId
  <2>2. a \in a..(b - 1)
    BY <2>1
  <2> QED BY <1>1, <1>3, <2>1, <2>2, FrameIds
<1>5. answer[r] = "queued" /\ \A f \in Committed : f.req # r
  BY <1>1, <1>3 DEF PromiseInv, RequestsInOrder, WaitingInOrder
<1>6. Hide(index') = Promise!Latest(Hide(Committed'))
  <2>1. index' = Newest(Committed')
    BY <1>1 DEF PromiseInv, IndexIsReplay, Committed
  <2>2. \A f, g \in Committed' : f.seq = g.seq => f = g
    BY DEF PromiseInv, LogInv, LogOrder, SequenceIdsUnique, Committed
  <2> QED BY <1>2, <2>1, <2>2, LatestOfNewest
<1>7. L = Hide(Committed) /\ K = Hide(Committed')
  BY DEF Committed
<1> HIDE DEF F, r, L, K
<1>8. K = L \cup Hide(F)
  BY <1>2, <1>7, HideGrows
<1>9. /\ L = { Rec(f) : f \in Committed } /\ Hide(F) = { Rec(f) : f \in F }
      /\ \A f : Rec(f).seq = f.seq /\ Rec(f).req = f.req
  BY <1>7, HideRec
<1>10. /\ \A x \in L : x.req # r
       /\ \A x \in Hide(F) : x.req = r
       /\ \A x \in L, y \in Hide(F) : x.seq < y.seq
       /\ Hide(F) # {}
  BY <1>2, <1>3, <1>4, <1>5, <1>9
<1>11. Promise!RecordsOf(K, r) = Hide(F) /\ K \ L = Hide(F)
  BY <1>8, <1>10 DEF Promise!RecordsOf
<1>12. Hide(acked') = Hide(acked) \cup Hide(F)
  BY <1>1, HideGrows
<1>13. /\ answer[r] = "queued"
       /\ answer' = [answer EXCEPT ![r] = "ok"]
       /\ K \ L = Promise!RecordsOf(K, r)
       /\ L \subseteq K /\ K # L
       /\ \A x \in L, y \in K \ L : x.seq < y.seq
       /\ Hide(acked') = Hide(acked) \cup Promise!RecordsOf(K, r)
  BY <1>1, <1>5, <1>8, <1>10, <1>11, <1>12
<1>14. Hide(index') = Promise!Latest(K)
  BY <1>6, <1>7
<1> QED BY <1>1, <1>3, <1>13, <1>14 DEF Promise!Commit, L, K

\* What the engine leaves when it goes down: a prefix of what it was writing,
\* all that is acknowledged, and nothing whose caller was told a success.
LEMMA DownStep ==
  ASSUME PromiseInv, PromiseInv', ~exposed, GoingDown
  PROVE  Promise!GoDown
<1> DEFINE L == Hide(files \ PlannedFrames)
           K == Hide((files \ PlannedFrames)')
<1>1. /\ up' = FALSE /\ index' = {} /\ plan' = <<>> /\ acked' = acked /\ exposed' = exposed
  BY DEF GoingDown, Close, Kill, LosePower, GoDown
<1>2. PICK with \in {"err", "lost"} : answer' = Answered(Pending, with)
  BY DEF GoingDown, Close, Kill, LosePower
<1>3. PlannedFrames' = {} /\ Committed' = files'
  <2>1. PlannedFrames' = {}
    BY <1>1 DEF PlannedFrames
  <2> QED BY <2>1 DEF Committed
<1>4. files' \subseteq files \cup PlannedFrames /\ TypeOK /\ TypeOK'
  BY FilesGrow DEF Next, PromiseInv, LogInv
<1>5. acked \subseteq files'
  <2>1. acked' \subseteq synced'
    BY <1>1 DEF PromiseInv, DurabilityInv, AckedDurableUnlessExposed, AckedDurable
  <2> QED BY <1>1, <1>4, <2>1 DEF TypeOK
<1>6. ASSUME NEW f \in files' \ Committed
      PROVE  /\ f.req \in Requests /\ answer[f.req] \in {"queued", "err"}
             /\ answer'[f.req] \in {"lost", "err"}
  <2>1. f \in PlannedFrames
    BY <1>4 DEF Committed
  <2>2. f.req \in ReqsOf(plan) /\ f.req \in Requests
    BY <1>4, <2>1, ReqsType, TypesSplit
  <2>3. answer[f.req] \in {"queued", "err"}
    BY <2>2 DEF PromiseInv, RequestsInOrder, WaitingInOrder
  <2> QED BY <1>2, <2>2, <2>3 DEF Answered, Pending
<1>7. \A x \in Requests : answer'[x] # answer[x] =>
        answer[x] = "queued" /\ answer'[x] \in {"lost", "err"}
  BY <1>2 DEF Answered, Pending
<1>8. ASSUME NEW f \in Committed \cup files', NEW g \in files', f.seq < g.seq
      PROVE  f \in files'
  <2>1. CASE LosePower
    <3>1. NoHolesIn(files')
      <4>1. ~exposed'
        BY <1>1
      <4> QED BY <4>1 DEF PromiseInv, NoneLeftOut, LogHasNoHoles, NoHolesIn
    <3>2. f \in files \/ f \in files'
      BY DEF Committed
    <3>3. f.seq \in Nat /\ 1 <= f.seq /\ g.seq \in Nat
      <4>1. f \in Frame /\ g \in Frame
        BY <1>4, <3>2 DEF TypeOK
      <4> QED BY <4>1 DEF Frame, SeqId
    <3>4. f.seq \in 1..g.seq
      BY <1>8, <3>3
    <3>5. PICK h \in files' : h.seq = f.seq
      BY <3>1, <3>4 DEF NoHolesIn
    <3>6. PICK P \in SUBSET { x \in PlannedFrames : x.seg \in segs },
               t \in SUBSET {active} :
            PartialWrite(P, t) /\ files' \subseteq files \cup synced \cup P
      BY <2>1 DEF LosePower
    <3>7. LeftInOrder(files \cup P, torn \cup t)
      BY <3>6, PartialWriteOrder DEF PromiseInv
    <3>8. synced \subseteq files
      BY <1>4 DEF TypeOK
    <3>9. f \in files \cup P /\ h \in files \cup P
      BY <3>2, <3>5, <3>6, <3>8
    <3>10. f = h
      BY <3>5, <3>7, <3>9 DEF LeftInOrder
    <3> QED BY <3>5, <3>10
  <2>2. CASE Close \/ Kill
    <3>1. files \subseteq files'
      BY <2>2 DEF Close, Kill
    <3> QED BY <3>1 DEF Committed
  <2> QED BY <2>1, <2>2 DEF GoingDown
<1>9. L = Hide(Committed) /\ K = Hide(files')
  BY <1>3 DEF Committed
<1> HIDE DEF L, K
<1>10. /\ L = { Rec(f) : f \in Committed } /\ K = { Rec(f) : f \in files' }
       /\ \A f : Rec(f).seq = f.seq /\ Rec(f).req = f.req
  BY <1>9, HideRec
<1>11. \A x \in L \cup K, y \in K : x.seq < y.seq => x \in K
  BY <1>8, <1>10
<1>12. Hide(acked) \subseteq K
  BY <1>5, <1>9, HideGrows
<1>13. \A x \in K \ L : /\ answer[x.req] \in {"queued", "err"}
                        /\ answer'[x.req] \in {"lost", "err"}
  <2> SUFFICES ASSUME NEW x \in K \ L
               PROVE  /\ answer[x.req] \in {"queued", "err"}
                      /\ answer'[x.req] \in {"lost", "err"}
    OBVIOUS
  <2>1. PICK f \in files' : x = Rec(f)
    BY <1>10
  <2>2. f \notin Committed
    BY <1>10, <2>1
  <2> QED BY <1>6, <1>10, <2>1, <2>2
<1>14. Hide({}) = {}
  BY DEF Hide
<1> QED BY <1>1, <1>7, <1>11, <1>12, <1>13, <1>14 DEF Promise!GoDown, L, K

\* Every step of a run that is not exposed is a step of the promise, or one
\* nobody sees.
LEMMA NextImplements ==
  ASSUME PromiseInv, [Next]_vars
  PROVE  exposed \/ Promise!Next \/ UNCHANGED Promise!vars
<1> SUFFICES ASSUME ~exposed PROVE Promise!Next \/ UNCHANGED Promise!vars
  OBVIOUS
<1>p. PromiseInv'
  BY NextPromiseInv
<1>l. LogInv /\ TypeOK /\ RequestsInOrder
  BY DEF PromiseInv, LogInv
<1>c. up' /\ ~ApplyAndAck /\ ~Recover => Committed' = Committed
  BY <1>l, CommittedStays
<1> USE DEF disk, engine, flusher, callers, observed
<1>1. ASSUME NEW r \in Requests, Submit(r) PROVE Promise!Ask
  <2>1. files' = files /\ plan' = plan /\ active' = active
    BY <1>1 DEF Submit
  <2>2. Committed' = Committed
    BY <2>1, PlannedFramesUnchanged DEF Committed
  <2> QED BY <1>1, <2>2, AskStep
<1>2. CASE Drain \/ PlanRequest \/ EndPlan \/ EndGroup
  <2>1. up' /\ up' = up /\ ~Recover /\ ~ApplyAndAck
        /\ UNCHANGED <<index, answer, acked>>
    BY <1>2 DEF Drain, PlanRequest, EndPlan, EndGroup, Recover, ApplyAndAck
  <2> QED BY <1>c, <2>1, StutterStep
<1>3. CASE RollSync \/ RollId \/ RollCreate \/ RollDirSync \/ WriteGroup \/ SyncGroup
  <2>1. up' /\ up' = up /\ ~Recover /\ ~ApplyAndAck
        /\ UNCHANGED <<index, answer, acked>>
    BY <1>3 DEF RollSync, RollId, RollCreate, RollDirSync, WriteGroup, SyncGroup,
                Recover, ApplyAndAck
  <2> QED BY <1>c, <2>1, StutterStep
<1>4. CASE RefuseRequest
  <2>1. /\ up' /\ up /\ ~Recover /\ ~ApplyAndAck /\ group # <<>> /\ group \in Seq(Entry)
        /\ index' = index /\ acked' = acked
        /\ answer' = [answer EXCEPT ![Head(group).req] = "err"]
        /\ answer \in [Requests -> Answers]
    BY <1>4, <1>l DEF RefuseRequest, Recover, ApplyAndAck, TypeOK
  <2>2. Head(group).req \in ReqsOf(group)
    BY <2>1, OnceTail
  <2>3. answer[Head(group).req] = "queued" /\ Head(group).req \in Requests
    BY <1>l, <2>2, ReqsType, TypesSplit DEF RequestsInOrder, WaitingInOrder
  <2>4. \A r \in Requests : answer'[r] # answer[r] =>
                               answer[r] = "queued" /\ answer'[r] = "err"
    BY <2>1, <2>3
  <2>5. Promise!Refuse
    BY <1>c, <2>1, <2>4, RefuseStep
  <2> QED BY <2>5 DEF Promise!Next
<1>5. CASE FlusherExit
  <2>1. /\ up' /\ up /\ ~Recover /\ ~ApplyAndAck /\ index' = index /\ acked' = acked
        /\ answer' = Answered(ReqsOf(queue), "err")
    BY <1>5 DEF FlusherExit, Recover, ApplyAndAck, ReqsOf
  <2>2. \A r \in Requests : answer'[r] # answer[r] =>
                               answer[r] = "queued" /\ answer'[r] = "err"
    BY <1>l, <2>1 DEF RequestsInOrder, WaitingInOrder, Answered
  <2>3. Promise!Refuse
    BY <1>c, <2>1, <2>2, RefuseStep
  <2> QED BY <2>3 DEF Promise!Next
<1>6. CASE FlushFails
  <2>1. /\ up' /\ up /\ ~Recover /\ ~ApplyAndAck /\ index' = index /\ acked' = acked
        /\ answer' = Answered(ReqsOf(plan), "err") /\ pc \notin {"exit", "stopped"}
    BY <1>6 DEF FlushFails, Recover, ApplyAndAck, ReqsOf
  <2>2. \A r \in Requests : answer'[r] # answer[r] =>
                               answer[r] = "queued" /\ answer'[r] = "err"
    BY <1>l, <2>1 DEF RequestsInOrder, WaitingInOrder, Answered
  <2>3. Promise!Refuse
    BY <1>c, <2>1, <2>2, RefuseStep
  <2> QED BY <2>3 DEF Promise!Next
<1>7. CASE ApplyAndAck
  <2>1. Promise!Commit
    BY <1>7, <1>p, CommitStep
  <2> QED BY <2>1 DEF Promise!Next
<1>8. CASE GoingDown
  <2>1. Promise!GoDown
    BY <1>8, <1>p, DownStep
  <2> QED BY <2>1 DEF Promise!Next
<1>9. CASE Recover
  <2>1. /\ ~up /\ up' /\ files' = files /\ plan' = plan /\ pc' = pc
        /\ index' = Newest(files) /\ answer' = answer /\ acked' = acked
    BY <1>9 DEF Recover
  <2>2. plan = <<>>
    BY <1>l, <2>1 DEF LogInv, LogOrder, Shape
  <2>3. PlannedFrames = {} /\ PlannedFrames' = {}
    BY <2>1, <2>2 DEF PlannedFrames
  <2>4. Committed' = Committed /\ Committed = files
    BY <2>1, <2>3 DEF Committed
  <2>5. files \in SUBSET Frame /\ \A f, g \in files : f.seq = g.seq => f = g
    BY <1>l DEF LogInv, LogOrder, SequenceIdsUnique, TypeOK
  <2>6. Promise!Reopen
    BY <2>1, <2>4, <2>5, ReopenStep
  <2> QED BY <2>6 DEF Promise!Next
<1>10. CASE UNCHANGED vars
  <2>1. UNCHANGED <<index, answer, acked, files, plan, active, up>>
    BY <1>10 DEF vars
  <2>2. Committed' = Committed
    BY <2>1, PlannedFramesUnchanged DEF Committed
  <2> QED BY <2>1, <2>2, StutterStep
<1>11. CASE \E r \in Requests : Submit(r)
  BY <1>1, <1>11 DEF Promise!Next
<1> QED BY <1>2, <1>3, <1>4, <1>5, <1>6, <1>7, <1>8, <1>9, <1>10, <1>11
        DEF Next, FlusherStep

\* The write path implements the promise to its callers, for every number of
\* requests, keys and restarts and every segment and group size: one total
\* order, all or nothing in one step, nothing acknowledged is lost, what a crash
\* leaves is a prefix of that order, and a reopen shows exactly what is left
\* (run_flusher_loop, execute_batch_append, recover and new_with_tuning).
THEOREM EngineKeepsItsPromise == Spec => ImplementsAckedLog
<1>1. Init => PromiseInv
  BY InitPromiseInv
<1>2. PromiseInv /\ [Next]_vars => PromiseInv'
  BY NextPromiseInv
<1>3. PromiseInv /\ [Next]_vars => exposed \/ Promise!Next \/ UNCHANGED Promise!vars
  BY NextImplements
<1>4. Init => Promise!Init
  <2> SUFFICES ASSUME Init PROVE Promise!Init
    OBVIOUS
  <2>1. files = {} /\ index = {} /\ acked = {} /\ up = TRUE
        /\ answer = [r \in Requests |-> "none"]
    BY DEF Init
  <2>2. Hide({}) = {}
    BY DEF Hide
  <2> QED BY <2>1, <2>2 DEF Promise!Init
<1> QED BY <1>1, <1>2, <1>3, <1>4, PTL DEF Spec, ImplementsAckedLog
=============================================================================
