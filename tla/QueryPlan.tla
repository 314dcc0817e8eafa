------------------------------ MODULE QueryPlan ------------------------------
(***************************************************************************)
(* How a pipeline query that only reads is planned and run (executor.rs):  *)
(* the choice between the point lookup of one key, the scan of a time      *)
(* range and the scan of the stream, and then one step per pipeline stage. *)
(*                                                                         *)
(* The log is the sequence of versions of the records, in the order of     *)
(* their sequence ids.  A value is an object, a function from the names of *)
(* its fields to values; numbers are kept in halves so that a fraction     *)
(* exists, and a text is the rank of its string.  Left out: the operators  *)
(* on strings, the stages trash and export, that change no record a reader *)
(* of live data sees, scalar values, and averages.  What explain says of a *)
(* query is modelled as far as it names the way the records are found.     *)
(***************************************************************************)
EXTENDS Integers, Sequences, SequencesExt, FiniteSetsExt, TLC

CONSTANTS Cases,   \* the pairs of a log and a query that are tried
          MaxScan  \* max_scan_results

VARIABLES log,     \* the versions of all records, oldest first
          query,   \* [listen, stages]
          path,    \* how the records were found: "key", "time", "scan", ...
          stages,  \* the stages still to be applied
          records  \* the buffer of records

vars == <<log, query, path, stages, records>>

ASSUME MaxScanAssumption == MaxScan \in Nat \ {0}

-----------------------------------------------------------------------------
(* Values and records. *)

Null == [kind |-> "null", x |-> 0]
Half(h) == [kind |-> "number", x |-> h]
Number(n) == Half(2 * n)
Text(s) == [kind |-> "text", x |-> s]

KindRank == [null |-> 0, number |-> 1, text |-> 2, vector |-> 3]

ValueLess(a, b) ==
  IF a.kind = b.kind THEN a.x < b.x ELSE KindRank[a.kind] < KindRank[b.kind]

SystemFields == {"key", "timestamp", "sequence_id", "stream"}

HasField(r, f) == f \in SystemFields \cup DOMAIN r.val

FieldOf(r, f) ==
  CASE f = "key"         -> Text(r.key)
    [] f = "timestamp"   -> Number(r.ts)
    [] f = "sequence_id" -> Number(r.seq)
    [] f = "stream"      -> Text(r.stream)
    [] OTHER             -> r.val[f]

FieldOrNull(r, f) == IF HasField(r, f) THEN FieldOf(r, f) ELSE Null

-----------------------------------------------------------------------------
(* Filters: a comparison of a field, or a combination of filters. *)

Compare(field, op, value) == [is |-> "simple", field |-> field, op |-> op, value |-> value]
Both(l, r) == [is |-> "and", left |-> l, right |-> r]
Either(l, r) == [is |-> "or", left |-> l, right |-> r]
Negated(e) == [is |-> "not", expr |-> e]

\* A list of values stands on the right of "in" and of "between" only.
Holds(a, op, b) ==
  CASE op = "in"      -> \E i \in DOMAIN b : a = b[i]
    [] op = "between" -> /\ a.kind = "number"
                         /\ b[1].x <= a.x
                         /\ a.x <= b[2].x
    [] op = "="       -> a = b
    [] op = "#"       -> a # b
    [] op = ">"       -> ValueLess(b, a)
    [] op = "<"       -> ValueLess(a, b)
    [] op = ">="      -> ~ValueLess(a, b)
    [] op = "<="      -> ~ValueLess(b, a)

RECURSIVE Matches(_, _)
Matches(r, e) ==
  CASE e.is = "simple" -> HasField(r, e.field) /\ Holds(FieldOf(r, e.field), e.op, e.value)
    [] e.is = "and"    -> Matches(r, e.left) /\ Matches(r, e.right)
    [] e.is = "or"     -> Matches(r, e.left) \/ Matches(r, e.right)
    [] e.is = "not"    -> ~Matches(r, e.expr)

-----------------------------------------------------------------------------
(* What the planner reads off the stages.  An optional result is a set     *)
(* with at most one element.                                               *)

\* Fault: a key below an "or" counts too.
RECURSIVE KeyInEither(_)
KeyInEither(e) ==
  CASE e.is = "simple" ->
         IF e.field = "key" /\ e.op = "=" /\ e.value.kind = "text" THEN {e.value.x} ELSE {}
    [] e.is \in {"and", "or"} ->
         IF KeyInEither(e.left) # {} THEN KeyInEither(e.left) ELSE KeyInEither(e.right)
    [] e.is = "not" -> KeyInEither(e.expr)

\* The key a filter asks for: the first comparison with a text found, also
\* below a negation.
RECURSIVE KeyIn(_)
KeyIn(e) ==
  CASE e.is = "simple" ->
         IF e.field = "key" /\ e.op = "=" /\ e.value.kind = "text" THEN {e.value.x} ELSE {}
    [] e.is = "and" -> IF KeyIn(e.left) # {} THEN KeyIn(e.left) ELSE KeyIn(e.right)
    [] e.is = "or"  -> {}
    [] e.is = "not" -> KeyIn(e.expr)

RECURSIVE IsKeyEquality(_)
IsKeyEquality(e) ==
  \/ e.is = "simple" /\ e.field = "key" /\ e.op = "="
  \/ e.is = "and" /\ (IsKeyEquality(e.left) \/ IsKeyEquality(e.right))

KeyOfStage(st) ==
  CASE st.is = "get"    -> {st.key}
    [] st.is = "filter" -> KeyIn(st.expr)
    [] OTHER            -> {}

Keyed(sts) == {i \in DOMAIN sts : KeyOfStage(sts[i]) # {}}

UniqueKey(sts) == IF Keyed(sts) = {} THEN {} ELSE KeyOfStage(sts[Min(Keyed(sts))])

Earliest == -100
Latest == 100

\* Division that truncates towards zero; a number of halves as a whole one.
Quotient(a, b) == IF a >= 0 THEN a \div b ELSE -((-a) \div b)
Truncated(h) == Quotient(h, 2)

\* Fault: "at most" leaves its bound out.
BoundsTooTight(op, b) ==
  CASE op = ">"       -> {<<Truncated(b.x) + 1, Latest>>}
    [] op = ">="      -> {<<Truncated(b.x), Latest>>}
    [] op = "<"       -> {<<Earliest, Truncated(b.x) - 1>>}
    [] op = "<="      -> {<<Earliest, Truncated(b.x) - 1>>}
    [] op = "="       -> {<<Truncated(b.x), Truncated(b.x)>>}
    [] op = "between" -> {<<Truncated(b[1].x), Truncated(b[2].x)>>}
    [] OTHER          -> {}

Bounds(op, b) ==
  CASE op = ">"       -> {<<Truncated(b.x) + 1, Latest>>}
    [] op = ">="      -> {<<Truncated(b.x), Latest>>}
    [] op = "<"       -> {<<Earliest, Truncated(b.x) - 1>>}
    [] op = "<="      -> {<<Earliest, Truncated(b.x)>>}
    [] op = "="       -> {<<Truncated(b.x), Truncated(b.x)>>}
    [] op = "between" -> {<<Truncated(b[1].x), Truncated(b[2].x)>>}
    [] OTHER          -> {}

RECURSIVE TimeRange(_)
TimeRange(e) ==
  CASE e.is = "simple" -> IF e.field = "timestamp" THEN Bounds(e.op, e.value) ELSE {}
    [] e.is = "and" ->
         LET both == TimeRange(e.left) \cup TimeRange(e.right)
         IN  IF both = {} THEN {}
             ELSE {<<Min({t[1] : t \in both}), Max({t[2] : t \in both})>>}
    [] OTHER -> {}

LeadingTimeRange(sts) ==
  LET filters == {i \in DOMAIN sts : sts[i].is = "filter"}
  IN  IF filters = {} THEN {} ELSE TimeRange(sts[Min(filters)].expr)

HasHistory(sts) == \E i \in DOMAIN sts : sts[i].is = "history"

-----------------------------------------------------------------------------
(* The storage engine, as the query sees it. *)

\* A stable sort.
SortedBy(s, Less(_, _)) ==
  LET order == SortSeq([i \in DOMAIN s |-> i],
                       LAMBDA i, j : \/ Less(s[i], s[j])
                                     \/ ~Less(s[j], s[i]) /\ i < j)
  IN  [i \in DOMAIN s |-> s[order[i]]]

Versions(stream) == SelectSeq(log, LAMBDA r : r.stream = stream)

\* The records the index points to.
Live(stream) ==
  SelectSeq(log, LAMBDA r : /\ r.stream = stream
                            /\ ~r.dead
                            /\ \A i \in (r.seq + 1)..Len(log) :
                                 log[i].stream = stream => log[i].key # r.key)

Listed(stream) == \E i \in DOMAIN log : log[i].stream = stream

Unlimited == MaxScan + 1

\* A scan stops after so many records, and is refused when it was the global
\* limit that stopped it.
ScanLimit(max) == Min({max, MaxScan})
ScanRefused(found, max) == Len(found) >= MaxScan /\ max > MaxScan

BySeq(s) == SortedBy(s, LAMBDA a, b : a.seq < b.seq)

FirstOf(s, n) == SubSeq(s, 1, Min({n, Len(s)}))

\* The scan walks the keys in their order and sorts what it found afterwards.
LiveScan(stream, max) ==
  BySeq(FirstOf(SortedBy(Live(stream), LAMBDA a, b : a.key < b.key), ScanLimit(max)))

HistoryScan(stream, max) == FirstOf(Versions(stream), ScanLimit(max))

TimeScan(stream, range) ==
  SortedBy(SelectSeq(Live(stream), LAMBDA r : range[1] <= r.ts /\ r.ts <= range[2]),
           LAMBDA a, b : a.ts < b.ts)

PointLookup(stream, key) == SelectSeq(Live(stream), LAMBDA r : r.key = key)

-----------------------------------------------------------------------------
(* The stages. *)

\* A stage that fails leaves the query without an answer.
Failure == <<[failed |-> TRUE]>>

Counted(rs) ==
  <<[stream |-> IF rs = <<>> THEN "stream" ELSE rs[1].stream, key |-> "count", seq |-> 1,
     ts |-> 0, dead |-> FALSE, val |-> [value |-> Number(Len(rs))]]>>

Sorted(rs, st) ==
  SortedBy(rs, LAMBDA a, b : LET x == FieldOrNull(a, st.field)
                                 y == FieldOrNull(b, st.field)
                             IN  IF st.descending THEN ValueLess(y, x) ELSE ValueLess(x, y))

\* Fault: the pages counted from zero.
PagedFromZero(rs, st) ==
  IF st.number = 0 \/ st.size = 0 THEN rs
  ELSE SubSeq(rs, st.number * st.size + 1, Min({(st.number + 1) * st.size, Len(rs)}))

Paged(rs, st) ==
  IF st.number = 0 \/ st.size = 0 THEN rs
  ELSE SubSeq(rs, (st.number - 1) * st.size + 1, Min({st.number * st.size, Len(rs)}))

CursorPaged(rs, st) == FirstOf(SelectSeq(rs, LAMBDA r : r.key > st.cursor), st.size)

\* One record for each value that Of gives, in their order.
PerGroup(rs, Of(_), Made(_, _, _)) ==
  LET values == SetToSortSeq({Of(rs[i]) : i \in DOMAIN rs}, ValueLess)
  IN  [g \in DOMAIN values |->
         Made(values[g], SelectSeq(rs, LAMBDA r : Of(r) = values[g]), g)]

Amounts(rs, field) ==
  LET some == SelectSeq(rs, LAMBDA r : HasField(r, field) /\ FieldOf(r, field).kind = "number")
  IN  [i \in DOMAIN some |-> FieldOf(some[i], field).x]

Total(amounts) == FoldLeft(+, 0, amounts)

Grouped(rs, st) ==
  LET a(g) == Amounts(g, st.of)
      least(g) == IF a(g) = <<>> THEN Null ELSE Half(Min(ToSet(a(g))))
      most(g) == IF a(g) = <<>> THEN Null ELSE Half(Max(ToSet(a(g))))
      made(v, g, i) == [stream |-> rs[1].stream, key |-> v.x, seq |-> i, ts |-> 0, dead |-> FALSE,
                     val |-> [count |-> Number(Len(g)), sum |-> Half(Total(a(g))),
                              min |-> least(g), max |-> most(g)]]
  IN  PerGroup(rs, LAMBDA r : FieldOrNull(r, st.field), made)

\* Fault: the nearest start instead of the last one.
WindowStartRounded(ts, duration) == Quotient(ts + duration \div 2, duration) * duration

WindowStart(ts, duration) == Quotient(ts, duration) * duration

\* The first number of an object; the objects of the cases have one at most.
NumberIn(r) == {f \in DOMAIN r.val : r.val[f].kind = "number"}

Windowed(rs, st) ==
  LET amounts(g) == LET some == SelectSeq(g, LAMBDA r : NumberIn(r) # {})
                    IN  [i \in DOMAIN some |->
                           some[i].val[CHOOSE f \in NumberIn(some[i]) : TRUE].x]
      value(g) == IF st.strategy = "count" THEN Number(Len(g)) ELSE Half(Total(amounts(g)))
      made(v, g, i) == [stream |-> g[1].stream, key |-> v.x, seq |-> Truncated(v.x),
                     ts |-> Truncated(v.x), dead |-> FALSE, val |-> [value |-> value(g)]]
  IN  PerGroup(rs, LAMBDA r : Number(WindowStart(r.ts, st.duration)), made)

Distinct(rs, field) ==
  FoldLeft(LAMBDA kept, r :
             IF \E i \in DOMAIN kept : FieldOrNull(kept[i], field) = FieldOrNull(r, field)
             THEN kept ELSE Append(kept, r), <<>>, rs)

\* The fields of another record, under its own names or under one name.
WithFields(r, o) == [r EXCEPT !.val = [f \in DOMAIN o.val \cup DOMAIN @ |->
                                         IF f \in DOMAIN o.val THEN o.val[f] ELSE @[f]]]

Partner(r, st) ==
  IF HasField(r, st.join) THEN PointLookup(st.source, FieldOf(r, st.join).x) ELSE <<>>

Enriched(rs, st) ==
  [i \in DOMAIN rs |-> IF Partner(rs[i], st) = <<>> THEN rs[i]
                       ELSE WithFields(rs[i], Partner(rs[i], st)[1])]

\* A join field that is missing is looked for in what earlier hops merged in.
NestedIn(r, field) == {f \in DOMAIN r.val : /\ r.val[f].kind = "object"
                                           /\ field \in DOMAIN r.val[f].x}

NextHop(r, st) ==
  IF HasField(r, st.join) \/ NestedIn(r, st.join) = {} THEN Partner(r, st)
  ELSE LET merged == r.val[CHOOSE f \in NestedIn(r, st.join) : TRUE].x
       IN  PointLookup(st.source, merged[st.join].x)

Chained(rs, st) ==
  [i \in DOMAIN rs |->
     IF NextHop(rs[i], st) = <<>> THEN rs[i]
     ELSE LET merged == [kind |-> "object", x |-> NextHop(rs[i], st)[1].val]
          IN  WithFields(rs[i], [val |-> (st.source :> merged)])]

Correlated(rs, st) ==
  LET partners(r) ==
        SelectSeq(LiveScan(st.source, Unlimited),
                  LAMBDA o : /\ HasField(o, st.join)
                             /\ FieldOf(o, st.join) = FieldOf(r, st.join)
                             /\ r.ts - st.within <= o.ts
                             /\ o.ts <= r.ts + st.within)
      kept == SelectSeq(rs, LAMBDA r : HasField(r, st.join) /\ partners(r) # <<>>)
  IN  [i \in DOMAIN kept |->
         WithFields(kept[i], [val |-> [correlated_count |-> Number(Len(partners(kept[i])))]])]

Projected(rs, fields) ==
  [i \in DOMAIN rs |-> [rs[i] EXCEPT !.val = [f \in {g \in fields : HasField(rs[i], g)} |->
                                                 FieldOf(rs[i], f)]]]

\* The matcher of a pattern waits for its next step; a record that comes too
\* late for the window starts over.
Waiting == [step |-> 0, start |-> 0]

\* Fault: no window, and a record that does not match resets.
ProcessedWithoutWindow(m, r, st) ==
  CASE m.step = 0 ->
         IF Matches(r, st.steps[1]) /\ Len(st.steps) > 1
         THEN [step |-> 1, start |-> r.ts] ELSE Waiting
    [] OTHER -> IF Matches(r, st.steps[m.step + 1]) THEN [m EXCEPT !.step = @ + 1] ELSE m

ProcessedInARow(m, r, st) ==
  CASE m.step = 0 ->
         IF Matches(r, st.steps[1]) /\ Len(st.steps) > 1
         THEN [step |-> 1, start |-> r.ts] ELSE Waiting
    [] OTHER -> IF Matches(r, st.steps[m.step + 1]) /\ r.ts - m.start <= st.within
                THEN [m EXCEPT !.step = @ + 1] ELSE Waiting

Processed(m, r, st) ==
  LET first == Matches(r, st.steps[1])
      started == [step |-> 1, start |-> r.ts]
  IN  CASE m.step = 0 ->
             IF first /\ Len(st.steps) > 1 THEN started ELSE Waiting
        [] m.step > 0 /\ r.ts - m.start > st.within ->
             IF first THEN started ELSE Waiting
        [] OTHER ->
             IF Matches(r, st.steps[m.step + 1]) THEN [m EXCEPT !.step = @ + 1] ELSE m

ByTime(rs) == SortedBy(rs, LAMBDA a, b : a.ts < b.ts)

Sequenced(rs, st) ==
  LET feed(acc, r) ==
        LET m == Processed(acc.matcher, r, st)
        IN  IF m.step = Len(st.steps) /\ m.step > 0
            THEN [matcher |-> Waiting, out |-> Append(acc.out, r)]
            ELSE [acc EXCEPT !.matcher = m]
  IN  FoldLeft(feed, [matcher |-> Waiting, out |-> <<>>], ByTime(rs)).out

\* The cosine of two vectors, squared but with its sign, as a fraction.
Dot(a, b) == Total([i \in DOMAIN a |-> a[i] * b[i]])
Score(a, b) ==
  LET dot == Dot(a, b)
      norms == Dot(a, a) * Dot(b, b)
  IN  IF norms = 0 THEN <<0, 1>> ELSE <<IF dot < 0 THEN -dot * dot ELSE dot * dot, norms>>
ScoreLess(s, t) == s[1] * t[2] < t[1] * s[2]

BadVector(r, st) ==
  /\ HasField(r, st.field)
  /\ \/ FieldOf(r, st.field).kind # "vector"
     \/ Len(FieldOf(r, st.field).x) # Len(st.vector)

ScoreOf(r, st) == Score(FieldOf(r, st.field).x, st.vector)

\* A better candidate has the higher score or, between equals, the lower id.
Better(a, b, st) ==
  \/ ScoreLess(ScoreOf(b, st), ScoreOf(a, st))
  \/ /\ ~ScoreLess(ScoreOf(a, st), ScoreOf(b, st))
     /\ a.seq < b.seq

\* Fault: a full heap takes nothing more.
PushedUntilFull(heap, r, st) == IF Cardinality(heap) < st.k THEN heap \cup {r} ELSE heap

\* The heap is the set of the candidates kept; the worst leaves when it is full.
Pushed(heap, r, st) ==
  LET all == heap \cup {r}
  IN  IF Cardinality(all) <= st.k THEN all
      ELSE all \ {CHOOSE w \in all : \A o \in all \ {w} : Better(o, w, st)}

VectorSearched(rs, st) ==
  LET candidates == SelectSeq(rs, LAMBDA r : HasField(r, st.field))
      heap == FoldLeft(LAMBDA h, r : Pushed(h, r, st), {}, candidates)
  IN  IF st.k = 0 \/ \E i \in DOMAIN rs : BadVector(rs[i], st) THEN Failure
      ELSE SetToSortSeq(heap, LAMBDA a, b : Better(a, b, st))

VectorFiltered(rs, st) ==
  IF \E i \in DOMAIN rs : BadVector(rs[i], st) THEN Failure
  ELSE SelectSeq(rs, LAMBDA r : HasField(r, st.field) /\ ~ScoreLess(ScoreOf(r, st), st.threshold))

Applied(rs, st) ==
  CASE rs = Failure               -> Failure
    [] st.is = "from"             -> SelectSeq(rs, LAMBDA r : r.stream = st.stream)
    [] st.is = "history"          -> rs
    [] st.is = "delete"           -> SelectSeq(rs, LAMBDA r : r.dead)
    [] st.is = "filter"           -> SelectSeq(rs, LAMBDA r : Matches(r, st.expr))
    [] st.is = "get"              -> SelectSeq(rs, LAMBDA r : r.key = st.key)
    [] st.is = "count"            -> Counted(rs)
    [] st.is = "sort"             -> Sorted(rs, st)
    [] st.is = "page"             -> Paged(rs, st)
    [] st.is = "page_cursor"      -> CursorPaged(rs, st)
    [] st.is = "group"            -> Grouped(rs, st)
    [] st.is = "map"              -> Projected(rs, st.fields)
    [] st.is = "limit"            -> FirstOf(rs, st.count)
    [] st.is = "enrich"           -> Enriched(rs, st)
    [] st.is = "window"           -> Windowed(rs, st)
    [] st.is = "correlate"        -> Correlated(rs, st)
    [] st.is = "sequence"         -> Sequenced(rs, st)
    [] st.is = "chain"            -> Chained(rs, st)
    [] st.is = "distinct"         -> Distinct(rs, st.field)
    [] st.is = "vector_filter"    -> VectorFiltered(rs, st)
    [] st.is = "vector_search"    -> VectorSearched(rs, st)

-----------------------------------------------------------------------------
(* The run of a query. *)

Init ==
  /\ \E c \in Cases : log = c[1] /\ query = c[2]
  /\ path = "none"
  /\ stages = query.stages
  /\ records = <<>>

FromStream == query.stages[1].stream

Found(how, rs) ==
  /\ path' = how
  /\ records' = rs
  /\ UNCHANGED <<log, query>>

RefuseUnknownStream ==
  /\ path = "none"
  /\ ~Listed(FromStream)
  /\ Found("refused", Failure)
  /\ stages' = <<>>

UsesIndex == path = "none" /\ Listed(FromStream) /\ ~query.listen /\ ~HasHistory(query.stages)

\* What the point lookup takes for done.
Satisfied(st) == st.is \in {"from", "get"} \/ (st.is = "filter" /\ IsKeyEquality(st.expr))

LookUpKey ==
  /\ UsesIndex
  /\ \E key \in UniqueKey(query.stages) : Found("key", PointLookup(FromStream, key))
  /\ stages' = SelectSeq(query.stages, LAMBDA st : ~Satisfied(st))

ScanTimeRange ==
  /\ UsesIndex
  /\ UniqueKey(query.stages) = {}
  /\ \E range \in LeadingTimeRange(query.stages) : Found("time", TimeScan(FromStream, range))
  /\ UNCHANGED stages

\* A listen gives its first limit to the scan.
ScanMax ==
  LET limits == {i \in DOMAIN query.stages : query.stages[i].is = "limit"}
  IN  IF query.listen /\ limits # {} THEN query.stages[Min(limits)].count ELSE Unlimited

ScanFound(how, rs) ==
  /\ Found(how, IF ScanRefused(rs, ScanMax) THEN Failure ELSE rs)
  /\ UNCHANGED stages

ScanStream ==
  /\ path = "none"
  /\ Listed(FromStream)
  /\ ~HasHistory(query.stages)
  /\ query.listen \/ (UniqueKey(query.stages) = {} /\ LeadingTimeRange(query.stages) = {})
  /\ ScanFound("scan", LiveScan(FromStream, ScanMax))

ScanHistory ==
  /\ path = "none"
  /\ Listed(FromStream)
  /\ HasHistory(query.stages)
  /\ ScanFound("history", HistoryScan(FromStream, ScanMax))

ApplyStage ==
  /\ path # "none"
  /\ stages # <<>>
  /\ records # Failure
  /\ records' = Applied(records, Head(stages))
  /\ stages' = Tail(stages)
  /\ UNCHANGED <<log, query, path>>

Next ==
  \/ RefuseUnknownStream
  \/ LookUpKey
  \/ ScanTimeRange
  \/ ScanStream
  \/ ScanHistory
  \/ ApplyStage

Spec == Init /\ [][Next]_vars

-----------------------------------------------------------------------------
(* Properties. *)

Answered == path \notin {"none", "refused"} /\ stages = <<>> /\ records # Failure

AllStages == query.stages
LastStage == AllStages[Len(AllStages)]

\* What the stages make of the whole stream.
Through(sts) == FoldLeft(Applied, BySeq(Live(FromStream)), sts)
Answer == Through(AllStages)
Input == Through(FirstOf(AllStages, Len(AllStages) - 1))

\* The point lookup of a query is exact when everything it takes for done asks
\* for that one key, nothing that asks for it is left, and nothing but
\* filters comes before.
KeyPlanExact ==
  \A i \in DOMAIN AllStages :
    LET st == AllStages[i]
    IN  /\ KeyOfStage(st) # {} => Satisfied(st)
        /\ Satisfied(st) /\ st.is # "from" =>
             /\ KeyOfStage(st) = UniqueKey(AllStages)
             /\ st.is = "filter" => st.expr.is = "simple"
             /\ \A j \in 1..(i - 1) : AllStages[j].is \in {"from", "get", "filter"}

RECURSIVE LessThanFraction(_)
LessThanFraction(e) ==
  \/ /\ e.is = "simple"
     /\ e.field = "timestamp"
     /\ e.op = "<"
     /\ e.value.x % 2 = 1
  \/ e.is \in {"and", "or"} /\ (LessThanFraction(e.left) \/ LessThanFraction(e.right))
  \/ e.is = "not" /\ LessThanFraction(e.expr)

InTimeOrder == \A i, j \in DOMAIN log : i < j => log[i].ts <= log[j].ts

\* The range scan is exact when its filter comes first and is not below a
\* fraction, and when the order of the records cannot change the answer.
TimePlanExact ==
  /\ AllStages[2].is = "filter"
  /\ ~LessThanFraction(AllStages[2].expr)
  /\ \/ InTimeOrder
     \/ \A i \in DOMAIN AllStages :
          AllStages[i].is \in {"from", "filter", "map", "enrich", "chain", "count", "group"}

\* Whatever way the records are found, the answer is what the stages make of
\* the whole stream; outside the plans that are not exact, and a listen with
\* a limit, which looks at so many keys only.
AnswerIsThatOfTheWholeStream ==
  Answered =>
    \/ path = "key" /\ ~KeyPlanExact
    \/ path = "time" /\ ~TimePlanExact
    \/ path = "scan" /\ ScanMax < Unlimited
    \/ path = "history"
    \/ ToSet(records) = ToSet(Answer)

\* A query that only filters returns the records of the stream that satisfy
\* its filters ("Filter records by a condition", rust-crate-api.md:191).
OnlyFilters ==
  /\ ~query.listen
  /\ \A i \in 2..Len(AllStages) : AllStages[i].is = "filter"

FiltersSelectByCondition ==
  Answered /\ OnlyFilters =>
    ToSet(records) =
      {r \in ToSet(Live(FromStream)) :
         \A i \in 2..Len(AllStages) : Matches(r, AllStages[i].expr)}

\* What explain announces: a point lookup, or a scan.
Announced ==
  IF \E i \in 2..Len(AllStages) : Satisfied(AllStages[i]) THEN "key" ELSE "scan"

\* Explain announces a point lookup exactly when the query is run as one; it
\* does not see that history forbids it, that a negation or a key that is not
\* a text makes a difference, nor that a listen never looks a key up.
RECURSIVE Plain(_)
Plain(e) ==
  CASE e.is = "simple" -> e.field = "key" /\ e.op = "=" => e.value.kind = "text"
    [] e.is \in {"and", "or"} -> Plain(e.left) /\ Plain(e.right)
    [] e.is = "not" -> KeyIn(e.expr) = {}

ExplainNamesThePath ==
  path \in {"key", "time", "scan"} /\ ~query.listen =>
    \/ \E i \in DOMAIN AllStages : AllStages[i].is = "filter" /\ ~Plain(AllStages[i].expr)
    \/ Announced = "key" <=> path = "key"

\* Following the numbers of the pages, or the key of a page's last record as
\* the next cursor, visits every record once; by cursor when the records are
\* in the order of their keys.
RECURSIVE Following(_, _, _)
Following(rs, cursor, size) ==
  LET next == CursorPaged(rs, [cursor |-> cursor, size |-> size])
  IN  IF next = <<>> THEN <<>> ELSE next \o Following(rs, next[Len(next)].key, size)

PagesVisitEveryRecord ==
  Answered /\ path = "scan" =>
    /\ LastStage.is = "page" =>
         Input = FlattenSeq([n \in 1..Len(Input) |->
                               Paged(Input, [LastStage EXCEPT !.number = n])])
    /\ /\ LastStage.is = "page_cursor"
       /\ \A i, j \in DOMAIN Input : i < j => Input[i].key < Input[j].key
       =>
         Following(Input, 0, LastStage.size) = Input

\* The records a pattern returns end matches that lie within the window and
\* do not overlap.
IsMatch(rs, st, i, j) ==
  \E at \in [DOMAIN st.steps -> i..j] :
    /\ at[1] = i
    /\ at[Len(st.steps)] = j
    /\ \A n \in 1..(Len(st.steps) - 1) : at[n] < at[n + 1]
    /\ \A n \in DOMAIN st.steps : Matches(rs[at[n]], st.steps[n])

EndsOfMatches == {j \in DOMAIN ByTime(Input) : ByTime(Input)[j] \in ToSet(records)}

PatternsAreReal ==
  Answered /\ path = "scan" /\ LastStage.is = "sequence" =>
    LET rs == ByTime(Input)
        before(j) == {e \in EndsOfMatches : e < j}
    IN  \A j \in EndsOfMatches :
          \E i \in ((IF before(j) = {} THEN 0 ELSE Max(before(j))) + 1)..j :
            /\ rs[j].ts - rs[i].ts <= LastStage.within
            /\ IsMatch(rs, LastStage, i, j)

\* When all records lie within one window, a pattern of two steps or more
\* returns as many matches as there are without overlap.
MostMatches(rs, st) ==
  LET most[j \in 0..Len(rs)] ==
        IF j = 0 THEN 0
        ELSE Max({most[j - 1]} \cup
                 {most[i - 1] + 1 : i \in {i \in 1..j : IsMatch(rs, st, i, j)}})
  IN  most[Len(rs)]

PatternsAreFound ==
  Answered /\ path = "scan" /\ LastStage.is = "sequence" =>
    LET rs == ByTime(Input)
    IN  \/ Len(LastStage.steps) = 1
        \/ \E i \in DOMAIN rs : rs[i].ts - rs[1].ts > LastStage.within
        \/ Len(records) = MostMatches(rs, LastStage)

\* A vector search returns the best candidates, the best first.
SearchReturnsTheBest ==
  Answered /\ path = "scan" /\ LastStage.is = "vector_search" =>
    LET candidates == SelectSeq(Input, LAMBDA r : HasField(r, LastStage.field))
    IN  records = FirstOf(SortedBy(candidates, LAMBDA a, b : Better(a, b, LastStage)), LastStage.k)

\* Groups and windows count every record once, and a window holds the records
\* from its start on.
GroupsCountEveryRecord ==
  Answered /\ path = "scan" =>
    /\ LastStage.is = "group" =>
         /\ Total([g \in DOMAIN records |-> records[g].val.count.x]) = 2 * Len(Input)
         /\ Total([g \in DOMAIN records |-> records[g].val.sum.x])
              = Total(Amounts(Input, LastStage.of))
    /\ LastStage.is = "window" /\ LastStage.strategy = "count" =>
         \A g \in DOMAIN records :
           records[g].val.value.x =
             2 * Cardinality({i \in DOMAIN Input :
                                /\ records[g].ts <= Input[i].ts
                                /\ Input[i].ts < records[g].ts + LastStage.duration})

=============================================================================
