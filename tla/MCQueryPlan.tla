------------------------------ MODULE MCQueryPlan ------------------------------
EXTENDS QueryPlan

From(s) == [is |-> "from", stream |-> s]
Filter(e) == [is |-> "filter", expr |-> e]
Query(sts) == [listen |-> FALSE, stages |-> sts]
Listen(sts) == [listen |-> TRUE, stages |-> sts]

Version(i, s, k, t, d, v) == [stream |-> s, key |-> k, seq |-> i, ts |-> t, dead |-> d, val |-> v]

-----------------------------------------------------------------------------
(* Plans: short logs of two keys, with overwrites, deletes and timestamps   *)
(* out of order, under every combination of a few filters and stages.       *)

Shapes == [key : {1, 2}, ts : {1, 2}, n : {1, 2}, dead : {FALSE}]
            \cup [key : {1}, ts : {2}, n : {1}, dead : {TRUE}]

PlanLogs ==
  {[i \in DOMAIN s |-> Version(i, "events", s[i].key, s[i].ts, s[i].dead, [n |-> Number(s[i].n)])] :
     s \in UNION {[1..l -> Shapes] : l \in {0, 1, 2}}}
  \cup {<<Version(1, "events", 2, 2, FALSE, [n |-> Number(1)]),
          Version(2, "events", 1, 1, FALSE, [n |-> Number(2)]),
          Version(3, "events", 2, 1, FALSE, [n |-> Number(2)])>>}

Simple ==
  {Compare("key", "=", Text(1)), Compare("key", "=", Text(2)), Compare("key", "=", Number(1)),
   Compare("key", "in", <<Text(1), Text(2)>>), Compare("n", ">", Number(1)),
   Compare("timestamp", "between", <<Number(1), Number(1)>>)}
  \cup {Compare("timestamp", op, b) : op \in {"<", "<=", ">", ">=", "=", "#"}, b \in {Half(3), Number(2)}}

Combined ==
  {Both(l, r) : l \in {Compare("key", "=", Text(1)), Compare("timestamp", "<=", Number(1))},
                r \in Simple}
  \cup {Either(Compare("key", "=", Text(1)), Compare("n", "=", Number(2)))}
  \cup {Negated(Compare("key", "=", Text(1))), Negated(Compare("timestamp", "<", Number(2)))}

PlanEnds ==
  {<<>>, <<[is |-> "limit", count |-> 1]>>, <<[is |-> "get", key |-> 1]>>, <<[is |-> "count"]>>,
   <<[is |-> "map", fields |-> {"key", "n"}]>>,
   <<[is |-> "sort", field |-> "timestamp", descending |-> TRUE], [is |-> "limit", count |-> 1]>>}

PlanQueries ==
  {Query(<<From("events"), Filter(e)>> \o end) : e \in Simple \cup Combined, end \in PlanEnds}
  \cup {Query(<<From("events"), [is |-> "limit", count |-> 1], Filter(e)>>) : e \in Simple}
  \cup {Query(<<From("events")>> \o end) : end \in PlanEnds}
  \cup {Query(<<From("events"), [is |-> "history"]>> \o end)
          : end \in PlanEnds \cup {<<[is |-> "delete"]>>, <<Filter(Compare("key", "=", Text(1)))>>}}
  \cup {Listen(<<From("events"), Filter(Compare("n", ">", Number(1)))>> \o end) : end \in PlanEnds}

-----------------------------------------------------------------------------
(* Patterns: four records, each a, b or c, one after the other in time.     *)

Event(x) == Compare("ev", "=", Text(x))

PatternLogs ==
  {[i \in DOMAIN s |-> Version(i, "events", i, Total([j \in 1..i |-> s[j][2]]), FALSE,
                               [ev |-> Text(s[i][1])])]
     : s \in {<<<<x, 0>>>> \o rest : x \in {1, 2}, rest \in [1..3 -> {1, 2, 3} \X {0, 1, 2}]}}

PatternQueries ==
  {Query(<<From("events"), [is |-> "sequence", steps |-> steps, within |-> 2]>>)
     : steps \in {<<Event(1), Event(2)>>, <<Event(1), Event(2), Event(1)>>, <<Event(3)>>}}

-----------------------------------------------------------------------------
(* The other stages, on a stream of four records in changing order, beside  *)
(* a second and a third stream for the joins.                               *)

Vectors == <<<<1, 0>>, <<1, 1>>, <<-1, 0>>, <<2, 2>>>>

StageLogs ==
  {[i \in DOMAIN order |->
      Version(i, "events", order[i], i, FALSE,
              [n |-> Number(order[i] \div 2), user |-> Text(order[i] % 2),
               v |-> [kind |-> "vector", x |-> Vectors[order[i]]]])]
   \o <<Version(5, "users", 1, 3, FALSE, [next |-> Text(1), user |-> Text(1)]),
        Version(6, "orders", 1, 1, FALSE, [last |-> Number(9)])>>
     : order \in {o \in [1..4 -> 1..4] : \A i, j \in 1..4 : i # j => o[i] # o[j]}}

StageEnds ==
  {<<[is |-> "page", number |-> n, size |-> m]>> : n \in {0, 1, 2, 3}, m \in {1, 3}}
  \cup {<<[is |-> "page_cursor", cursor |-> 2, size |-> m]>> : m \in {1, 2}}
  \cup {<<[is |-> "sort", field |-> "key", descending |-> FALSE],
          [is |-> "page_cursor", cursor |-> 0, size |-> m]>> : m \in {1, 2}}
  \cup {<<[is |-> "group", field |-> f, of |-> "n"]>> : f \in {"user", "n", "last"}}
  \cup {<<[is |-> "window", duration |-> d, strategy |-> g]>> : d \in {2, 3}, g \in {"count", "sum"}}
  \cup {<<[is |-> "distinct", field |-> "user"]>>}
  \cup {<<[is |-> "enrich", source |-> "users", join |-> "user"]>>}
  \cup {<<[is |-> "chain", source |-> "users", join |-> "user"], [is |-> "chain", source |-> "orders", join |-> "next"]>>}
  \cup {<<[is |-> "correlate", source |-> "users", join |-> "user", within |-> w]>> : w \in {0, 1}}
  \cup {<<[is |-> "vector_search", field |-> f, vector |-> <<1, 0>>, k |-> k]>>
          : f \in {"v", "user"}, k \in {0, 1, 2, 3}}
  \cup {<<[is |-> "vector_filter", field |-> "v", vector |-> q, threshold |-> <<1, 2>>]>>
          : q \in {<<1, 0>>, <<1>>}}

StageQueries == {Query(<<From("events")>> \o end) : end \in StageEnds}
                  \cup {Query(<<From("nowhere")>>)}

MCCases ==
  (PlanLogs \X PlanQueries) \cup (PatternLogs \X PatternQueries) \cup (StageLogs \X StageQueries)

=============================================================================
