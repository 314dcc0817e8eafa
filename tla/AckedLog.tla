------------------------------ MODULE AckedLog ------------------------------
(***************************************************************************)
(* What the storage engine promises its callers, without segments, fsyncs, *)
(* rollovers and replay: a log of writes in one total order, a view that   *)
(* shows the newest write of each key, and answers.  A request answered    *)
(* with success is in the log for good.  When the engine goes down, the    *)
(* log keeps a prefix of its order: it may lose writes no caller was told  *)
(* of, and gain some whose callers were told nothing or an error.          *)
(***************************************************************************)
EXTENDS Integers

CONSTANTS Requests, Keys

VARIABLES
  log,     \* records [seq, key, del, req]
  view,    \* the records readers see, at most one per key
  open,    \* can the engine be used?
  answer,  \* what each caller knows: none, queued, ok, err or lost
  acked    \* the records of the requests answered with success

vars == <<log, view, open, answer, acked>>

Latest(L) ==
  { r \in L : ~r.del /\ \A q \in L : q.key = r.key => q.seq <= r.seq }

RecordsOf(L, r) == { x \in L : x.req = r }

Init ==
  /\ log = {} /\ view = {} /\ open = TRUE /\ acked = {}
  /\ answer = [r \in Requests |-> "none"]

\* A caller hands over a request.
Ask ==
  /\ open
  /\ \E r \in Requests :
       answer[r] = "none" /\ answer' = [answer EXCEPT ![r] = "queued"]
  /\ UNCHANGED <<log, view, open, acked>>

\* The writes of one request enter the log together, after all others, become
\* visible and are acknowledged in one step.
Commit ==
  /\ open
  /\ \E r \in Requests :
       /\ answer[r] = "queued"
       /\ answer' = [answer EXCEPT ![r] = "ok"]
       /\ log' \ log = RecordsOf(log', r)
       /\ log \subseteq log' /\ log' # log
       /\ \A x \in log, y \in log' \ log : x.seq < y.seq
       /\ acked' = acked \cup RecordsOf(log', r)
  /\ view' = Latest(log')
  /\ UNCHANGED open

\* Requests are answered with an error: nothing of them shows.
Refuse ==
  /\ \A r \in Requests : answer'[r] # answer[r] =>
       answer[r] = "queued" /\ answer'[r] = "err"
  /\ open
  /\ UNCHANGED <<log, view, open, acked>>

\* The engine goes down.  What is left is closed under "written before", has
\* every acknowledged write, and nothing that no caller asked for.
GoDown ==
  /\ open' = FALSE /\ view' = {}
  /\ \A x \in log \cup log', y \in log' :
       x.seq < y.seq => x \in log'
  /\ acked \subseteq log'
  /\ \A x \in log' \ log :
       answer[x.req] \in {"queued", "err"} /\ answer'[x.req] \in {"lost", "err"}
  /\ \A r \in Requests : answer'[r] # answer[r] =>
       answer[r] = "queued" /\ answer'[r] \in {"lost", "err"}
  /\ UNCHANGED acked

\* The engine comes back and shows exactly what the log holds.
Reopen ==
  /\ ~open /\ open' = TRUE
  /\ view' = Latest(log)
  /\ UNCHANGED <<log, answer, acked>>

Next == Ask \/ Commit \/ Refuse \/ GoDown \/ Reopen

Spec == Init /\ [][Next]_vars
=============================================================================
