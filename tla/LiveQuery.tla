----------------------------- MODULE LiveQuery ------------------------------
(***************************************************************************)
(* Live queries: the flusher applies a record to the index and then sends  *)
(* it to a broadcast channel that keeps the last Capacity records.         *)
(*   listen  reads the history from the index, then subscribes;            *)
(*   tail    subscribes only;                                              *)
(*   poll    (subscribe_sync of the embedded API) subscribes, sleeps, takes *)
(*           one record and gives the subscription up, at every call.      *)
(* A record is its place in the log; what a pipeline selects of it is the  *)
(* subject of QueryPlan, every record passes here.                         *)
(***************************************************************************)
EXTENDS Integers, FiniteSets, FiniteSetsExt, Sequences, SequencesExt

CONSTANTS
  Keys,       \* the keys of the stream
  Listeners,
  Capacity,   \* broadcast_capacity
  MaxWrites   \* bound

ASSUME LiveQueryAssumption == Capacity \in Nat \ {0} /\ MaxWrites \in Nat

VARIABLES
  log,      \* the records written, in order: [key, del]
  applied,  \* how many of them the index shows
  sent,     \* how many have been broadcast
  kind,     \* what each listener asked for
  pc,       \* where it is
  unread,   \* listen: the keys of the snapshot still to be read
  seen,     \* the records it has been given, in order
  pos,      \* the next record its receiver takes
  mark,     \* how many had been broadcast when it began
  missed    \* records it can never get: skipped, or sent too early

writer    == <<log, applied, sent>>
listeners == <<kind, pc, unread, seen, pos, mark, missed>>
vars      == <<writer, listeners>>

Kinds == {"listen", "tail", "poll"}

\* The newest of the first n records of a key, 0 when there is none.
Newest(k, n) == Max({0} \cup { i \in 1..n : log[i].key = k })

\* The oldest record that the channel still holds.
Oldest == Max({1, sent - Capacity + 1})

Init ==
  /\ log = <<>> /\ applied = 0 /\ sent = 0
  /\ kind \in [Listeners -> Kinds]
  /\ pc = [l \in Listeners |-> "new"]
  /\ unread = [l \in Listeners |-> {}] /\ seen = [l \in Listeners |-> <<>>]
  /\ pos = [l \in Listeners |-> 0] /\ mark = [l \in Listeners |-> 0]
  /\ missed = [l \in Listeners |-> {}]

-----------------------------------------------------------------------------
(* The flusher: one record at a time.                                      *)

Write(k, del) ==
  /\ sent = Len(log) /\ Len(log) < MaxWrites
  /\ log' = Append(log, [key |-> k, del |-> del])
  /\ UNCHANGED <<applied, sent, listeners>>

Apply ==
  /\ applied < Len(log)
  /\ applied' = applied + 1
  /\ UNCHANGED <<log, sent, listeners>>

\* Fault: the record is sent once it is written.
BroadcastEarly ==
  /\ sent < Len(log)
  /\ sent' = sent + 1
  /\ UNCHANGED <<log, applied, listeners>>

Broadcast ==
  /\ sent < applied
  /\ sent' = sent + 1
  /\ UNCHANGED <<log, applied, listeners>>

-----------------------------------------------------------------------------
(* A listener.                                                             *)

\* The history first: the live index is read key by key ...
Listen(l) ==
  /\ pc[l] = "new" /\ kind[l] = "listen"
  /\ pc' = [pc EXCEPT ![l] = "history"]
  /\ unread' = [unread EXCEPT ![l] = Keys]
  /\ mark' = [mark EXCEPT ![l] = sent]
  /\ UNCHANGED <<writer, kind, seen, pos, missed>>

ReadKey(l, k) ==
  /\ pc[l] = "history" /\ k \in unread[l]
  /\ unread' = [unread EXCEPT ![l] = @ \ {k}]
  /\ LET n == Newest(k, applied) IN
       seen' = IF n # 0 /\ ~log[n].del THEN [seen EXCEPT ![l] = Append(@, n)] ELSE seen
  /\ UNCHANGED <<writer, kind, pc, pos, mark, missed>>

\* The different records of s in the order of the log.
InOrder(s) ==
  [i \in DOMAIN s |->
     CHOOSE n \in Range(s) : Cardinality({ m \in Range(s) : m <= n }) = i]

\* ... sorted and sent, then the subscription begins.
Subscribe(l) ==
  /\ pc[l] = "history" /\ unread[l] = {}
  /\ pc' = [pc EXCEPT ![l] = "live"]
  /\ seen' = [seen EXCEPT ![l] = InOrder(@)]
  /\ pos' = [pos EXCEPT ![l] = sent + 1]
  /\ missed' = [missed EXCEPT ![l] = (mark[l] + 1)..sent]
  /\ UNCHANGED <<writer, kind, unread, mark>>

Follow(l) ==
  /\ pc[l] = "new" /\ kind[l] \in {"tail", "poll"}
  /\ pc' = [pc EXCEPT ![l] = "live"]
  /\ pos' = [pos EXCEPT ![l] = sent + 1]
  /\ mark' = [mark EXCEPT ![l] = sent]
  /\ UNCHANGED <<writer, kind, unread, seen, missed>>

Ready(l) == pc[l] = "live" /\ pos[l] <= sent

\* The next record; a receiver that has been overtaken goes on, without a
\* word, at the oldest record there is.
Receive(l) ==
  /\ Ready(l) /\ kind[l] # "poll"
  /\ IF pos[l] < Oldest
     THEN /\ pos' = [pos EXCEPT ![l] = Oldest]
          /\ missed' = [missed EXCEPT ![l] = @ \cup pos[l]..(Oldest - 1)]
          /\ UNCHANGED seen
     ELSE /\ pos' = [pos EXCEPT ![l] = @ + 1]
          /\ seen' = [seen EXCEPT ![l] = Append(@, pos[l])] /\ UNCHANGED missed
  /\ UNCHANGED <<writer, kind, pc, unread, mark>>

\* A call of subscribe_sync ends: with the first record since it began, with
\* nothing, or with nothing because it has been overtaken.  The next call
\* subscribes anew.
PollReturns(l) ==
  /\ pc[l] = "live" /\ kind[l] = "poll"
  /\ pc' = [pc EXCEPT ![l] = "between"]
  /\ LET got == IF pos[l] <= sent /\ pos[l] >= Oldest THEN {pos[l]} ELSE {} IN
       /\ seen' = [seen EXCEPT ![l] = @ \o SetToSeq(got)]
       /\ missed' = [missed EXCEPT ![l] = @ \cup (pos[l]..sent \ got)]
       /\ pos' = [pos EXCEPT ![l] = sent + 1]
  /\ UNCHANGED <<writer, kind, unread, mark>>

PollAgain(l) ==
  /\ pc[l] = "between"
  /\ pc' = [pc EXCEPT ![l] = "live"]
  /\ pos' = [pos EXCEPT ![l] = sent + 1]
  /\ missed' = [missed EXCEPT ![l] = @ \cup pos[l]..sent]
  /\ UNCHANGED <<writer, kind, unread, seen, mark>>

Next ==
  \/ \E k \in Keys, del \in BOOLEAN : Write(k, del)
  \/ Apply \/ Broadcast
  \/ \E l \in Listeners :
       \/ Listen(l) \/ \E k \in Keys : ReadKey(l, k)
       \/ Subscribe(l) \/ Follow(l) \/ Receive(l)
       \/ PollReturns(l) \/ PollAgain(l)

Spec == Init /\ [][Next]_vars

-----------------------------------------------------------------------------
(* Properties                                                              *)

CaughtUp(l) == pc[l] = "live" /\ pos[l] = sent + 1 /\ sent = Len(log)

\* The first record a listener is entitled to: all of them with the history.
First(l) == IF kind[l] = "listen" THEN 1 ELSE mark[l] + 1

LastSeen(l, k) == Max({0} \cup { i \in DOMAIN seen[l] : log[seen[l][i]].key = k })

\* A listener that has received everything there is has the same value for a key
\* as the index, whatever was written while it read the history - unless the
\* newest record of the key is one it could never get: sent between its reading
\* the history and its subscription, overwritten in the channel, or sent between
\* two polls (executor.rs:2512-2552, storage.rs:3839-3866, embed.rs:523-541).
ListenersFollowTheIndex ==
  \A l \in Listeners, k \in Keys : CaughtUp(l) =>
    LET n == Newest(k, Len(log))  i == LastSeen(l, k) IN
      \/ n < First(l) \/ n \in missed[l]
      \/ i # 0 /\ seen[l][i] = n
      \/ i = 0 /\ log[n].del
=============================================================================
