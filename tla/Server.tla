------------------------------- MODULE Server -------------------------------
(***************************************************************************)
(* Who is connected to the server, under which auth key, and how a key     *)
(* that is revoked or changes its role reaches the connections made with   *)
(* it: the handlers of the web API write the key's record and close the    *)
(* registered connections, a checker compares the registered connections   *)
(* with the records twice a second.  Connections look the key up first and *)
(* register afterwards.                                                    *)
(*                                                                         *)
(* Abstractions.  A key is the number it was issued under, for its hash.   *)
(* security.mode is auth_key; the native port speaks clear text with a     *)
(* Connect frame, or mutual TLS, where the identity comes from a cache.    *)
(* Queries are the subject of Executor, QueryPlan and LiveQuery: here they *)
(* only keep a connection busy.  The administrators' own sessions are      *)
(* valid throughout.                                                       *)
(***************************************************************************)
EXTENDS Integers, FiniteSets

CONSTANTS
  Ids,         \* key ids
  Roles,
  Conns,       \* native clients
  Socks,       \* dashboard web sockets
  Tokens,      \* session ids; the tabs of a browser share one
  Admins,      \* administrators' requests, each made once at most
  Company,     \* who is there in one run: clients, sockets, requests, and the roles
               \* that may be given
  FirstRole,   \* the role of the key the store holds at the start
  Permits,     \* max_connections
  QueueCap,    \* queries that wait in a web socket's channel (5)
  MaxAttempts  \* bound: registrations of each client and socket

ASSUME ServerAssumption ==
  /\ Company \subseteq SUBSET (Conns \cup Socks \cup Admins \cup Roles)
  /\ FirstRole \in Roles
  /\ Permits \in Nat \ {0} /\ QueueCap \in Nat \ {0}
  /\ MaxAttempts \in [Conns \cup Socks -> Nat]

VARIABLES
  clients,   \* who is there in this run, the roles included (fixed at the start)
  mutual,    \* is mutual TLS on? (fixed at the start)
  records,   \* the auth_keys stream: the record of each id, as a set
  cache,     \* identity_cache: the same for mutual TLS, without the status
  registry,  \* active_connections
  fired,     \* close channels that have been sent on: [owner, n]
  permits,   \* conn_semaphore
  conn,      \* native connections
  sock,      \* dashboard sockets
  sessions,  \* the session of each token
  request,   \* administrators' handlers
  checker,   \* the background checker
  issued,    \* keys issued
  late       \* TLS clients registered under a role they do not have

server  == <<clients, mutual, records, cache, registry, fired, permits>>
vars    == <<server, conn, sock, sessions, request, checker, issued, late>>

NoKey == 0
NoRole == "none"

ByHash(h) == UNION { { r \in records[i] : r.hash = h } : i \in Ids }
Valid(h, role) == \E r \in ByHash(h) : r.active /\ r.role = role

\* kill_active_connections_for_hash: fire every channel of the hash, and drop
\* its entry.
KilledFor(h)  == { e \in registry : e.hash = h }
Channel(e)    == [owner |-> e.owner, n |-> e.n]
Kill(h) == /\ fired' = fired \cup { Channel(e) : e \in KilledFor(h) }
           /\ registry' = registry \ KilledFor(h)

IdleConn == [pc |-> "off", n |-> 0, hash |-> NoKey, role |-> NoRole, id |-> NoKey,
             next |-> "off"]
IdleSock == [pc |-> "off", n |-> 0, hash |-> NoKey, role |-> NoRole,
             token |-> NoKey, queued |-> 0, streaming |-> FALSE]
NoSession == [pc |-> "none", id |-> NoKey, hash |-> NoKey, role |-> NoRole]
Gone      == [NoSession EXCEPT !.pc = "gone"]
NoRequest == [pc |-> "idle", op |-> "none", id |-> NoKey, role |-> NoRole, rec |-> {}]
Done      == [NoRequest EXCEPT !.pc = "done"]

\* The store holds the first key already; the cache is filled at the start.
Init ==
  /\ clients \in Company
  /\ mutual \in (IF clients \cap Conns = {} THEN {FALSE} ELSE BOOLEAN)
  /\ \E i \in Ids :
       /\ records = [j \in Ids |-> IF j = i
                       THEN {[hash |-> 1, role |-> FirstRole, active |-> TRUE]} ELSE {}]
       /\ cache = [j \in Ids |-> IF j = i THEN {[hash |-> 1, role |-> FirstRole]} ELSE {}]
  /\ registry = {} /\ fired = {} /\ permits = Permits
  /\ conn = [c \in Conns |-> IdleConn] /\ sock = [s \in Socks |-> IdleSock]
  /\ sessions = [t \in Tokens |-> NoSession]
  /\ request = [a \in Admins |-> NoRequest]
  /\ checker = [pc |-> "asleep", todo |-> {}, hash |-> NoKey]
  /\ issued = 1 /\ late = {}

-----------------------------------------------------------------------------
(* Native connections.                                                     *)

Others == <<records, cache, sessions, sock, request, checker, issued, clients, mutual>>

\* A permit, and in clear text nothing more yet.
Accept(c) ==
  /\ ~mutual /\ conn[c].pc = "off" /\ permits > 0
  /\ permits' = permits - 1
  /\ conn' = [conn EXCEPT ![c].pc = "open"]
  /\ UNCHANGED <<registry, fired, late, Others>>

\* Mutual TLS: the certificate's name leads to a cached identity, whose role is
\* the connection's; a name that is not cached gets no capability at all.
AcceptMutual(c, i) ==
  /\ mutual /\ conn[c].pc = "off" /\ conn[c].n < MaxAttempts[c] /\ permits > 0
  /\ permits' = permits - 1
  /\ \/ \E id \in cache[i] : conn' = [conn EXCEPT ![c] =
           [@ EXCEPT !.pc = "identified", !.hash = id.hash, !.role = id.role, !.id = i]]
     \/ cache[i] = {} /\ conn' = [conn EXCEPT ![c].pc = "open"]
  /\ UNCHANGED <<registry, fired, late, Others>>

Entry(owner, n, hash, role, token) ==
  [owner |-> owner, n |-> n, hash |-> hash, role |-> role, token |-> token]

\* The entry gets the role the key id has now, none when it is revoked.
RegisterMutual(c) ==
  /\ conn[c].pc = "identified"
  /\ LET now == { r \in records[conn[c].id] : r.active }
         role == IF now = {} THEN NoRole ELSE (CHOOSE r \in now : TRUE).role
         me == conn[c] IN
       /\ registry' = registry \cup {Entry(c, me.n + 1, me.hash, role, NoKey)}
       /\ late' = IF role # me.role THEN late \cup {c} ELSE late \ {c}
       /\ conn' = [conn EXCEPT ![c] =
                     [me EXCEPT !.pc = "open", !.n = @ + 1, !.id = NoKey]]
  /\ UNCHANGED <<fired, permits, Others>>

\* The handler writes to its client, and until the client has taken it all looks
\* at nothing else, its close channel included; what it does next is remembered.
Sending(me, next) == [me EXCEPT !.pc = "sending", !.next = next]

\* The end of a connection gives the permit back; its entry stays.
Ends(c) == /\ conn' = [conn EXCEPT ![c] = [IdleConn EXCEPT !.n = conn[c].n]]
           /\ permits' = permits + 1
           /\ late' = late \ {c}

\* A Connect frame: the key is looked up; an unknown or revoked one is told so,
\* and the connection ends.
Connect(c, h) ==
  /\ ~mutual /\ conn[c].pc = "open" /\ conn[c].n < MaxAttempts[c]
  /\ \/ \E r \in ByHash(h) :
          /\ r.active
          /\ conn' = [conn EXCEPT ![c] =
                        [@ EXCEPT !.pc = "found", !.hash = r.hash, !.role = r.role]]
     \/ /\ \A r \in ByHash(h) : ~r.active
        /\ conn' = [conn EXCEPT ![c] = Sending(@, "off")]
  /\ UNCHANGED <<registry, fired, permits, late, Others>>

\* Fault: the connection keeps listening to its old close channel.
RegisterOnly(c) ==
  /\ conn[c].pc = "found"
  /\ LET me == conn[c] IN
       registry' = registry \cup {Entry(c, me.n + 1, me.hash, me.role, NoKey)}
  /\ conn' = [conn EXCEPT ![c] = Sending(@, "open")]
  /\ UNCHANGED <<fired, permits, late, Others>>

\* Then it is registered with a close channel of its own, which replaces the
\* one it had, and told so.
Register(c) ==
  /\ conn[c].pc = "found"
  /\ LET me == conn[c] IN
       /\ registry' = registry \cup {Entry(c, me.n + 1, me.hash, me.role, NoKey)}
       /\ conn' = [conn EXCEPT ![c] = Sending([me EXCEPT !.n = @ + 1], "open")]
  /\ UNCHANGED <<fired, permits, late, Others>>

\* Any other frame is answered, a query the connection may not make as well.
Query(c) ==
  /\ conn[c].pc = "open"
  /\ conn' = [conn EXCEPT ![c] = Sending(@, "open")]
  /\ UNCHANGED <<registry, fired, permits, late, Others>>

\* A listen or tail query keeps the connection; a listen query first sends what
\* there is, if there is any.
Listen(c) ==
  /\ conn[c].pc = "open" /\ conn[c].hash # NoKey
  /\ \/ conn' = [conn EXCEPT ![c] = Sending(@, "listening")]
     \/ conn' = [conn EXCEPT ![c].pc = "listening"]
  /\ UNCHANGED <<registry, fired, permits, late, Others>>

\* A record that was stored reaches the listener.
Push(c) ==
  /\ conn[c].pc = "listening"
  /\ conn' = [conn EXCEPT ![c] = Sending(@, "listening")]
  /\ UNCHANGED <<registry, fired, permits, late, Others>>

\* The client has taken what was sent.
Sent(c) ==
  /\ conn[c].pc = "sending"
  /\ \/ /\ conn[c].next # "off"
        /\ conn' = [conn EXCEPT ![c] = [@ EXCEPT !.pc = conn[c].next, !.next = "off"]]
        /\ UNCHANGED <<permits, late>>
     \/ conn[c].next = "off" /\ Ends(c)
  /\ UNCHANGED <<registry, fired, Others>>

\* The close channel is watched between two frames, and while listening between
\* two records.
Closed(c) ==
  /\ conn[c].pc \in {"open", "listening"} /\ [owner |-> c, n |-> conn[c].n] \in fired
  /\ Ends(c)
  /\ UNCHANGED <<registry, fired, Others>>

\* The client has gone: reading fails, or sending does.
Leave(c) ==
  /\ conn[c].pc \in {"open", "sending"}
  /\ Ends(c)
  /\ UNCHANGED <<registry, fired, Others>>

Native(c) == \/ Accept(c) \/ \E i \in Ids : AcceptMutual(c, i)
             \/ RegisterMutual(c) \/ \E h \in 1..issued : Connect(c, h)
             \/ Register(c) \/ Query(c) \/ Listen(c) \/ Push(c) \/ Sent(c)
             \/ Closed(c) \/ Leave(c)

-----------------------------------------------------------------------------
(* Dashboard: sessions and web sockets.                                    *)

\* The key is looked up, then the session is stored under a new random id.
Login(t, h) ==
  /\ sessions[t].pc = "none"
  /\ \E i \in Ids : \E r \in records[i] : r.hash = h /\ r.active
       /\ sessions' = [sessions EXCEPT ![t] =
                         [pc |-> "login", id |-> i, hash |-> h, role |-> r.role]]
  /\ UNCHANGED <<server, conn, sock, request, checker, issued, late>>

StoreSession(t) ==
  /\ sessions[t].pc = "login"
  /\ sessions' = [sessions EXCEPT ![t].pc = "live"]
  /\ UNCHANGED <<server, conn, sock, request, checker, issued, late>>

\* Every request of the web API looks the role of the session's key up again.
ValidateSession(t) ==
  /\ sessions[t].pc = "live"
  /\ LET now == { r \in records[sessions[t].id] : r.active } IN
       sessions' = [sessions EXCEPT ![t] =
         IF now = {} THEN Gone
         ELSE [@ EXCEPT !.role = (CHOOSE r \in now : TRUE).role]]
  /\ UNCHANGED <<server, conn, sock, request, checker, issued, late>>

\* Logout, or a session found idle for too long.
DropSession(t) ==
  /\ sessions[t].pc = "live"
  /\ sessions' = [sessions EXCEPT ![t] = Gone]
  /\ UNCHANGED <<server, conn, sock, request, checker, issued, late>>

\* The upgrade takes the role from the session ...
OpenSocket(s, t) ==
  /\ sock[s].pc = "off" /\ sock[s].n < MaxAttempts[s] /\ sessions[t].pc = "live"
  /\ sock' = [sock EXCEPT ![s] = [@ EXCEPT !.pc = "upgrading", !.token = t,
                                            !.role = sessions[t].role]]
  /\ UNCHANGED <<server, conn, sessions, request, checker, issued, late>>

\* ... the socket takes the key the session was made with, if there still is a
\* session ...
LookUpSession(s) ==
  /\ sock[s].pc = "upgrading"
  /\ LET session == sessions[sock[s].token] IN
       sock' = [sock EXCEPT ![s] = [@ EXCEPT !.pc = "looked",
                  !.hash = IF session.pc = "live" THEN session.hash ELSE NoKey]]
  /\ UNCHANGED <<server, conn, sessions, request, checker, issued, late>>

\* ... and registers under it; without a key its close channel never fires.
RegisterSocket(s) ==
  /\ sock[s].pc = "looked"
  /\ LET me == sock[s] IN
       /\ sock' = [sock EXCEPT ![s] = [me EXCEPT !.pc = "open", !.n = @ + 1]]
       /\ registry' = IF me.hash = NoKey THEN registry
                      ELSE registry \cup {Entry(s, me.n + 1, me.hash, me.role, me.token)}
  /\ UNCHANGED <<clients, mutual, records, cache, fired, permits, conn, sessions, request,
                 checker, issued, late>>

\* A handler that ends drops the entries of its session, its own and those of
\* the other tabs; who listens to a channel that is dropped is closed too.  The
\* task that answers the queries is not told: while it has any left it goes on,
\* with its half of the web socket.
OfToken(t) == { e \in registry : e.token = t }
Busy(s)    == sock[s].streaming \/ sock[s].queued > 0
SocketEnds(s, without) ==
  /\ registry' = registry \ OfToken(sock[s].token)
  /\ fired' = fired \cup { Channel(e) : e \in OfToken(sock[s].token) }
  /\ sock' = [sock EXCEPT ![s] = IF Busy(s) THEN [@ EXCEPT !.pc = without]
                                  ELSE [IdleSock EXCEPT !.n = sock[s].n]]

\* A query: the session must still be there with the role the socket has; then
\* the query goes to the task that answers them, through a bounded channel.
SocketQuery(s) ==
  /\ sock[s].pc = "open"
  /\ LET session == sessions[sock[s].token] IN
     \/ /\ session.pc = "live" /\ session.role = sock[s].role
        /\ sock' = IF sock[s].queued < QueueCap THEN [sock EXCEPT ![s].queued = @ + 1]
                   ELSE [sock EXCEPT ![s].pc = "blocked"]
        /\ UNCHANGED <<registry, fired>>
     \/ (session.pc # "live" \/ session.role # sock[s].role) /\ SocketEnds(s, "detached")
  /\ UNCHANGED <<clients, mutual, records, cache, permits, conn, sessions, request,
                 checker, issued, late>>

\* A ping, or a query the role may not make, is answered by the handler itself,
\* which waits for the task to let go of the sender and for the client to read.
Reply(s) ==
  /\ sock[s].pc = "open"
  /\ sock' = [sock EXCEPT ![s].pc = "replying"]
  /\ UNCHANGED <<server, conn, sessions, request, checker, issued, late>>

Replied(s) ==
  /\ sock[s].pc = "replying"
  /\ sock' = [sock EXCEPT ![s].pc = "open"]
  /\ UNCHANGED <<server, conn, sessions, request, checker, issued, late>>

\* The answering task takes the next query, also of a handler that has ended; a
\* live one, or one whose client does not read, keeps it.
Answer(s) ==
  /\ sock[s].queued > 0 /\ ~sock[s].streaming
  /\ LET me == sock[s] IN \E live \in BOOLEAN : sock' = [sock EXCEPT ![s] =
       [me EXCEPT !.streaming = live,
                  !.queued = IF me.pc = "blocked" THEN @ ELSE @ - 1,
                  !.pc = IF @ = "blocked" THEN "open" ELSE @]]
  /\ UNCHANGED <<server, conn, sessions, request, checker, issued, late>>

\* A client that did not read does so again, or it has gone and a send fails.
StreamEnds(s) ==
  /\ sock[s].streaming
  /\ sock' = [sock EXCEPT ![s].streaming = FALSE]
  /\ UNCHANGED <<server, conn, sessions, request, checker, issued, late>>

\* Without a handler and without a query the answering task ends, and with it
\* the web socket.
AnsweringEnds(s) ==
  /\ sock[s].pc \in {"detached", "left"} /\ ~Busy(s)
  /\ sock' = [sock EXCEPT ![s] = [IdleSock EXCEPT !.n = sock[s].n]]
  /\ UNCHANGED <<server, conn, sessions, request, checker, issued, late>>

SocketClosed(s) ==
  /\ sock[s].pc = "open" /\ [owner |-> s, n |-> sock[s].n] \in fired
  /\ SocketEnds(s, "detached")
  /\ UNCHANGED <<clients, mutual, records, cache, permits, conn, sessions, request,
                 checker, issued, late>>

\* The client has gone: reading fails, or the reply does.
SocketLeaves(s) ==
  /\ sock[s].pc \in {"open", "replying"}
  /\ SocketEnds(s, "left")
  /\ UNCHANGED <<clients, mutual, records, cache, permits, conn, sessions, request,
                 checker, issued, late>>

Dashboard == \/ \E t \in Tokens : \/ \E h \in 1..issued : Login(t, h)
                                   \/ StoreSession(t) \/ ValidateSession(t)
                                   \/ DropSession(t)
             \/ \E s \in Socks \cap clients : \/ \E t \in Tokens : OpenSocket(s, t)
                                  \/ LookUpSession(s) \/ RegisterSocket(s)
                                  \/ SocketQuery(s) \/ Reply(s) \/ Replied(s)
                                  \/ Answer(s) \/ StreamEnds(s) \/ AnsweringEnds(s)
                                  \/ SocketClosed(s) \/ SocketLeaves(s)

-----------------------------------------------------------------------------
(* Administration: revoke, change a role, issue a key.                     *)

Web == <<conn, sock, checker, late, clients, mutual, permits>>

\* The handler reads the record; the same role again changes nothing.
ReadKey(a, op, i, role) ==
  /\ request[a].pc = "idle" /\ records[i] # {}
  /\ op = "role" => \A r \in records[i] : r.role # role
  /\ op = "revoke" => role = NoRole
  /\ request' = [request EXCEPT ![a] = [pc |-> "write", op |-> op, id |-> i,
                                        role |-> role, rec |-> records[i]]]
  /\ UNCHANGED <<Web, records, cache, registry, fired, sessions, issued>>

Revised(q) == { IF q.op = "revoke" THEN [r EXCEPT !.active = FALSE]
                ELSE [r EXCEPT !.role = q.role] : r \in q.rec }

\* ... writes it back with the change, whatever it has become ...
WriteKey(a) ==
  /\ request[a].pc = "write"
  /\ records' = [records EXCEPT ![request[a].id] = Revised(request[a])]
  /\ request' = [request EXCEPT ![a].pc = "cache"]
  /\ UNCHANGED <<Web, cache, registry, fired, sessions, issued>>

\* ... brings the cache up to date ...
UpdateCache(a) ==
  /\ request[a].pc = "cache"
  /\ LET q == request[a] IN
       /\ cache' = [cache EXCEPT ![q.id] =
            IF q.op = "revoke" THEN {} ELSE { [c EXCEPT !.role = q.role] : c \in @ }]
       /\ request' = [request EXCEPT ![a].pc = IF q.op = "revoke" THEN "kill" ELSE "evict"]
  /\ UNCHANGED <<Web, records, registry, fired, sessions, issued>>

\* ... ends the sessions of the key, when its role has changed ...
EvictSessions(a) ==
  /\ request[a].pc = "evict"
  /\ sessions' = [t \in Tokens |->
       IF sessions[t].pc = "live" /\ sessions[t].id = request[a].id
       THEN Gone ELSE sessions[t]]
  /\ request' = [request EXCEPT ![a].pc = "kill"]
  /\ UNCHANGED <<Web, records, cache, registry, fired, issued>>

\* ... and closes the connections made with it.
KillConnections(a) ==
  /\ request[a].pc = "kill"
  /\ \E r \in request[a].rec : Kill(r.hash)
  /\ request' = [request EXCEPT ![a] = Done]
  /\ UNCHANGED <<Web, records, cache, sessions, issued>>

\* A new key under an id replaces the record the id had, and nothing is closed.
Generate(a, i, role) ==
  /\ request[a].pc = "idle"
  /\ issued' = issued + 1
  /\ records' = [records EXCEPT ![i] = {[hash |-> issued', role |-> role, active |-> TRUE]}]
  /\ request' = [request EXCEPT ![a] = [pc |-> "issue", op |-> "issue", id |-> i,
                                        role |-> role, rec |-> records'[i]]]
  /\ UNCHANGED <<Web, cache, registry, fired, sessions>>

CacheNewKey(a) ==
  /\ request[a].pc = "issue"
  /\ cache' = [cache EXCEPT ![request[a].id] =
                 { [hash |-> r.hash, role |-> r.role] : r \in request[a].rec }]
  /\ request' = [request EXCEPT ![a] = Done]
  /\ UNCHANGED <<Web, records, registry, fired, sessions, issued>>

Given == Roles \cap clients

Administration(a) ==
  \/ \E i \in Ids, role \in Given \cup {NoRole}, op \in {"revoke", "role"} :
       (op = "role") = (role \in Given) /\ ReadKey(a, op, i, role)
  \/ WriteKey(a) \/ UpdateCache(a) \/ EvictSessions(a) \/ KillConnections(a)
  \/ \E i \in Ids, role \in Given : Generate(a, i, role)
  \/ CacheNewKey(a)

-----------------------------------------------------------------------------
(* The checker, every 500 ms.                                              *)

Clients == <<clients, mutual, records, cache, permits, conn, sock, sessions,
             request, issued, late>>

Wake ==
  /\ checker.pc = "asleep" /\ registry # {}
  /\ checker' = [pc |-> "checking", hash |-> NoKey,
                 todo |-> { [hash |-> e.hash, role |-> e.role] : e \in registry }]
  /\ UNCHANGED <<registry, fired, Clients>>

\* Fault: only keys that are revoked or gone count.
CheckStatusOnly(e) ==
  /\ checker.pc = "checking" /\ e \in checker.todo
  /\ checker' = [checker EXCEPT !.todo = @ \ {e},
       !.pc = IF \E r \in ByHash(e.hash) : r.active THEN "checking" ELSE "kill",
       !.hash = IF \E r \in ByHash(e.hash) : r.active THEN NoKey ELSE e.hash]
  /\ UNCHANGED <<registry, fired, Clients>>

\* The snapshot's entries one by one: is the key still there, active, with the
\* role the connection was registered under?
Check(e) ==
  /\ checker.pc = "checking" /\ e \in checker.todo
  /\ checker' = [checker EXCEPT !.todo = @ \ {e},
       !.pc = IF Valid(e.hash, e.role) THEN "checking" ELSE "kill",
       !.hash = IF Valid(e.hash, e.role) THEN NoKey ELSE e.hash]
  /\ UNCHANGED <<registry, fired, Clients>>

KillChecked ==
  /\ checker.pc = "kill"
  /\ Kill(checker.hash)
  /\ checker' = [checker EXCEPT !.pc = "checking", !.hash = NoKey]
  /\ UNCHANGED Clients

Sleep ==
  /\ checker.pc = "checking" /\ checker.todo = {}
  /\ checker' = [checker EXCEPT !.pc = "asleep"]
  /\ UNCHANGED <<registry, fired, Clients>>

Checker == Wake \/ (\E e \in checker.todo : Check(e)) \/ KillChecked \/ Sleep

Next == \/ \E c \in Conns \cap clients : Native(c)
        \/ Dashboard
        \/ \E a \in Admins \cap clients : Administration(a)
        \/ Checker

\* The server's own tasks go on: the checker, a connection or a socket that is
\* registering, the task that answers queries.  A close channel that has fired and
\* a client that keeps sending are both ready, and the handler's select picks one
\* of them at random: it does not pass the channel over for ever, as often as it
\* is away sending in between.  Clients and administrators owe nothing, a client
\* not even to read what it is sent.
Fairness ==
  /\ WF_vars(Checker)
  /\ \A c \in Conns : WF_vars(RegisterMutual(c) \/ Register(c)) /\ SF_vars(Closed(c))
  /\ \A s \in Socks : /\ WF_vars(LookUpSession(s) \/ RegisterSocket(s))
                      /\ WF_vars(Answer(s) \/ AnsweringEnds(s))
                      /\ SF_vars(SocketClosed(s))

Spec == Init /\ [][Next]_vars /\ Fairness

-----------------------------------------------------------------------------
(* Properties                                                              *)

\* Who may make queries under a key, a connection or the handler of a socket, is
\* registered or told to close, so that a revocation reaches it, however often it
\* registers anew and whatever the other tabs of its session do.  The task that
\* answers a socket's queries is not: it outlives its handler (server.rs:806-822,
\* 1243-1258, 1438-1446).
EveryConnectionIsWatched ==
  LET Watched(x, n, hash) ==
        \/ \E e \in registry : e.owner = x /\ e.n = n /\ e.hash = hash
        \/ [owner |-> x, n |-> n] \in fired
  IN  /\ \A c \in Conns : conn[c].pc \in {"open", "listening", "sending"}
                          /\ conn[c].hash # NoKey
                          => Watched(c, conn[c].n, conn[c].hash)
      /\ \A s \in Socks : sock[s].pc \in {"open", "blocked", "replying"}
                          /\ sock[s].hash # NoKey
                          => Watched(s, sock[s].n, sock[s].hash)

Stale(x) == x.hash # NoKey /\ ~Valid(x.hash, x.role)

\* A connection whose key is revoked, replaced or given another role ends, and so
\* does the handler of a socket (or the key gets its role back), even when it
\* registered after the revocation had closed the others, and however many queries
\* it makes meanwhile.  Three stay: a client that never reads what it is sent, as
\* its handler does not look at the close channel before that is done; a socket
\* whose handler waits for ever for its answering task, or to reply; a TLS client
\* that registered under a newer role than its own (server.rs:437-483, 211-232,
\* 876, 978, 1379-1437; STATUS.md:83).
StaleConnectionsEnd ==
  /\ \A c \in Conns :
       LET Works == conn[c].pc \in {"open", "listening", "sending"} /\ Stale(conn[c])
                    /\ c \notin late
       IN  Works ~> (~Works \/ [](conn[c].pc = "sending"))
  /\ \A s \in Socks :
       LET Works == sock[s].pc \in {"open", "blocked", "replying"} /\ Stale(sock[s])
       IN  Works ~> (~Works \/ [](sock[s].pc \in {"blocked", "replying"}))

\* A claim: what a live query sends to a dashboard stops some time after the key
\* of the dashboard is revoked or changes its role, since "a 500 ms background
\* checker closes connections" then (STATUS.md:83, server.rs:1240-1243,
\* 1296-1374, 1432-1446).
RevokedStreamsEnd ==
  \A s \in Socks :
    LET Streams == sock[s].pc \in {"open", "detached"} /\ sock[s].streaming /\ Stale(sock[s])
    IN  Streams ~> ~Streams
=============================================================================
