---------------------------- MODULE ServerProofs ----------------------------
(***************************************************************************)
(* Proofs about Server, for every value of its constants: the type         *)
(* invariant, and that every connection made with a key is registered or   *)
(* told to close.                                                          *)
(***************************************************************************)
EXTENDS Server, TLAPS

Role     == Roles \cup {NoRole}
Id       == Ids \cup {NoKey}
Token    == Tokens \cup {NoKey}
KeyRec   == [hash : Nat, role : Role, active : BOOLEAN]
Identity == [hash : Nat, role : Role]
ConnRec  == [pc : {"off", "open", "identified", "found", "listening", "sending"}, n : Nat,
             hash : Nat, role : Role, id : Id, next : {"off", "open", "listening"}]
SockRec  == [pc : {"off", "upgrading", "looked", "open", "blocked", "replying",
                   "detached", "left"},
             n : Nat, hash : Nat, role : Role, token : Token, queued : Nat,
             streaming : BOOLEAN]
Session  == [pc : {"none", "login", "live", "gone"}, id : Id, hash : Nat, role : Role]
Request  == [pc : {"idle", "write", "cache", "evict", "kill", "issue", "done"},
             op : {"none", "revoke", "role", "issue"}, id : Id, role : Role,
             rec : SUBSET KeyRec]
EntryRec == [owner : Conns \cup Socks, n : Nat, hash : Nat, role : Role, token : Token]
Close    == [owner : Conns \cup Socks, n : Nat]
CheckRec == [pc : {"asleep", "checking", "kill"}, hash : Nat, todo : SUBSET Identity]

\* Every variable has its type (server.rs:117-134).
ServerTypeOK ==
  /\ clients \subseteq Conns \cup Socks \cup Admins \cup Roles
  /\ mutual \in BOOLEAN
  /\ records \in [Ids -> SUBSET KeyRec] /\ cache \in [Ids -> SUBSET Identity]
  /\ registry \subseteq EntryRec /\ fired \subseteq Close /\ permits \in Nat
  /\ conn \in [Conns -> ConnRec] /\ sock \in [Socks -> SockRec]
  /\ sessions \in [Tokens -> Session] /\ request \in [Admins -> Request]
  /\ checker \in CheckRec /\ issued \in Nat /\ late \subseteq Conns
  /\ \A c \in Conns : conn[c].pc = "identified" => conn[c].id \in Ids
  /\ \A t \in Tokens : sessions[t].pc \in {"login", "live"} => sessions[t].id \in Ids
  /\ \A s \in Socks : sock[s].pc # "off" => sock[s].token \in Tokens

\* Who has no connection has no key.
OffIsKeyless == \A c \in Conns : conn[c].pc = "off" => conn[c].hash = NoKey

\* The channel of x with number n is in the registry R, or has been told to close.
Watched(R, F, x, n, h) ==
  (\E e \in R : e.owner = x /\ e.n = n /\ e.hash = h) \/ [owner |-> x, n |-> n] \in F

\* Where a connection and the handler of a socket take queries.
InUse    == {"open", "listening", "sending"}
Handling == {"open", "blocked", "replying"}

NativeWatched ==
  \A c \in Conns : conn[c].pc \in InUse /\ conn[c].hash # NoKey
                   => Watched(registry, fired, c, conn[c].n, conn[c].hash)

SocketsWatched ==
  \A s \in Socks : sock[s].pc \in Handling /\ sock[s].hash # NoKey
                   => Watched(registry, fired, s, sock[s].n, sock[s].hash)

WatchInv == ServerTypeOK /\ OffIsKeyless /\ NativeWatched /\ SocketsWatched

-----------------------------------------------------------------------------
(* The type invariant.                                                     *)

\* The two ways to take entries off the registry.
LEMMA KillType ==
  ASSUME NEW h, registry \subseteq EntryRec, fired \subseteq Close, Kill(h)
  PROVE  registry' \subseteq EntryRec /\ fired' \subseteq Close
<1>1. \A e \in EntryRec : Channel(e) \in Close
  BY DEF EntryRec, Close, Channel
<1> QED BY <1>1 DEF Kill, KilledFor

\* The handler of a web socket ends: the socket is at rest, or its answering task
\* is all that is left.
Without(s, p) == IF Busy(s) THEN [sock[s] EXCEPT !.pc = p]
                 ELSE [IdleSock EXCEPT !.n = sock[s].n]

LEMMA WithoutType ==
  ASSUME NEW s \in Socks, sock \in [Socks -> SockRec], NEW p \in {"detached", "left"}
  PROVE  /\ Without(s, p) \in SockRec
         /\ Without(s, p).pc \in {"off", p}
         /\ Without(s, p).pc # "off" => Without(s, p).token = sock[s].token
<1>1. sock[s] \in SockRec /\ sock[s].n \in Nat
  BY DEF SockRec
<1>2. CASE Busy(s)
  BY <1>1, <1>2 DEF Without, SockRec
<1>3. CASE ~Busy(s)
  <2>1. [IdleSock EXCEPT !.n = sock[s].n] \in SockRec
        /\ [IdleSock EXCEPT !.n = sock[s].n].pc = "off"
    BY <1>1 DEF IdleSock, SockRec, NoKey, NoRole, Token, Role
  <2> QED BY <1>3, <2>1 DEF Without
<1> QED BY <1>2, <1>3

LEMMA SocketEndsType ==
  ASSUME NEW s \in Socks, NEW p \in {"detached", "left"}, registry \subseteq EntryRec,
         fired \subseteq Close, sock \in [Socks -> SockRec], SocketEnds(s, p),
         sock[s].token \in Tokens,
         \A x \in Socks : sock[x].pc # "off" => sock[x].token \in Tokens
  PROVE  /\ registry' \subseteq EntryRec /\ fired' \subseteq Close
         /\ sock' \in [Socks -> SockRec]
         /\ \A x \in Socks : sock'[x].pc # "off" => sock'[x].token \in Tokens
<1>1. \A e \in EntryRec : Channel(e) \in Close
  BY DEF EntryRec, Close, Channel
<1> DEFINE r == Without(s, p)
<1>2. r \in SockRec /\ (r.pc # "off" => r.token \in Tokens)
  BY WithoutType
<1>3. /\ registry' = registry \ OfToken(sock[s].token)
      /\ fired' = fired \cup { Channel(e) : e \in OfToken(sock[s].token) }
      /\ sock' = [sock EXCEPT ![s] = r]
  BY DEF SocketEnds, Without
<1> HIDE DEF r
<1> QED BY <1>1, <1>2, <1>3 DEF OfToken

\* The end of a connection.
LEMMA EndsType ==
  ASSUME NEW c \in Conns, conn \in [Conns -> ConnRec], permits \in Nat,
         late \subseteq Conns, Ends(c),
         \A d \in Conns : conn[d].pc = "identified" => conn[d].id \in Ids
  PROVE  /\ conn' \in [Conns -> ConnRec] /\ permits' \in Nat /\ late' \subseteq Conns
         /\ \A d \in Conns : conn'[d].pc = "identified" => conn'[d].id \in Ids
<1>1. conn[c].n \in Nat
  BY DEF ConnRec
<1>2. [IdleConn EXCEPT !.n = conn[c].n] \in ConnRec
  BY <1>1 DEF IdleConn, ConnRec, NoKey, NoRole, Id, Role
<1>3. [IdleConn EXCEPT !.n = conn[c].n].pc = "off"
  BY DEF IdleConn
<1> QED BY <1>2, <1>3 DEF Ends

\* A connection that has registered under a channel of its own.
LEMMA RegisteredType ==
  ASSUME NEW r \in ConnRec
  PROVE  /\ Sending([r EXCEPT !.n = r.n + 1], "open") \in ConnRec
         /\ [r EXCEPT !.pc = "open", !.n = r.n + 1, !.id = NoKey] \in ConnRec
<1>1. r.n + 1 \in Nat /\ NoKey \in Id
  BY DEF ConnRec, Id
<1>2. \A m \in Nat : Sending([r EXCEPT !.n = m], "open") \in ConnRec
  BY DEF ConnRec, Sending
<1>3. \A m \in Nat, i \in Id : [r EXCEPT !.pc = "open", !.n = m, !.id = i] \in ConnRec
  BY DEF ConnRec
<1> QED BY <1>1, <1>2, <1>3

\* What the other steps of a connection make of it.
At(r, p) == [r EXCEPT !.pc = p]
Taken(r) == [r EXCEPT !.pc = r.next, !.next = "off"]

LEMMA MovedType ==
  ASSUME NEW r \in ConnRec, NEW p \in {"off", "open", "listening"}
  PROVE  /\ At(r, p) \in ConnRec /\ At(r, p).pc = p
         /\ Sending(r, p) \in ConnRec /\ Sending(r, p).pc = "sending"
         /\ Taken(r) \in ConnRec /\ Taken(r).pc = r.next
BY DEF ConnRec, At, Sending, Taken

\* The entry made when a connection or a socket registers.
LEMMA EntryType ==
  ASSUME NEW x \in Conns \cup Socks, NEW n \in Nat, NEW h \in Nat, NEW r \in Role,
         NEW t \in Token
  PROVE  Entry(x, n + 1, h, r, t) \in EntryRec
BY DEF Entry, EntryRec

\* The records a hash leads to are records.
LEMMA ByHashType ==
  ASSUME NEW h, records \in [Ids -> SUBSET KeyRec]
  PROVE  ByHash(h) \subseteq KeyRec
BY DEF ByHash

\* The store starts with one key, and nobody is connected.
LEMMA InitServerTypeOK == Init => ServerTypeOK
<1> SUFFICES ASSUME Init PROVE ServerTypeOK
  OBVIOUS
<1>1. clients \subseteq Conns \cup Socks \cup Admins \cup Roles /\ mutual \in BOOLEAN
  BY ServerAssumption DEF Init
<1>2. records \in [Ids -> SUBSET KeyRec]
  BY ServerAssumption DEF Init, KeyRec, Role
<1>3. cache \in [Ids -> SUBSET Identity]
  BY ServerAssumption DEF Init, Identity, Role
<1>4. conn \in [Conns -> ConnRec]
  BY DEF Init, IdleConn, ConnRec, NoKey, NoRole, Id, Role
<1>5. sock \in [Socks -> SockRec]
  BY DEF Init, IdleSock, SockRec, NoKey, NoRole, Token, Role
<1>6. sessions \in [Tokens -> Session]
  BY DEF Init, NoSession, Session, NoKey, NoRole, Id, Role
<1>7. request \in [Admins -> Request]
  BY DEF Init, NoRequest, Request, NoKey, NoRole, Id, Role
<1>8. checker \in CheckRec
  BY DEF Init, CheckRec, NoKey
<1>9. /\ registry \subseteq EntryRec /\ fired \subseteq Close /\ permits \in Nat
      /\ issued \in Nat /\ late \subseteq Conns
  BY ServerAssumption DEF Init
<1>10. /\ \A c \in Conns : conn[c].pc = "off"
       /\ \A t \in Tokens : sessions[t].pc = "none"
       /\ \A s \in Socks : sock[s].pc = "off"
  BY DEF Init, IdleConn, NoSession, IdleSock
<1> QED BY <1>1, <1>2, <1>3, <1>4, <1>5, <1>6, <1>7, <1>8, <1>9, <1>10 DEF ServerTypeOK

\* A native connection's step.
LEMMA NativeTypeOK ==
  ASSUME NEW c \in Conns, ServerTypeOK, Native(c)
  PROVE  ServerTypeOK'
<1> USE DEF ServerTypeOK
<1>1. /\ conn[c] \in ConnRec /\ conn[c].n \in Nat /\ conn[c].hash \in Nat
      /\ conn[c].role \in Role /\ conn[c].id \in Id
  BY DEF ConnRec
<1>2. NoKey \in Token /\ NoKey \in Id /\ NoRole \in Role
  BY DEF Token, Id, Role
<1>12. ASSUME NEW r \in ConnRec, r.pc # "identified", conn' = [conn EXCEPT ![c] = r],
              UNCHANGED <<registry, fired, permits, late, Others>>
       PROVE  ServerTypeOK'
  BY <1>12 DEF Others
<1>3. CASE Accept(c)
  <2>1. [conn[c] EXCEPT !.pc = "open"] \in ConnRec
    BY <1>1 DEF ConnRec
  <2> QED BY <1>3, <2>1 DEF Accept, Others
<1>4. CASE \E i \in Ids : AcceptMutual(c, i)
  <2>1. PICK i \in Ids : AcceptMutual(c, i)
    BY <1>4
  <2>2. CASE cache[i] = {} /\ conn' = [conn EXCEPT ![c].pc = "open"]
    <3>1. [conn[c] EXCEPT !.pc = "open"] \in ConnRec
      BY <1>1 DEF ConnRec
    <3> QED BY <2>1, <2>2, <3>1 DEF AcceptMutual, Others
  <2>3. ASSUME NEW id \in cache[i],
               conn' = [conn EXCEPT ![c] = [@ EXCEPT !.pc = "identified", !.hash = id.hash,
                                                     !.role = id.role, !.id = i]]
        PROVE  ServerTypeOK'
    <3> DEFINE r == [conn[c] EXCEPT !.pc = "identified", !.hash = id.hash,
                                    !.role = id.role, !.id = i]
    <3>1. id \in Identity /\ i \in Id
      BY DEF Id
    <3>2. r \in ConnRec /\ r.id \in Ids
      BY <1>1, <3>1 DEF ConnRec, Identity
    <3>3. conn' = [conn EXCEPT ![c] = r]
      BY <2>3
    <3> HIDE DEF r
    <3>4. conn'[c] = r /\ \A d \in Conns \ {c} : conn'[d] = conn[d]
      BY <3>3
    <3>5. /\ conn' \in [Conns -> ConnRec]
          /\ \A d \in Conns : conn'[d].pc = "identified" => conn'[d].id \in Ids
      BY <3>2, <3>3, <3>4
    <3>6. permits' \in Nat /\ UNCHANGED <<registry, fired, late, Others>>
      <4>1. permits > 0 /\ permits' = permits - 1
        BY <2>1 DEF AcceptMutual
      <4>2. permits' \in Nat
        BY <4>1
      <4> QED BY <2>1, <4>2 DEF AcceptMutual
    <3> QED BY <3>5, <3>6 DEF Others
  <2> QED BY <2>1, <2>2, <2>3 DEF AcceptMutual
<1>5. CASE RegisterMutual(c)
  <2> DEFINE now == { r \in records[conn[c].id] : r.active }
             role == IF now = {} THEN NoRole ELSE (CHOOSE r \in now : TRUE).role
  <2>1. conn[c].id \in Ids
    BY <1>5 DEF RegisterMutual
  <2>2. now \subseteq KeyRec
    BY <2>1
  <2>3. role \in Role
    <3>1. now # {} => (CHOOSE r \in now : TRUE) \in now
      OBVIOUS
    <3> QED BY <1>2, <2>2, <3>1 DEF KeyRec
  <2>4. Entry(c, conn[c].n + 1, conn[c].hash, role, NoKey) \in EntryRec
    BY <1>1, <1>2, <2>3, EntryType
  <2>5. [conn[c] EXCEPT !.pc = "open", !.n = conn[c].n + 1, !.id = NoKey] \in ConnRec
    BY <1>1, RegisteredType
  <2>6. /\ registry' = registry \cup {Entry(c, conn[c].n + 1, conn[c].hash, role, NoKey)}
        /\ late' \subseteq Conns
        /\ conn' = [conn EXCEPT ![c] = [conn[c] EXCEPT !.pc = "open", !.n = conn[c].n + 1,
                                                       !.id = NoKey]]
        /\ UNCHANGED <<fired, permits, Others>>
    BY <1>5 DEF RegisterMutual
  <2> HIDE DEF role
  <2> QED BY <2>4, <2>5, <2>6 DEF Others
<1>6. CASE \E h \in 1..issued : Connect(c, h)
  <2>1. PICK h \in 1..issued : Connect(c, h)
    BY <1>6
  <2>2. CASE conn' = [conn EXCEPT ![c] = Sending(@, "off")]
    <3>1. conn' = [conn EXCEPT ![c] = Sending(conn[c], "off")]
      BY <2>2
    <3> QED BY <1>1, <1>12, <2>1, <3>1, MovedType DEF Connect
  <2>3. ASSUME NEW r \in ByHash(h),
               conn' = [conn EXCEPT ![c] = [@ EXCEPT !.pc = "found", !.hash = r.hash,
                                                     !.role = r.role]],
               UNCHANGED <<registry, fired, permits, late, Others>>
        PROVE  ServerTypeOK'
    <3>1. r \in KeyRec
      BY ByHashType
    <3>2. [conn[c] EXCEPT !.pc = "found", !.hash = r.hash, !.role = r.role] \in ConnRec
      BY <1>1, <3>1 DEF ConnRec, KeyRec
    <3>3. \A d \in Conns \ {c} : conn'[d] = conn[d]
      BY <2>3
    <3>4. conn'[c].pc = "found"
      BY <2>3, <1>1 DEF ConnRec
    <3>5. \A d \in Conns : conn'[d].pc = "identified" => conn'[d].id \in Ids
      BY <3>3, <3>4
    <3> QED BY <2>3, <3>2, <3>5 DEF Others
  <2> QED BY <2>1, <2>2, <2>3 DEF Connect
<1>7. CASE Register(c)
  <2> DEFINE r == Sending([conn[c] EXCEPT !.n = conn[c].n + 1], "open")
  <2>1. r \in ConnRec /\ r.pc = "sending"
    BY <1>1, RegisteredType DEF ConnRec, Sending
  <2>2. Entry(c, conn[c].n + 1, conn[c].hash, conn[c].role, NoKey) \in EntryRec
    BY <1>1, <1>2, EntryType
  <2>3. /\ conn' = [conn EXCEPT ![c] = r]
        /\ registry' = registry \cup
             {Entry(c, conn[c].n + 1, conn[c].hash, conn[c].role, NoKey)}
        /\ UNCHANGED <<fired, permits, late, Others>>
    BY <1>7 DEF Register
  <2> HIDE DEF r
  <2> QED BY <2>1, <2>2, <2>3 DEF Others
<1>8. CASE Query(c) \/ Listen(c) \/ Push(c)
  <2>1. PICK p \in {"open", "listening"} :
          \/ conn' = [conn EXCEPT ![c] = Sending(conn[c], p)]
          \/ conn' = [conn EXCEPT ![c] = At(conn[c], p)]
    BY <1>8 DEF Query, Listen, Push, At
  <2> QED BY <1>1, <1>8, <1>12, <2>1, MovedType DEF Query, Listen, Push
<1>9. CASE Sent(c) /\ conn[c].next # "off"
  <2>1. /\ conn' = [conn EXCEPT ![c] = Taken(conn[c])]
        /\ UNCHANGED <<registry, fired, permits, late, Others>>
    BY <1>9 DEF Sent, Taken
  <2>2. conn[c].next \in {"off", "open", "listening"}
    BY <1>1 DEF ConnRec
  <2> QED BY <1>1, <1>12, <2>1, <2>2, MovedType
<1>10. CASE Ends(c) /\ UNCHANGED <<registry, fired, Others>>
  <2>1. /\ conn' \in [Conns -> ConnRec] /\ permits' \in Nat /\ late' \subseteq Conns
        /\ \A d \in Conns : conn'[d].pc = "identified" => conn'[d].id \in Ids
    BY <1>10, EndsType
  <2> QED BY <1>10, <2>1 DEF Others
<1>11. CASE (Sent(c) /\ conn[c].next = "off") \/ Closed(c) \/ Leave(c)
  BY <1>10, <1>11 DEF Sent, Closed, Leave
<1> QED BY <1>3, <1>4, <1>5, <1>6, <1>7, <1>8, <1>9, <1>11 DEF Native

\* A session's step.
LEMMA SessionTypeOK ==
  ASSUME NEW t \in Tokens, ServerTypeOK,
         (\E h \in 1..issued : Login(t, h)) \/ StoreSession(t) \/ ValidateSession(t)
           \/ DropSession(t)
  PROVE  ServerTypeOK'
<1> USE DEF ServerTypeOK
<1>1. sessions[t] \in Session /\ NoKey \in Id /\ NoRole \in Role
  BY DEF Id, Role
<1>2. Gone \in Session /\ Gone.pc = "gone"
  BY <1>1 DEF Gone, NoSession, Session, NoKey
<1>3. ASSUME NEW s \in Session, s.pc \in {"login", "live"} => s.id \in Ids,
             sessions' = [sessions EXCEPT ![t] = s],
             UNCHANGED <<server, conn, sock, request, checker, issued, late>>
      PROVE  ServerTypeOK'
  BY <1>3 DEF server
<1>4. CASE \E h \in 1..issued : Login(t, h)
  <2>1. PICK h \in 1..issued : Login(t, h)
    BY <1>4
  <2>2. PICK i \in Ids : \E r \in records[i] : r.hash = h /\ r.active
          /\ sessions' = [sessions EXCEPT ![t] =
                            [pc |-> "login", id |-> i, hash |-> h, role |-> r.role]]
    BY <2>1 DEF Login
  <2>3. PICK r \in records[i] :
          sessions' = [sessions EXCEPT ![t] =
                         [pc |-> "login", id |-> i, hash |-> h, role |-> r.role]]
    BY <2>2
  <2>4. r \in KeyRec /\ h \in Nat /\ i \in Id
    BY DEF Id
  <2>5. [pc |-> "login", id |-> i, hash |-> h, role |-> r.role] \in Session
    BY <2>4 DEF Session, KeyRec
  <2> QED BY <1>3, <2>1, <2>3, <2>5 DEF Login
<1>5. CASE StoreSession(t)
  <2>1. [sessions[t] EXCEPT !.pc = "live"] \in Session
    BY <1>1 DEF Session
  <2>2. [sessions[t] EXCEPT !.pc = "live"].id \in Ids
    BY <1>1, <1>5 DEF Session, StoreSession
  <2>3. /\ sessions' = [sessions EXCEPT ![t] = [sessions[t] EXCEPT !.pc = "live"]]
        /\ UNCHANGED <<server, conn, sock, request, checker, issued, late>>
    BY <1>5 DEF StoreSession
  <2> QED BY <1>3, <2>1, <2>2, <2>3
<1>6. CASE ValidateSession(t)
  <2> DEFINE now == { r \in records[sessions[t].id] : r.active }
             role == (CHOOSE r \in now : TRUE).role
  <2>1. sessions[t].pc = "live" /\ sessions[t].id \in Ids
    BY <1>1, <1>6 DEF ValidateSession
  <2>2. now \subseteq KeyRec
    BY <2>1
  <2>3. now # {} => role \in Role
    <3>1. now # {} => (CHOOSE r \in now : TRUE) \in now
      OBVIOUS
    <3> QED BY <2>2, <3>1 DEF KeyRec
  <2>4. /\ sessions' = [sessions EXCEPT ![t] =
                           IF now = {} THEN Gone ELSE [sessions[t] EXCEPT !.role = role]]
        /\ UNCHANGED <<server, conn, sock, request, checker, issued, late>>
    BY <1>6 DEF ValidateSession
  <2> HIDE DEF now, role
  <2>5. CASE now = {}
    BY <1>2, <1>3, <2>4, <2>5
  <2>6. CASE now # {}
    <3>1. \A x \in Role : [sessions[t] EXCEPT !.role = x] \in Session
      BY <1>1 DEF Session
    <3>2. \A x \in Role : [sessions[t] EXCEPT !.role = x].id = sessions[t].id
      BY <1>1 DEF Session
    <3> QED BY <1>3, <2>1, <2>3, <2>4, <2>6, <3>1, <3>2
  <2> QED BY <2>5, <2>6
<1>7. CASE DropSession(t)
  BY <1>2, <1>3, <1>7 DEF DropSession
<1> QED BY <1>4, <1>5, <1>6, <1>7

\* What the steps of a web socket make of it.
Upgraded(r, t, x)   == [r EXCEPT !.pc = "upgrading", !.token = t, !.role = x]
Looked(r, h)        == [r EXCEPT !.pc = "looked", !.hash = h]
Opened(r, m)        == [r EXCEPT !.pc = "open", !.n = m]
Queued(r, m)        == [r EXCEPT !.queued = m]
Moved(r, p)         == [r EXCEPT !.pc = p]
Unstreamed(r)       == [r EXCEPT !.streaming = FALSE]
Answered(r, l, m, p) == [r EXCEPT !.streaming = l, !.queued = m, !.pc = p]

\* Each of them is a web socket again.
LEMMA UpgradedType ==
  ASSUME NEW r \in SockRec, NEW t \in Token, NEW x \in Role
  PROVE  Upgraded(r, t, x) \in SockRec /\ Upgraded(r, t, x).token = t
BY DEF Upgraded, SockRec

LEMMA OpenedType ==
  ASSUME NEW r \in SockRec, NEW m \in Nat, NEW h \in Nat
  PROVE  /\ Looked(r, h) \in SockRec /\ Looked(r, h).token = r.token
         /\ Opened(r, m) \in SockRec /\ Opened(r, m).token = r.token
BY DEF Looked, Opened, SockRec

LEMMA QueuedType ==
  ASSUME NEW r \in SockRec, NEW m \in Nat, NEW p \in {"open", "blocked", "replying"}
  PROVE  /\ Queued(r, m) \in SockRec /\ Queued(r, m).token = r.token
         /\ Moved(r, p) \in SockRec /\ Moved(r, p).token = r.token
         /\ Unstreamed(r) \in SockRec /\ Unstreamed(r).token = r.token
         /\ Unstreamed(r).pc = r.pc
BY DEF Queued, Moved, Unstreamed, SockRec

LEMMA AnsweredType ==
  ASSUME NEW r \in SockRec, NEW m \in Nat, NEW p \in {"open", r.pc}
  PROVE  /\ Answered(r, TRUE, m, p) \in SockRec /\ Answered(r, FALSE, m, p) \in SockRec
         /\ Answered(r, TRUE, m, p).token = r.token /\ Answered(r, TRUE, m, p).pc = p
         /\ Answered(r, FALSE, m, p).token = r.token /\ Answered(r, FALSE, m, p).pc = p
<1>1. Answered(r, TRUE, m, p) \in SockRec /\ Answered(r, TRUE, m, p).token = r.token
      /\ Answered(r, TRUE, m, p).pc = p
  BY DEF Answered, SockRec
<1>2. Answered(r, FALSE, m, p) \in SockRec /\ Answered(r, FALSE, m, p).token = r.token
      /\ Answered(r, FALSE, m, p).pc = p
  BY DEF Answered, SockRec
<1> QED BY <1>1, <1>2

\* A web socket's step.
LEMMA SocketTypeOK ==
  ASSUME NEW s \in Socks, ServerTypeOK,
         \/ \E t \in Tokens : OpenSocket(s, t)
         \/ LookUpSession(s) \/ RegisterSocket(s) \/ SocketQuery(s) \/ Reply(s)
         \/ Replied(s) \/ Answer(s) \/ StreamEnds(s) \/ AnsweringEnds(s)
         \/ SocketClosed(s) \/ SocketLeaves(s)
  PROVE  ServerTypeOK'
<1> USE DEF ServerTypeOK
<1>1. /\ sock[s] \in SockRec /\ sock[s].n \in Nat /\ sock[s].role \in Role
      /\ sock[s].token \in Token /\ sock[s].queued \in Nat /\ NoKey \in Nat
      /\ sock[s].n + 1 \in Nat /\ sock[s].queued + 1 \in Nat
  BY DEF SockRec, NoKey
<1>2. ASSUME NEW x \in SockRec, sock' = [sock EXCEPT ![s] = x],
             x.pc # "off" => x.token \in Tokens,
             registry' \subseteq EntryRec, fired' = fired,
             UNCHANGED <<clients, mutual, records, cache, permits, conn, sessions, request,
                         checker, issued, late>>
      PROVE  ServerTypeOK'
  BY <1>2
<1>3. ASSUME NEW p \in {"detached", "left"}, SocketEnds(s, p), sock[s].pc # "off",
             UNCHANGED <<clients, mutual, records, cache, permits, conn, sessions, request,
                         checker, issued, late>>
      PROVE  ServerTypeOK'
  <2>1. /\ registry' \subseteq EntryRec /\ fired' \subseteq Close
        /\ sock' \in [Socks -> SockRec]
        /\ \A x \in Socks : sock'[x].pc # "off" => sock'[x].token \in Tokens
    BY <1>3, SocketEndsType
  <2> QED BY <1>3, <2>1
<1>4. CASE \E t \in Tokens : OpenSocket(s, t)
  <2>1. PICK t \in Tokens : OpenSocket(s, t)
    BY <1>4
  <2>2. sessions[t].role \in Role /\ t \in Token
    BY DEF Session, Token
  <2> DEFINE q == Upgraded(sock[s], t, sessions[t].role)
  <2>3. q \in SockRec /\ q.token = t
    BY <1>1, <2>2, UpgradedType
  <2>4. /\ sock' = [sock EXCEPT ![s] = q]
        /\ UNCHANGED <<server, conn, sessions, request, checker, issued, late>>
    BY <2>1 DEF OpenSocket, Upgraded
  <2> HIDE DEF q
  <2> QED BY <1>2, <2>3, <2>4 DEF server
<1>5. CASE LookUpSession(s)
  <2> DEFINE session == sessions[sock[s].token]
             hash == IF session.pc = "live" THEN session.hash ELSE NoKey
             q == Looked(sock[s], hash)
  <2>1. sock[s].token \in Tokens
    BY <1>5 DEF LookUpSession
  <2>2. hash \in Nat
    BY <1>1, <2>1 DEF Session
  <2>3. /\ sock' = [sock EXCEPT ![s] = q]
        /\ UNCHANGED <<server, conn, sessions, request, checker, issued, late>>
    BY <1>5 DEF LookUpSession, Looked
  <2> HIDE DEF hash
  <2>4. q \in SockRec /\ q.token = sock[s].token
    BY <1>1, <2>2, OpenedType
  <2> HIDE DEF q
  <2> QED BY <1>2, <2>1, <2>3, <2>4 DEF server
<1>9. CASE RegisterSocket(s)
  <2> DEFINE q == Opened(sock[s], sock[s].n + 1)
             e == Entry(s, sock[s].n + 1, sock[s].hash, sock[s].role, sock[s].token)
  <2>1. sock[s].token \in Tokens /\ sock[s].hash \in Nat
    BY <1>1, <1>9 DEF RegisterSocket, SockRec
  <2>2. /\ sock' = [sock EXCEPT ![s] = q]
        /\ registry' = IF sock[s].hash = NoKey THEN registry ELSE registry \cup {e}
        /\ UNCHANGED <<clients, mutual, records, cache, fired, permits, conn, sessions,
                       request, checker, issued, late>>
    BY <1>9 DEF RegisterSocket, Opened
  <2>3. e \in EntryRec
    BY <1>1, <2>1, EntryType
  <2>4. q \in SockRec /\ q.token = sock[s].token
    BY <1>1, <2>1, OpenedType
  <2> HIDE DEF q, e
  <2> QED BY <1>2, <2>1, <2>2, <2>3, <2>4
<1>6. CASE SocketQuery(s)
  <2> DEFINE q == Queued(sock[s], sock[s].queued + 1)
             b == Moved(sock[s], "blocked")
  <2>1. q \in SockRec /\ q.token = sock[s].token
    BY <1>1, QueuedType
  <2>2. b \in SockRec /\ b.token = sock[s].token
    BY <1>1, QueuedType
  <2>3. sock[s].token \in Tokens
    BY <1>6 DEF SocketQuery
  <2>4. /\ \/ (sock' = [sock EXCEPT ![s] = q] \/ sock' = [sock EXCEPT ![s] = b])
              /\ UNCHANGED <<registry, fired>>
           \/ SocketEnds(s, "detached")
        /\ UNCHANGED <<clients, mutual, records, cache, permits, conn, sessions, request,
                       checker, issued, late>>
    BY <1>6 DEF SocketQuery, Queued, Moved
  <2> HIDE DEF q, b
  <2>5. sock[s].pc # "off"
    BY <1>6 DEF SocketQuery
  <2> QED BY <1>2, <1>3, <2>1, <2>2, <2>3, <2>4, <2>5
<1>7. CASE Answer(s)
  <2> DEFINE m == IF sock[s].pc = "blocked" THEN sock[s].queued ELSE sock[s].queued - 1
             p == IF sock[s].pc = "blocked" THEN "open" ELSE sock[s].pc
             q(l) == Answered(sock[s], l, m, p)
  <2>1. sock' = [sock EXCEPT ![s] = q(TRUE)] \/ sock' = [sock EXCEPT ![s] = q(FALSE)]
    <3>1. \E l \in BOOLEAN : sock' = [sock EXCEPT ![s] =
            [sock[s] EXCEPT !.streaming = l,
                            !.queued = IF sock[s].pc = "blocked" THEN @ ELSE @ - 1,
                            !.pc = IF @ = "blocked" THEN "open" ELSE @]]
      BY <1>7 DEF Answer
    <3>2. \A l : [sock[s] EXCEPT !.streaming = l,
                            !.queued = IF sock[s].pc = "blocked" THEN @ ELSE @ - 1,
                            !.pc = IF @ = "blocked" THEN "open" ELSE @]
                 = q(l)
      BY <1>1 DEF Answered, SockRec
    <3> HIDE DEF q
    <3> QED BY <3>1, <3>2
  <2>2. m \in Nat /\ p \in {"open", sock[s].pc}
    <3>1. sock[s].queued > 0
      BY <1>7 DEF Answer
    <3>2. sock[s].queued - 1 \in Nat
      BY <1>1, <3>1
    <3> QED BY <1>1, <3>2
  <2>3. p # "off" => sock[s].token \in Tokens
    BY <1>7 DEF Answer
  <2> HIDE DEF m, p
  <2>4. /\ q(TRUE) \in SockRec /\ q(TRUE).token = sock[s].token /\ q(TRUE).pc = p
        /\ q(FALSE) \in SockRec /\ q(FALSE).token = sock[s].token /\ q(FALSE).pc = p
    <3>1. sock[s] \in SockRec
      BY <1>1
    <3> HIDE DEF ServerTypeOK
    <3> QED BY <2>2, <3>1, AnsweredType
  <2>5. UNCHANGED <<server, conn, sessions, request, checker, issued, late>>
    BY <1>7 DEF Answer
  <2> HIDE DEF q
  <2> QED BY <1>2, <2>1, <2>3, <2>4, <2>5 DEF server
<1>8. CASE SocketClosed(s) \/ SocketLeaves(s)
  BY <1>3, <1>8 DEF SocketClosed, SocketLeaves
<1>10. CASE Reply(s) \/ Replied(s) \/ StreamEnds(s)
  <2>1. PICK p \in {"open", "replying"} :
          \/ sock' = [sock EXCEPT ![s] = Moved(sock[s], p)] /\ sock[s].pc # "off"
          \/ sock' = [sock EXCEPT ![s] = Unstreamed(sock[s])]
    BY <1>10 DEF Reply, Replied, StreamEnds, Moved, Unstreamed
  <2>2. UNCHANGED <<server, conn, sessions, request, checker, issued, late>>
    BY <1>10 DEF Reply, Replied, StreamEnds
  <2>3. /\ Moved(sock[s], p) \in SockRec /\ Moved(sock[s], p).token = sock[s].token
        /\ Unstreamed(sock[s]) \in SockRec /\ Unstreamed(sock[s]).token = sock[s].token
        /\ Unstreamed(sock[s]).pc = sock[s].pc
    BY <1>1, QueuedType
  <2> QED BY <1>2, <2>1, <2>2, <2>3 DEF server
<1>11. CASE AnsweringEnds(s)
  <2> DEFINE q == Without(s, "left")
  <2>1. /\ sock' = [sock EXCEPT ![s] = q]
        /\ UNCHANGED <<server, conn, sessions, request, checker, issued, late>>
    BY <1>11 DEF AnsweringEnds, Without
  <2>2. q \in SockRec /\ (q.pc # "off" => q.token \in Tokens)
    BY <1>11, WithoutType DEF AnsweringEnds
  <2> HIDE DEF q
  <2> QED BY <1>2, <2>1, <2>2 DEF server
<1> QED BY <1>4, <1>5, <1>6, <1>7, <1>8, <1>9, <1>10, <1>11

\* An administrator's step.  A request is one of the records below.
LEMMA AdministrationTypeOK ==
  ASSUME NEW a \in Admins, ServerTypeOK, Administration(a)
  PROVE  ServerTypeOK'
<1> USE DEF ServerTypeOK
<1> DEFINE Pc == {"idle", "write", "cache", "evict", "kill", "issue", "done"}
<1>1. /\ request[a] \in Request /\ request[a].id \in Id /\ request[a].role \in Role
      /\ request[a].rec \subseteq KeyRec
  BY DEF Request
<1>2. \A p \in Pc : [request[a] EXCEPT !.pc = p] \in Request
  BY <1>1 DEF Request
<1>3. Done \in Request
  BY DEF Done, NoRequest, Request, Id, Role
<1>4. CASE \E i \in Ids, role \in Given \cup {NoRole}, op \in {"revoke", "role"} :
             (op = "role") = (role \in Given) /\ ReadKey(a, op, i, role)
  <2>1. PICK i \in Ids, role \in Role, op \in {"revoke", "role"} : ReadKey(a, op, i, role)
    BY <1>4 DEF Role, Given
  <2>2. [pc |-> "write", op |-> op, id |-> i, role |-> role, rec |-> records[i]] \in Request
    BY DEF Request, Id
  <2> QED BY <2>1, <2>2 DEF ReadKey, Web
<1>5. CASE WriteKey(a)
  <2>1. Revised(request[a]) \subseteq KeyRec
    <3>1. \A r \in KeyRec : [r EXCEPT !.active = FALSE] \in KeyRec
      BY DEF KeyRec
    <3>2. \A r \in KeyRec : [r EXCEPT !.role = request[a].role] \in KeyRec
      BY <1>1 DEF KeyRec
    <3> QED BY <1>1, <3>1, <3>2 DEF Revised
  <2>2. [request[a] EXCEPT !.pc = "cache"] \in Request
    BY <1>2
  <2>3. /\ records' = [records EXCEPT ![request[a].id] = Revised(request[a])]
        /\ request' = [request EXCEPT ![a] = [request[a] EXCEPT !.pc = "cache"]]
        /\ UNCHANGED <<Web, cache, registry, fired, sessions, issued>>
    BY <1>5 DEF WriteKey
  <2> QED BY <2>1, <2>2, <2>3 DEF Web
<1>6. CASE UpdateCache(a)
  <2> DEFINE new(id) == IF request[a].op = "revoke" THEN {}
                        ELSE { [x EXCEPT !.role = request[a].role] : x \in cache[id] }
  <2>1. \A id \in Ids : new(id) \subseteq Identity
    <3>1. \A x \in Identity : [x EXCEPT !.role = request[a].role] \in Identity
      BY <1>1 DEF Identity
    <3> QED BY <3>1
  <2>2. /\ cache' = [cache EXCEPT ![request[a].id] = new(request[a].id)]
        /\ request' = [request EXCEPT ![a] = [request[a] EXCEPT
             !.pc = IF request[a].op = "revoke" THEN "kill" ELSE "evict"]]
        /\ UNCHANGED <<Web, records, registry, fired, sessions, issued>>
    BY <1>6 DEF UpdateCache
  <2>3. [request[a] EXCEPT !.pc = IF request[a].op = "revoke" THEN "kill" ELSE "evict"]
          \in Request
    BY <1>2
  <2>4. cache' \in [Ids -> SUBSET Identity]
    <3> HIDE DEF new
    <3> QED BY <2>1, <2>2
  <2> QED BY <2>2, <2>3, <2>4 DEF Web
<1>7. CASE EvictSessions(a)
  <2>1. Gone \in Session /\ Gone.pc = "gone"
    BY DEF Gone, NoSession, Session, Id, Role, NoKey
  <2>2. [request[a] EXCEPT !.pc = "kill"] \in Request
    BY <1>2
  <2>3. /\ sessions' = [t \in Tokens |->
             IF sessions[t].pc = "live" /\ sessions[t].id = request[a].id
             THEN Gone ELSE sessions[t]]
        /\ request' = [request EXCEPT ![a] = [request[a] EXCEPT !.pc = "kill"]]
        /\ UNCHANGED <<Web, records, cache, registry, fired, issued>>
    BY <1>7 DEF EvictSessions
  <2> QED BY <2>1, <2>2, <2>3 DEF Web
<1>8. CASE KillConnections(a)
  <2>1. PICK r \in request[a].rec : Kill(r.hash)
    BY <1>8 DEF KillConnections
  <2>2. registry' \subseteq EntryRec /\ fired' \subseteq Close
    BY <2>1, KillType
  <2>3. /\ request' = [request EXCEPT ![a] = Done]
        /\ UNCHANGED <<Web, records, cache, sessions, issued>>
    BY <1>8 DEF KillConnections
  <2> QED BY <1>3, <2>2, <2>3 DEF Web
<1>9. CASE \E i \in Ids, role \in Given : Generate(a, i, role)
  <2>1. PICK i \in Ids, role \in Roles : Generate(a, i, role)
    BY <1>9 DEF Given
  <2>2. issued' \in Nat
    BY <2>1 DEF Generate
  <2> DEFINE new == [hash |-> issued', role |-> role, active |-> TRUE]
  <2>3. new \in KeyRec
    BY <2>2 DEF KeyRec, Role
  <2>4. /\ records' = [records EXCEPT ![i] = {new}]
        /\ request' = [request EXCEPT ![a] = [pc |-> "issue", op |-> "issue", id |-> i,
                                              role |-> role, rec |-> records'[i]]]
        /\ UNCHANGED <<Web, cache, registry, fired, sessions>>
    BY <2>1 DEF Generate
  <2> HIDE DEF new
  <2>5. records' \in [Ids -> SUBSET KeyRec] /\ records'[i] \subseteq KeyRec
    BY <2>3, <2>4
  <2>6. [pc |-> "issue", op |-> "issue", id |-> i, role |-> role, rec |-> records'[i]]
          \in Request
    BY <2>5 DEF Request, Id, Role
  <2> QED BY <2>2, <2>4, <2>5, <2>6 DEF Web
<1>10. CASE CacheNewKey(a)
  <2>1. { [hash |-> r.hash, role |-> r.role] : r \in request[a].rec } \subseteq Identity
    BY <1>1 DEF KeyRec, Identity
  <2> QED BY <1>3, <1>10, <2>1 DEF CacheNewKey, Web
<1> QED BY <1>4, <1>5, <1>6, <1>7, <1>8, <1>9, <1>10 DEF Administration

\* The checker's step.
LEMMA CheckerTypeOK ==
  ASSUME ServerTypeOK, Checker
  PROVE  ServerTypeOK'
<1> USE DEF ServerTypeOK
<1>1. checker.todo \subseteq Identity /\ checker \in CheckRec /\ NoKey \in Nat
  BY DEF CheckRec, NoKey
<1>2. ASSUME checker' \in CheckRec, UNCHANGED <<registry, fired, Clients>>
      PROVE  ServerTypeOK'
  BY <1>2 DEF Clients
<1>3. CASE Wake
  <2>1. { [hash |-> e.hash, role |-> e.role] : e \in registry } \subseteq Identity
    BY DEF EntryRec, Identity
  <2>2. checker' \in CheckRec
    BY <1>1, <1>3, <2>1 DEF Wake, CheckRec
  <2> QED BY <1>2, <1>3, <2>2 DEF Wake
<1>4. CASE \E e \in checker.todo : Check(e)
  <2>1. PICK e \in checker.todo : Check(e)
    BY <1>4
  <2>2. e.hash \in Nat /\ checker.todo \ {e} \subseteq Identity
    BY <1>1 DEF Identity
  <2>3. \A p \in {"checking", "kill"}, h \in Nat, T \in SUBSET Identity :
          [checker EXCEPT !.todo = T, !.pc = p, !.hash = h] \in CheckRec
    BY <1>1 DEF CheckRec
  <2>4. checker' \in CheckRec
    BY <1>1, <2>1, <2>2, <2>3 DEF Check
  <2> QED BY <1>2, <2>1, <2>4 DEF Check
<1>5. CASE KillChecked
  <2>1. registry' \subseteq EntryRec /\ fired' \subseteq Close
    BY <1>5, KillType DEF KillChecked
  <2>2. checker' \in CheckRec
    BY <1>1, <1>5 DEF KillChecked, CheckRec
  <2> QED BY <1>5, <2>1, <2>2 DEF KillChecked, Clients
<1>6. CASE Sleep
  <2>1. checker' \in CheckRec
    BY <1>1, <1>6 DEF Sleep, CheckRec
  <2> QED BY <1>2, <1>6, <2>1 DEF Sleep
<1> QED BY <1>3, <1>4, <1>5, <1>6 DEF Checker

\* One step of anybody.
LEMMA NextServerTypeOK == ServerTypeOK /\ [Next]_vars => ServerTypeOK'
<1> SUFFICES ASSUME ServerTypeOK, [Next]_vars PROVE ServerTypeOK'
  OBVIOUS
<1>1. CASE \E c \in Conns \cap clients : Native(c)
  BY <1>1, NativeTypeOK
<1>2. CASE Dashboard
  BY <1>2, SessionTypeOK, SocketTypeOK DEF Dashboard
<1>3. CASE \E a \in Admins \cap clients : Administration(a)
  BY <1>3, AdministrationTypeOK
<1>4. CASE Checker
  BY <1>4, CheckerTypeOK
<1>5. CASE UNCHANGED vars
  BY <1>5 DEF vars, server, ServerTypeOK
<1> QED BY <1>1, <1>2, <1>3, <1>4, <1>5 DEF Next

\* Every reachable state of the server is well-typed: who is registering has a
\* key id, and a session that is live and a socket that is open have theirs
\* (server.rs:46-58, 117-134).
THEOREM ServerTypeCorrect == Spec => []ServerTypeOK
BY InitServerTypeOK, NextServerTypeOK, PTL DEF Spec

-----------------------------------------------------------------------------
(* Every connection is watched.                                            *)

\* Entries leave the registry only together with their channels.
NobodyForgotten ==
  \A x, n, h : Watched(registry, fired, x, n, h) => Watched(registry', fired', x, n, h)

\* An entry may go if its channel is told to close.
LEMMA Replaced ==
  ASSUME \A e \in registry : e \in registry' \/ Channel(e) \in fired',
         fired \subseteq fired'
  PROVE  NobodyForgotten
<1> SUFFICES ASSUME NEW x, NEW n, NEW h, Watched(registry, fired, x, n, h)
             PROVE  Watched(registry', fired', x, n, h)
  BY DEF NobodyForgotten
<1>1. CASE [owner |-> x, n |-> n] \in fired
  BY <1>1 DEF Watched
<1>2. ASSUME NEW e \in registry, e.owner = x /\ e.n = n /\ e.hash = h
      PROVE  Watched(registry', fired', x, n, h)
  <2>1. Channel(e) = [owner |-> x, n |-> n]
    BY <1>2 DEF Channel
  <2> QED BY <1>2, <2>1 DEF Watched
<1> QED BY <1>1, <1>2 DEF Watched

\* A revocation takes the entries of a hash off and fires their channels.
LEMMA KillForgetsNobody ==
  ASSUME NEW h, Kill(h)
  PROVE  NobodyForgotten
BY Replaced DEF Kill, KilledFor

\* A socket that ends drops the entries of its session with their channels.
LEMMA SocketEndForgetsNobody ==
  ASSUME NEW s, NEW p, SocketEnds(s, p)
  PROVE  NobodyForgotten
BY Replaced DEF SocketEnds, OfToken

\* Who leaves the registry alone forgets nobody.
LEMMA NobodyMoves ==
  ASSUME UNCHANGED <<registry, fired>>
  PROVE  NobodyForgotten
BY DEF NobodyForgotten

\* One entry more forgets nobody, and watches its channel.
LEMMA EntryWatches ==
  ASSUME NEW x, NEW n, NEW h, NEW r, NEW t,
         registry' = registry \cup {Entry(x, n, h, r, t)}, fired' = fired
  PROVE  NobodyForgotten /\ Watched(registry', fired', x, n, h)
<1>1. NobodyForgotten
  BY Replaced
<1>2. /\ Entry(x, n, h, r, t).owner = x /\ Entry(x, n, h, r, t).n = n
      /\ Entry(x, n, h, r, t).hash = h
  BY DEF Entry
<1>3. Entry(x, n, h, r, t) \in registry'
  OBVIOUS
<1> QED BY <1>1, <1>2, <1>3 DEF Watched

\* Who does not move stays watched.
LEMMA StillWatched ==
  ASSUME OffIsKeyless, NativeWatched, SocketsWatched, NobodyForgotten
  PROVE  /\ conn' = conn => OffIsKeyless' /\ NativeWatched'
         /\ sock' = sock => SocketsWatched'
<1>1. ASSUME conn' = conn PROVE OffIsKeyless' /\ NativeWatched'
  BY <1>1 DEF OffIsKeyless, NativeWatched, NobodyForgotten
<1>2. ASSUME sock' = sock PROVE SocketsWatched'
  BY <1>2 DEF SocketsWatched, NobodyForgotten
<1> QED BY <1>1, <1>2

\* One connection changes: it is at rest without a key, or watched.
LEMMA OneConnection ==
  ASSUME OffIsKeyless, NativeWatched, NobodyForgotten, conn \in [Conns -> ConnRec],
         NEW c \in Conns, NEW r, conn' = [conn EXCEPT ![c] = r],
         r.pc = "off" => r.hash = NoKey,
         r.pc \in InUse /\ r.hash # NoKey
           => Watched(registry', fired', c, r.n, r.hash)
  PROVE  OffIsKeyless' /\ NativeWatched'
<1>1. conn'[c] = r /\ \A d \in Conns \ {c} : conn'[d] = conn[d]
  OBVIOUS
<1>2. OffIsKeyless'
  BY <1>1 DEF OffIsKeyless
<1>3. ASSUME NEW d \in Conns, conn'[d].pc \in InUse, conn'[d].hash # NoKey
      PROVE  Watched(registry', fired', d, conn'[d].n, conn'[d].hash)
  <2>1. CASE d = c
    BY <1>1, <1>3, <2>1
  <2>2. CASE d # c
    <3>1. Watched(registry, fired, d, conn[d].n, conn[d].hash)
      BY <1>1, <1>3, <2>2 DEF NativeWatched
    <3> QED BY <1>1, <2>2, <3>1 DEF NobodyForgotten
  <2> QED BY <2>1, <2>2
<1> QED BY <1>2, <1>3 DEF NativeWatched

\* One socket changes: it is not open under a key, or watched.
LEMMA OneSocket ==
  ASSUME SocketsWatched, NobodyForgotten, sock \in [Socks -> SockRec],
         NEW s \in Socks, NEW r, sock' = [sock EXCEPT ![s] = r],
         r.pc \in Handling /\ r.hash # NoKey
           => Watched(registry', fired', s, r.n, r.hash)
  PROVE  SocketsWatched'
<1>1. sock'[s] = r /\ \A d \in Socks \ {s} : sock'[d] = sock[d]
  OBVIOUS
<1>2. ASSUME NEW d \in Socks, sock'[d].pc \in Handling, sock'[d].hash # NoKey
      PROVE  Watched(registry', fired', d, sock'[d].n, sock'[d].hash)
  <2>1. CASE d = s
    BY <1>1, <1>2, <2>1
  <2>2. CASE d # s
    <3>1. Watched(registry, fired, d, sock[d].n, sock[d].hash)
      BY <1>1, <1>2, <2>2 DEF SocketsWatched
    <3> QED BY <1>1, <2>2, <3>1 DEF NobodyForgotten
  <2> QED BY <2>1, <2>2
<1> QED BY <1>2 DEF SocketsWatched
\* A native connection's step.
LEMMA NativeStaysWatched ==
  ASSUME NEW c \in Conns, WatchInv, Native(c)
  PROVE  OffIsKeyless' /\ NativeWatched' /\ SocketsWatched'
<1>1. /\ conn \in [Conns -> ConnRec] /\ OffIsKeyless /\ NativeWatched /\ SocketsWatched
      /\ conn[c] \in ConnRec
  BY DEF WatchInv, ServerTypeOK
<1>2. ASSUME NobodyForgotten, sock' = sock, NEW r, conn' = [conn EXCEPT ![c] = r],
             r.pc = "off" => r.hash = NoKey,
             r.pc \in InUse /\ r.hash # NoKey
               => Watched(registry', fired', c, r.n, r.hash)
      PROVE  OffIsKeyless' /\ NativeWatched' /\ SocketsWatched'
  BY <1>1, <1>2, OneConnection, StillWatched
<1>3. ASSUME Ends(c), UNCHANGED <<registry, fired, Others>>
      PROVE  OffIsKeyless' /\ NativeWatched' /\ SocketsWatched'
  <2>1. [IdleConn EXCEPT !.n = conn[c].n].pc = "off"
        /\ [IdleConn EXCEPT !.n = conn[c].n].hash = NoKey
    BY DEF IdleConn
  <2> QED BY <1>2, <1>3, <2>1, NobodyMoves DEF Ends, Others
\* The connection keeps its channel and its key.
<1>12. ASSUME conn[c].pc \in InUse, UNCHANGED <<registry, fired, Others>>,
              NEW r, conn' = [conn EXCEPT ![c] = r], r.n = conn[c].n, r.hash = conn[c].hash,
              r.pc # "off"
       PROVE  OffIsKeyless' /\ NativeWatched' /\ SocketsWatched'
  <2>1. r.hash # NoKey => Watched(registry', fired', c, r.n, r.hash)
    BY <1>1, <1>12 DEF NativeWatched
  <2> QED BY <1>2, <1>12, <2>1, NobodyMoves DEF Others
<1>11. ASSUME conn[c].pc \in InUse, UNCHANGED <<registry, fired, Others>>, NEW p,
              conn' = [conn EXCEPT ![c] = Sending(@, p)]
       PROVE  OffIsKeyless' /\ NativeWatched' /\ SocketsWatched'
  <2>1. conn' = [conn EXCEPT ![c] = Sending(conn[c], p)]
    BY <1>11
  <2>2. /\ Sending(conn[c], p).n = conn[c].n /\ Sending(conn[c], p).hash = conn[c].hash
        /\ Sending(conn[c], p).pc = "sending"
    BY <1>1 DEF Sending, ConnRec
  <2> QED BY <1>11, <1>12, <2>1, <2>2
<1>4. CASE Accept(c)
  <2>1. conn[c].hash = NoKey /\ [conn[c] EXCEPT !.pc = "open"].hash = conn[c].hash
        /\ [conn[c] EXCEPT !.pc = "open"].pc = "open"
    BY <1>1, <1>4 DEF OffIsKeyless, Accept, ConnRec
  <2>2. conn' = [conn EXCEPT ![c] = [conn[c] EXCEPT !.pc = "open"]] /\ sock' = sock
        /\ NobodyForgotten
    BY <1>4, NobodyMoves DEF Accept, Others
  <2> QED BY <1>2, <2>1, <2>2
<1>5. CASE \E i \in Ids : AcceptMutual(c, i)
  <2>1. PICK i \in Ids : AcceptMutual(c, i)
    BY <1>5
  <2>2. sock' = sock /\ NobodyForgotten
    BY <2>1, NobodyMoves DEF AcceptMutual, Others
  <2>3. CASE conn' = [conn EXCEPT ![c].pc = "open"]
    <3>1. conn[c].hash = NoKey /\ [conn[c] EXCEPT !.pc = "open"].hash = conn[c].hash
          /\ [conn[c] EXCEPT !.pc = "open"].pc = "open"
      BY <1>1, <2>1 DEF OffIsKeyless, AcceptMutual, ConnRec
    <3> QED BY <1>2, <2>2, <2>3, <3>1
  <2>4. ASSUME NEW id \in cache[i],
               conn' = [conn EXCEPT ![c] = [@ EXCEPT !.pc = "identified", !.hash = id.hash,
                                                     !.role = id.role, !.id = i]]
        PROVE  OffIsKeyless' /\ NativeWatched' /\ SocketsWatched'
    <3> DEFINE r == [conn[c] EXCEPT !.pc = "identified", !.hash = id.hash,
                                    !.role = id.role, !.id = i]
    <3>1. conn' = [conn EXCEPT ![c] = r] /\ r.pc = "identified"
      BY <1>1, <2>4 DEF ConnRec
    <3> HIDE DEF r
    <3> QED BY <1>2, <2>2, <3>1 DEF InUse
  <2> QED BY <2>1, <2>3, <2>4 DEF AcceptMutual
<1>6. CASE RegisterMutual(c)
  <2> DEFINE r == [conn[c] EXCEPT !.pc = "open", !.n = conn[c].n + 1, !.id = NoKey]
  <2>1. PICK role : registry' =
          registry \cup {Entry(c, conn[c].n + 1, conn[c].hash, role, NoKey)}
    BY <1>6 DEF RegisterMutual
  <2>2. fired' = fired /\ sock' = sock /\ conn' = [conn EXCEPT ![c] = r]
    BY <1>6 DEF RegisterMutual, Others
  <2>3. r.pc = "open" /\ r.n = conn[c].n + 1 /\ r.hash = conn[c].hash
    BY <1>1 DEF ConnRec
  <2>4. NobodyForgotten /\ Watched(registry', fired', c, conn[c].n + 1, conn[c].hash)
    BY <2>1, <2>2, EntryWatches
  <2> HIDE DEF r
  <2> QED BY <1>2, <2>2, <2>3, <2>4
<1>7. CASE \E h \in 1..issued : Connect(c, h)
  <2>1. PICK h \in 1..issued : Connect(c, h)
    BY <1>7
  <2>2. UNCHANGED <<registry, fired, Others>>
    BY <2>1 DEF Connect
  <2>3. CASE conn' = [conn EXCEPT ![c] = Sending(@, "off")]
    BY <1>11, <2>1, <2>2, <2>3 DEF Connect, InUse
  <2>4. ASSUME NEW k \in ByHash(h),
               conn' = [conn EXCEPT ![c] = [@ EXCEPT !.pc = "found", !.hash = k.hash,
                                                     !.role = k.role]]
        PROVE  OffIsKeyless' /\ NativeWatched' /\ SocketsWatched'
    <3> DEFINE r == [conn[c] EXCEPT !.pc = "found", !.hash = k.hash, !.role = k.role]
    <3>1. conn' = [conn EXCEPT ![c] = r]
      BY <2>4
    <3>2. r.pc = "found"
      BY <1>1 DEF ConnRec
    <3>3. sock' = sock /\ NobodyForgotten
      BY <2>2, NobodyMoves DEF Others
    <3> HIDE DEF r
    <3> QED BY <1>2, <3>1, <3>2, <3>3 DEF InUse
  <2> QED BY <2>1, <2>3, <2>4 DEF Connect
<1>8. CASE Register(c)
  <2> DEFINE r == Sending([conn[c] EXCEPT !.n = conn[c].n + 1], "open")
  <2>1. /\ registry' = registry \cup
             {Entry(c, conn[c].n + 1, conn[c].hash, conn[c].role, NoKey)}
        /\ fired' = fired /\ sock' = sock /\ conn' = [conn EXCEPT ![c] = r]
    BY <1>8 DEF Register, Others
  <2>2. r.pc = "sending" /\ r.n = conn[c].n + 1 /\ r.hash = conn[c].hash
    BY <1>1 DEF ConnRec, Sending
  <2>3. NobodyForgotten /\ Watched(registry', fired', c, conn[c].n + 1, conn[c].hash)
    BY <2>1, EntryWatches
  <2> HIDE DEF r
  <2> QED BY <1>2, <2>1, <2>2, <2>3
<1>9. CASE Query(c) \/ Listen(c) \/ Push(c)
  <2>1. PICK p \in {"open", "listening"} :
          \/ conn' = [conn EXCEPT ![c] = Sending(conn[c], p)]
          \/ conn' = [conn EXCEPT ![c] = At(conn[c], p)]
    BY <1>9 DEF Query, Listen, Push, At
  <2>2. UNCHANGED <<registry, fired, Others>> /\ conn[c].pc \in InUse
    BY <1>9 DEF Query, Listen, Push, InUse
  <2>3. At(conn[c], p).n = conn[c].n /\ At(conn[c], p).hash = conn[c].hash
        /\ At(conn[c], p).pc = p
    BY <1>1 DEF At, ConnRec
  <2> QED BY <1>11, <1>12, <2>1, <2>2, <2>3
<1>10. CASE Sent(c) /\ conn[c].next # "off"
  <2>1. conn' = [conn EXCEPT ![c] = Taken(conn[c])] /\ UNCHANGED <<registry, fired, Others>>
        /\ conn[c].pc \in InUse
    BY <1>10 DEF Sent, Taken, InUse
  <2>2. Taken(conn[c]).n = conn[c].n /\ Taken(conn[c]).hash = conn[c].hash
        /\ Taken(conn[c]).pc = conn[c].next
    BY <1>1 DEF Taken, ConnRec
  <2> QED BY <1>10, <1>12, <2>1, <2>2
<1>13. CASE (Sent(c) /\ conn[c].next = "off") \/ Closed(c) \/ Leave(c)
  BY <1>3, <1>13 DEF Sent, Closed, Leave
<1> QED BY <1>4, <1>5, <1>6, <1>7, <1>8, <1>9, <1>10, <1>13 DEF Native

\* A web socket's step.
LEMMA SocketStaysWatched ==
  ASSUME NEW s \in Socks, WatchInv,
         \/ \E t \in Tokens : OpenSocket(s, t)
         \/ LookUpSession(s) \/ RegisterSocket(s) \/ SocketQuery(s) \/ Reply(s)
         \/ Replied(s) \/ Answer(s) \/ StreamEnds(s) \/ AnsweringEnds(s)
         \/ SocketClosed(s) \/ SocketLeaves(s)
  PROVE  OffIsKeyless' /\ NativeWatched' /\ SocketsWatched'
<1>1. /\ sock \in [Socks -> SockRec] /\ OffIsKeyless /\ NativeWatched /\ SocketsWatched
      /\ sock[s] \in SockRec
  BY DEF WatchInv, ServerTypeOK
<1>2. ASSUME NobodyForgotten, conn' = conn, NEW r, sock' = [sock EXCEPT ![s] = r],
             r.pc \in Handling /\ r.hash # NoKey
               => Watched(registry', fired', s, r.n, r.hash)
      PROVE  OffIsKeyless' /\ NativeWatched' /\ SocketsWatched'
  BY <1>1, <1>2, OneSocket, StillWatched
<1>3. ASSUME NEW p \in {"detached", "left"}, SocketEnds(s, p), conn' = conn
      PROVE  OffIsKeyless' /\ NativeWatched' /\ SocketsWatched'
  <2> DEFINE r == Without(s, p)
  <2>1. sock' = [sock EXCEPT ![s] = r] /\ NobodyForgotten
    BY <1>3, SocketEndForgetsNobody DEF SocketEnds, Without
  <2>2. r.pc \in {"off", p}
    BY <1>1, WithoutType
  <2> HIDE DEF r
  <2> QED BY <1>2, <1>3, <2>1, <2>2 DEF Handling
\* The socket keeps its channel and its key.
<1>4. ASSUME sock[s].pc \in Handling, UNCHANGED <<registry, fired, conn>>,
             NEW r, sock' = [sock EXCEPT ![s] = r], r.n = sock[s].n, r.hash = sock[s].hash
      PROVE  OffIsKeyless' /\ NativeWatched' /\ SocketsWatched'
  <2>1. r.hash # NoKey => Watched(registry', fired', s, r.n, r.hash)
    BY <1>1, <1>4 DEF SocketsWatched
  <2> QED BY <1>2, <1>4, <2>1, NobodyMoves
<1>5. CASE \E t \in Tokens : OpenSocket(s, t)
  <2>1. PICK t \in Tokens : OpenSocket(s, t)
    BY <1>5
  <2> DEFINE r == Upgraded(sock[s], t, sessions[t].role)
  <2>2. sock' = [sock EXCEPT ![s] = r] /\ conn' = conn /\ UNCHANGED <<registry, fired>>
    BY <2>1 DEF OpenSocket, Upgraded, server
  <2>3. r.pc = "upgrading"
    BY <1>1 DEF Upgraded, SockRec
  <2> HIDE DEF r
  <2> QED BY <1>2, <2>2, <2>3, NobodyMoves DEF Handling
<1>6. CASE RegisterSocket(s)
  <2> DEFINE r == Opened(sock[s], sock[s].n + 1)
  <2>1. /\ sock' = [sock EXCEPT ![s] = r]
        /\ registry' = IF sock[s].hash = NoKey THEN registry ELSE registry \cup
             {Entry(s, sock[s].n + 1, sock[s].hash, sock[s].role, sock[s].token)}
        /\ fired' = fired /\ conn' = conn
    BY <1>6 DEF RegisterSocket, Opened
  <2>2. r.n = sock[s].n + 1 /\ r.hash = sock[s].hash
    BY <1>1 DEF Opened, SockRec
  <2> HIDE DEF r
  <2>3. CASE sock[s].hash = NoKey
    BY <1>2, <2>1, <2>2, <2>3, NobodyMoves
  <2>4. CASE sock[s].hash # NoKey
    <3>1. NobodyForgotten /\ Watched(registry', fired', s, sock[s].n + 1, sock[s].hash)
      BY <2>1, <2>4, EntryWatches
    <3> QED BY <1>2, <2>1, <2>2, <3>1
  <2> QED BY <2>3, <2>4
<1>7. CASE SocketQuery(s)
  <2> DEFINE q == Queued(sock[s], sock[s].queued + 1)
             b == Moved(sock[s], "blocked")
  <2>1. /\ \/ (sock' = [sock EXCEPT ![s] = q] \/ sock' = [sock EXCEPT ![s] = b])
              /\ UNCHANGED <<registry, fired>>
           \/ SocketEnds(s, "detached")
        /\ conn' = conn /\ sock[s].pc = "open"
    BY <1>7 DEF SocketQuery, Queued, Moved
  <2>2. q.n = sock[s].n /\ q.hash = sock[s].hash /\ b.n = sock[s].n /\ b.hash = sock[s].hash
    BY <1>1 DEF Queued, Moved, SockRec
  <2> HIDE DEF q, b
  <2> QED BY <1>3, <1>4, <2>1, <2>2 DEF Handling
<1>8. CASE Answer(s)
  <2> DEFINE m == IF sock[s].pc = "blocked" THEN sock[s].queued ELSE sock[s].queued - 1
             p == IF sock[s].pc = "blocked" THEN "open" ELSE sock[s].pc
             q(l) == Answered(sock[s], l, m, p)
  <2>1. sock' = [sock EXCEPT ![s] = q(TRUE)] \/ sock' = [sock EXCEPT ![s] = q(FALSE)]
    <3>1. \E l \in BOOLEAN : sock' = [sock EXCEPT ![s] =
            [sock[s] EXCEPT !.streaming = l,
                            !.queued = IF sock[s].pc = "blocked" THEN @ ELSE @ - 1,
                            !.pc = IF @ = "blocked" THEN "open" ELSE @]]
      BY <1>8 DEF Answer
    <3>2. \A l : [sock[s] EXCEPT !.streaming = l,
                            !.queued = IF sock[s].pc = "blocked" THEN @ ELSE @ - 1,
                            !.pc = IF @ = "blocked" THEN "open" ELSE @]
                 = q(l)
      BY <1>1 DEF Answered, SockRec
    <3> HIDE DEF q
    <3> QED BY <3>1, <3>2
  <2>2. /\ q(TRUE).n = sock[s].n /\ q(TRUE).hash = sock[s].hash /\ q(TRUE).pc = p
        /\ q(FALSE).n = sock[s].n /\ q(FALSE).hash = sock[s].hash /\ q(FALSE).pc = p
    BY <1>1 DEF Answered, SockRec
  <2>3. conn' = conn /\ UNCHANGED <<registry, fired>>
    BY <1>8 DEF Answer, server
  <2> HIDE DEF q
  <2>4. CASE sock[s].pc \in Handling
    BY <1>4, <2>1, <2>2, <2>3, <2>4
  <2>5. CASE sock[s].pc \notin Handling
    <3>1. p \notin Handling
      BY <2>5 DEF Handling
    <3> QED BY <1>2, <2>1, <2>2, <2>3, <3>1, NobodyMoves
  <2> QED BY <2>4, <2>5
<1>9. CASE SocketClosed(s) \/ SocketLeaves(s)
  BY <1>3, <1>9 DEF SocketClosed, SocketLeaves
<1>10. CASE LookUpSession(s)
  <2>1. PICK h : sock' = [sock EXCEPT ![s] = Looked(sock[s], h)]
    BY <1>10 DEF LookUpSession, Looked
  <2>2. Looked(sock[s], h).pc = "looked"
    BY <1>1 DEF Looked, SockRec
  <2>3. conn' = conn /\ UNCHANGED <<registry, fired>>
    BY <1>10 DEF LookUpSession, server
  <2> QED BY <1>2, <2>1, <2>2, <2>3, NobodyMoves DEF Handling
<1>11. CASE Reply(s) \/ Replied(s)
  <2>1. PICK p \in {"open", "replying"} : sock' = [sock EXCEPT ![s] = Moved(sock[s], p)]
    BY <1>11 DEF Reply, Replied, Moved
  <2>2. Moved(sock[s], p).n = sock[s].n /\ Moved(sock[s], p).hash = sock[s].hash
    BY <1>1 DEF Moved, SockRec
  <2>3. conn' = conn /\ UNCHANGED <<registry, fired>> /\ sock[s].pc \in Handling
    BY <1>11 DEF Reply, Replied, server, Handling
  <2> QED BY <1>4, <2>1, <2>2, <2>3
<1>12. CASE StreamEnds(s)
  <2> DEFINE r == Unstreamed(sock[s])
  <2>1. sock' = [sock EXCEPT ![s] = r] /\ conn' = conn /\ UNCHANGED <<registry, fired>>
    BY <1>12 DEF StreamEnds, Unstreamed, server
  <2>2. r.pc = sock[s].pc /\ r.n = sock[s].n /\ r.hash = sock[s].hash
    BY <1>1 DEF Unstreamed, SockRec
  <2> HIDE DEF r
  <2> QED BY <1>2, <1>4, <2>1, <2>2, NobodyMoves
<1>13. CASE AnsweringEnds(s)
  <2> DEFINE r == Without(s, "left")
  <2>1. sock' = [sock EXCEPT ![s] = r] /\ conn' = conn /\ UNCHANGED <<registry, fired>>
    BY <1>13 DEF AnsweringEnds, Without, server
  <2>2. r.pc \in {"off", "left"}
    BY <1>1, WithoutType
  <2> HIDE DEF r
  <2> QED BY <1>2, <2>1, <2>2, NobodyMoves DEF Handling
<1> QED BY <1>5, <1>6, <1>7, <1>8, <1>9, <1>10, <1>11, <1>12, <1>13

\* Who neither connects nor opens a socket leaves both alone.
LEMMA OthersStayWatched ==
  ASSUME WatchInv, NobodyForgotten, UNCHANGED <<conn, sock>>
  PROVE  OffIsKeyless' /\ NativeWatched' /\ SocketsWatched'
BY StillWatched DEF WatchInv

\* A session's step.
LEMMA SessionStaysWatched ==
  ASSUME NEW t \in Tokens, WatchInv,
         (\E h \in 1..issued : Login(t, h)) \/ StoreSession(t) \/ ValidateSession(t)
           \/ DropSession(t)
  PROVE  OffIsKeyless' /\ NativeWatched' /\ SocketsWatched'
<1>1. UNCHANGED <<server, conn, sock>>
  BY DEF Login, StoreSession, ValidateSession, DropSession
<1> QED BY <1>1, NobodyMoves, OthersStayWatched DEF server

\* An administrator's step: only closing the connections of a key takes entries off.
LEMMA AdministrationStaysWatched ==
  ASSUME NEW a \in Admins, WatchInv, Administration(a)
  PROVE  OffIsKeyless' /\ NativeWatched' /\ SocketsWatched'
<1>1. CASE KillConnections(a)
  <2>1. \E r \in request[a].rec : Kill(r.hash)
    BY <1>1 DEF KillConnections
  <2>2. NobodyForgotten
    BY <2>1, KillForgetsNobody
  <2> QED BY <1>1, <2>2, OthersStayWatched DEF KillConnections, Web
<1>2. CASE ~KillConnections(a)
  <2>1. UNCHANGED <<registry, fired, conn, sock>>
    BY <1>2 DEF Administration, ReadKey, WriteKey, UpdateCache, EvictSessions, Generate,
                CacheNewKey, Web
  <2> QED BY <2>1, NobodyMoves, OthersStayWatched
<1> QED BY <1>1, <1>2

\* The checker's step.
LEMMA CheckerStaysWatched ==
  ASSUME WatchInv, Checker
  PROVE  OffIsKeyless' /\ NativeWatched' /\ SocketsWatched'
<1>1. CASE KillChecked
  BY <1>1, KillForgetsNobody, OthersStayWatched DEF KillChecked, Clients
<1>2. CASE Wake \/ (\E e \in checker.todo : Check(e)) \/ Sleep
  <2>1. UNCHANGED <<registry, fired, conn, sock>>
    BY <1>2 DEF Wake, Check, Sleep, Clients
  <2> QED BY <2>1, NobodyMoves, OthersStayWatched
<1> QED BY <1>1, <1>2 DEF Checker

\* Nobody is connected at the start.
LEMMA InitWatchInv == Init => WatchInv
<1> SUFFICES ASSUME Init PROVE OffIsKeyless /\ NativeWatched /\ SocketsWatched
  BY InitServerTypeOK DEF WatchInv
<1>1. \A c \in Conns : conn[c].pc = "off" /\ conn[c].hash = NoKey
  BY DEF Init, IdleConn
<1>2. \A s \in Socks : sock[s].pc = "off"
  BY DEF Init, IdleSock
<1> QED BY <1>1, <1>2 DEF OffIsKeyless, NativeWatched, SocketsWatched, Handling

\* One step of anybody keeps everybody watched.
LEMMA NextWatchInv == WatchInv /\ [Next]_vars => WatchInv'
<1> SUFFICES ASSUME WatchInv, [Next]_vars
             PROVE  OffIsKeyless' /\ NativeWatched' /\ SocketsWatched'
  BY NextServerTypeOK DEF WatchInv
<1>1. CASE \E c \in Conns \cap clients : Native(c)
  BY <1>1, NativeStaysWatched
<1>2. CASE Dashboard
  BY <1>2, SessionStaysWatched, SocketStaysWatched DEF Dashboard
<1>3. CASE \E a \in Admins \cap clients : Administration(a)
  BY <1>3, AdministrationStaysWatched
<1>4. CASE Checker
  BY <1>4, CheckerStaysWatched
<1>5. CASE UNCHANGED vars
  BY <1>5, NobodyMoves, OthersStayWatched DEF vars, server
<1> QED BY <1>1, <1>2, <1>3, <1>4, <1>5 DEF Next

\* However many clients, sockets, keys and administrators there are: a connection,
\* or the handler of a socket, that takes queries under a key is in the registry
\* with its close channel, or the channel has been told to close (the task that
\* answers a socket's queries, which outlives its handler, is not); neither a revocation,
\* the checker nor a tab that ends takes an entry off without closing its
\* channel (server.rs:211-232, 806-822, 1243-1258, 1438-1446).
THEOREM ConnectionsStayWatched == Spec => []EveryConnectionIsWatched
<1>1. WatchInv => EveryConnectionIsWatched
  BY DEF WatchInv, NativeWatched, SocketsWatched, Watched, InUse, Handling,
         EveryConnectionIsWatched
<1> QED BY <1>1, InitWatchInv, NextWatchInv, PTL DEF Spec
=============================================================================
