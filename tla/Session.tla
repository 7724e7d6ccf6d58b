------------------------------ MODULE Session ------------------------------
(***************************************************************************)
(* The session layer of the network package: hosts that offer a session   *)
(* (nSessionServer) and clients that discover, join, leave and finally     *)
(* start one (nSessionClient, with one nSessionServerContext per session   *)
(* it knows).  Host and client are processes of their own, each            *)
(* single-threaded and driven once per frame by Trigger(); what one of     *)
(* them does between two looks at its sockets is one step here.            *)
(*                                                                         *)
(* Below them are the TCP connections of nIpcServer and nIpcClient, as     *)
(* reliable streams of whole messages with an end on either side.  A       *)
(* process reads what has arrived of a connection when it is triggered,    *)
(* which may be nothing: the set of connections read is chosen freely.     *)
(* Nothing orders what comes on two connections, those of one client       *)
(* included, and so the leave message of a connection that the client has  *)
(* given up may be handled after it has joined again on another one.       *)
(*                                                                         *)
(* A session is opened once.  A host that opens again makes a new guid,    *)
(* which is another member of Sessions.                                    *)
(***************************************************************************)
EXTENDS Integers, Sequences, FiniteSets, SequencesExt, Sublists

CONSTANTS
    Sessions,       \* the sessions, by guid; each is hosted by one process
    Clients,        \* the client processes, by client guid
    Hasty,          \* clients whose users do not wait for an answer
    None,           \* no session
    MaxClients,     \* what a host passes to SetMaxNumClients: initially, and
                    \* at most
    MaxConns,       \* bound: connections of a client to one session
    MaxUserActions  \* bound: calls by the users, timeouts and crashes, all
                    \* together

ASSUME SessionAssumption ==
    /\ IsFiniteSet(Sessions)
    /\ Hasty \subseteq Clients
    /\ MaxClients \in Nat \ {0}
    /\ MaxConns \in [Clients -> Nat \ {0}]
    /\ MaxUserActions \in Nat
    /\ None \notin Sessions

Conns == UNION {{c} \X Sessions \X (1..MaxConns[c]) : c \in Clients}

VARIABLES
    state,      \* nSessionServer: "new", "open", "started" or "gone", by
                \* Close or a crash, or "aborted", by a failed assertion
    ctxs,       \* refClientContexts: the joined clients in the order of joining
    max,        \* maxNumClients
    num,        \* the attribute NumPlayers, less one
    dirty,      \* serverAttrsDirty
    minis,      \* the mini servers of the ipc server, in order
    ousted,     \* history: the connections whose context was released by the
                \* leave message of an older one
    linked,     \* the connections whose mini server has had the handshake
    client,     \* nSessionClient: "open", "closed" or "aborted"
    servers,    \* refServerContexts: the context a client has for a session
    joinRef,    \* refJoinServer
    attrsDirty, \* clientAttrsDirty
    game,       \* the session whose game the nNetClient was opened for
    roster,     \* the guids the nNetServer of a started session expects
    up, down,   \* what is under way on a connection, to and from the server
    end,        \* the client's end of a connection: "none", "open", "shut"
    used        \* user actions, timeouts and crashes so far

server == <<state, ctxs, max, num, dirty, ousted, roster>>
peer == <<client, servers, joinRef, attrsDirty, game>>
wire == <<minis, linked, up, down, end>>
vars == <<server, peer, wire, used>>

ToServer == {"handshake", "queryserverattrs", "joinsession", "leavesession",
             "clientattr", "close"}
ToClient == {"serverattr", "joinaccepted", "joindenied", "kick",
             "closesession", "start"}
Msg(t) == [type |-> t, num |-> 0]
Attrs(n) == [type |-> "serverattr", num |-> n]
ClientMsg == [type : ToClient, num : 0..MaxClients]

\* A client context of the server: the connection it was made on and whether
\* the client's attributes, PlayerName among them, have come in.
Context == [conn : Conns, named : BOOLEAN]
GuidOf(ctx) == ctx.conn[1]

\* A server context of a client.  gen numbers its connection; reply stands for
\* isJoinAccepted and isJoinDenied; sock is IsConnected() of its nIpcClient;
\* view is NumPlayers as last received.
ServerContext ==
    [open : BOOLEAN, gen : Nat, joined : BOOLEAN,
     reply : {"none", "accepted", "denied"}, sock : BOOLEAN,
     view : 0..MaxClients]
Closed == [open |-> FALSE, gen |-> 0, joined |-> FALSE, reply |-> "none",
           sock |-> FALSE, view |-> 0]
Opened(g) == [Closed EXCEPT !.open = TRUE, !.gen = g, !.sock = TRUE]
Conn(c, x) == <<c, x, servers[c][x].gen>>

Init ==
    /\ state = [x \in Sessions |-> "new"]
    /\ ctxs = [x \in Sessions |-> <<>>]
    /\ max = [x \in Sessions |-> MaxClients]
    /\ num = [x \in Sessions |-> 0]
    /\ dirty = [x \in Sessions |-> TRUE]
    /\ minis = [x \in Sessions |-> <<>>]
    /\ ousted = [x \in Sessions |-> {}]
    /\ linked = {}
    /\ client = [c \in Clients |-> "open"]
    /\ servers = [c \in Clients |-> [x \in Sessions |-> Closed]]
    /\ joinRef = [c \in Clients |-> None]
    /\ attrsDirty = [c \in Clients |-> TRUE]
    /\ game = [c \in Clients |-> None]
    /\ roster = [x \in Sessions |-> <<>>]
    /\ up = [k \in Conns |-> <<>>]
    /\ down = [k \in Conns |-> <<>>]
    /\ end = [k \in Conns |-> "none"]
    /\ used = 0

UserAction == used < MaxUserActions /\ used' = used + 1

\* The host process: open it has the session, after Start() too.
Serving(x) == state[x] \in {"open", "started"}

----------------------------------------------------------------------------
(***************************************************************************)
(* The server.  Its handlers work on a record of what they change, so that *)
(* one Trigger can run many of them: the contexts, NumPlayers, the dirty   *)
(* flag, the streams to the clients, and the history.  lk are the          *)
(* connections that have had their handshake: nIpcMiniServer::Send drops   *)
(* what goes to another.                                                   *)
(***************************************************************************)
Send(d, k, m, lk) ==
    IF k \in lk /\ end[k] = "open" THEN [d EXCEPT ![k] = Append(@, m)] ELSE d

SendAll(d, ks, m, lk) ==
    [k \in Conns |-> IF k \in ks THEN Send(d, k, m, lk)[k] ELSE d[k]]

\* UpdateNumPlayersAttr and UpdateServerClientAttrs set attributes and so the
\* dirty flag.
Update(s) == [s EXCEPT !.num = Len(s.ctxs), !.dirty = TRUE]

\* One message to each of the contexts cs.
Tell(d, cs, m, lk) ==
    [k \in Conns |->
        IF k \in lk /\ end[k] = "open"
        THEN d[k] \o [i \in 1..Cardinality({j \in DOMAIN cs : cs[j].conn = k})
                        |-> m]
        ELSE d[k]]

\* FindClientContextByGuid finds the first of these.
OfGuid(cs, g) == {i \in DOMAIN cs : GuidOf(cs[i]) = g}

\* The connection of ctx, if it is newer than k.
Newer(ctx, k) == {j \in {ctx.conn} : j[3] > k[3]}

\* Seeded faults: one client too many is let in; the count of players is not
\* updated when one leaves.
JoinOneMore(s, k, m, lk) ==
    IF Len(s.ctxs) > m
    THEN [s EXCEPT !.down = Send(@, k, Msg("joindenied"), lk)]
    ELSE Update([s EXCEPT !.ctxs = Append(@, [conn |-> k, named |-> FALSE]),
                          !.ousted = @ \ {k},
                          !.down = Send(@, k, Msg("joinaccepted"), lk)])

LeaveUncounted(s, k) ==
    LET I == OfGuid(s.ctxs, k[1])
    IN IF I = {} THEN s ELSE [s EXCEPT !.ctxs = RemoveAt(@, Min(I)),
                                       !.ousted = @ \cup Newer(s.ctxs[Min(I)], k)]

HandleJoin(s, k, m, lk) ==
    IF Len(s.ctxs) >= m
    THEN [s EXCEPT !.down = Send(@, k, Msg("joindenied"), lk)]
    ELSE Update([s EXCEPT !.ctxs = Append(@, [conn |-> k, named |-> FALSE]),
                          !.ousted = @ \ {k},
                          !.down = Send(@, k, Msg("joinaccepted"), lk)])

HandleLeave(s, k) ==
    LET I == OfGuid(s.ctxs, k[1])
    IN IF I = {} THEN s
       ELSE Update([s EXCEPT !.ctxs = RemoveAt(@, Min(I)),
                             !.ousted = @ \cup Newer(s.ctxs[Min(I)], k)])

HandleAttr(s, k) ==
    LET I == OfGuid(s.ctxs, k[1])
    IN [s EXCEPT !.dirty = TRUE,
                 !.ctxs = IF I = {} THEN @ ELSE [@ EXCEPT ![Min(I)].named = TRUE]]

\* A message of type t on connection k.  The system messages ("handshake" and
\* "close") are for the mini server alone.
HandleMsg(s, k, t, m, lk) ==
    CASE t = "queryserverattrs" ->
            [s EXCEPT !.down = Send(@, k, Attrs(s.num), lk)]
      [] t = "joinsession" -> HandleJoin(s, k, m, lk)
      [] t = "leavesession" -> HandleLeave(s, k)
      [] t = "clientattr" -> HandleAttr(s, k)
      [] OTHER -> s

\* Seeded fault: the context is released and nobody is told.
KickSilently(s, i, lk) == Update([s EXCEPT !.ctxs = RemoveAt(@, i)])

KickAt(s, i, lk) ==
    Update([s EXCEPT !.ctxs = RemoveAt(@, i),
                     !.down = Send(@, s.ctxs[i].conn, Msg("kick"), lk)])

\* The last clients are kicked until no more than m are left.
KickAbove(s, m, lk) ==
    IF Len(s.ctxs) <= m THEN s
    ELSE Update([s EXCEPT !.ctxs = SubSeq(@, 1, m),
                          !.down = Tell(@, SubSeq(s.ctxs, m + 1, Len(s.ctxs)),
                                        Msg("kick"), lk)])

\* The attributes go to every client when one of them has been set.
Publish(s, ks, lk) ==
    IF s.dirty
    THEN [s EXCEPT !.down = SendAll(@, ks, Attrs(s.num), lk), !.dirty = FALSE]
    ELSE s

\* A mini server that is polled takes all that has come in on its connection.
HandleTaken(s, k, m, lk) ==
    LET after[i \in 0..Len(up[k])] ==
            IF i = 0 THEN s ELSE HandleMsg(after[i - 1], k, up[k][i], m, lk)
    IN after[Len(up[k])]

\* Poll collects the messages mini server by mini server, and Trigger handles
\* them in this order.
HandleInbox(s, x, R, lk) ==
    LET after[i \in 0..Len(minis[x])] ==
            IF i = 0 THEN s
            ELSE IF minis[x][i] \notin R THEN after[i - 1]
                 ELSE HandleTaken(after[i - 1], minis[x][i], max[x], lk)
    IN after[Len(minis[x])]

\* Poll deletes the mini servers of the connections that say close or are at
\* their end.
Ended(R) == {k \in R : Contains(up[k], "close") \/ up[k] = <<>>}

Readable(x) ==
    {k \in ToSet(minis[x]) : up[k] # <<>> \/ end[k] = "shut"}

Trigger(x, R) ==
    /\ Serving(x)
    /\ LET lk == (linked \cup {k \in R : Contains(up[k], "handshake")})
                    \ Ended(R)
           left == LeaveOut(minis[x], Ended(R))
           s0 == [ctxs |-> ctxs[x], num |-> num[x], dirty |-> dirty[x],
                  down |-> down, ousted |-> ousted[x]]
           s1 == KickAbove(HandleInbox(s0, x, R, lk), max[x], lk)
           s2 == Publish(s1, ToSet(left), lk)
       IN /\ linked' = lk
          /\ minis' = [minis EXCEPT ![x] = left]
          /\ up' = [k \in Conns |-> IF k \in R THEN <<>> ELSE up[k]]
          /\ ctxs' = [ctxs EXCEPT ![x] = s2.ctxs]
          /\ num' = [num EXCEPT ![x] = s2.num]
          /\ dirty' = [dirty EXCEPT ![x] = s2.dirty]
          /\ ousted' = [ousted EXCEPT ![x] = s2.ousted]
          /\ down' = s2.down
    /\ UNCHANGED <<state, max, roster, peer, end, used>>

ServerTrigger(x) == \E R \in SUBSET Readable(x) : Trigger(x, R)

Open(x) ==
    /\ state[x] = "new"
    /\ state' = [state EXCEPT ![x] = "open"]
    /\ UNCHANGED <<ctxs, max, num, dirty, ousted, roster, peer, wire, used>>

SetMaxNumClients(x, m) ==
    /\ UserAction
    /\ Serving(x) /\ m # max[x]
    /\ max' = [max EXCEPT ![x] = m]
    /\ num' = [num EXCEPT ![x] = Len(ctxs[x])]
    /\ dirty' = [dirty EXCEPT ![x] = TRUE]
    /\ UNCHANGED <<state, ctxs, ousted, roster, peer, wire>>

KickClient(x, i) ==
    /\ UserAction
    /\ Serving(x)
    /\ LET s == KickAt([ctxs |-> ctxs[x], num |-> num[x], dirty |-> dirty[x],
                       down |-> down, ousted |-> ousted[x]], i, linked)
       IN /\ ctxs' = [ctxs EXCEPT ![x] = s.ctxs]
          /\ num' = [num EXCEPT ![x] = s.num]
          /\ dirty' = [dirty EXCEPT ![x] = s.dirty]
          /\ down' = s.down
    /\ UNCHANGED <<state, max, ousted, roster, peer, minis, linked, up, end>>

\* The sockets of the host are shut: by Close(), or by the end of its process.
Shut(x, how) ==
    /\ state' = [state EXCEPT ![x] = how]
    /\ ctxs' = [ctxs EXCEPT ![x] = <<>>]
    /\ minis' = [minis EXCEPT ![x] = <<>>]
    /\ up' = [k \in Conns |-> IF k[2] = x THEN <<>> ELSE up[k]]
    /\ linked' = {k \in linked : k[2] # x}
    /\ UNCHANGED <<max, num, dirty, ousted, peer, end>>

Close(x) ==
    /\ UserAction
    /\ Serving(x)
    /\ down' = SendAll(down, ToSet(minis[x]), Msg("closesession"), linked)
    /\ Shut(x, "gone")
    /\ UNCHANGED roster

HostCrash(x) ==
    /\ UserAction
    /\ Serving(x)
    /\ Shut(x, "gone")
    /\ UNCHANGED <<down, roster>>

\* Seeded fault: the loop ends one client early.
StartsButLast(x) ==
    down' = Tell(down, SubSeq(ctxs[x], 1, Len(ctxs[x]) - 1), Msg("start"), linked)

\* Start() sends its message to every context and hands their guids and names
\* to the nNetServer.  A context without a PlayerName fails the assertion of
\* SetClientPlayerName: the host ends there, its messages are under way.
Starts(x) == down' = Tell(down, ctxs[x], Msg("start"), linked)

Start(x) ==
    /\ UserAction
    /\ state[x] = "open"
    /\ \A ctx \in ToSet(ctxs[x]) : ctx.named
    /\ Starts(x)
    /\ roster' = [roster EXCEPT ![x] = [i \in 1..Len(ctxs[x]) |->
                                            GuidOf(ctxs[x][i])]]
    /\ state' = [state EXCEPT ![x] = "started"]
    /\ UNCHANGED <<ctxs, max, num, dirty, ousted, peer, minis, linked, up, end>>

StartAborts(x) ==
    /\ UserAction
    /\ state[x] = "open"
    /\ \E ctx \in ToSet(ctxs[x]) : ~ctx.named
    /\ Starts(x)
    /\ Shut(x, "aborted")
    /\ UNCHANGED roster

----------------------------------------------------------------------------
(***************************************************************************)
(* The client.  A step works on what the process can change by itself: its *)
(* contexts and the connections it writes to or shuts.                     *)
(***************************************************************************)
Joined(c) == joinRef[c] # None /\ servers[c][joinRef[c]].joined

Has(k, t) == \E i \in 1..Len(down[k]) : down[k][i].type = t

\* nIpcClient::Send on the connection of context x.
SendUp(u, c, x, m) ==
    IF servers[c][x].sock THEN [u EXCEPT ![Conn(c, x)] = Append(@, m)] ELSE u

\* nSessionServerContext::Close, of the contexts xs: leave, then disconnect.
Goodbye(r) ==
    (IF r.joined THEN <<"leavesession">> ELSE <<>>) \o <<"close">>

\* The client ends of the connections ks are shut; what was under way to them
\* is never read.
ShutEnds(ks) ==
    /\ end' = [k \in Conns |-> IF k \in ks THEN "shut" ELSE end[k]]
    /\ down' = [k \in Conns |-> IF k \in ks THEN <<>> ELSE down[k]]

\* Nothing reads what is sent to a host that has gone.
Deliver(u) ==
    up' = [k \in Conns |-> IF Serving(k[2]) THEN u[k] ELSE <<>>]

LiveConns(c) == {k \in Conns : k[1] = c /\ end[k] = "open"}

\* The process ends, by a failed assertion or a crash: its sockets are shut
\* and nothing more is sent.
Dies(c) ==
    /\ client' = [client EXCEPT ![c] = "aborted"]
    /\ servers' = [servers EXCEPT ![c] = [x \in Sessions |->
                        [Closed EXCEPT !.gen = servers[c][x].gen]]]
    /\ joinRef' = [joinRef EXCEPT ![c] = None]
    /\ ShutEnds(LiveConns(c))
    /\ UNCHANGED <<server, attrsDirty, game, minis, linked, up>>

ClientCrash(c) ==
    /\ UserAction
    /\ client[c] = "open"
    /\ Dies(c)

\* JoinSession leaves the session the client is joined to first.  A context
\* that has been joined behind the client's back (its reply came in after the
\* client had turned to another session) fails the assertion.
Left(c) ==
    IF Joined(c)
    THEN [servers[c] EXCEPT ![joinRef[c]].joined = FALSE,
                            ![joinRef[c]].reply = "none"]
    ELSE servers[c]

\* Seeded fault: the client leaves without telling the host.
LeaveUnsaid(c) == up

LeaveSent(c) ==
    IF Joined(c) THEN SendUp(up, c, joinRef[c], "leavesession") ELSE up

(***************************************************************************)
(* The answer to a join request comes in a later frame.  A patient user    *)
(* calls JoinSession and LeaveSession when none is under way any more; a   *)
(* hasty one at any time.                                                  *)
(***************************************************************************)
Asking(c, x) ==
    LET k == Conn(c, x)
    IN servers[c][x].open /\ (\/ Contains(up[k], "joinsession")
                             \/ Has(k, "joinaccepted")
                             \/ Has(k, "joindenied"))

MayCall(c) ==
    /\ client[c] = "open"
    /\ c \in Hasty \/ \A x \in Sessions : ~Asking(c, x)

JoinSession(c, x) ==
    /\ UserAction
    /\ MayCall(c)
    /\ servers[c][x].open
    /\ ~Left(c)[x].joined
    /\ servers' = [servers EXCEPT ![c] = [Left(c) EXCEPT ![x].reply = "none"]]
    /\ Deliver(SendUp(LeaveSent(c), c, x, "joinsession"))
    /\ joinRef' = [joinRef EXCEPT ![c] = x]
    /\ attrsDirty' = [attrsDirty EXCEPT ![c] = TRUE]
    /\ UNCHANGED <<server, client, game, minis, linked, down, end>>

JoinAborts(c, x) ==
    /\ UserAction
    /\ MayCall(c)
    /\ servers[c][x].open
    /\ Left(c)[x].joined
    /\ Dies(c)

LeaveSession(c) ==
    /\ UserAction
    /\ MayCall(c)
    /\ joinRef[c] # None
    /\ servers' = [servers EXCEPT ![c] = Left(c)]
    /\ Deliver(LeaveSent(c))
    /\ joinRef' = [joinRef EXCEPT ![c] = None]
    /\ UNCHANGED <<server, client, attrsDirty, game, minis, linked, down, end>>

\* Close() leaves, if the client is joined, and releases every context.
CloseClient(c) ==
    /\ UserAction
    /\ client[c] = "open"
    /\ LET xs == {x \in Sessions : servers[c][x].open}
           u == [k \in Conns |->
                    IF k[1] = c /\ k[2] \in xs /\ k = Conn(c, k[2])
                        /\ servers[c][k[2]].sock
                    THEN LeaveSent(c)[k] \o Goodbye(Left(c)[k[2]])
                    ELSE up[k]]
       IN /\ Deliver(u)
          /\ ShutEnds(LiveConns(c))
    /\ servers' = [servers EXCEPT ![c] = [x \in Sessions |->
                        [Closed EXCEPT !.gen = servers[c][x].gen]]]
    /\ joinRef' = [joinRef EXCEPT ![c] = None]
    /\ client' = [client EXCEPT ![c] = "closed"]
    /\ UNCHANGED <<server, attrsDirty, game, minis, linked>>

(***************************************************************************)
(* nSessionClient::Trigger.  N are the sessions whose broadcast is heard    *)
(* for the first time: a context is made and connected.  E are those whose *)
(* broadcasts have not been heard for longer than the timeout: their       *)
(* contexts are released.  Then every remaining context reads its          *)
(* connection, those of R to the end of what has been sent.                *)
(***************************************************************************)
\* The position of the last message of q whose type is in T, or 0.
Latest(q, T) == Max({0} \cup {i \in DOMAIN q : q[i].type \in T})

Answers == {"joinaccepted", "joindenied", "kick"}

\* A context when it has received the messages of q in turn: every answer
\* overwrites the one before, and so do the attributes.
JoinedAfter(r, q) ==
    LET i == Latest(q, Answers)
    IN IF i = 0 THEN r.joined ELSE q[i].type = "joinaccepted"

ViewAfter(r, q) ==
    LET i == Latest(q, {"serverattr"})
    IN IF i = 0 THEN r.view ELSE q[i].num

ReplyAfter(r, q) ==
    LET i == Latest(q, Answers)
    IN IF i = 0 THEN r.reply
       ELSE CASE q[i].type = "joinaccepted" -> "accepted"
              [] q[i].type = "joindenied" -> "denied"
              [] q[i].type = "kick" -> "none"

\* A connection whose server end is shut is found out when all it holds has
\* been read.
AtEnd(k) == k \notin ToSet(minis[k[2]])

Read(c, x) ==
    LET r == servers[c][x]
        q == down[Conn(c, x)]
    IN [r EXCEPT !.joined = JoinedAfter(r, q), !.reply = ReplyAfter(r, q),
                 !.view = ViewAfter(r, q), !.sock = ~AtEnd(Conn(c, x))]

Over(c, x) ==
    Has(Conn(c, x), "closesession") \/ Has(Conn(c, x), "start")

Heard(c) == {x \in Sessions : /\ Serving(x)
                              /\ ~servers[c][x].open
                              /\ servers[c][x].gen < MaxConns[c]}
Known(c) == {x \in Sessions : servers[c][x].open}
Waiting(c) == {x \in Known(c) : down[Conn(c, x)] # <<>> \/ AtEnd(Conn(c, x))}

\* The start messages among what is read: the nNetClient can be opened for
\* one of them.
StartsRead(c, R) ==
    UNION {{x} \X {i \in DOMAIN down[Conn(c, x)] :
                       down[Conn(c, x)][i].type = "start"} : x \in R}

\* Receive() on a connection that has been lost fails an assertion, and so
\* does opening the nNetClient twice.
TriggerFails(c, E, R) ==
    \/ \E x \in Known(c) \ E : ~servers[c][x].sock
    \/ Cardinality(StartsRead(c, R)) > (IF game[c] = None THEN 1 ELSE 0)

Frame(c, N, E, R) ==
    LET read == [x \in Sessions |->
                    IF x \in R THEN Read(c, x) ELSE servers[c][x]]
        over == {x \in R : Over(c, x)}
        next == [x \in Sessions |->
                    IF x \in N THEN Opened(servers[c][x].gen + 1)
                    ELSE IF x \in E \cup over
                         THEN [Closed EXCEPT !.gen = servers[c][x].gen]
                         ELSE read[x]]
        ref == IF joinRef[c] \in E \cup over THEN None ELSE joinRef[c]
        tell == ref # None /\ next[ref].joined /\ attrsDirty[c]
        made == {<<c, x, next[x].gen>> : x \in N}
        said(x) == IF x \in N THEN <<"handshake", "queryserverattrs">>
                   ELSE IF ~read[x].sock THEN <<>>
                   ELSE IF x \in E \cup over THEN Goodbye(read[x])
                   ELSE IF tell /\ x = ref THEN <<"clientattr">> ELSE <<>>
        mine(k) == k[1] = c /\ k[3] = next[k[2]].gen
                        /\ k[2] \in N \cup Known(c)
        shut == {k \in LiveConns(c) : mine(k) /\ ~next[k[2]].sock}
    IN /\ servers' = [servers EXCEPT ![c] = next]
       /\ joinRef' = [joinRef EXCEPT ![c] = ref]
       /\ attrsDirty' = [attrsDirty EXCEPT ![c] = @ /\ ~tell]
       /\ game' = [game EXCEPT ![c] =
                      IF \E x \in R : Has(Conn(c, x), "start")
                      THEN CHOOSE x \in R : Has(Conn(c, x), "start") ELSE @]
       /\ Deliver([k \in Conns |-> IF mine(k) THEN up[k] \o said(k[2])
                                              ELSE up[k]])
       /\ minis' = [x \in Sessions |->
                      IF x \in N THEN Append(minis[x], <<c, x, next[x].gen>>)
                      ELSE minis[x]]
       /\ end' = [k \in Conns |-> IF k \in made THEN "open"
                                  ELSE IF k \in shut THEN "shut" ELSE end[k]]
       /\ down' = [k \in Conns |->
                      IF k \in shut \/ (mine(k) /\ k[2] \in R) THEN <<>>
                      ELSE down[k]]
    /\ used' = used + Cardinality(E)
    /\ UNCHANGED <<server, client, linked>>

ClientTrigger(c, N, E, R) ==
    /\ client[c] = "open"
    /\ used + Cardinality(E) <= MaxUserActions
    /\ ~TriggerFails(c, E, R)
    /\ Frame(c, N, E, R)

TriggerAborts(c, R) ==
    /\ client[c] = "open"
    /\ TriggerFails(c, {}, R)
    /\ Dies(c)
    /\ UNCHANGED used

ClientStep(c) ==
    \/ \E N \in SUBSET Heard(c), E \in SUBSET Known(c) :
            \E R \in SUBSET (Waiting(c) \ E) : ClientTrigger(c, N, E, R)
    \/ \E R \in SUBSET Waiting(c) : TriggerAborts(c, R)

----------------------------------------------------------------------------
Host(x) ==
    \/ Open(x)
    \/ \E m \in 1..MaxClients : SetMaxNumClients(x, m)
    \/ \E i \in 1..Len(ctxs[x]) : KickClient(x, i)
    \/ Close(x)
    \/ HostCrash(x)
    \/ Start(x)
    \/ StartAborts(x)
    \/ ServerTrigger(x)

User(c) ==
    \/ \E x \in Sessions : JoinSession(c, x) \/ JoinAborts(c, x)
    \/ LeaveSession(c)
    \/ CloseClient(c)
    \/ ClientCrash(c)

Next ==
    \/ \E x \in Sessions : Host(x)
    \/ \E c \in Clients : User(c) \/ ClientStep(c)

Spec == Init /\ [][Next]_vars

----------------------------------------------------------------------------
\* The types; NumPlayers stays within what SetMaxNumClients allowed.
TypeOK ==
    /\ state \in [Sessions -> {"new", "open", "started", "gone", "aborted"}]
    /\ ctxs \in [Sessions -> Seq(Context)]
    /\ minis \in [Sessions -> Seq(Conns)]
    /\ roster \in [Sessions -> Seq(Clients)]
    /\ max \in [Sessions -> 1..MaxClients]
    /\ num \in [Sessions -> 0..MaxClients]
    /\ dirty \in [Sessions -> BOOLEAN]
    /\ ousted \in [Sessions -> SUBSET {k \in Conns : k[3] > 1}]
    /\ linked \subseteq Conns
    /\ client \in [Clients -> {"open", "closed", "aborted"}]
    /\ servers \in [Clients -> [Sessions -> ServerContext]]
    /\ \A c \in Clients, x \in Sessions : servers[c][x].gen <= MaxConns[c]
    /\ joinRef \in [Clients -> Sessions \cup {None}]
    /\ attrsDirty \in [Clients -> BOOLEAN]
    /\ game \in [Clients -> Sessions \cup {None}]
    /\ up \in [Conns -> Seq(ToServer)]
    /\ down \in [Conns -> Seq(ClientMsg)]
    /\ end \in [Conns -> {"none", "open", "shut"}]
    /\ used \in 0..MaxUserActions

Counted(c, x) == \E ctx \in ToSet(ctxs[x]) : GuidOf(ctx) = c
Quiet(k) == up[k] = <<>> /\ down[k] = <<>>

\* A client whose user waits for the answers, and that has not had to connect
\* again, and the host agree on whether the client is joined as soon as nothing
\* is under way between them: whatever leave, kick, denial or acceptance crossed
\* on the wire.  (nSessionServer's contexts against nSessionServerContext's
\* isJoined, which no code compares.)
SidesAgree ==
    \A c \in Clients \ Hasty, x \in Sessions :
        /\ servers[c][x].open /\ servers[c][x].gen = 1
        /\ Serving(x) /\ Quiet(Conn(c, x))
        => (servers[c][x].joined <=> Counted(c, x))

\* A client that believes it is joined holds one of the host's places, or the
\* kick is under way to it, whatever leave, kick and denial cross, and on any
\* of its connections.  There is one exception, and no other: a leave message
\* of an older connection that came late, for the host looks for the context
\* to release by the client's guid alone.
JoinedIsCounted ==
    \A c \in Clients \ Hasty, x \in Sessions :
        /\ servers[c][x].open /\ servers[c][x].joined
        /\ Serving(x) /\ ~Has(Conn(c, x), "kick")
        => Counted(c, x) \/ Conn(c, x) \in ousted[x]

\* The same without the exception.  It does not hold: HandleLeave releases a
\* context made on a newer connection than the one the message came on.
JoinedHasPlace ==
    \A c \in Clients \ Hasty, x \in Sessions :
        /\ servers[c][x].open /\ servers[c][x].joined
        /\ Serving(x) /\ ~Has(Conn(c, x), "kick")
        => Counted(c, x)

\* The attributes a client shows are those of the host once the host has no
\* changes to send and nothing is under way: every change of the contexts sets
\* the dirty flag, and a client that connects between a change and its
\* publication asks for what it has missed.
AttrsConverge ==
    \A c \in Clients, x \in Sessions :
        /\ servers[c][x].open /\ Serving(x)
        /\ ~dirty[x] /\ Quiet(Conn(c, x))
        => servers[c][x].view = Len(ctxs[x])

\* A client that has opened its nNetClient for a session's game is one of those
\* the session's nNetServer lets in.
StartedIsExpected ==
    \A c \in Clients :
        game[c] # None /\ state[game[c]] = "started"
            => Contains(roster[game[c]], c)

\* The nNetServer waits for every client on its list, so each of them that is
\* still connected as it was when it joined has its start message coming.
StartIsDelivered ==
    \A c \in Clients, x \in Sessions :
        /\ state[x] = "started" /\ Contains(roster[x], c)
        /\ servers[c][x].open /\ servers[c][x].gen = 1
        => Has(Conn(c, x), "start")

\* Whom the started game expects and who is told to open it are the same,
\* whatever was under way when the host started.
StartAgreed == StartedIsExpected /\ StartIsDelivered

\* What the assertion of nNetServer::SetClientPlayerName says of Start(): every
\* joined client's PlayerName is known.  The client sends it in the frame in
\* which it finds itself accepted, so that it does not hold.
NamesKnownAtStart == \A x \in Sessions : state[x] # "aborted"

=============================================================================
