----------------------------- MODULE IpcServer ------------------------------
(***************************************************************************)
(* nIpcServer: a listener thread waits in accept() with a mini server of   *)
(* its own for the next client; the thread that owns the server (here: the *)
(* main thread) polls all mini servers, takes messages off the server's    *)
(* list, answers, and in the end deletes the server.  Clients are          *)
(* processes with one nIpcClient each.                                     *)
(*                                                                         *)
(* A step of a thread reaches from one access to something the other       *)
(* thread or the network shares to the next.  TCP is what the code uses of *)
(* it: a queue of connections that wait for accept(), a stream in either   *)
(* direction that recv() takes apart where it likes, and ends that are     *)
(* closed in order or reset.                                               *)
(***************************************************************************)
EXTENDS Integers, Sequences, FiniteSets, SequencesExt, Sublists, Threading

CONSTANTS
    Conns,      \* the connections clients make, each by a client of its own
    Dummy,      \* the connection the server makes to wake its own thread
    NoConn,     \* INVALID_SOCKET
    Backlog,    \* connections listen() lets wait (5 in the code)
    MaxMsgs,    \* bound: messages sent on each connection, a function of it
    MaxReplies, \* bound: answers the main thread sends
    MaxFaults   \* bound: recv() calls that end within a string, clients that
                \* crash and accept() calls that fail, all together

ASSUME IpcAssumption ==
    /\ IsFiniteSet(Conns)
    /\ Dummy \notin Conns /\ NoConn \notin Conns \cup {Dummy}
    /\ Backlog \in Nat \ {0}
    /\ MaxMsgs \in [Conns -> Nat \ {0}]
    /\ {MaxReplies, MaxFaults} \subseteq Nat

\* Every mini server but the last has had a connection or a failed accept().
Ids == 0..(Cardinality(Conns) + MaxFaults + 1)
Sockets == Conns \cup {Dummy}

VARIABLES
    listener,   \* the listener thread: the next thing it does
    cur,        \* its mini server
    nextId,     \* uniqueMiniServerId
    mini,       \* the mini servers ever made, by id
    list,       \* miniServerList
    lock,       \* the owner of the list's mutex
    listening,  \* listen() has been called on the server's socket
    backlog,    \* the connections that wait for accept()
    stop,       \* stopThread
    shutdown,   \* shutdownEvent
    main,       \* the main thread: the next thing it does
    at,         \* Poll: the position in the list
    err,        \* the main thread's last error code
    msgs,       \* msgList
    asked,      \* the message the main thread has taken last, until it answers
    end,        \* the client's end of a connection
    up, down,   \* what is under way to and from the server
    sent,       \* how many messages the client of a connection has sent
    got,        \* the messages GetMsg has returned, by connection
    replies, splits, crashes, fails \* so far

thread == <<listener, cur, nextId, listening>>
minis == <<mini, list, lock>>
shut == <<stop, shutdown>>
owner == <<main, at, err, msgs, asked>>
net == <<end, up, down, sent, got>>
faults == <<replies, splits, crashes, fails>>
vars == <<thread, minis, backlog, shut, owner, net, faults>>

\* A mini server: its socket, whether that is still in blocking mode, and
\* isConnected.
Fresh == [sock |-> NoConn, blocking |-> FALSE, linked |-> FALSE]

\* A string on the wire is the number of a message, or one of these; what
\* recv() leaves of a string it has taken the beginning of is a fragment.
Fragment == 0
HandshakeCmd == -1
CloseCmd == -2
Numbers == UNION {1..MaxMsgs[k] : k \in Conns}
Strings == {Fragment, HandshakeCmd, CloseCmd} \cup Numbers

Init ==
    /\ listener = "new" /\ cur = 0 /\ nextId = 0
    /\ mini = [i \in Ids |-> Fresh]
    /\ list = <<>> /\ lock = Nobody
    /\ listening = FALSE /\ backlog = <<>>
    /\ stop = FALSE /\ shutdown = 0
    /\ main = "run" /\ at = 0 /\ err = "none"
    /\ msgs = <<>> /\ asked = {}
    /\ end = [k \in Sockets |-> "none"]
    /\ up = [k \in Sockets |-> <<>>]
    /\ down = [k \in Sockets |-> <<>>]
    /\ sent = [k \in Conns |-> 0]
    /\ got = [k \in Conns |-> <<>>]
    /\ replies = 0 /\ splits = 0 /\ crashes = 0 /\ fails = 0

Fault == splits + crashes + fails < MaxFaults

----------------------------------------------------------------------------
(***************************************************************************)
(* The listener thread.                                                    *)
(***************************************************************************)
Goto(pc) == listener' = pc

\* Seeded fault: the id of a mini server that is gone is used again.
NewSameId ==
    /\ listener = "new"
    /\ CanLock(lock)
    /\ \E i \in Ids : /\ cur' = i /\ ~Contains(list, i)
                     /\ \A j \in 0..(i - 1) : Contains(list, j)
    /\ list' = Append(list, cur')
    /\ listening' = TRUE
    /\ Goto("accept")
    /\ UNCHANGED <<nextId, mini, lock, backlog, shut, owner, net, faults>>

\* Seeded fault: the mini server is not put on the list.
NewUnlisted ==
    /\ listener = "new"
    /\ CanLock(lock)
    /\ cur' = nextId /\ nextId' = nextId + 1
    /\ listening' = TRUE
    /\ Goto("accept")
    /\ UNCHANGED <<minis, backlog, shut, owner, net, faults>>

\* The constructor of nIpcMiniServer, and listen().
New ==
    /\ listener = "new"
    /\ CanLock(lock)
    /\ cur' = nextId /\ nextId' = nextId + 1
    /\ list' = Append(list, nextId)
    /\ listening' = TRUE
    /\ Goto("accept")
    /\ UNCHANGED <<mini, lock, backlog, shut, owner, net, faults>>

\* The socket is the mini server's, in blocking mode, as soon as accept()
\* returns.
Accept ==
    /\ listener = "accept"
    /\ backlog # <<>>
    /\ mini' = [mini EXCEPT ![cur] = [@ EXCEPT !.sock = Head(backlog),
                                               !.blocking = TRUE]]
    /\ backlog' = Tail(backlog)
    /\ Goto("accepted")
    /\ UNCHANGED <<cur, nextId, listening, list, lock, shut, owner, net, faults>>

AcceptFails ==
    /\ listener = "accept"
    /\ backlog # <<>>
    /\ Fault /\ fails' = fails + 1
    /\ Goto("loop")
    /\ UNCHANGED <<cur, nextId, listening, minis, backlog, shut, owner, net,
                   replies, splits, crashes>>

\* A mini server that Poll has deleted meanwhile has an invalid socket, also
\* where its freed memory is read here and in Ignore().
SetNonBlocking ==
    /\ listener = "accepted"
    /\ mini' = [mini EXCEPT ![cur].blocking = FALSE]
    /\ Goto("test")
    /\ UNCHANGED <<cur, nextId, listening, list, lock, backlog, shut, owner, net,
                   faults>>

\* Listen() has returned true: if it was the wakeup function that connected,
\* the mini server is to ignore it.
Ignore ==
    /\ listener = "test"
    /\ mini' = IF stop THEN [mini EXCEPT ![cur].sock = NoConn] ELSE mini
    /\ Goto("loop")
    /\ UNCHANGED <<cur, nextId, listening, list, lock, backlog, shut, owner, net,
                   faults>>

Loop ==
    /\ listener = "loop"
    /\ Goto(IF stop THEN "harakiri" ELSE "new")
    /\ UNCHANGED <<cur, nextId, listening, minis, backlog, shut, owner, net, faults>>

ThreadHarakiri ==
    /\ listener = "harakiri"
    /\ CanWait(shutdown) /\ shutdown' = WaitEvent(shutdown)
    /\ Goto("gone")
    /\ UNCHANGED <<cur, nextId, listening, minis, backlog, stop, owner, net, faults>>

Listener ==
    \/ New \/ Accept \/ AcceptFails \/ SetNonBlocking \/ Ignore
    \/ Loop \/ ThreadHarakiri

----------------------------------------------------------------------------
(***************************************************************************)
(* The main thread: nIpcServer::Poll with the mini servers' Poll.          *)
(***************************************************************************)
PollStart ==
    /\ main = "run"
    /\ CanLock(lock) /\ lock' = "main"
    /\ main' = "poll" /\ at' = 1
    /\ UNCHANGED <<thread, mini, list, backlog, shut, err, msgs, asked, net, faults>>

PollEnd ==
    /\ main = "poll" /\ at > Len(list)
    /\ lock' = Nobody
    /\ main' = "run" /\ at' = 0
    /\ UNCHANGED <<thread, mini, list, backlog, shut, err, msgs, asked, net, faults>>

\* The loop has come to a mini server; "recv" is a recv() that waits.
Polling == main \in {"poll", "recv"} /\ at <= Len(list)
Polled == list[at]
Sock == mini[Polled].sock
Quiet(k) == up[k] = <<>> /\ end[k] \in {"connected", "open"}

\* The mini server's Poll returns true; or false: it is taken off the list
\* and deleted, which closes its socket.
Stays == /\ at' = at + 1
         /\ main' = "poll"
         /\ UNCHANGED list

\* Seeded fault: the loop goes on behind the successor of a deleted node.
SkipNext == /\ list' = RemoveAt(list, at)
            /\ main' = "poll"
            /\ at' = at + 1

Goes == /\ list' = RemoveAt(list, at)
        /\ main' = "poll"
        /\ UNCHANGED at

\* Seeded fault: Poll returns isConnected also where there is no socket.
PollUnboundGoes ==
    /\ Polling /\ Sock = NoConn
    /\ Goes
    /\ UNCHANGED <<thread, mini, lock, backlog, shut, err, msgs, asked, net, faults>>

PollUnbound ==
    /\ Polling /\ Sock = NoConn
    /\ Stays
    /\ UNCHANGED <<thread, mini, lock, backlog, shut, err, msgs, asked, net, faults>>

\* There is nothing to receive.  In non-blocking mode recv() says so; a call
\* made in blocking mode waits, also when the mode is changed meanwhile.
WouldBlock ==
    /\ main = "poll" /\ Polling
    /\ Sock # NoConn /\ Quiet(Sock) /\ ~mini[Polled].blocking
    /\ err' = "other"
    /\ Stays
    /\ UNCHANGED <<thread, mini, lock, backlog, shut, msgs, asked, net, faults>>

Block ==
    /\ main = "poll" /\ Polling
    /\ Sock # NoConn /\ Quiet(Sock) /\ mini[Polled].blocking
    /\ main' = "recv"
    /\ UNCHANGED <<thread, minis, backlog, shut, at, err, msgs, asked, net, faults>>

\* recv() returns 0, or fails with ECONNRESET; the shutdown() of the reset
\* socket then fails too, with another code.
ConnectionClosed ==
    /\ Polling
    /\ Sock # NoConn /\ up[Sock] = <<>> /\ ~Quiet(Sock)
    /\ err' = IF end[Sock] = "reset" THEN "other" ELSE err
    /\ mini' = [mini EXCEPT ![Polled] = Fresh]
    /\ Goes
    /\ UNCHANGED <<thread, lock, backlog, shut, msgs, asked, net, faults>>

\* Seeded fault: only the first string of a receive is looked at.
NodesFirst(s) ==
    IF s # <<>> /\ Head(s) \notin {HandshakeCmd, CloseCmd}
    THEN << [from |-> Polled, conn |-> Sock, msg |-> Head(s)] >> ELSE <<>>

\* The strings of s that are not for the mini server itself, as nodes of the
\* message list; conn is there for the properties alone.
Nodes(s) ==
    LET user == LeaveOut(s, {HandshakeCmd, CloseCmd})
    IN [i \in DOMAIN user |-> [from |-> Polled, conn |-> Sock, msg |-> user[i]]]

\* isConnected after the strings of s: the last handshake or close decides.
Linked(s, linked) ==
    \/ linked /\ ~Contains(s, CloseCmd)
    \/ \E i \in DOMAIN s : /\ s[i] = HandshakeCmd
                           /\ \A j \in DOMAIN s : j > i => s[j] # CloseCmd

\* Poll has looked at the strings of s and left those of rest in the stream.
\* With the code of a connection reset left over from an earlier call, it has
\* taken what came in for the end of the connection.
Received(s, rest) ==
    LET linked == err # "reset" /\ Linked(s, mini[Polled].linked)
    IN /\ msgs' = IF err = "reset" THEN msgs ELSE msgs \o Nodes(s)
       /\ mini' = [mini EXCEPT ![Polled] =
                     IF linked THEN [@ EXCEPT !.linked = TRUE] ELSE Fresh]
       /\ up' = [up EXCEPT ![Sock] = IF linked THEN rest ELSE <<>>]
       /\ IF linked THEN Stays ELSE Goes

Receive(n) ==
    /\ Received(SubSeq(up[Sock], 1, n), SubSeq(up[Sock], n + 1, Len(up[Sock])))
    /\ UNCHANGED <<thread, lock, backlog, shut, err, asked, end, down, sent, got,
                   faults>>

\* recv() ends within the n-th string: the buffer does not end in a 0, and none
\* of its strings is looked at.
ReceiveSplit(n) ==
    /\ Fault /\ splits' = splits + 1
    /\ Received(<<>>, <<Fragment>> \o SubSeq(up[Sock], n + 1, Len(up[Sock])))
    /\ UNCHANGED <<thread, lock, backlog, shut, err, asked, end, down, sent, got,
                   replies, crashes, fails>>

PollStep ==
    \/ PollEnd \/ PollUnbound \/ WouldBlock \/ Block \/ ConnectionClosed
    \/ Polling /\ Sock # NoConn /\ \E n \in 1..Len(up[Sock]) : Receive(n) \/ ReceiveSplit(n)

----------------------------------------------------------------------------
(***************************************************************************)
(* The main thread: messages and answers.                                  *)
(***************************************************************************)
GetMsg ==
    /\ main = "run" /\ msgs # <<>>
    /\ LET m == Head(msgs)
       IN /\ got' = IF m.msg = Fragment THEN got
                    ELSE [got EXCEPT ![m.conn] = Append(@, m.msg)]
          /\ asked' = {[from |-> m.from, conn |-> m.conn]}
    /\ msgs' = Tail(msgs)
    /\ UNCHANGED <<thread, minis, backlog, shut, main, at, err, end, up, down, sent,
                   faults>>

(***************************************************************************)
(* nIpcMiniServer::Send.  The first send() after the client has closed its *)
(* end succeeds and provokes a reset, the next one fails; one more on the  *)
(* same socket raises SIGPIPE, which nothing in the program handles.       *)
(***************************************************************************)
Answer(k, to) ==
    CASE end[k] \in {"connected", "open"} ->
            /\ down' = [down EXCEPT ![k] = Append(@, to)]
            /\ UNCHANGED <<end, err, main>>
      [] end[k] = "shut" ->
            /\ end' = [end EXCEPT ![k] = "reset"]
            /\ UNCHANGED <<down, err, main>>
      [] end[k] = "reset" ->
            /\ end' = [end EXCEPT ![k] = "broken"]
            /\ err' = "reset"
            /\ UNCHANGED <<down, main>>
      [] end[k] = "broken" ->
            /\ main' = "killed"
            /\ UNCHANGED <<down, end, err>>

Target(id) == mini[id].sock

\* The application answers the message it has taken last, at once or later, by
\* the client id that came with it.  Send() finds no mini server any more if the
\* connection has been closed.
Send ==
    /\ main = "run"
    /\ replies < MaxReplies /\ replies' = replies + 1
    /\ asked' = {}
    /\ \E a \in asked :
          IF /\ Contains(list, a.from) /\ Target(a.from) # NoConn
             /\ mini[a.from].linked
          THEN Answer(Target(a.from), a.conn)
          ELSE UNCHANGED <<down, end, err, main>>
    /\ UNCHANGED <<thread, minis, backlog, shut, at, msgs, up, sent, got, splits,
                   crashes, fails>>

----------------------------------------------------------------------------
(***************************************************************************)
(* The main thread: the destructor, with that of nThread.                  *)
(***************************************************************************)
Stop ==
    /\ main = "run"
    /\ stop' = TRUE
    /\ main' = "wake"
    /\ UNCHANGED <<thread, minis, backlog, shutdown, at, err, msgs, asked, net,
                   faults>>

\* Seeded fault: the listener is left in accept().
NoWakeup ==
    /\ main = "wake"
    /\ main' = "signal"
    /\ UNCHANGED <<thread, minis, backlog, shut, at, err, msgs, asked, net, faults>>

\* The wakeup function: a connection of its own, closed at once.  Nothing
\* listens yet, or the queue is full and the attempt is given up: it fails.
Wakeup ==
    /\ main = "wake"
    /\ IF listening /\ Len(backlog) < Backlog
       THEN /\ backlog' = Append(backlog, Dummy)
            /\ end' = [end EXCEPT ![Dummy] = "shut"]
       ELSE UNCHANGED <<backlog, end>>
    /\ main' = "signal"
    /\ UNCHANGED <<thread, minis, shut, at, err, msgs, asked, up, down, sent, got,
                   faults>>

LetDie ==
    /\ main = "signal"
    /\ shutdown' = SignalEvent(shutdown)
    /\ main' = "join"
    /\ UNCHANGED <<thread, minis, backlog, stop, at, err, msgs, asked, net, faults>>

\* The thread has ended: mini servers, socket and messages are deleted.
Join ==
    /\ main = "join" /\ listener = "gone"
    /\ main' = "gone"
    /\ list' = <<>> /\ mini' = [i \in Ids |-> Fresh]
    /\ listening' = FALSE /\ backlog' = <<>>
    /\ msgs' = <<>>
    /\ up' = [k \in Sockets |-> <<>>]
    /\ UNCHANGED <<listener, cur, nextId, lock, shut, at, err, asked, end, down,
                   sent, got, faults>>

Main ==
    \/ PollStart \/ PollStep \/ GetMsg \/ Send \/ Stop \/ Wakeup \/ LetDie \/ Join

----------------------------------------------------------------------------
(***************************************************************************)
(* The clients.                                                            *)
(***************************************************************************)
\* The server's end is open: the connection waits for accept(), or a mini
\* server has it.
Held(k) == Contains(backlog, k) \/ \E i \in ToSet(list) : mini[i].sock = k

Write(k, m) ==
    up' = IF Held(k) THEN [up EXCEPT ![k] = Append(@, m)] ELSE up

Client(k) ==
    UNCHANGED <<thread, minis, shut, owner, got, replies, splits, fails>>

\* Connect(), up to connect(); it fails where nothing listens.
Connect(k) ==
    /\ end[k] = "none"
    /\ listening /\ Len(backlog) < Backlog
    /\ backlog' = Append(backlog, k)
    /\ end' = [end EXCEPT ![k] = "connected"]
    /\ UNCHANGED <<up, down, sent, crashes>>
    /\ Client(k)

\* The rest of Connect().
Handshake(k) ==
    /\ end[k] = "connected"
    /\ Write(k, HandshakeCmd)
    /\ end' = [end EXCEPT ![k] = "open"]
    /\ UNCHANGED <<backlog, down, sent, crashes>>
    /\ Client(k)

ClientSend(k) ==
    /\ end[k] = "open" /\ Held(k)
    /\ sent[k] < MaxMsgs[k]
    /\ sent' = [sent EXCEPT ![k] = @ + 1]
    /\ Write(k, sent[k] + 1)
    /\ UNCHANGED <<backlog, end, down, crashes>>
    /\ Client(k)

\* Receive() of an answer; or of the end of the connection.
ClientReceive(k) ==
    /\ end[k] = "open"
    /\ IF down[k] # <<>>
       THEN /\ down' = [down EXCEPT ![k] = <<>>]
            /\ UNCHANGED end
       ELSE /\ ~Held(k)
            /\ end' = [end EXCEPT ![k] = "shut"]
            /\ UNCHANGED down
    /\ UNCHANGED <<backlog, up, sent, crashes>>
    /\ Client(k)

Disconnect(k) ==
    /\ end[k] = "open"
    /\ Write(k, CloseCmd)
    /\ end' = [end EXCEPT ![k] = "shut"]
    /\ down' = [down EXCEPT ![k] = <<>>]
    /\ UNCHANGED <<backlog, sent, crashes>>
    /\ Client(k)

\* The client's process ends: what it has sent last may be lost.
Crash(k) ==
    /\ end[k] \in {"connected", "open"}
    /\ Fault /\ crashes' = crashes + 1
    /\ end' = [end EXCEPT ![k] = "reset"]
    /\ \E n \in 0..Len(up[k]) : up' = [up EXCEPT ![k] = SubSeq(@, 1, n)]
    /\ down' = [down EXCEPT ![k] = <<>>]
    /\ UNCHANGED <<backlog, sent>>
    /\ Client(k)

Clients ==
    \E k \in Conns :
        \/ Connect(k) \/ Handshake(k) \/ ClientSend(k) \/ ClientReceive(k)
        \/ Disconnect(k) \/ Crash(k)

Alive == main # "killed"
Next == Alive /\ (Listener \/ Main \/ Clients)

(***************************************************************************)
(* The scheduler runs both threads, and the application polls and takes    *)
(* messages in every frame.  Between two polls the rest of the frame goes  *)
(* by, in which the listener thread gets the lock of the list: hence       *)
(* strong fairness for New.  A client's Connect() goes on from connect()   *)
(* to the handshake.  Nobody has to connect, send, answer, stop or fail.   *)
(***************************************************************************)
Fairness ==
    /\ WF_vars(Alive /\ Listener)
    /\ SF_vars(Alive /\ New)
    /\ WF_vars(Alive /\ (PollStep \/ Wakeup \/ LetDie \/ Join))
    /\ WF_vars(Alive /\ PollStart)
    /\ SF_vars(Alive /\ GetMsg)
    /\ \A k \in Conns : WF_vars(Alive /\ Handshake(k))

Spec == Init /\ [][Next]_vars
FairSpec == Spec /\ Fairness

----------------------------------------------------------------------------
Threads == {"new", "accept", "accepted", "test", "loop", "harakiri", "gone"}
Calls == {"run", "poll", "recv", "wake", "signal", "join", "gone", "killed"}

\* The types; the event is signalled once.
TypeOK ==
    /\ listener \in Threads /\ main \in Calls
    /\ cur \in Ids /\ nextId \in 0..(Cardinality(Ids))
    /\ mini \in [Ids -> [sock : Sockets \cup {NoConn}, blocking : BOOLEAN,
                        linked : BOOLEAN]]
    /\ list \in Seq(Ids) /\ at \in 0..(Len(list) + 1)
    /\ lock \in {Nobody, "main"}
    /\ listening \in BOOLEAN /\ stop \in BOOLEAN /\ shutdown \in 0..1
    /\ backlog \in Seq(Sockets) /\ Len(backlog) <= Backlog
    /\ err \in {"none", "other", "reset"}
    /\ msgs \in Seq([from : Ids, conn : Sockets, msg : Strings])
    /\ asked \subseteq [from : Ids, conn : Sockets]
    /\ end \in [Sockets -> {"none", "connected", "open", "shut", "reset", "broken"}]
    /\ up \in [Sockets -> Seq(Strings)] /\ down \in [Sockets -> Seq(Sockets)]
    /\ sent \in [Conns -> Nat] /\ got \in [Conns -> Seq(Nat)]
    /\ \A k \in Conns : sent[k] <= MaxMsgs[k] /\ got[k] \in Seq(1..MaxMsgs[k])
    /\ replies \in 0..MaxReplies
    /\ {splits, crashes, fails} \subseteq 0..MaxFaults

\* What the application sends to the id that came with a message goes to the
\* client that has sent the message, or to nobody: also when that client has
\* gone meanwhile and others have connected.
RepliesReachSender ==
    \A k \in Sockets : \A i \in 1..Len(down[k]) : down[k][i] = k

\* Every connection and every mini server has one owner: no two mini servers
\* have the same connection, the one that the listener thread will hand over is
\* not in use, and a connection that waits for accept() has none.  Poll leaves
\* nothing behind: a mini server without a socket is the one of the listener
\* thread, or its accept() has failed.
OneOwnerEach ==
    /\ \A i, j \in ToSet(list) : mini[i].sock = mini[j].sock /\ i # j
            => mini[i].sock = NoConn
    /\ \A i \in ToSet(list) : ~Contains(backlog, mini[i].sock)
    /\ listener = "accept" => mini[cur].sock = NoConn
                                          /\ Contains(list, cur)
    /\ Cardinality({i \in ToSet(list) : mini[i].sock = NoConn /\ i # cur}) <= fails

\* IpcChannel is what this server promises the layers above: reliable as long
\* as recv() takes strings whole, no client crashes, and the server does not
\* answer a client that has gone until that fails, which leaves the error code
\* that Poll takes for a reset of the next connection it reads.
Reliable ==
    /\ splits = 0 /\ crashes = 0 /\ ~stop
    /\ \A k \in Conns : end[k] # "broken"
\* The messages under way are those on the server's list and in the stream.
Pending(ms, k) ==
    LET mine == Only(ms, [from : Ids, conn : {k}, msg : Numbers])
    IN  [i \in DOMAIN mine |-> mine[i].msg]
UnderWay == [k \in Conns |-> Pending(msgs, k) \o Only(up[k], Numbers)]
Channel == INSTANCE IpcChannel WITH
    chan <- UnderWay, got <- got, reliable <- Reliable
ImplementsChannel == Channel!Spec

\* Deleting the server ends, once its thread has come to listen: the thread is
\* woken by the dummy connection wherever the stop request finds it.
ShutdownEnds == (main = "wake" /\ listening) ~> (main = "gone")

\* What a client has sent reaches the application, as long as the channels are
\* reliable and unless the main thread waits in recv() for ever.
SentIsHandled ==
    \A k \in Conns : \A n \in 1..MaxMsgs[k] :
        \/ <>[](main = "recv")
        \/ sent[k] >= n ~> (Contains(got[k], n) \/ ~Reliable)

\* What nipcminiserver.cc:123 says, "do a non-blocking recv": Poll comes back
\* whatever the clients do.  It does not, while the listener thread has the
\* socket of a new connection still in blocking mode.
PollReturns == (main \in {"poll", "recv"}) ~> (main = "run")
=============================================================================
