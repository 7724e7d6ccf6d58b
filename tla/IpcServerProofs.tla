-------------------------- MODULE IpcServerProofs ---------------------------
(***************************************************************************)
(* Theorems about IpcServer, for every set of connections and every bound  *)
(* on messages, answers and faults.                                        *)
(***************************************************************************)
EXTENDS IpcServer, ListLemmas

OfClient(k) == {Fragment, HandshakeCmd, CloseCmd} \cup 1..MaxMsgs[k]
Node == {m \in [from : Ids, conn : Conns, msg : Strings] :
            m.msg \in {Fragment} \cup 1..MaxMsgs[m.conn]}

(* What is in a stream and on the message list comes from the client of    *)
(* the connection; the dummy connection carries nothing.                   *)
FromClients(ss, ms) ==
    /\ \A k \in Conns : ss[k] \in Seq(OfClient(k))
    /\ ss[Dummy] = <<>>
    /\ ms \in Seq(Node)

(* The main thread has the lock of the list just while it polls; it wakes  *)
(* the listener thread and signals its event once.                         *)
Controlled(mn, lk, a, ls, sh, en) ==
    /\ IF mn \in {"poll", "recv"} THEN lk = "main" /\ a \in 1..(Len(ls) + 1)
                                  ELSE lk = Nobody /\ a = 0
    /\ mn \in {"run", "poll", "recv", "wake", "signal"} => sh = 0
    /\ mn \in {"run", "poll", "recv", "wake"} => en[Dummy] = "none"

(* A connection that has been made waits in the queue, or has been taken   *)
(* from it by one mini server, which is on the list as long as it has it.  *)
Owned(mi, ls, bl, en, nx) ==
    /\ IsInjective(bl) /\ \A k \in Sockets : Contains(bl, k) => en[k] # "none"
    /\ IsInjective(ls) /\ \A i \in Ids : Contains(ls, i) => i < nx
    /\ \A i \in Ids : mi[i].sock # NoConn =>
          Contains(ls, i) /\ en[mi[i].sock] # "none" /\ ~Contains(bl, mi[i].sock)
    /\ \A i, j \in Ids : mi[i].sock = mi[j].sock /\ i # j => mi[i].sock = NoConn

(* Every mini server has taken a connection from the queue, or its         *)
(* accept() has failed or is still to return.                              *)
Taken(en, bl) == {k \in Sockets : en[k] # "none" /\ ~Contains(bl, k)}
Counted(nx, en, bl, lr, fs) ==
    nx <= Cardinality(Taken(en, bl)) + fs + (IF lr = "accept" THEN 1 ELSE 0)

(* Which mini servers on the list have no socket, by where the listener    *)
(* thread is.                                                              *)
Unbound(mi, ls) == {i \in Ids : Contains(ls, i) /\ mi[i].sock = NoConn}
HandedOver(lr, c, mi, ls, st, fs) ==
    /\ lr = "accept" => c \in Unbound(mi, ls)
    /\ lr \in {"accepted", "test"} => c \notin Unbound(mi, ls)
    /\ Cardinality(Unbound(mi, ls) \ {c}) <= fs
    /\ lr = "new" \/ (lr = "loop" /\ ~st) => Cardinality(Unbound(mi, ls)) <= fs

(* The id that came with a message stands for the client that has sent it, *)
(* or for nobody any more.                                                 *)
Fits(m, mi, nx, lr, c) ==
    /\ m.from < nx /\ mi[m.from].sock \in {NoConn, m.conn}
    /\ lr = "accept" => m.from # c
Addressed(as, ms, mi, nx, lr, c) ==
    /\ \A a \in as : a.from \in Ids /\ Fits(a, mi, nx, lr, c)
    /\ \A i \in DOMAIN ms : Fits(ms[i], mi, nx, lr, c)

IInv ==
    /\ TypeOK /\ splits + crashes + fails <= MaxFaults
    /\ FromClients(up, msgs)
    /\ Controlled(main, lock, at, list, shutdown, end)
    /\ Owned(mini, list, backlog, end, nextId)
    /\ Counted(nextId, end, backlog, listener, fails)
    /\ HandedOver(listener, cur, mini, list, stop, fails)
    /\ Addressed(asked, msgs, mini, nextId, listener, cur)
    /\ RepliesReachSender
-----------------------------------------------------------------------------
(* The constants.                                                          *)

LEMMA Constants ==
    /\ IsFiniteSet(Conns) /\ Cardinality(Conns) \in Nat /\ MaxFaults \in Nat
    /\ IsFiniteSet(Sockets) /\ Cardinality(Sockets) = Cardinality(Conns) + 1
    /\ Ids = 0..(Cardinality(Conns) + MaxFaults + 1) /\ IsFiniteSet(Ids)
    /\ Cardinality(Ids) = Cardinality(Conns) + MaxFaults + 2
    /\ Dummy \notin Conns /\ NoConn \notin Sockets /\ 0 \in Ids
    /\ Conns \subseteq Sockets /\ Dummy \in Sockets
    /\ \A k \in Conns : MaxMsgs[k] \in Nat /\ MaxMsgs[k] > 0
    /\ \A k \in Conns : OfClient(k) \subseteq Strings /\ 1..MaxMsgs[k] \subseteq Nat
    /\ Strings \subseteq Int
<1>1. IsFiniteSet(Conns) /\ MaxFaults \in Nat /\ Dummy \notin Conns
  BY IpcAssumption
<1>2. Cardinality(Conns) \in Nat
  BY <1>1, FS_CardinalityType
<1>3. IsFiniteSet(Sockets) /\ Cardinality(Sockets) = Cardinality(Conns) + 1
  BY <1>1, FS_AddElement DEF Sockets
<1>4. /\ IsFiniteSet(Ids) /\ Cardinality(Ids) = Cardinality(Conns) + MaxFaults + 2
  BY <1>1, <1>2, FS_Interval, SMTT(30) DEF Ids
<1>5. \A k \in Conns : MaxMsgs[k] \in Nat /\ MaxMsgs[k] > 0
  BY IpcAssumption
<1>6. \A k \in Conns : OfClient(k) \subseteq Strings /\ 1..MaxMsgs[k] \subseteq Nat
  BY <1>5 DEF OfClient, Strings, Numbers
<1>7. Strings \subseteq Int
  BY <1>5 DEF Strings, Numbers, Fragment, HandshakeCmd, CloseCmd
<1>8. QED
  BY <1>1, <1>2, <1>3, <1>4, <1>5, <1>6, <1>7, IpcAssumption DEF Ids, Sockets

-----------------------------------------------------------------------------
(* What Poll takes out of a stream.                                        *)

LEMMA NodesOfClient ==
    ASSUME NEW k \in Conns, NEW s \in Seq(OfClient(k)), Sock = k, Polled \in Ids
    PROVE  /\ Nodes(s) \in Seq(Node)
           /\ \A i \in DOMAIN Nodes(s) : Nodes(s)[i].from = Polled /\ Nodes(s)[i].conn = k
<1> DEFINE keep == {i \in DOMAIN s : s[i] \notin {HandshakeCmd, CloseCmd}}
           user == Sublist(s, keep)
           id == Polled
<1>1. s \in Seq(Strings) /\ keep \in SUBSET (1..Len(s))
  BY Constants
<1>2. user \in Seq(Strings) /\ \A i \in 1..Len(user) : \E j \in keep : user[i] = s[j]
  <2> HIDE DEF keep
  <2>1. QED
    BY <1>1, SublistElements
<1>3. DOMAIN user = 1..Len(user) /\ Len(user) \in Nat
  BY <1>2
<1>4. ASSUME NEW i \in 1..Len(user)
      PROVE  user[i] \in Strings /\ user[i] \in {Fragment} \cup 1..MaxMsgs[k]
  <2>1. PICK j \in keep : user[i] = s[j]
    BY <1>2
  <2>2. user[i] \in OfClient(k) /\ user[i] \notin {HandshakeCmd, CloseCmd}
    BY <2>1
  <2>3. QED
    BY <1>2, <2>2 DEF OfClient
<1>5. Nodes(s) = [i \in 1..Len(user) |-> [from |-> id, conn |-> k, msg |-> user[i]]]
  BY <1>3 DEF Nodes, LeaveOut
<1> HIDE DEF user, id
<1>6. \A i \in 1..Len(user) : [from |-> id, conn |-> k, msg |-> user[i]] \in Node
  <2>1. id \in Ids
    BY DEF id
  <2>2. QED
    BY <1>4, <2>1 DEF Node
<1>7. Nodes(s) \in Seq(Node)
  BY <1>3, <1>5, <1>6
<1>8. QED
  BY <1>5, <1>7 DEF id

-----------------------------------------------------------------------------
(* The types.                                                              *)

LEMMA Summands ==
    ASSUME IInv
    PROVE  splits \in Nat /\ crashes \in Nat /\ fails \in Nat
BY Constants DEF IInv, TypeOK

LEMMA IdsSuffice ==
    ASSUME IInv, listener = "new"
    PROVE  nextId \in Ids
<1>1. Taken(end, backlog) \subseteq Sockets
  BY DEF Taken
<1>2. /\ Cardinality(Taken(end, backlog)) \in Nat
      /\ Cardinality(Taken(end, backlog)) <= Cardinality(Conns) + 1
  BY <1>1, Constants, FS_Subset, FS_CardinalityType
<1>3. nextId <= Cardinality(Taken(end, backlog)) + fails
  BY Summands, <1>2 DEF IInv, Counted
<1>4. fails <= MaxFaults
  BY Summands, Constants DEF IInv
<1>5. nextId \in Nat
  BY Constants DEF IInv, TypeOK
<1>6. QED
  BY <1>2, <1>3, <1>4, <1>5, Summands, Constants

LEMMA TypeInit == Init => TypeOK
<1> SUFFICES ASSUME Init
             PROVE  TypeOK
  OBVIOUS
<1>1. /\ listener \in Threads /\ main \in Calls
      /\ cur \in Ids /\ nextId \in 0..(Cardinality(Ids))
  BY Constants DEF Init, Threads, Calls
<1>2. mini \in [Ids -> [sock : Sockets \cup {NoConn}, blocking : BOOLEAN,
                        linked : BOOLEAN]]
  BY DEF Init, Fresh
<1>3. /\ list \in Seq(Ids) /\ at \in 0..(Len(list) + 1)
      /\ lock \in {Nobody, "main"}
      /\ listening \in BOOLEAN /\ stop \in BOOLEAN /\ shutdown \in 0..1
      /\ backlog \in Seq(Sockets) /\ Len(backlog) <= Backlog
      /\ err \in {"none", "other", "reset"}
  <2>1. Backlog \in Nat /\ Backlog >= 0
    BY IpcAssumption
  <2>2. Len(<<>>) = 0 /\ <<>> \in Seq(Ids) /\ <<>> \in Seq(Sockets)
    OBVIOUS
  <2>3. list = <<>> /\ at = 0 /\ backlog = <<>> /\ lock = Nobody
    BY DEF Init
  <2>4. listening \in BOOLEAN /\ stop \in BOOLEAN
    BY DEF Init
  <2>5. shutdown \in 0..1 /\ err \in {"none", "other", "reset"}
    BY DEF Init
  <2>6. QED
    BY <2>1, <2>2, <2>3, <2>4, <2>5
<1>4. /\ msgs \in Seq([from : Ids, conn : Sockets, msg : Strings])
      /\ asked \subseteq [from : Ids, conn : Sockets]
      /\ end \in [Sockets -> {"none", "connected", "open", "shut", "reset", "broken"}]
      /\ up \in [Sockets -> Seq(Strings)] /\ down \in [Sockets -> Seq(Sockets)]
  BY DEF Init
<1>5. /\ sent \in [Conns -> Nat] /\ got \in [Conns -> Seq(Nat)]
      /\ \A k \in Conns : sent[k] <= MaxMsgs[k] /\ got[k] \in Seq(1..MaxMsgs[k])
  BY Constants DEF Init
<1>6. /\ replies \in 0..MaxReplies
      /\ {splits, crashes, fails} \subseteq 0..MaxFaults
  BY IpcAssumption DEF Init
<1>7. QED
  BY <1>1, <1>2, <1>3, <1>4, <1>5, <1>6 DEF TypeOK

LEMMA ListenerTypes ==
    ASSUME IInv, Listener
    PROVE  TypeOK'
<1>1. TypeOK
  BY DEF IInv
<1> USE <1>1 DEF Goto, Threads, thread, minis, shut, owner, net, faults
<1>2. CASE New
  <2>1. nextId \in Ids /\ nextId + 1 \in 0..Cardinality(Ids)
    BY <1>2, IdsSuffice, Constants DEF New
  <2>2. list \in Seq(Ids) /\ at = 0
    BY <1>2 DEF New, CanLock, Nobody, IInv, Controlled, TypeOK
  <2>3. list' \in Seq(Ids) /\ at' \in 0..(Len(list') + 1)
    BY <1>2, <2>1, <2>2, AppendProperties DEF New
  <2>4. QED
    BY <1>2, <2>1, <2>3 DEF New, TypeOK
<1>3. CASE Accept
  <2>1. Head(backlog) \in Sockets /\ Tail(backlog) \in Seq(Sockets)
        /\ Len(Tail(backlog)) <= Backlog
    BY <1>3, IpcAssumption, SMTT(30) DEF Accept, TypeOK
  <2>2. mini' \in [Ids -> [sock : Sockets \cup {NoConn}, blocking : BOOLEAN,
                          linked : BOOLEAN]]
    BY <1>3, <2>1 DEF Accept, TypeOK
  <2>3. QED
    BY <1>3, <2>1, <2>2 DEF Accept, TypeOK
<1>4. CASE AcceptFails
  <2>1. fails' \in 0..MaxFaults
    BY <1>4, Summands, Constants DEF AcceptFails, Fault
  <2>2. QED
    BY <1>4, <2>1 DEF AcceptFails, TypeOK
<1>5. CASE SetNonBlocking
  BY <1>5 DEF SetNonBlocking, TypeOK
<1>6. CASE Ignore
  BY <1>6 DEF Ignore, TypeOK
<1>7. CASE Loop
  BY <1>7 DEF Loop, TypeOK
<1>8. CASE ThreadHarakiri
  <2>1. shutdown' \in 0..1
    BY <1>8 DEF ThreadHarakiri, CanWait, WaitEvent, TypeOK
  <2>2. QED
    BY <1>8, <2>1 DEF ThreadHarakiri, TypeOK
<1>9. QED
  BY <1>2, <1>3, <1>4, <1>5, <1>6, <1>7, <1>8 DEF Listener

(* The mini server Poll has come to. *)
LEMMA PolledOne ==
    ASSUME IInv, Polling
    PROVE  /\ at \in 1..Len(list) /\ Polled \in Ids /\ Contains(list, Polled)
           /\ Sock \in Sockets \cup {NoConn} /\ lock = "main"
           /\ RemoveAt(list, at) \in Seq(Ids) /\ Len(RemoveAt(list, at)) = Len(list) - 1
<1>1. list \in Seq(Ids) /\ at \in 1..Len(list)
  BY DEF TypeOK, IInv, Controlled, Polling
<1>2. Polled \in Ids /\ Contains(list, Polled)
  BY <1>1 DEF Polled, Contains
<1>3. Sock \in Sockets \cup {NoConn}
  BY <1>2 DEF Sock, IInv, TypeOK
<1>4. lock = "main"
  BY DEF IInv, Controlled, Polling
<1>5. QED
  BY <1>1, <1>2, <1>3, <1>4, RemoveAtProperties

LEMMA StaysOrGoes ==
    ASSUME IInv, Polling, Stays \/ Goes
    PROVE  list' \in Seq(Ids) /\ at' \in 1..(Len(list') + 1) /\ main' = "poll"
<1>1. CASE Stays
  BY <1>1, PolledOne, SMTT(30) DEF Stays, IInv, TypeOK
<1>2. CASE Goes
  BY <1>2, PolledOne, SMTT(30) DEF Goes, IInv, TypeOK
<1>3. QED
  BY <1>1, <1>2

MiniServer == [sock : Sockets \cup {NoConn}, blocking : BOOLEAN, linked : BOOLEAN]

LEMMA ReceivedTypes ==
    ASSUME IInv, Polling, NEW k \in Conns, Sock = k,
           NEW s \in Seq(OfClient(k)), NEW rest \in Seq(OfClient(k)), Received(s, rest)
    PROVE  /\ list' \in Seq(Ids) /\ at' \in 1..(Len(list') + 1) /\ main' = "poll"
           /\ mini' \in [Ids -> MiniServer]
           /\ up' \in [Sockets -> Seq(Strings)]
           /\ FromClients(up', msgs')
<1>1. list' \in Seq(Ids) /\ at' \in 1..(Len(list') + 1) /\ main' = "poll"
  BY StaysOrGoes DEF Received
<1>2. mini' \in [Ids -> MiniServer]
  <2>1. mini \in [Ids -> MiniServer] /\ Fresh \in MiniServer
    BY DEF IInv, TypeOK, MiniServer, Fresh
  <2>2. \A m \in MiniServer : [m EXCEPT !.linked = TRUE] \in MiniServer
    BY DEF MiniServer
  <2>3. mini' = [mini EXCEPT ![Polled] = [mini[Polled] EXCEPT !.linked = TRUE]]
        \/ mini' = [mini EXCEPT ![Polled] = Fresh]
    BY DEF Received
  <2>4. QED
    BY <2>1, <2>2, <2>3, PolledOne
<1>3. rest \in Seq(Strings) /\ <<>> \in Seq(Strings) /\ <<>> \in Seq(OfClient(k))
  BY Constants
<1>4. up' = [up EXCEPT ![k] = rest] \/ up' = [up EXCEPT ![k] = <<>>]
  BY DEF Received
<1>5. up \in [Sockets -> Seq(Strings)] /\ k \in Sockets /\ k # Dummy
  BY Constants DEF IInv, TypeOK
<1>6. up' \in [Sockets -> Seq(Strings)]
  BY <1>3, <1>4, <1>5
<1>7. msgs' \in Seq(Node)
  BY NodesOfClient, PolledOne, ConcatProperties DEF Received, IInv, FromClients
<1>8. /\ \A j \in Conns : up'[j] \in Seq(OfClient(j))
      /\ up'[Dummy] = <<>>
  BY <1>3, <1>4, <1>5, Constants DEF IInv, FromClients
<1>9. QED
  BY <1>1, <1>2, <1>6, <1>7, <1>8 DEF FromClients

(* A list of nodes is a list of messages. *)
LEMMA NodesAreTyped == \A q \in Seq(Node) : q \in Seq([from : Ids, conn : Sockets, msg : Strings])
<1>1. Node \subseteq [from : Ids, conn : Sockets, msg : Strings]
  BY Constants DEF Node
<1>2. QED
  BY <1>1, SeqMonotonic

LEMMA StringsLeft ==
    ASSUME NEW T, NEW q \in Seq(T), NEW n \in 1..Len(q)
    PROVE  /\ SubSeq(q, 1, n) \in Seq(T) /\ SubSeq(q, n + 1, Len(q)) \in Seq(T)
           /\ \A x \in T : <<x>> \o SubSeq(q, n + 1, Len(q)) \in Seq(T)
OBVIOUS

(* What Receive and ReceiveSplit do, as an instance of Received. *)
LEMMA ReceiveIsReceived ==
    ASSUME IInv, Polling, Sock # NoConn, NEW n \in 1..Len(up[Sock]),
           Receive(n) \/ ReceiveSplit(n)
    PROVE  \E s, rest \in Seq(OfClient(Sock)) : Sock \in Conns /\ Received(s, rest)
<1>1. Sock \in Conns
  <2>1. Sock \in Sockets
    BY PolledOne
  <2>2. Sock # Dummy
    BY DEF IInv, FromClients
  <2>3. QED
    BY <2>1, <2>2 DEF Sockets
<1>2. up[Sock] \in Seq(OfClient(Sock)) /\ Fragment \in OfClient(Sock) /\ <<>> \in Seq(OfClient(Sock))
  BY <1>1 DEF IInv, FromClients, OfClient
<1>3. CASE Receive(n)
  BY <1>1, <1>2, <1>3, StringsLeft DEF Receive
<1>4. CASE ReceiveSplit(n)
  BY <1>1, <1>2, <1>4, StringsLeft DEF ReceiveSplit
<1>5. QED
  BY <1>3, <1>4

LEMMA PollTypes ==
    ASSUME IInv, PollStart \/ PollStep
    PROVE  TypeOK'
<1>1. TypeOK
  BY DEF IInv
<1> USE <1>1 DEF thread, minis, shut, owner, net, faults
<1>2. CASE PollStart
  BY <1>2 DEF PollStart, TypeOK, Calls
<1>3. CASE PollEnd
  BY <1>3 DEF PollEnd, TypeOK, Calls
<1>4. CASE PollUnbound
  BY <1>4, StaysOrGoes, SMTT(30) DEF PollUnbound, TypeOK, Calls
<1>5. CASE WouldBlock
  BY <1>5, StaysOrGoes, SMTT(30) DEF WouldBlock, TypeOK, Calls
<1>6. CASE Block
  BY <1>6 DEF Block, TypeOK, Calls
<1>7. CASE ConnectionClosed
  <2>1. mini' \in [Ids -> MiniServer]
    BY <1>7, PolledOne DEF ConnectionClosed, TypeOK, MiniServer, Fresh
  <2>2. err' \in {"none", "other", "reset"}
    BY <1>7 DEF ConnectionClosed, TypeOK
  <2>3. list' \in Seq(Ids) /\ at' \in 1..(Len(list') + 1) /\ main' = "poll"
    BY <1>7, StaysOrGoes DEF ConnectionClosed
  <2>4. QED
    BY <1>7, <2>1, <2>2, <2>3, SMTT(60) DEF ConnectionClosed, TypeOK, Calls, MiniServer
<1>8. CASE Polling /\ Sock # NoConn /\ \E n \in 1..Len(up[Sock]) : Receive(n) \/ ReceiveSplit(n)
  <2>1. PICK n \in 1..Len(up[Sock]) : Receive(n) \/ ReceiveSplit(n)
    BY <1>8
  <2>2. /\ list' \in Seq(Ids) /\ at' \in 1..(Len(list') + 1) /\ main' = "poll"
        /\ mini' \in [Ids -> MiniServer]
        /\ up' \in [Sockets -> Seq(Strings)]
        /\ msgs' \in Seq([from : Ids, conn : Sockets, msg : Strings])
    BY <1>8, <2>1, ReceiveIsReceived, ReceivedTypes, NodesAreTyped DEF FromClients
  <2>3. CASE Receive(n)
    BY <2>2, <2>3, SMTT(60) DEF Receive, TypeOK, Calls, MiniServer
  <2>4. CASE ReceiveSplit(n)
    <3>1. splits' \in 0..MaxFaults
      BY <2>4, Summands, Constants DEF ReceiveSplit, Fault
    <3>2. QED
      BY <2>2, <2>4, <3>1, SMTT(60) DEF ReceiveSplit, TypeOK, Calls, MiniServer
  <2>5. QED
    BY <2>1, <2>3, <2>4
<1>9. QED
  BY <1>2, <1>3, <1>4, <1>5, <1>6, <1>7, <1>8 DEF PollStep

LEMMA OwnerTypes ==
    ASSUME IInv, GetMsg \/ Send \/ Stop \/ Wakeup \/ LetDie \/ Join
    PROVE  TypeOK'
<1>1. TypeOK
  BY DEF IInv
<1> USE <1>1 DEF thread, minis, shut, owner, net, faults
<1>2. CASE GetMsg
  <2>1. msgs \in Seq(Node) /\ msgs # <<>>
    BY <1>2 DEF GetMsg, IInv, FromClients
  <2>2. Head(msgs) \in Node /\ Tail(msgs) \in Seq(Node)
    BY <2>1
  <2>3. PICK m \in Node : m = Head(msgs)
    BY <2>2
  <2>4. /\ m.from \in Ids /\ m.conn \in Conns
        /\ m.msg # Fragment => m.msg \in 1..MaxMsgs[m.conn]
    BY <2>3 DEF Node
  <2>5. /\ got' = IF m.msg = Fragment THEN got ELSE [got EXCEPT ![m.conn] = Append(@, m.msg)]
        /\ asked' = {[from |-> m.from, conn |-> m.conn]}
        /\ msgs' = Tail(msgs)
    BY <1>2, <2>3 DEF GetMsg
  <2>6. asked' \subseteq [from : Ids, conn : Sockets]
    BY <2>4, <2>5, Constants
  <2>7. msgs' \in Seq([from : Ids, conn : Sockets, msg : Strings])
    BY <2>2, <2>5, NodesAreTyped
  <2>8. /\ got' \in [Conns -> Seq(Nat)]
        /\ \A k \in Conns : got'[k] \in Seq(1..MaxMsgs[k])
    <3>1. /\ got \in [Conns -> Seq(Nat)]
          /\ \A k \in Conns : got[k] \in Seq(1..MaxMsgs[k])
      BY DEF TypeOK
    <3>2. CASE m.msg = Fragment
      BY <2>5, <3>1, <3>2
    <3>3. CASE m.msg # Fragment
      <4>1. m.msg \in 1..MaxMsgs[m.conn] /\ m.msg \in Nat
        BY <2>4, <3>3, Constants
      <4>2. /\ Append(got[m.conn], m.msg) \in Seq(Nat)
            /\ Append(got[m.conn], m.msg) \in Seq(1..MaxMsgs[m.conn])
        BY <2>4, <3>1, <4>1, AppendProperties
      <4>3. QED
        BY <2>4, <2>5, <3>1, <3>3, <4>2
    <3>4. QED
      BY <3>2, <3>3
  <2>9. QED
    BY <1>2, <2>6, <2>7, <2>8 DEF GetMsg, TypeOK
<1>3. CASE Send
  <2>1. /\ replies' \in 0..MaxReplies /\ asked' \subseteq [from : Ids, conn : Sockets]
    BY <1>3, IpcAssumption DEF Send, TypeOK
  <2>2. /\ end \in [Sockets -> {"none", "connected", "open", "shut", "reset", "broken"}]
        /\ down \in [Sockets -> Seq(Sockets)]
        /\ err \in {"none", "other", "reset"} /\ main \in Calls
    BY DEF TypeOK
  <2>3. PICK a \in asked :
          IF /\ Contains(list, a.from) /\ Target(a.from) # NoConn
             /\ mini[a.from].linked
          THEN Answer(Target(a.from), a.conn)
          ELSE UNCHANGED <<down, end, err, main>>
    BY <1>3 DEF Send
  <2>4. /\ end' \in [Sockets -> {"none", "connected", "open", "shut", "reset", "broken"}]
        /\ down' \in [Sockets -> Seq(Sockets)]
        /\ err' \in {"none", "other", "reset"} /\ main' \in Calls
    <3>1. CASE UNCHANGED <<down, end, err, main>>
      BY <2>2, <3>1
    <3>2. CASE Target(a.from) # NoConn /\ Answer(Target(a.from), a.conn)
      <4>1. a.from \in Ids /\ a.conn \in Sockets
        BY DEF TypeOK
      <4>2. PICK k \in Sockets : k = Target(a.from)
        BY <3>2, <4>1 DEF TypeOK, Target
      <4>3. CASE end[k] \in {"connected", "open"}
        <5>1. down' = [down EXCEPT ![k] = Append(down[k], a.conn)] /\ UNCHANGED <<end, err, main>>
          BY <3>2, <4>2, <4>3 DEF Answer
        <5>2. Append(down[k], a.conn) \in Seq(Sockets)
          BY <2>2, <4>1, AppendProperties
        <5>3. QED
          BY <2>2, <5>1, <5>2
      <4>4. CASE end[k] = "shut"
        BY <2>2, <3>2, <4>2, <4>4 DEF Answer
      <4>5. CASE end[k] = "reset"
        BY <2>2, <3>2, <4>2, <4>5 DEF Answer
      <4>6. CASE end[k] = "broken"
        BY <2>2, <3>2, <4>2, <4>6 DEF Answer, Calls
      <4>7. CASE end[k] = "none"
        BY <3>2, <4>1, <4>2, <4>7 DEF IInv, Owned, Target
      <4>8. QED
        BY <2>2, <4>3, <4>4, <4>5, <4>6, <4>7
    <3>3. QED
      BY <2>3, <3>1, <3>2
  <2>5. main \notin {"poll", "recv"} /\ UNCHANGED <<at, list>>
    BY <1>3 DEF Send
  <2>6. QED
    BY <1>3, <2>1, <2>4, <2>5 DEF Send, TypeOK
<1>4. CASE Stop
  BY <1>4 DEF Stop, TypeOK, Calls
<1>5. CASE Wakeup
  <2>1. /\ end \in [Sockets -> {"none", "connected", "open", "shut", "reset", "broken"}]
        /\ backlog \in Seq(Sockets) /\ Len(backlog) <= Backlog /\ Dummy \in Sockets
    BY Constants DEF TypeOK
  <2>2. /\ end' \in [Sockets -> {"none", "connected", "open", "shut", "reset", "broken"}]
        /\ backlog' \in Seq(Sockets) /\ Len(backlog') <= Backlog
    <3>1. CASE listening /\ Len(backlog) < Backlog
      <4>1. /\ backlog' = Append(backlog, Dummy) /\ end' = [end EXCEPT ![Dummy] = "shut"]
            /\ Backlog \in Nat
        BY <1>5, <3>1, IpcAssumption DEF Wakeup
      <4>2. backlog' \in Seq(Sockets) /\ Len(backlog') = Len(backlog) + 1
        BY <2>1, <4>1, AppendProperties
      <4>3. QED
        BY <2>1, <3>1, <4>1, <4>2
    <3>2. CASE ~(listening /\ Len(backlog) < Backlog)
      BY <1>5, <2>1, <3>2 DEF Wakeup
    <3>3. QED
      BY <3>1, <3>2
  <2>3. QED
    BY <1>5, <2>2 DEF Wakeup, TypeOK, Calls
<1>6. CASE LetDie
  <2>1. shutdown' \in 0..1
    BY <1>6, CountingEventAssumption DEF LetDie, SignalEvent, IInv, Controlled
  <2>2. QED
    BY <1>6, <2>1 DEF LetDie, TypeOK, Calls
<1>7. CASE Join
  <2>1. at = 0
    BY <1>7 DEF Join, IInv, Controlled
  <2>2. /\ list' \in Seq(Ids) /\ Len(list') = 0
        /\ backlog' \in Seq(Sockets) /\ Len(backlog') <= Backlog
        /\ msgs' \in Seq([from : Ids, conn : Sockets, msg : Strings])
    BY <1>7, IpcAssumption DEF Join
  <2>3. /\ mini' \in [Ids -> MiniServer]
        /\ up' \in [Sockets -> Seq(Strings)]
    BY <1>7 DEF Join, Fresh, MiniServer
  <2>4. /\ main' = "gone" /\ listening' = FALSE /\ at' \in 0..(Len(list') + 1)
        /\ UNCHANGED <<listener, cur, nextId, lock, stop, shutdown, err, asked,
                       end, down, sent, got, replies, splits, crashes, fails>>
    BY <1>7, <2>1, <2>2 DEF Join
  <2>5. QED
    BY <2>2, <2>3, <2>4 DEF TypeOK, Calls, MiniServer
<1>8. QED
  BY <1>2, <1>3, <1>4, <1>5, <1>6, <1>7

(* What a client writes is a string of its own; it is lost where nobody    *)
(* reads.                                                                  *)
LEMMA WriteKeeps ==
    ASSUME IInv, NEW k \in Conns, NEW m \in OfClient(k), Write(k, m)
    PROVE  /\ up' \in [Sockets -> Seq(Strings)]
           /\ FromClients(up', msgs)
<1>1. up \in [Sockets -> Seq(Strings)] /\ FromClients(up, msgs)
  BY DEF IInv, TypeOK
<1>2. CASE up' = up
  BY <1>1, <1>2
<1>3. CASE up' = [up EXCEPT ![k] = Append(up[k], m)]
  <2>1. Append(up[k], m) \in Seq(OfClient(k)) /\ k # Dummy /\ k \in Sockets
    BY <1>1, Constants, AppendProperties DEF FromClients
  <2>2. Append(up[k], m) \in Seq(Strings)
    BY <2>1, Constants, SeqMonotonic
  <2>3. QED
    BY <1>1, <1>3, <2>1, <2>2 DEF FromClients
<1>4. QED
  BY <1>2, <1>3 DEF Write

LEMMA ClientTypes ==
    ASSUME IInv, Clients
    PROVE  TypeOK' /\ FromClients(up', msgs')
<1>1. TypeOK
  BY DEF IInv
<1> DEFINE Ends == {"none", "connected", "open", "shut", "reset", "broken"}
<1>2. PICK k \in Conns : \/ Connect(k) \/ Handshake(k) \/ ClientSend(k) \/ ClientReceive(k)
                         \/ Disconnect(k) \/ Crash(k)
  BY DEF Clients
<1>3. UNCHANGED <<thread, minis, shut, owner, got, replies, splits, fails>>
  BY <1>2 DEF Connect, Handshake, ClientSend, ClientReceive, Disconnect, Crash, Client
<1>4. k \in Sockets /\ HandshakeCmd \in OfClient(k) /\ CloseCmd \in OfClient(k)
  BY Constants DEF OfClient
<1>5. /\ end \in [Sockets -> Ends] /\ up \in [Sockets -> Seq(Strings)]
      /\ down \in [Sockets -> Seq(Sockets)] /\ sent \in [Conns -> Nat]
      /\ backlog \in Seq(Sockets) /\ Len(backlog) <= Backlog
      /\ \A j \in Conns : sent[j] <= MaxMsgs[j]
      /\ crashes \in 0..MaxFaults
  BY <1>1 DEF TypeOK
<1>6. FromClients(up, msgs) /\ UNCHANGED msgs
  BY <1>3 DEF IInv, owner
<1>7. /\ up' \in [Sockets -> Seq(Strings)]
      /\ FromClients(up', msgs)
  <2>1. CASE Connect(k) \/ ClientReceive(k)
    BY <1>5, <1>6, <2>1 DEF Connect, ClientReceive
  <2>2. CASE Handshake(k) \/ Disconnect(k)
    BY <1>4, <2>2, WriteKeeps DEF Handshake, Disconnect
  <2>3. CASE ClientSend(k)
    <3>1. sent[k] + 1 \in OfClient(k)
      BY <1>5, <2>3, Constants DEF ClientSend, OfClient
    <3>2. QED
      BY <2>3, <3>1, WriteKeeps DEF ClientSend
  <2>4. CASE Crash(k)
    <3>1. PICK n \in 0..Len(up[k]) : up' = [up EXCEPT ![k] = SubSeq(up[k], 1, n)]
      BY <2>4 DEF Crash
    <3>2. up[k] \in Seq(OfClient(k)) /\ k # Dummy
      BY <1>6, Constants DEF FromClients
    <3>3. SubSeq(up[k], 1, n) \in Seq(OfClient(k))
      BY <3>2
    <3>4. SubSeq(up[k], 1, n) \in Seq(Strings)
      BY <3>3, Constants, SeqMonotonic
    <3>5. QED
      BY <1>4, <1>5, <1>6, <3>1, <3>2, <3>3, <3>4 DEF FromClients
  <2>5. QED
    BY <1>2, <2>1, <2>2, <2>3, <2>4
<1>8. /\ backlog' \in Seq(Sockets) /\ Len(backlog') <= Backlog
  <2>1. CASE Connect(k)
    <3>1. backlog' = Append(backlog, k) /\ Len(backlog) < Backlog /\ Backlog \in Nat
      BY <2>1, IpcAssumption DEF Connect
    <3>2. backlog' \in Seq(Sockets) /\ Len(backlog') = Len(backlog) + 1
      BY <1>4, <1>5, <3>1, AppendProperties
    <3>3. QED
      BY <1>5, <3>1, <3>2
  <2>2. CASE UNCHANGED backlog
    BY <1>5, <2>2
  <2>3. QED
    BY <1>2, <2>1, <2>2 DEF Handshake, ClientSend, ClientReceive, Disconnect, Crash
<1>9. end' \in [Sockets -> Ends]
  BY <1>2, <1>4, <1>5 DEF Connect, Handshake, ClientSend, ClientReceive, Disconnect, Crash
<1>10. down' \in [Sockets -> Seq(Sockets)]
  <2>1. <<>> \in Seq(Sockets)
    OBVIOUS
  <2>2. QED
    BY <1>2, <1>5, <2>1 DEF Connect, Handshake, ClientSend, ClientReceive, Disconnect, Crash
<1>11. /\ sent' \in [Conns -> Nat] /\ \A j \in Conns : sent'[j] <= MaxMsgs[j]
  <2>1. CASE ClientSend(k)
    <3>1. sent' = [sent EXCEPT ![k] = sent[k] + 1] /\ sent[k] < MaxMsgs[k] /\ MaxMsgs[k] \in Nat
      BY <2>1, Constants DEF ClientSend
    <3>2. QED
      BY <1>5, <3>1
  <2>2. CASE UNCHANGED sent
    BY <1>5, <2>2
  <2>3. QED
    BY <1>2, <2>1, <2>2 DEF Connect, Handshake, ClientReceive, Disconnect, Crash
<1>12. crashes' \in 0..MaxFaults
  <2>1. CASE Crash(k)
    <3>1. crashes' = crashes + 1 /\ splits + crashes + fails < MaxFaults
      BY <2>1 DEF Crash, Fault
    <3>2. QED
      BY <3>1, Summands, Constants
  <2>2. CASE UNCHANGED crashes
    BY <1>5, <2>2
  <2>3. QED
    BY <1>2, <2>1, <2>2 DEF Connect, Handshake, ClientSend, ClientReceive, Disconnect
<1>13. QED
  BY <1>1, <1>3, <1>6, <1>7, <1>8, <1>9, <1>10, <1>11, <1>12, SMTT(60)
     DEF TypeOK, thread, minis, shut, owner

LEMMA TypeStep ==
    ASSUME IInv, [Next]_vars
    PROVE  TypeOK'
<1>1. CASE Next
  BY <1>1, ListenerTypes, PollTypes, OwnerTypes, ClientTypes DEF Next, Main
<1>2. CASE UNCHANGED vars
  BY <1>2 DEF vars, thread, minis, shut, owner, net, faults, IInv, TypeOK
<1>3. QED
  BY <1>1, <1>2

-----------------------------------------------------------------------------
(* Faults are counted, and strings come from the clients.                  *)

LEMMA FaultsStep ==
    ASSUME IInv, [Next]_vars
    PROVE  (splits + crashes + fails <= MaxFaults)'
<1> USE DEF thread, minis, shut, owner, net, faults, vars, Client
<1>1. splits + crashes + fails <= MaxFaults
  BY DEF IInv
<1>2. CASE UNCHANGED <<splits, crashes, fails>>
  BY <1>1, <1>2
<1>3. CASE AcceptFails
  BY <1>3, Summands, Constants DEF AcceptFails, Fault
<1>4. CASE \E n \in 1..Len(up[Sock]) : ReceiveSplit(n)
  BY <1>4, Summands, Constants, SMTT(30) DEF ReceiveSplit, Fault
<1>5. CASE \E k \in Conns : Crash(k)
  <2>1. PICK k \in Conns : Crash(k)
    BY <1>5
  <2>2. crashes' = crashes + 1 /\ splits + crashes + fails < MaxFaults
        /\ UNCHANGED <<splits, fails>>
    BY <2>1 DEF Crash, Fault
  <2>3. QED
    BY <2>2, Summands, Constants
<1>6. CASE Clients /\ ~ \E k \in Conns : Crash(k)
  <2>1. PICK k \in Conns : \/ Connect(k) \/ Handshake(k) \/ ClientSend(k) \/ ClientReceive(k)
                           \/ Disconnect(k)
    BY <1>6 DEF Clients
  <2>2. UNCHANGED <<splits, crashes, fails>>
    BY <2>1 DEF Connect, Handshake, ClientSend, ClientReceive, Disconnect
  <2>3. QED
    BY <1>2, <2>2
<1>7. CASE Listener /\ ~AcceptFails
  <2>1. UNCHANGED <<splits, crashes, fails>>
    BY <1>7 DEF Listener, New, Accept, SetNonBlocking, Ignore, Loop, ThreadHarakiri
  <2>2. QED
    BY <1>2, <2>1
<1>8. CASE Main /\ ~ \E n \in 1..Len(up[Sock]) : ReceiveSplit(n)
  <2>1. UNCHANGED <<splits, crashes, fails>>
    BY <1>8 DEF Main, PollStart, PollStep, PollEnd, PollUnbound, WouldBlock, Block,
       ConnectionClosed, Receive, GetMsg, Send, Stop, Wakeup, LetDie, Join
  <2>2. QED
    BY <1>2, <2>1
<1>9. QED
  BY <1>2, <1>3, <1>4, <1>5, <1>6, <1>7, <1>8 DEF Next

LEMMA StringsStep ==
    ASSUME IInv, [Next]_vars
    PROVE  FromClients(up, msgs)'
<1> USE DEF thread, minis, shut, owner, net, faults, vars
<1>1. FromClients(up, msgs)
  BY DEF IInv
<1>2. CASE UNCHANGED <<up, msgs>>
  BY <1>1, <1>2
<1>3. CASE Polling /\ Sock # NoConn /\ \E n \in 1..Len(up[Sock]) : Receive(n) \/ ReceiveSplit(n)
  BY <1>3, ReceiveIsReceived, ReceivedTypes
<1>4. CASE GetMsg
  <2>1. msgs \in Seq(Node) /\ msgs # <<>> /\ msgs' = Tail(msgs) /\ up' = up
    BY <1>1, <1>4 DEF GetMsg, FromClients
  <2>2. msgs' \in Seq(Node)
    BY <2>1
  <2>3. QED
    BY <1>1, <2>1, <2>2 DEF FromClients
<1>5. CASE Join
  BY <1>5, Constants DEF Join, FromClients
<1>6. CASE Clients
  BY <1>6, ClientTypes
<1>7. CASE Listener
  <2>1. UNCHANGED <<up, msgs>>
    BY <1>7 DEF Listener, New, Accept, AcceptFails, SetNonBlocking, Ignore, Loop, ThreadHarakiri
  <2>2. QED
    BY <1>2, <2>1
<1>8. CASE \/ PollStart \/ PollEnd \/ PollUnbound \/ WouldBlock \/ Block \/ ConnectionClosed
           \/ Send \/ Stop \/ Wakeup \/ LetDie
  <2>1. UNCHANGED <<up, msgs>>
    BY <1>8 DEF PollStart, PollEnd, PollUnbound, WouldBlock, Block,
       ConnectionClosed, Send, Stop, Wakeup, LetDie
  <2>2. QED
    BY <1>2, <2>1
<1>9. QED
  BY <1>2, <1>3, <1>4, <1>5, <1>6, <1>7, <1>8 DEF Next, Main, PollStep

-----------------------------------------------------------------------------
(* The lock, the position in the list, and the shutdown event.             *)

(* Send reaches a client, if it does not stop short.                       *)
LEMMA SendReaches ==
    ASSUME IInv, Send
    PROVE  \/ UNCHANGED <<down, end, err, main>>
           \/ \E k \in Conns : /\ Answer(k, k) /\ end[k] # "none"
                               /\ end[k] \in {"connected", "open", "shut", "reset", "broken"}
<1>1. PICK a \in asked : \/ UNCHANGED <<down, end, err, main>>
                         \/ Target(a.from) # NoConn /\ Answer(Target(a.from), a.conn)
  BY DEF Send
<1>2. a.from \in Ids /\ a.conn \in Sockets /\ mini[a.from].sock \in {NoConn, a.conn}
  BY DEF IInv, TypeOK, Addressed, Fits
<1>3. ASSUME Target(a.from) # NoConn
      PROVE  Target(a.from) = a.conn /\ a.conn \in Conns /\ end[a.conn] # "none"
  <2>1. Target(a.from) = a.conn /\ end[a.conn] # "none"
    BY <1>2, <1>3 DEF Target, IInv, Owned
  <2>2. end[Dummy] = "none"
    BY DEF Send, IInv, Controlled
  <2>3. QED
    BY <1>2, <2>1, <2>2 DEF Sockets
<1>4. \A k \in Conns : end[k] # "none" => end[k] \in {"connected", "open", "shut", "reset", "broken"}
  BY Constants DEF IInv, TypeOK
<1>5. QED
  BY <1>1, <1>3, <1>4

LEMMA ControlledStep ==
    ASSUME IInv, [Next]_vars
    PROVE  Controlled(main, lock, at, list, shutdown, end)'
<1> USE DEF thread, minis, shut, owner, net, faults, vars
<1>1. /\ Controlled(main, lock, at, list, shutdown, end)
      /\ list \in Seq(Ids) /\ main \in Calls /\ shutdown \in 0..1
      /\ Dummy \notin Conns /\ Dummy \in Sockets
      /\ end \in [Sockets -> {"none", "connected", "open", "shut", "reset", "broken"}]
  BY Constants DEF IInv, TypeOK
<1>2. CASE UNCHANGED <<main, lock, at, list, shutdown, end>>
  BY <1>1, <1>2
<1>3. CASE New
  BY <1>1, <1>3 DEF New, CanLock, Nobody, Controlled
<1>4. CASE ThreadHarakiri
  BY <1>1, <1>4 DEF ThreadHarakiri, CanWait, WaitEvent, Controlled
<1>5. CASE PollStart
  BY <1>1, <1>5 DEF PollStart, CanLock, Nobody, Controlled
<1>6. CASE PollEnd
  BY <1>1, <1>6 DEF PollEnd, Nobody, Controlled
<1>7. CASE PollUnbound \/ WouldBlock \/ ConnectionClosed
  <2>1. Polling /\ (Stays \/ Goes) /\ UNCHANGED <<lock, shutdown, end>>
    BY <1>7 DEF PollUnbound, WouldBlock, ConnectionClosed
  <2>2. main' = "poll" /\ at' \in 1..(Len(list') + 1)
    BY <2>1, StaysOrGoes
  <2>3. QED
    BY <1>1, <2>1, <2>2 DEF Controlled, Polling
<1>8. CASE Block
  BY <1>1, <1>8 DEF Block, Controlled
<1>9. CASE Polling /\ Sock # NoConn /\ \E n \in 1..Len(up[Sock]) : Receive(n) \/ ReceiveSplit(n)
  <2>1. main' = "poll" /\ at' \in 1..(Len(list') + 1)
    BY <1>9, ReceiveIsReceived, ReceivedTypes
  <2>2. UNCHANGED <<lock, shutdown, end>>
    BY <1>9 DEF Receive, ReceiveSplit
  <2>3. QED
    BY <1>1, <1>9, <2>1, <2>2 DEF Controlled, Polling
<1>10. CASE GetMsg
  BY <1>2, <1>10 DEF GetMsg
<1>11. CASE Send
  <2>1. main = "run" /\ end[Dummy] = "none" /\ UNCHANGED <<lock, at, list, shutdown>>
    BY <1>1, <1>11 DEF Send, Controlled
  <2>2. CASE UNCHANGED <<down, end, err, main>>
    BY <1>2, <2>1, <2>2
  <2>3. ASSUME NEW k \in Conns, Answer(k, k),
               end[k] \in {"connected", "open", "shut", "reset", "broken"}
        PROVE  Controlled(main, lock, at, list, shutdown, end)'
    <3>1. end'[Dummy] = "none" /\ main' \in {"run", "killed"}
      BY <1>1, <2>1, <2>3 DEF Answer
    <3>2. QED
      BY <1>1, <2>1, <3>1 DEF Controlled
  <2>4. QED
    BY <1>11, <2>2, <2>3, SendReaches
<1>12. CASE Stop
  BY <1>1, <1>12 DEF Stop, Controlled
<1>13. CASE Wakeup
  BY <1>1, <1>13 DEF Wakeup, Controlled
<1>14. CASE LetDie
  BY <1>1, <1>14 DEF LetDie, Controlled
<1>15. CASE Join
  BY <1>1, <1>15 DEF Join, Controlled
<1>16. CASE Clients
  <2>1. PICK k \in Conns : \/ Connect(k) \/ Handshake(k) \/ ClientSend(k) \/ ClientReceive(k)
                           \/ Disconnect(k) \/ Crash(k)
    BY <1>16 DEF Clients
  <2>2. UNCHANGED <<main, lock, at, list, shutdown>>
    BY <2>1 DEF Connect, Handshake, ClientSend, ClientReceive, Disconnect, Crash, Client
  <2>3. end'[Dummy] = end[Dummy]
    BY <1>1, <2>1 DEF Connect, Handshake, ClientSend, ClientReceive, Disconnect, Crash
  <2>4. QED
    BY <1>1, <2>2, <2>3 DEF Controlled
<1>17. CASE Accept \/ AcceptFails \/ SetNonBlocking \/ Ignore \/ Loop
  BY <1>2, <1>17 DEF Accept, AcceptFails, SetNonBlocking, Ignore, Loop
<1>18. QED
  BY <1>2, <1>3, <1>4, <1>5, <1>6, <1>7, <1>8, <1>9, <1>10, <1>11, <1>12, <1>13, <1>14,
     <1>15, <1>16, <1>17 DEF Next, Listener, Main, PollStep

-----------------------------------------------------------------------------
(* Connections and mini servers have one owner.                            *)

(* No step but New, Accept, Connect and Wakeup gives anybody anything: it  *)
(* at most takes a connection from a mini server.                          *)
Takes ==
    /\ \A i \in Ids : mini'[i].sock \in {mini[i].sock, NoConn}
    /\ IsInjective(list') /\ \A i \in Ids : Contains(list', i) => Contains(list, i)
    /\ \A i \in Ids : mini'[i].sock # NoConn => Contains(list', i)
    /\ \A k \in Sockets : end[k] # "none" => end'[k] # "none"
    /\ UNCHANGED <<backlog, nextId>>

LEMMA TakesKeeps ==
    ASSUME IInv, Takes
    PROVE  Owned(mini, list, backlog, end, nextId)'
BY DEF Takes, IInv, Owned, TypeOK

(* Without its mini server and its socket. *)
LEMMA GoesTakes ==
    ASSUME IInv, Polling, Sock # NoConn, list' = RemoveAt(list, at),
           mini' = [mini EXCEPT ![Polled] = Fresh], UNCHANGED <<backlog, end, nextId>>
    PROVE  Takes /\ Unbound(mini', list') = Unbound(mini, list)
<1>1. /\ Owned(mini, list, backlog, end, nextId) /\ list \in Seq(Ids)
      /\ at \in 1..Len(list) /\ Polled \in Ids
  BY PolledOne DEF IInv, TypeOK
<1>2. /\ IsInjective(list')
      /\ \A x : Contains(list', x) <=> Contains(list, x) /\ x # Polled
  BY <1>1, RemovedElement DEF Owned, Polled
<1>3. mini \in [Ids -> MiniServer]
  BY DEF IInv, TypeOK, MiniServer
<1>4. \A i \in Ids : mini'[i].sock = IF i = Polled THEN NoConn ELSE mini[i].sock
  BY <1>1, <1>3 DEF Fresh
<1>5. Unbound(mini', list') = Unbound(mini, list)
  BY <1>1, <1>2, <1>4 DEF Unbound, Sock
<1>6. QED
  BY <1>1, <1>2, <1>4, <1>5 DEF Takes, Owned

LEMMA StaysTakes ==
    ASSUME IInv, \A i \in Ids : mini'[i].sock \in {mini[i].sock, NoConn},
           UNCHANGED <<list, backlog, nextId>>,
           \A k \in Sockets : end[k] # "none" => end'[k] # "none"
    PROVE  Takes
BY DEF Takes, IInv, Owned, TypeOK

(* Poll takes the connection from the mini server as a whole, or changes   *)
(* no socket.                                                              *)
LEMMA PollTakes ==
    ASSUME IInv, PollStep
    PROVE  /\ Takes /\ Unbound(mini', list') = Unbound(mini, list)
           /\ UNCHANGED <<end, backlog, nextId, listener, cur, fails, stop, down>>
<1> USE DEF thread, minis, shut, owner, net, faults
<1>1. UNCHANGED <<end, backlog, nextId, listener, cur, fails, stop, down>>
  BY DEF PollStep, PollEnd, PollUnbound, WouldBlock, Block, ConnectionClosed, Receive,
         ReceiveSplit
<1>2. CASE PollEnd \/ PollUnbound \/ WouldBlock \/ Block
  <2>1. UNCHANGED <<mini, list>>
    BY <1>2 DEF PollEnd, PollUnbound, WouldBlock, Block, Stays
  <2>2. QED
    BY <1>1, <2>1, StaysTakes
<1>3. CASE ConnectionClosed
  BY <1>1, <1>3, GoesTakes DEF ConnectionClosed, Goes
<1>4. CASE Polling /\ Sock # NoConn /\ \E n \in 1..Len(up[Sock]) : Receive(n) \/ ReceiveSplit(n)
  <2>1. PICK s, rest : Received(s, rest)
    BY <1>4, ReceiveIsReceived
  <2>2. \/ /\ mini' = [mini EXCEPT ![Polled] = [mini[Polled] EXCEPT !.linked = TRUE]]
           /\ UNCHANGED list
        \/ mini' = [mini EXCEPT ![Polled] = Fresh] /\ list' = RemoveAt(list, at)
    BY <2>1 DEF Received, Stays, Goes
  <2>3. CASE mini' = [mini EXCEPT ![Polled] = [mini[Polled] EXCEPT !.linked = TRUE]]
             /\ UNCHANGED list
    <3>1. mini \in [Ids -> MiniServer] /\ Polled \in Ids
      BY <1>4, PolledOne DEF IInv, TypeOK, MiniServer
    <3>2. [mini[Polled] EXCEPT !.linked = TRUE].sock = mini[Polled].sock
      BY <3>1 DEF MiniServer
    <3>3. \A i \in Ids : mini'[i].sock = mini[i].sock
      BY <2>3, <3>1, <3>2
    <3>4. Unbound(mini', list') = Unbound(mini, list)
      BY <2>3, <3>3 DEF Unbound
    <3>5. QED
      BY <1>1, <2>3, <3>3, <3>4, StaysTakes
  <2>4. QED
    BY <1>1, <1>4, <2>2, <2>3, GoesTakes
<1>5. QED
  BY <1>1, <1>2, <1>3, <1>4 DEF PollStep

(* A connection that did not exist joins the queue. *)
LEMMA QueuedKeeps ==
    ASSUME IInv, NEW k \in Sockets, end[k] = "none", backlog' = Append(backlog, k),
           NEW e \in {"connected", "shut"}, end' = [end EXCEPT ![k] = e],
           UNCHANGED <<mini, list, nextId>>
    PROVE  Owned(mini, list, backlog, end, nextId)'
<1>1. /\ Owned(mini, list, backlog, end, nextId) /\ backlog \in Seq(Sockets)
      /\ end \in [Sockets -> {"none", "connected", "open", "shut", "reset", "broken"}]
      /\ \A i \in Ids : mini[i].sock # NoConn => mini[i].sock \in Sockets
  BY DEF IInv, TypeOK
<1>2. ~Contains(backlog, k) /\ \A i \in Ids : mini[i].sock # k
  BY <1>1, Constants DEF Owned
<1>3. /\ IsInjective(backlog')
      /\ \A x : Contains(backlog', x) <=> Contains(backlog, x) \/ x = k
  BY <1>1, <1>2, AppendedElement DEF Owned
<1>4. \A j \in Sockets : end'[j] = IF j = k THEN e ELSE end[j]
  BY <1>1
<1>5. QED
  BY <1>1, <1>2, <1>3, <1>4 DEF Owned

LEMMA AcceptKeeps ==
    ASSUME IInv, Accept
    PROVE  /\ Owned(mini, list, backlog, end, nextId)'
           /\ \E k \in Sockets : /\ k = Head(backlog) /\ end[k] # "none" /\ Contains(backlog, k)
                                 /\ \A x : Contains(backlog', x) <=> Contains(backlog, x) /\ x # k
                                 /\ \A i \in Ids : mini'[i].sock = IF i = cur THEN k ELSE mini[i].sock
<1> USE DEF thread, minis, shut, owner, net, faults
<1>1. /\ Owned(mini, list, backlog, end, nextId) /\ backlog \in Seq(Sockets) /\ backlog # <<>>
      /\ mini \in [Ids -> MiniServer] /\ cur \in Ids /\ Contains(list, cur)
  BY DEF IInv, TypeOK, MiniServer, Accept, HandedOver, Unbound
<1> DEFINE k == Head(backlog)
<1>2. /\ k \in Sockets /\ 1 \in 1..Len(backlog) /\ k = backlog[1]
      /\ Tail(backlog) = SubSeq(backlog, 2, Len(backlog))
  BY <1>1
<1>3. /\ IsInjective(backlog')
      /\ \A x : Contains(backlog', x) <=> Contains(backlog, x) /\ x # k
  <2>1. backlog' = RemoveAt(backlog, 1)
    <3>1. backlog' = Tail(backlog) /\ RemoveAt(backlog, 1) \in Seq(Sockets)
      BY <1>1, <1>2, RemoveAtProperties DEF Accept
    <3>2. /\ Len(RemoveAt(backlog, 1)) = Len(backlog) - 1
          /\ \A i \in 1..Len(backlog) - 1 : RemoveAt(backlog, 1)[i] = backlog[i + 1]
      BY <1>1, <1>2, RemoveAtProperties
    <3>3. /\ Tail(backlog) \in Seq(Sockets) /\ Len(Tail(backlog)) = Len(backlog) - 1
          /\ \A i \in 1..Len(backlog) - 1 : Tail(backlog)[i] = backlog[i + 1]
      BY <1>1
    <3>4. QED
      BY <3>1, <3>2, <3>3, SeqEqual
  <2>2. QED
    BY <1>1, <1>2, <2>1, RemovedElement DEF Owned
<1>4. \A i \in Ids : mini'[i].sock = IF i = cur THEN k ELSE mini[i].sock
  <2>1. mini' = [mini EXCEPT ![cur] = [mini[cur] EXCEPT !.sock = k, !.blocking = TRUE]]
    BY DEF Accept
  <2>2. [mini[cur] EXCEPT !.sock = k, !.blocking = TRUE].sock = k
    BY <1>1 DEF MiniServer
  <2>3. QED
    BY <1>1, <2>1, <2>2
<1>5. UNCHANGED <<list, end, nextId>>
  BY DEF Accept
<1>6. Contains(backlog, k) /\ end[k] # "none"
  BY <1>1, <1>2 DEF Owned, Contains
<1>7. \A i \in Ids : mini[i].sock # k
  BY <1>1, <1>2, <1>6, Constants DEF Owned
<1> HIDE DEF k
<1>8. Owned(mini, list, backlog, end, nextId)'
  BY <1>1, <1>3, <1>4, <1>5, <1>6, <1>7 DEF Owned
<1>9. QED
  BY <1>2, <1>3, <1>4, <1>6, <1>8 DEF k

(* What the clients change of who owns what: a new connection joins the    *)
(* queue, or no connection is made or unmade.                              *)
LEMMA ClientEnds ==
    ASSUME IInv, Clients
    PROVE  /\ UNCHANGED <<mini, list, nextId, listener, cur, fails, stop, asked, msgs>>
           /\ \/ \E k \in Conns : /\ end[k] = "none" /\ backlog' = Append(backlog, k)
                                  /\ end' = [end EXCEPT ![k] = "connected"]
                                  /\ UNCHANGED down
              \/ /\ UNCHANGED backlog
                 /\ \A k \in Sockets : end[k] # "none" => end'[k] # "none"
                 /\ \A k \in Sockets : down'[k] = down[k] \/ down'[k] = <<>>
<1> USE DEF thread, minis, shut, owner, net, faults
<1>1. PICK k \in Conns : \/ Connect(k) \/ Handshake(k) \/ ClientSend(k) \/ ClientReceive(k)
                         \/ Disconnect(k) \/ Crash(k)
  BY DEF Clients
<1>2. /\ end \in [Sockets -> {"none", "connected", "open", "shut", "reset", "broken"}]
      /\ down \in [Sockets -> Seq(Sockets)] /\ k \in Sockets
  BY Constants DEF IInv, TypeOK
<1>3. UNCHANGED <<mini, list, nextId, listener, cur, fails, stop, asked, msgs>>
  BY <1>1 DEF Connect, Handshake, ClientSend, ClientReceive, Disconnect, Crash, Client
<1>4. CASE Connect(k)
  BY <1>3, <1>4 DEF Connect
<1>5. CASE Handshake(k) \/ ClientSend(k) \/ ClientReceive(k) \/ Disconnect(k) \/ Crash(k)
  <2>1. UNCHANGED backlog
    BY <1>5 DEF Handshake, ClientSend, ClientReceive, Disconnect, Crash
  <2>2. \A j \in Sockets : end[j] # "none" => end'[j] # "none"
    BY <1>2, <1>5 DEF Handshake, ClientSend, ClientReceive, Disconnect, Crash
  <2>3. \A j \in Sockets : down'[j] = down[j] \/ down'[j] = <<>>
    BY <1>2, <1>5 DEF Handshake, ClientSend, ClientReceive, Disconnect, Crash
  <2>4. QED
    BY <1>3, <2>1, <2>2, <2>3
<1>6. QED
  BY <1>1, <1>4, <1>5

LEMMA WakeupEnds ==
    ASSUME IInv, Wakeup
    PROVE  \/ /\ end[Dummy] = "none" /\ backlog' = Append(backlog, Dummy)
              /\ end' = [end EXCEPT ![Dummy] = "shut"]
           \/ UNCHANGED <<backlog, end>>
BY DEF Wakeup, IInv, Controlled

LEMMA SendEnds ==
    ASSUME IInv, Send
    PROVE  \A k \in Sockets : end[k] # "none" => end'[k] # "none"
<1>1. end \in [Sockets -> {"none", "connected", "open", "shut", "reset", "broken"}]
  BY DEF IInv, TypeOK
<1>2. ASSUME NEW k \in Conns, Answer(k, k),
             end[k] \in {"connected", "open", "shut", "reset", "broken"}
      PROVE  \A j \in Sockets : end[j] # "none" => end'[j] # "none"
  BY <1>1, <1>2 DEF Answer
<1>3. QED
  BY <1>2, SendReaches

LEMMA OwnedStep ==
    ASSUME IInv, [Next]_vars
    PROVE  Owned(mini, list, backlog, end, nextId)'
<1> USE DEF thread, minis, shut, owner, net, faults, vars
<1>1. Owned(mini, list, backlog, end, nextId) /\ nextId \in Nat
  BY Constants DEF IInv, TypeOK
<1>2. CASE UNCHANGED <<mini, list, backlog, end, nextId>>
  BY <1>1, <1>2
<1>3. CASE New
  <2>1. list \in Seq(Ids) /\ nextId \in Ids /\ ~Contains(list, nextId)
    <3>1. nextId \in Ids
      BY <1>3, IdsSuffice DEF New
    <3>2. QED
      BY <1>1, <3>1 DEF IInv, TypeOK, Owned
  <2>2. /\ IsInjective(list')
        /\ \A x : Contains(list', x) <=> Contains(list, x) \/ x = nextId
    BY <1>1, <1>3, <2>1, AppendedElement DEF New, Owned
  <2>3. nextId' = nextId + 1 /\ UNCHANGED <<mini, backlog, end>>
    BY <1>3 DEF New
  <2>4. \A i \in Ids : i \in Nat
    BY Constants
  <2>5. QED
    BY <1>1, <2>2, <2>3, <2>4 DEF Owned
<1>4. CASE Accept
  BY <1>4, AcceptKeeps
<1>5. CASE SetNonBlocking \/ Ignore
  <2>1. mini \in [Ids -> MiniServer] /\ cur \in Ids
    BY DEF IInv, TypeOK, MiniServer
  <2>2. \A i \in Ids : mini'[i].sock \in {mini[i].sock, NoConn}
    BY <1>5, <2>1 DEF SetNonBlocking, Ignore, MiniServer
  <2>3. UNCHANGED <<list, backlog, nextId, end>>
    BY <1>5 DEF SetNonBlocking, Ignore
  <2>4. QED
    BY <2>2, <2>3, StaysTakes, TakesKeeps
<1>6. CASE PollStep
  BY <1>6, PollTakes, TakesKeeps
<1>7. CASE Send
  <2>1. UNCHANGED <<mini, list, backlog, nextId>>
    BY <1>7 DEF Send
  <2>2. QED
    BY <1>1, <1>7, <2>1, SendEnds DEF Owned, IInv, TypeOK
<1>8. CASE Wakeup
  <2>1. UNCHANGED <<mini, list, nextId>>
    BY <1>8 DEF Wakeup
  <2>2. QED
    BY <1>2, <1>8, <2>1, WakeupEnds, QueuedKeeps, Constants
<1>9. CASE Join
  <2>1. list' = <<>> /\ backlog' = <<>> /\ \A i \in Ids : mini'[i].sock = NoConn
    BY <1>9 DEF Join, Fresh
  <2>2. QED
    BY <2>1 DEF Owned, IsInjective, Contains
<1>10. CASE Clients
  <2>1. CASE \E k \in Conns : /\ end[k] = "none" /\ backlog' = Append(backlog, k)
                              /\ end' = [end EXCEPT ![k] = "connected"]
    BY <1>10, <2>1, ClientEnds, QueuedKeeps, Constants
  <2>2. CASE /\ UNCHANGED backlog
             /\ \A k \in Sockets : end[k] # "none" => end'[k] # "none"
    BY <1>1, <1>10, <2>2, ClientEnds DEF Owned, IInv, TypeOK
  <2>3. QED
    BY <1>10, <2>1, <2>2, ClientEnds
<1>11. CASE \/ AcceptFails \/ Loop \/ ThreadHarakiri
            \/ PollStart \/ GetMsg \/ Stop \/ LetDie
  BY <1>2, <1>11 DEF AcceptFails, Loop, ThreadHarakiri, PollStart, GetMsg, Stop, LetDie
<1>12. QED
  BY <1>2, <1>3, <1>4, <1>5, <1>6, <1>7, <1>8, <1>9, <1>10, <1>11 DEF Next, Listener, Main

-----------------------------------------------------------------------------
(* There are ids enough.                                                   *)

LEMMA TakenAreFinite ==
    \A en, bl : /\ IsFiniteSet(Taken(en, bl)) /\ Cardinality(Taken(en, bl)) \in Nat
<1>1. \A en, bl : Taken(en, bl) \subseteq Sockets
  BY DEF Taken
<1>2. QED
  BY <1>1, Constants, FS_Subset, FS_CardinalityType

(* Connections that have been taken from the queue stay taken. *)
LEMMA CountKeeps ==
    ASSUME IInv, Taken(end, backlog) \subseteq Taken(end', backlog'),
           nextId' = nextId, fails' = fails, listener = "accept" => listener' = "accept"
    PROVE  Counted(nextId, end, backlog, listener, fails)'
<1>1. Cardinality(Taken(end, backlog)) <= Cardinality(Taken(end', backlog'))
  BY TakenAreFinite, FS_Subset
<1>2. /\ nextId <= Cardinality(Taken(end, backlog)) + fails
                   + (IF listener = "accept" THEN 1 ELSE 0)
      /\ nextId \in Nat /\ fails \in Nat
  BY Summands, Constants DEF IInv, TypeOK, Counted
<1>3. CASE listener = "accept"
  BY <1>1, <1>2, <1>3, TakenAreFinite DEF Counted
<1>4. CASE listener # "accept"
  <2>1. nextId' <= Cardinality(Taken(end', backlog')) + fails'
    BY <1>1, <1>2, <1>4, TakenAreFinite
  <2>2. QED
    BY <1>2, <2>1, TakenAreFinite DEF Counted
<1>5. QED
  BY <1>3, <1>4

LEMMA CountedStep ==
    ASSUME IInv, [Next]_vars
    PROVE  Counted(nextId, end, backlog, listener, fails)'
<1> USE DEF thread, minis, shut, owner, net, faults, vars, Goto
<1>1. /\ nextId \in Nat /\ fails \in Nat
      /\ nextId <= Cardinality(Taken(end, backlog)) + fails
                   + (IF listener = "accept" THEN 1 ELSE 0)
      /\ end \in [Sockets -> {"none", "connected", "open", "shut", "reset", "broken"}]
      /\ backlog \in Seq(Sockets)
  BY Summands, Constants DEF IInv, TypeOK, Counted
<1>2. CASE New
  <2>1. /\ nextId' = nextId + 1 /\ listener = "new" /\ listener' = "accept"
        /\ UNCHANGED <<end, backlog, fails>>
    BY <1>2 DEF New
  <2>2. nextId' <= Cardinality(Taken(end', backlog')) + fails' + 1
    BY <1>1, <2>1, TakenAreFinite
  <2>3. QED
    BY <2>1, <2>2 DEF Counted
<1>3. CASE Accept
  <2>1. PICK k \in Sockets : /\ k = Head(backlog) /\ end[k] # "none" /\ Contains(backlog, k)
                             /\ \A x : Contains(backlog', x) <=> Contains(backlog, x) /\ x # k
    BY <1>3, AcceptKeeps
  <2>2. /\ listener = "accept" /\ listener' = "accepted" /\ UNCHANGED <<end, nextId, fails>>
    BY <1>3 DEF Accept
  <2>3. /\ Taken(end', backlog') = Taken(end, backlog) \cup {k}
        /\ k \notin Taken(end, backlog)
    BY <2>1, <2>2 DEF Taken
  <2>4. Cardinality(Taken(end', backlog')) = Cardinality(Taken(end, backlog)) + 1
    BY <2>3, TakenAreFinite, FS_AddElement
  <2>5. nextId' <= Cardinality(Taken(end', backlog')) + fails'
    BY <1>1, <2>2, <2>4, TakenAreFinite
  <2>6. QED
    BY <1>1, <2>2, <2>5, TakenAreFinite DEF Counted
<1>4. CASE AcceptFails
  <2>1. /\ fails' = fails + 1 /\ listener = "accept" /\ listener' = "loop"
        /\ UNCHANGED <<end, backlog, nextId>>
    BY <1>4 DEF AcceptFails
  <2>2. nextId' <= Cardinality(Taken(end', backlog')) + fails'
    BY <1>1, <2>1, TakenAreFinite
  <2>3. QED
    BY <1>1, <2>1, <2>2, TakenAreFinite DEF Counted
<1>5. CASE UNCHANGED <<end, backlog, nextId, fails>> /\ (listener = "accept" => listener' = "accept")
  BY <1>5, CountKeeps
<1>6. CASE SetNonBlocking \/ Ignore \/ Loop \/ ThreadHarakiri
  BY <1>5, <1>6 DEF SetNonBlocking, Ignore, Loop, ThreadHarakiri
<1>7. CASE PollStep
  BY <1>5, <1>7, PollTakes
<1>8. CASE PollStart \/ GetMsg \/ Stop \/ LetDie
  BY <1>5, <1>8 DEF PollStart, GetMsg, Stop, LetDie
<1>9. CASE Send
  <2>1. UNCHANGED <<backlog, nextId, fails, listener>>
    BY <1>9 DEF Send
  <2>2. QED
    BY <1>9, <2>1, SendEnds, CountKeeps DEF Taken
<1>10. CASE Wakeup
  <2>1. UNCHANGED <<nextId, fails, listener>>
    BY <1>10 DEF Wakeup
  <2>2. Taken(end, backlog) \subseteq Taken(end', backlog')
    <3>1. CASE /\ end[Dummy] = "none" /\ backlog' = Append(backlog, Dummy)
               /\ end' = [end EXCEPT ![Dummy] = "shut"]
      BY <1>1, <3>1, AppendedElement, Constants DEF Taken
    <3>2. QED
      BY <1>10, <3>1, WakeupEnds
  <2>3. QED
    BY <2>1, <2>2, CountKeeps
<1>11. CASE Join
  <2>1. UNCHANGED <<end, nextId, fails, listener>> /\ backlog' = <<>>
    BY <1>11 DEF Join
  <2>2. Taken(end, backlog) \subseteq Taken(end', backlog')
    BY <2>1 DEF Taken, Contains
  <2>3. QED
    BY <2>1, <2>2, CountKeeps
<1>12. CASE Clients
  <2>1. UNCHANGED <<nextId, fails, listener>>
    BY <1>12, ClientEnds
  <2>2. Taken(end, backlog) \subseteq Taken(end', backlog')
    <3>1. ASSUME NEW k \in Conns, end[k] = "none", backlog' = Append(backlog, k),
                 end' = [end EXCEPT ![k] = "connected"]
          PROVE  Taken(end, backlog) \subseteq Taken(end', backlog')
      BY <1>1, <3>1, AppendedElement, Constants DEF Taken
    <3>2. CASE /\ UNCHANGED backlog
               /\ \A k \in Sockets : end[k] # "none" => end'[k] # "none"
      BY <3>2 DEF Taken
    <3>3. QED
      BY <1>12, <3>1, <3>2, ClientEnds
  <2>3. QED
    BY <2>1, <2>2, CountKeeps
<1>13. QED
  BY <1>2, <1>3, <1>4, <1>5, <1>6, <1>7, <1>8, <1>9, <1>10, <1>11, <1>12
     DEF Next, Listener, Main

-----------------------------------------------------------------------------
(* The mini servers without a socket.                                      *)

LEMMA UnboundAreFinite ==
    \A mi, ls, c : /\ IsFiniteSet(Unbound(mi, ls)) /\ IsFiniteSet(Unbound(mi, ls) \ {c})
                   /\ Cardinality(Unbound(mi, ls)) \in Nat
                   /\ Cardinality(Unbound(mi, ls) \ {c}) \in Nat
                   /\ Cardinality(Unbound(mi, ls)) <= Cardinality(Unbound(mi, ls) \ {c}) + 1
<1> SUFFICES ASSUME NEW mi, NEW ls, NEW c
             PROVE  /\ IsFiniteSet(Unbound(mi, ls)) /\ IsFiniteSet(Unbound(mi, ls) \ {c})
                    /\ Cardinality(Unbound(mi, ls)) \in Nat
                    /\ Cardinality(Unbound(mi, ls) \ {c}) \in Nat
                    /\ Cardinality(Unbound(mi, ls)) <= Cardinality(Unbound(mi, ls) \ {c}) + 1
  OBVIOUS
<1>1. IsFiniteSet(Unbound(mi, ls)) /\ Cardinality(Unbound(mi, ls)) \in Nat
  <2>1. Unbound(mi, ls) \subseteq Ids
    BY DEF Unbound
  <2>2. QED
    BY <2>1, Constants, FS_Subset, FS_CardinalityType
<1>2. IsFiniteSet(Unbound(mi, ls) \ {c})
  BY <1>1, FS_Subset
<1>3. Cardinality(Unbound(mi, ls) \ {c}) =
         IF c \in Unbound(mi, ls) THEN Cardinality(Unbound(mi, ls)) - 1
                                  ELSE Cardinality(Unbound(mi, ls))
  BY <1>1, FS_RemoveElement
<1>4. Cardinality(Unbound(mi, ls) \ {c}) \in Nat
  BY <1>2, FS_CardinalityType
<1>5. QED
  BY <1>1, <1>2, <1>3, <1>4

LEMMA HandedOverStep ==
    ASSUME IInv, [Next]_vars
    PROVE  HandedOver(listener, cur, mini, list, stop, fails)'
<1> USE DEF thread, minis, shut, owner, net, faults, vars, Goto
<1> DEFINE unbound == Unbound(mini, list)
<1>1. /\ mini \in [Ids -> MiniServer] /\ cur \in Ids /\ fails \in Nat
      /\ list \in Seq(Ids) /\ Owned(mini, list, backlog, end, nextId)
      /\ HandedOver(listener, cur, mini, list, stop, fails)
  BY Summands DEF IInv, TypeOK, MiniServer
<1>2. CASE Unbound(mini', list') = unbound /\ UNCHANGED <<listener, cur, stop, fails>>
  BY <1>1, <1>2 DEF HandedOver
<1>3. CASE UNCHANGED <<mini, list, listener, cur, stop, fails>>
  BY <1>1, <1>3
<1>4. CASE New
  <2>1. /\ listener = "new" /\ listener' = "accept" /\ cur' = nextId
        /\ list' = Append(list, nextId) /\ UNCHANGED <<mini, fails>>
    BY <1>4 DEF New
  <2>2. nextId \in Ids /\ ~Contains(list, nextId) /\ mini[nextId].sock = NoConn
    <3>1. nextId \in Ids
      BY <1>4, IdsSuffice DEF New
    <3>2. nextId \in Nat
      BY <3>1, Constants
    <3>3. QED
      BY <1>1, <3>1, <3>2 DEF Owned
  <2>3. /\ Unbound(mini', list') \ {nextId} = unbound
        /\ nextId \in Unbound(mini', list')
    BY <1>1, <2>1, <2>2, AppendedElement DEF Unbound
  <2>4. Cardinality(unbound) <= fails
    BY <1>1, <2>1 DEF HandedOver
  <2>5. QED
    BY <2>1, <2>3, <2>4 DEF HandedOver
<1>5. CASE Accept
  <2>1. PICK k \in Sockets : \A i \in Ids : mini'[i].sock = IF i = cur THEN k ELSE mini[i].sock
    BY <1>5, AcceptKeeps
  <2>2. listener' = "accepted" /\ UNCHANGED <<list, cur, fails>>
    BY <1>5 DEF Accept
  <2>3. /\ cur \notin Unbound(mini', list')
        /\ Unbound(mini', list') \ {cur} = unbound \ {cur}
    BY <1>1, <2>1, <2>2, Constants DEF Unbound
  <2>4. QED
    BY <1>1, <2>2, <2>3 DEF HandedOver
<1>6. CASE AcceptFails
  <2>1. listener' = "loop" /\ fails' = fails + 1 /\ UNCHANGED <<mini, list, cur>>
    BY <1>6 DEF AcceptFails
  <2>2. Cardinality(unbound) <= fails + 1 /\ Cardinality(unbound \ {cur}) <= fails + 1
    <3>1. Cardinality(unbound \ {cur}) <= fails
      BY <1>1 DEF HandedOver
    <3>2. /\ Cardinality(unbound) \in Nat /\ Cardinality(unbound \ {cur}) \in Nat
          /\ Cardinality(unbound) <= Cardinality(unbound \ {cur}) + 1
      BY UnboundAreFinite
    <3>3. QED
      BY <1>1, <3>1, <3>2
  <2>3. QED
    BY <2>1, <2>2 DEF HandedOver
<1>7. CASE SetNonBlocking
  <2>1. /\ listener = "accepted" /\ listener' = "test" /\ UNCHANGED <<list, cur, fails>>
        /\ \A i \in Ids : mini'[i].sock = mini[i].sock
    BY <1>1, <1>7 DEF SetNonBlocking, MiniServer
  <2>2. Unbound(mini', list') = unbound
    BY <2>1 DEF Unbound
  <2>3. QED
    BY <1>1, <2>1, <2>2 DEF HandedOver
<1>8. CASE Ignore
  <2>1. /\ listener = "test" /\ listener' = "loop" /\ UNCHANGED <<list, cur, fails, stop>>
        /\ \A i \in Ids : i # cur => mini'[i].sock = mini[i].sock
        /\ ~stop => mini' = mini
    BY <1>1, <1>8 DEF Ignore, MiniServer
  <2>2. Unbound(mini', list') \ {cur} = unbound \ {cur}
    BY <2>1 DEF Unbound
  <2>3. ~stop => Unbound(mini', list') = unbound \ {cur}
    BY <1>1, <2>1 DEF HandedOver
  <2>4. QED
    BY <1>1, <2>1, <2>2, <2>3 DEF HandedOver
<1>9. CASE Loop
  <2>1. /\ listener = "loop" /\ listener' = IF stop THEN "harakiri" ELSE "new"
        /\ UNCHANGED <<list, mini, cur, fails, stop>>
    BY <1>9 DEF Loop
  <2>2. QED
    BY <1>1, <2>1 DEF HandedOver
<1>10. CASE ThreadHarakiri
  <2>1. listener' = "gone" /\ UNCHANGED <<list, mini, cur, fails, stop>>
    BY <1>10 DEF ThreadHarakiri
  <2>2. QED
    BY <1>1, <2>1 DEF HandedOver
<1>11. CASE PollStep
  BY <1>2, <1>11, PollTakes
<1>12. CASE PollStart \/ GetMsg \/ Send \/ Wakeup \/ LetDie
  BY <1>3, <1>12 DEF PollStart, GetMsg, Send, Wakeup, LetDie
<1>13. CASE Stop
  BY <1>1, <1>13 DEF Stop, HandedOver
<1>14. CASE Join
  <2>1. listener' = "gone" /\ list' = <<>> /\ UNCHANGED <<cur, fails>>
    BY <1>14 DEF Join
  <2>2. Unbound(mini', list') \ {cur} = {}
    BY <2>1 DEF Unbound, Contains
  <2>3. Cardinality(Unbound(mini', list') \ {cur'}) <= fails'
    <3>1. Unbound(mini', list') \ {cur'} = {}
      BY <2>1, <2>2
    <3>2. Cardinality(Unbound(mini', list') \ {cur'}) = 0
      BY <3>1, FS_EmptySet, Zenon
    <3>3. fails' \in Nat
      BY <1>1, <2>1
    <3>4. QED
      BY <3>2, <3>3
  <2>4. QED
    BY <2>1, <2>3 DEF HandedOver
<1>15. CASE Clients
  BY <1>3, <1>15, ClientEnds
<1>16. QED
  BY <1>3, <1>4, <1>5, <1>6, <1>7, <1>8, <1>9, <1>10, <1>11, <1>12, <1>13, <1>14, <1>15
     DEF Next, Listener, Main

-----------------------------------------------------------------------------
(* Ids stand for the clients whose messages they came with.                *)

(* A mini server may lose its socket, and the listener thread may leave    *)
(* accept(): what fits goes on fitting.                                    *)
LEMMA FitsKeeps ==
    ASSUME IInv, \A i \in Ids : mini'[i].sock \in {mini[i].sock, NoConn},
           UNCHANGED <<nextId, cur>>, listener' = "accept" => listener = "accept",
           NEW m, m.from \in Ids, Fits(m, mini, nextId, listener, cur)
    PROVE  Fits(m, mini', nextId', listener', cur')
BY DEF Fits

(* The messages and the asked one, where no message is added.              *)
LEMMA AddressedKeeps ==
    ASSUME IInv, \A i \in Ids : mini'[i].sock \in {mini[i].sock, NoConn},
           UNCHANGED <<nextId, cur>>, listener' = "accept" => listener = "accept",
           UNCHANGED <<asked, msgs>>
    PROVE  Addressed(asked, msgs, mini, nextId, listener, cur)'
<1>1. Addressed(asked, msgs, mini, nextId, listener, cur) /\ msgs \in Seq(Node)
  BY DEF IInv, FromClients
<1>2. \A i \in DOMAIN msgs : msgs[i].from \in Ids
  BY <1>1 DEF Node
<1>3. \A i \in DOMAIN msgs : Fits(msgs[i], mini', nextId', listener', cur')
  BY <1>1, <1>2, FitsKeeps DEF Addressed
<1>4. \A a \in asked : a.from \in Ids /\ Fits(a, mini', nextId', listener', cur')
  BY <1>1, FitsKeeps DEF Addressed
<1>5. QED
  BY <1>3, <1>4 DEF Addressed

LEMMA AddressedStep ==
    ASSUME IInv, [Next]_vars
    PROVE  Addressed(asked, msgs, mini, nextId, listener, cur)'
<1> USE DEF thread, minis, shut, owner, net, faults, vars, Goto
<1>1. /\ mini \in [Ids -> MiniServer] /\ cur \in Ids /\ msgs \in Seq(Node) /\ nextId \in Nat
      /\ Addressed(asked, msgs, mini, nextId, listener, cur)
      /\ Owned(mini, list, backlog, end, nextId)
      /\ HandedOver(listener, cur, mini, list, stop, fails)
  <2>1. mini \in [Ids -> MiniServer] /\ cur \in Ids /\ nextId \in Nat
    BY Constants DEF IInv, TypeOK, MiniServer
  <2>2. QED
    BY <2>1 DEF IInv, FromClients
<1>2. \A i \in DOMAIN msgs : msgs[i].from \in Ids /\ msgs[i].from \in Nat
  BY <1>1, Constants DEF Node
<1>3. CASE UNCHANGED <<mini, nextId, listener, cur, asked, msgs>>
  BY <1>3, AddressedKeeps
<1>4. CASE New
  <2>1. /\ listener' = "accept" /\ cur' = nextId /\ nextId' = nextId + 1
        /\ UNCHANGED <<mini, asked, msgs>>
    BY <1>4 DEF New
  <2>2. \A i \in DOMAIN msgs : Fits(msgs[i], mini', nextId', listener', cur')
    BY <1>1, <1>2, <2>1 DEF Addressed, Fits
  <2>3. \A a \in asked : a.from \in Ids /\ Fits(a, mini', nextId', listener', cur')
    BY <1>1, <2>1, Constants DEF Addressed, Fits
  <2>4. QED
    BY <2>1, <2>2, <2>3 DEF Addressed
<1>5. CASE Accept
  <2>1. PICK k \in Sockets : \A i \in Ids : mini'[i].sock = IF i = cur THEN k ELSE mini[i].sock
    BY <1>5, AcceptKeeps
  <2>2. /\ listener = "accept" /\ listener' = "accepted"
        /\ UNCHANGED <<cur, nextId, asked, msgs>>
    BY <1>5 DEF Accept
  <2>3. \A i \in DOMAIN msgs : Fits(msgs[i], mini', nextId', listener', cur')
    BY <1>1, <1>2, <2>1, <2>2 DEF Addressed, Fits
  <2>4. \A a \in asked : a.from \in Ids /\ Fits(a, mini', nextId', listener', cur')
    BY <1>1, <2>1, <2>2 DEF Addressed, Fits
  <2>5. QED
    BY <2>2, <2>3, <2>4 DEF Addressed
<1>6. CASE AcceptFails \/ SetNonBlocking \/ Ignore \/ Loop \/ ThreadHarakiri
  <2>1. UNCHANGED <<nextId, cur, asked, msgs>> /\ listener' # "accept"
    BY <1>6 DEF AcceptFails, SetNonBlocking, Ignore, Loop, ThreadHarakiri
  <2>2. \A i \in Ids : mini'[i].sock \in {mini[i].sock, NoConn}
    BY <1>1, <1>6 DEF AcceptFails, SetNonBlocking, Ignore, Loop, ThreadHarakiri, MiniServer
  <2>3. QED
    BY <2>1, <2>2, AddressedKeeps
<1>7. CASE PollEnd \/ PollUnbound \/ WouldBlock \/ Block \/ ConnectionClosed
  <2>1. UNCHANGED <<asked, msgs>> /\ PollStep
    BY <1>7 DEF PollEnd, PollUnbound, WouldBlock, Block, ConnectionClosed, PollStep
  <2>2. QED
    BY <2>1, PollTakes, AddressedKeeps DEF Takes
<1>8. CASE Polling /\ Sock # NoConn /\ \E n \in 1..Len(up[Sock]) : Receive(n) \/ ReceiveSplit(n)
  <2>1. Sock \in Conns /\ \E s, rest \in Seq(OfClient(Sock)) : Received(s, rest)
    BY <1>8, ReceiveIsReceived
  <2>2. PICK s, rest \in Seq(OfClient(Sock)) : Received(s, rest)
    BY <2>1
  <2>3. /\ \A i \in Ids : mini'[i].sock \in {mini[i].sock, NoConn}
        /\ UNCHANGED <<nextId, cur, listener>> /\ PollStep
    BY <1>8, PollTakes DEF PollStep, Takes
  <2>4. UNCHANGED asked
    BY <1>8 DEF Receive, ReceiveSplit
  <2>5. Polled \in Ids /\ Contains(list, Polled)
    BY <1>8, PolledOne
  <2>6. /\ Nodes(s) \in Seq(Node)
        /\ \A i \in DOMAIN Nodes(s) : Nodes(s)[i].from = Polled /\ Nodes(s)[i].conn = Sock
    BY <2>1, <2>2, <2>5, NodesOfClient
  <2>7. \A i \in DOMAIN Nodes(s) : Fits(Nodes(s)[i], mini, nextId, listener, cur)
    BY <1>1, <1>8, <2>5, <2>6 DEF Fits, Owned, HandedOver, Unbound, Sock
  <2>8. \A i \in DOMAIN msgs' : msgs'[i].from \in Ids /\ Fits(msgs'[i], mini, nextId, listener, cur)
    <3>1. CASE msgs' = msgs
      BY <1>1, <1>2, <3>1 DEF Addressed
    <3>2. CASE msgs' = msgs \o Nodes(s)
      <4>1. /\ msgs' \in Seq(Node) /\ Len(msgs') = Len(msgs) + Len(Nodes(s))
            /\ \A i \in 1..Len(msgs') :
                  msgs'[i] = IF i <= Len(msgs) THEN msgs[i] ELSE Nodes(s)[i - Len(msgs)]
        BY <1>1, <2>6, <3>2, ConcatProperties
      <4>2. ASSUME NEW i \in DOMAIN msgs'
            PROVE  msgs'[i].from \in Ids /\ Fits(msgs'[i], mini, nextId, listener, cur)
        <5>1. i \in 1..Len(msgs') /\ Len(msgs) \in Nat /\ Len(Nodes(s)) \in Nat
          BY <1>1, <2>6, <4>1, <4>2
        <5>2. CASE i <= Len(msgs)
          <6>1. i \in DOMAIN msgs /\ msgs'[i] = msgs[i]
            BY <1>1, <4>1, <5>1, <5>2
          <6>2. QED
            BY <1>1, <1>2, <6>1 DEF Addressed
        <5>3. CASE ~(i <= Len(msgs))
          <6>1. i - Len(msgs) \in DOMAIN Nodes(s) /\ msgs'[i] = Nodes(s)[i - Len(msgs)]
            BY <2>6, <4>1, <5>1, <5>3
          <6>2. QED
            BY <2>5, <2>6, <2>7, <6>1
        <5>4. QED
          BY <5>2, <5>3
      <4>3. QED
        BY <4>2
    <3>3. QED
      BY <2>2, <3>1, <3>2 DEF Received
  <2>9. \A i \in DOMAIN msgs' : Fits(msgs'[i], mini', nextId', listener', cur')
    BY <2>3, <2>8, FitsKeeps
  <2>10. \A a \in asked : a.from \in Ids /\ Fits(a, mini', nextId', listener', cur')
    BY <1>1, <2>3, FitsKeeps DEF Addressed
  <2>11. QED
    BY <2>4, <2>9, <2>10 DEF Addressed
<1>9. CASE GetMsg
  <2>1. /\ msgs # <<>> /\ msgs' = Tail(msgs) /\ UNCHANGED <<mini, nextId, listener, cur>>
        /\ asked' = {[from |-> Head(msgs).from, conn |-> Head(msgs).conn]}
    BY <1>9 DEF GetMsg
  <2>2. 1 \in DOMAIN msgs /\ Head(msgs) = msgs[1]
    BY <1>1, <2>1
  <2>3. Head(msgs).from \in Ids /\ Fits(Head(msgs), mini, nextId, listener, cur)
    BY <1>1, <1>2, <2>2 DEF Addressed
  <2>4. \A a \in asked' : a.from \in Ids /\ Fits(a, mini, nextId, listener, cur)
    BY <2>1, <2>3 DEF Fits
  <2>5. \A i \in DOMAIN msgs' : i + 1 \in DOMAIN msgs /\ msgs'[i] = msgs[i + 1]
    BY <1>1, <2>1
  <2>6. QED
    BY <1>1, <2>1, <2>4, <2>5 DEF Addressed
<1>10. CASE Send
  <2>1. asked' = {} /\ UNCHANGED <<mini, nextId, listener, cur, msgs>>
    BY <1>10 DEF Send
  <2>2. QED
    BY <1>1, <2>1 DEF Addressed
<1>11. CASE Join
  <2>1. /\ msgs' = <<>> /\ UNCHANGED <<asked, nextId, cur, listener>>
        /\ \A i \in Ids : mini'[i].sock = NoConn
    BY <1>11 DEF Join, Fresh
  <2>2. \A a \in asked : a.from \in Ids /\ Fits(a, mini', nextId', listener', cur')
    BY <1>1, <2>1, FitsKeeps DEF Addressed
  <2>3. QED
    BY <2>1, <2>2 DEF Addressed
<1>12. CASE PollStart \/ Stop \/ Wakeup \/ LetDie
  BY <1>3, <1>12 DEF PollStart, Stop, Wakeup, LetDie
<1>13. CASE Clients
  BY <1>3, <1>13, ClientEnds
<1>14. QED
  BY <1>3, <1>4, <1>5, <1>6, <1>7, <1>8, <1>9, <1>10, <1>11, <1>12, <1>13
     DEF Next, Listener, Main, PollStep

-----------------------------------------------------------------------------
(* Answers.                                                                *)

LEMMA RepliesStep ==
    ASSUME IInv, [Next]_vars
    PROVE  RepliesReachSender'
<1> USE DEF thread, minis, shut, owner, net, faults, vars
<1>1. /\ \A k \in Sockets : \A i \in 1..Len(down[k]) : down[k][i] = k
      /\ down \in [Sockets -> Seq(Sockets)]
  BY DEF IInv, TypeOK, RepliesReachSender
<1>2. CASE UNCHANGED down
  BY <1>1, <1>2 DEF RepliesReachSender
<1>3. CASE Send
  <2>1. ASSUME NEW k \in Conns, Answer(k, k),
               end[k] \in {"connected", "open", "shut", "reset", "broken"}
        PROVE  RepliesReachSender'
    <3>1. CASE UNCHANGED down
      BY <1>2, <3>1
    <3>2. CASE down' = [down EXCEPT ![k] = Append(down[k], k)]
      <4>1. k \in Sockets
        BY Constants
      <4>2. /\ Len(Append(down[k], k)) = Len(down[k]) + 1 /\ Len(down[k]) \in Nat
            /\ \A i \in 1..Len(down[k]) + 1 : Append(down[k], k)[i] = k
        BY <1>1, <4>1, AppendProperties, SMTT(30)
      <4>3. \A j \in Sockets : down'[j] = IF j = k THEN Append(down[k], k) ELSE down[j]
        BY <1>1, <3>2
      <4>4. QED
        BY <1>1, <4>2, <4>3 DEF RepliesReachSender
    <3>3. QED
      BY <2>1, <3>1, <3>2 DEF Answer
  <2>2. QED
    BY <1>2, <1>3, <2>1, SendReaches
<1>4. CASE Clients
  <2>1. CASE \A k \in Sockets : down'[k] = down[k] \/ down'[k] = <<>>
    BY <1>1, <2>1 DEF RepliesReachSender
  <2>2. QED
    BY <1>2, <1>4, <2>1, ClientEnds
<1>5. CASE Listener
  BY <1>2, <1>5 DEF Listener, New, Accept, AcceptFails, SetNonBlocking, Ignore, Loop, ThreadHarakiri
<1>6. CASE PollStep
  BY <1>2, <1>6, PollTakes
<1>7. CASE PollStart \/ GetMsg \/ Stop \/ Wakeup \/ LetDie \/ Join
  BY <1>2, <1>7 DEF PollStart, GetMsg, Stop, Wakeup, LetDie, Join
<1>8. QED
  BY <1>2, <1>3, <1>4, <1>5, <1>6, <1>7 DEF Next, Main

-----------------------------------------------------------------------------
(* The theorems.                                                           *)

LEMMA InvInit == Init => IInv
<1> SUFFICES ASSUME Init
             PROVE  IInv
  OBVIOUS
<1>1. TypeOK
  BY TypeInit
<1>2. splits + crashes + fails <= MaxFaults
  BY Constants DEF Init
<1>3. FromClients(up, msgs)
  BY Constants DEF Init, FromClients
<1>4. Controlled(main, lock, at, list, shutdown, end)
  BY Constants DEF Init, Controlled
<1>5. /\ \A i \in Ids : mini[i].sock = NoConn
      /\ \A x : ~Contains(list, x) /\ ~Contains(backlog, x)
  BY DEF Init, Fresh, Contains
<1>6. Owned(mini, list, backlog, end, nextId)
  BY <1>5 DEF Init, Owned, IsInjective
<1>7. Counted(nextId, end, backlog, listener, fails)
  BY TakenAreFinite DEF Init, Counted
<1>8. HandedOver(listener, cur, mini, list, stop, fails)
  <2>1. Unbound(mini, list) = {} /\ Unbound(mini, list) \ {cur} = {}
    BY <1>5 DEF Unbound
  <2>2. Cardinality(Unbound(mini, list)) = 0 /\ Cardinality(Unbound(mini, list) \ {cur}) = 0
    BY <2>1, FS_EmptySet, Zenon
  <2>3. listener = "new" /\ fails = 0
    BY DEF Init
  <2>4. QED
    BY <2>2, <2>3 DEF HandedOver
<1>9. Addressed(asked, msgs, mini, nextId, listener, cur)
  BY DEF Init, Addressed
<1>10. RepliesReachSender
  BY DEF Init, RepliesReachSender
<1>11. QED
  BY <1>1, <1>2, <1>3, <1>4, <1>6, <1>7, <1>8, <1>9, <1>10 DEF IInv

LEMMA InvStep == IInv /\ [Next]_vars => IInv'
<1> SUFFICES ASSUME IInv, [Next]_vars
             PROVE  IInv'
  OBVIOUS
<1>1. TypeOK' /\ (splits + crashes + fails <= MaxFaults)' /\ FromClients(up, msgs)'
  BY TypeStep, FaultsStep, StringsStep
<1>2. /\ Controlled(main, lock, at, list, shutdown, end)'
      /\ Owned(mini, list, backlog, end, nextId)'
      /\ Counted(nextId, end, backlog, listener, fails)'
  BY ControlledStep, OwnedStep, CountedStep
<1>3. /\ HandedOver(listener, cur, mini, list, stop, fails)'
      /\ Addressed(asked, msgs, mini, nextId, listener, cur)'
      /\ RepliesReachSender'
  BY HandedOverStep, AddressedStep, RepliesStep
<1>4. QED
  BY <1>1, <1>2, <1>3 DEF IInv

LEMMA Invariance == Spec => []IInv
BY InvInit, InvStep, PTL DEF Spec

(* TypeOK: the ids suffice for every mini server the listener thread makes *)
(* (IdsSuffice), Poll's position stays in the list and what GetMsg returns *)
(* of a connection has been sent on it.                                    *)
THEOREM TypeCorrect == Spec => []TypeOK
<1>1. IInv => TypeOK
  BY DEF IInv
<1>2. QED
  BY <1>1, Invariance, PTL

(* What nIpcServer::Send sends to the id that came with a message goes to  *)
(* the client that has sent the message, or to nobody.                     *)
THEOREM RepliesArrive == Spec => []RepliesReachSender
<1>1. IInv => RepliesReachSender
  BY DEF IInv
<1>2. QED
  BY <1>1, Invariance, PTL

(* Between accept(), Poll and the destructor no connection ever has two    *)
(* owners, and no mini server is left without one.                         *)
THEOREM OwnersAreUnique == Spec => []OneOwnerEach
<1>1. IInv => OneOwnerEach
  <2> SUFFICES ASSUME IInv
               PROVE  OneOwnerEach
    OBVIOUS
  <2>1. /\ list \in Seq(Ids) /\ Owned(mini, list, backlog, end, nextId)
        /\ HandedOver(listener, cur, mini, list, stop, fails) /\ backlog \in Seq(Sockets)
    BY DEF IInv, TypeOK
  <2>2. /\ ToSet(list) \subseteq Ids /\ \A i : i \in ToSet(list) <=> Contains(list, i)
        /\ ~Contains(backlog, NoConn)
    BY <2>1, Constants DEF ToSet, Contains
  <2>3. {i \in ToSet(list) : mini[i].sock = NoConn /\ i # cur} = Unbound(mini, list) \ {cur}
    BY <2>2 DEF Unbound
  <2>4. \A i, j \in ToSet(list) : mini[i].sock = mini[j].sock /\ i # j => mini[i].sock = NoConn
    BY <2>1, <2>2 DEF Owned
  <2>5. \A i \in ToSet(list) : ~Contains(backlog, mini[i].sock)
    BY <2>1, <2>2 DEF Owned
  <2>6. listener = "accept" => mini[cur].sock = NoConn /\ Contains(list, cur)
    BY <2>1 DEF HandedOver, Unbound
  <2>7. Cardinality({i \in ToSet(list) : mini[i].sock = NoConn /\ i # cur}) <= fails
    BY <2>1, <2>3 DEF HandedOver
  <2>8. QED
    BY <2>4, <2>5, <2>6, <2>7 DEF OneOwnerEach
<1>2. QED
  BY <1>1, Invariance, PTL

-----------------------------------------------------------------------------
(* The channel that the server and a client make of a connection.          *)

LEMMA ThinnedSelf == \A S : \A s \in Seq(S) : Channel!Thinned(s, s) /\ Channel!Thinned(<<>>, s)
<1> SUFFICES ASSUME NEW S, NEW s \in Seq(S)
             PROVE  Channel!Thinned(s, s) /\ Channel!Thinned(<<>>, s)
  OBVIOUS
<1> DEFINE f == [i \in 1..Len(s) |-> i]
           g == [i \in 1..0 |-> i]
<1>1. f \in [1..Len(s) -> 1..Len(s)] /\ \A i \in 1..Len(s) : f[i] = i
  OBVIOUS
<1>2. g \in [1..Len(<<>>) -> 1..Len(s)] /\ ~\E i : i \in 1..Len(<<>>)
  OBVIOUS
<1>3. QED
  BY <1>1, <1>2 DEF Channel!Thinned

LEMMA ThinnedJoined ==
    ASSUME NEW S, NEW p \in Seq(S), NEW q \in Seq(S), NEW u \in Seq(S), NEW v \in Seq(S),
           Channel!Thinned(u, p), Channel!Thinned(v, q)
    PROVE  Channel!Thinned(u \o v, p \o q)
<1> DEFINE m == Len(u)
           n == Len(v)
<1>1. PICK f \in [1..m -> 1..Len(p)] : /\ \A i, j \in 1..m : i < j => f[i] < f[j]
                                       /\ \A i \in 1..m : u[i] = p[f[i]]
  BY DEF Channel!Thinned
<1>2. PICK g \in [1..n -> 1..Len(q)] : /\ \A i, j \in 1..n : i < j => g[i] < g[j]
                                       /\ \A i \in 1..n : v[i] = q[g[i]]
  BY DEF Channel!Thinned
<1> DEFINE r == u \o v
           s == p \o q
           h == [k \in 1..(m + n) |-> IF k <= m THEN f[k] ELSE Len(p) + g[k - m]]
<1>3. /\ m \in Nat /\ n \in Nat /\ Len(p) \in Nat /\ Len(q) \in Nat
      /\ Len(r) = m + n /\ Len(s) = Len(p) + Len(q)
      /\ \A k \in 1..m : r[k] = u[k]
      /\ \A k \in 1..n : r[m + k] = v[k]
      /\ \A k \in 1..Len(p) : s[k] = p[k]
      /\ \A k \in 1..Len(q) : s[Len(p) + k] = q[k]
  OBVIOUS
<1>4. \A k \in 1..(m + n) : \/ k \in 1..m /\ h[k] = f[k]
                            \/ k - m \in 1..n /\ h[k] = Len(p) + g[k - m]
  BY <1>3
<1> HIDE DEF r, s, h, m, n
<1>5. ASSUME NEW k \in 1..(m + n)
      PROVE  h[k] \in 1..Len(s) /\ r[k] = s[h[k]]
  <2>1. CASE k \in 1..m /\ h[k] = f[k]
    BY <1>1, <1>3, <2>1
  <2>2. CASE k - m \in 1..n /\ h[k] = Len(p) + g[k - m]
    <3>1. m + (k - m) = k /\ g[k - m] \in 1..Len(q) /\ v[k - m] = q[g[k - m]]
      BY <1>2, <1>3, <2>2
    <3>2. r[k] = v[k - m] /\ s[h[k]] = q[g[k - m]]
      BY <1>3, <2>2, <3>1
    <3>3. QED
      BY <1>3, <2>2, <3>1, <3>2
  <2>3. QED
    BY <1>4, <2>1, <2>2
<1>6. ASSUME NEW j \in 1..(m + n), NEW k \in 1..(m + n), j < k
      PROVE  h[j] < h[k]
  <2>1. CASE k \in 1..m /\ h[k] = f[k]
    <3>1. j \in 1..m /\ ~(j - m \in 1..n)
      BY <1>3, <1>6, <2>1
    <3>2. QED
      BY <1>1, <1>4, <1>6, <2>1, <3>1
  <2>2. CASE k - m \in 1..n /\ h[k] = Len(p) + g[k - m]
    <3>1. g[k - m] \in 1..Len(q)
      BY <1>2, <2>2
    <3>2. CASE j \in 1..m /\ h[j] = f[j]
      <4>1. f[j] \in 1..Len(p)
        BY <1>1, <3>2
      <4>2. QED
        BY <1>3, <2>2, <3>1, <3>2, <4>1
    <3>3. CASE j - m \in 1..n /\ h[j] = Len(p) + g[j - m]
      <4>1. j - m < k - m
        BY <1>3, <1>6
      <4>2. g[j - m] \in 1..Len(q) /\ g[j - m] < g[k - m]
        BY <1>2, <2>2, <3>3, <4>1
      <4>3. QED
        BY <1>3, <2>2, <3>1, <3>3, <4>2
    <3>4. QED
      BY <1>4, <3>2, <3>3
  <2>3. QED
    BY <1>4, <2>1, <2>2
<1>7. h \in [1..Len(r) -> 1..Len(s)]
  BY <1>3, <1>5 DEF h
<1>8. Channel!Thinned(r, s)
  BY <1>3, <1>5, <1>6, <1>7 DEF Channel!Thinned
<1>9. QED
  BY <1>8 DEF r, s

(* What is pending of a list of nodes.                                     *)
OfConn(k) == [from : Ids, conn : {k}, msg : Numbers]

LEMMA PendingTyped ==
    ASSUME NEW ms \in Seq(Node), NEW k \in Conns
    PROVE  /\ Only(ms, OfConn(k)) \in Seq(Node) /\ Pending(ms, k) \in Seq(Nat)
           /\ Len(Pending(ms, k)) = Len(Only(ms, OfConn(k)))
           /\ \A i \in 1..Len(Pending(ms, k)) :
                 /\ Pending(ms, k)[i] = Only(ms, OfConn(k))[i].msg
                 /\ \E j \in 1..Len(ms) : Pending(ms, k)[i] = ms[j].msg /\ ms[j].conn = k
<1> DEFINE u == Only(ms, OfConn(k))
           p == Pending(ms, k)
<1>1. u \in Seq(Node) /\ \E f : Picks(f, ms, OfConn(k), u)
  BY OnlyPicks
<1>2. p = [i \in DOMAIN u |-> u[i].msg]
  BY DEF Pending, OfConn
<1> HIDE DEF u, p
<1>3. PICK f : Picks(f, ms, OfConn(k), u)
  BY <1>1
<1>4. ASSUME NEW i \in 1..Len(u)
      PROVE  u[i].msg \in Nat /\ \E j \in 1..Len(ms) : u[i] = ms[j] /\ ms[j].conn = k
  <2>1. f[i] \in 1..Len(ms) /\ u[i] = ms[f[i]] /\ ms[f[i]] \in OfConn(k)
    BY <1>3 DEF Picks, Along, Upwards
  <2>2. Numbers \subseteq Nat
    BY Constants DEF Numbers
  <2>3. QED
    BY <2>1, <2>2 DEF OfConn
<1>5. p \in Seq(Nat) /\ Len(p) = Len(u) /\ \A i \in 1..Len(p) : p[i] = u[i].msg
  <2>1. Len(u) \in Nat /\ DOMAIN u = 1..Len(u)
    BY <1>1
  <2>2. \A i \in 1..Len(u) : p[i] = u[i].msg /\ p[i] \in Nat
    BY <1>2, <1>4, <2>1
  <2>3. p \in [1..Len(u) -> Nat]
    BY <1>2, <1>4, <2>1
  <2>4. QED
    BY <2>1, <2>2, <2>3
<1>6. QED
  BY <1>1, <1>4, <1>5 DEF u, p

LEMMA PendingJoined ==
    ASSUME NEW ms \in Seq(Node), NEW ns \in Seq(Node), NEW k \in Conns
    PROVE  Pending(ms \o ns, k) = Pending(ms, k) \o Pending(ns, k)
<1> DEFINE T == OfConn(k)
           u == Only(ms, T)
           v == Only(ns, T)
           w == Only(ms \o ns, T)
<1>1. ms \o ns \in Seq(Node) /\ w = u \o v
  BY OnlyOfJoined
<1> DEFINE p == Pending(ms, k)
           q == Pending(ns, k)
           r == Pending(ms \o ns, k)
<1>2. /\ u \in Seq(Node) /\ p \in Seq(Nat) /\ Len(p) = Len(u)
      /\ \A i \in 1..Len(p) : p[i] = u[i].msg
  BY PendingTyped
<1>3. /\ v \in Seq(Node) /\ q \in Seq(Nat) /\ Len(q) = Len(v)
      /\ \A i \in 1..Len(q) : q[i] = v[i].msg
  BY PendingTyped
<1>4. /\ r \in Seq(Nat) /\ Len(r) = Len(w)
      /\ \A i \in 1..Len(r) : r[i] = w[i].msg
  BY <1>1, PendingTyped
<1> HIDE DEF u, v, w, p, q, r
<1>5. /\ w \in Seq(Node) /\ Len(w) = Len(u) + Len(v)
      /\ \A i \in 1..Len(u) + Len(v) : w[i] = IF i <= Len(u) THEN u[i] ELSE v[i - Len(u)]
  BY <1>1, <1>2, <1>3
<1>6. /\ p \o q \in Seq(Nat) /\ Len(p \o q) = Len(p) + Len(q)
      /\ \A i \in 1..Len(p) + Len(q) : (p \o q)[i] = IF i <= Len(p) THEN p[i] ELSE q[i - Len(p)]
  <2>1. p \in Seq(Nat) /\ q \in Seq(Nat)
    BY <1>2, <1>3
  <2>2. QED
    BY <2>1, ConcatProperties
<1>7. ASSUME NEW i \in 1..Len(r)
      PROVE  r[i] = (p \o q)[i]
  <2>1. Len(p) \in Nat /\ Len(q) \in Nat /\ i \in 1..Len(p) + Len(q) /\ r[i] = w[i].msg
    BY <1>2, <1>3, <1>4, <1>5
  <2>2. CASE i <= Len(p)
    <3>1. w[i] = u[i] /\ i \in 1..Len(p)
      BY <1>2, <1>3, <1>5, <2>1, <2>2
    <3>2. QED
      BY <1>2, <1>6, <2>1, <2>2, <3>1
  <2>3. CASE ~(i <= Len(p))
    <3>1. w[i] = v[i - Len(p)] /\ i - Len(p) \in 1..Len(q)
      BY <1>2, <1>3, <1>5, <2>1, <2>3
    <3>2. QED
      BY <1>3, <1>6, <2>1, <2>3, <3>1
  <2>4. QED
    BY <2>2, <2>3
<1>8. r = p \o q
  <2>1. Len(r) = Len(p \o q)
    BY <1>2, <1>3, <1>4, <1>5, <1>6
  <2>2. QED
    BY <1>4, <1>6, <1>7, <2>1, SeqEqual
<1>9. QED
  BY <1>8 DEF p, q, r

LEMMA PendingNone == \A k \in Conns : Pending(<<>>, k) = <<>>
<1> TAKE k \in Conns
<1>1. <<>> \in Seq(Node) /\ Len(<<>>) = 0
  OBVIOUS
<1>2. Only(<<>>, OfConn(k)) = <<>>
  <2> DEFINE q == <<>>
  <2>1. q \in Seq(Node) /\ \A i \in 1..Len(q) : q[i] \notin OfConn(k)
    OBVIOUS
  <2> HIDE DEF q
  <2>2. Only(q, OfConn(k)) = <<>>
    BY <2>1, OnlyOfNone
  <2>3. QED
    BY <2>2 DEF q
<1>3. Pending(<<>>, k) \in Seq(Nat) /\ Len(Pending(<<>>, k)) = 0
  BY <1>1, <1>2, PendingTyped
<1>4. QED
  BY <1>3

LEMMA PendingOne ==
    ASSUME NEW m \in Node, NEW k \in Conns
    PROVE  Pending(<<m>>, k) = IF m.conn = k /\ m.msg # Fragment THEN <<m.msg>> ELSE <<>>
<1>1. m.msg # Fragment <=> m.msg \in Numbers
  BY Constants DEF Node, Numbers, Fragment
<1>2. m \in OfConn(k) <=> m.conn = k /\ m.msg # Fragment
  BY <1>1 DEF Node, OfConn
<1>3. Only(<<m>>, OfConn(k)) = IF m \in OfConn(k) THEN <<m>> ELSE <<>>
  BY OnlyOfOne
<1>4. /\ Pending(<<m>>, k) \in Seq(Nat) /\ Len(Pending(<<m>>, k)) = Len(Only(<<m>>, OfConn(k)))
      /\ \A i \in 1..Len(Pending(<<m>>, k)) : Pending(<<m>>, k)[i] = Only(<<m>>, OfConn(k))[i].msg
  <2>1. <<m>> \in Seq(Node)
    OBVIOUS
  <2>2. QED
    BY <2>1, PendingTyped
<1> DEFINE p == Pending(<<m>>, k)
<1>5. CASE m \in OfConn(k)
  <2>1. p \in Seq(Nat) /\ Len(p) = 1 /\ p[1] = m.msg
    <3>1. Only(<<m>>, OfConn(k)) = <<m>> /\ Len(<<m>>) = 1 /\ <<m>>[1] = m /\ 1 \in 1..1
      BY <1>3, <1>5
    <3>2. Len(p) = 1 /\ p \in Seq(Nat) /\ \A i \in 1..Len(p) : p[i] = Only(<<m>>, OfConn(k))[i].msg
      BY <1>4, <3>1
    <3> HIDE DEF p
    <3>3. QED
      BY <3>1, <3>2
  <2> HIDE DEF p
  <2>2. p = <<m.msg>>
    BY <2>1
  <2>3. QED
    BY <1>2, <1>5, <2>2 DEF p
<1>6. CASE m \notin OfConn(k)
  <2>1. p \in Seq(Nat) /\ Len(p) = 0
    BY <1>3, <1>4, <1>6
  <2> HIDE DEF p
  <2>2. p = <<>>
    BY <2>1
  <2>3. QED
    BY <1>2, <1>6, <2>2 DEF p
<1>7. QED
  BY <1>5, <1>6

(* What Poll has looked at of a stream is pending.                         *)
LEMMA PendingOfNodes ==
    ASSUME NEW k \in Conns, NEW j \in Conns, NEW s \in Seq(OfClient(k)), Sock = k, Polled \in Ids
    PROVE  Pending(Nodes(s), j) = IF j = k THEN Only(s, Numbers) ELSE <<>>
<1> DEFINE user == LeaveOut(s, {HandshakeCmd, CloseCmd})
           id == Polled
           ns == Nodes(s)
<1>1. s \in Seq(Strings)
  BY Constants
<1>2. user \in Seq(Strings)
  <2> DEFINE A == {HandshakeCmd, CloseCmd}
  <2> HIDE DEF A
  <2>1. LeaveOut(s, A) \in Seq(Strings)
    BY <1>1, LeaveOutElements
  <2>2. QED
    BY <2>1 DEF A
<1>3. {HandshakeCmd, CloseCmd} \cap Numbers = {}
  BY Constants DEF Numbers, HandshakeCmd, CloseCmd
<1>4. Only(user, Numbers) = Only(s, Numbers)
  BY <1>1, <1>3, OnlyOfRest
<1>5. ns = [i \in 1..Len(user) |-> [from |-> id, conn |-> k, msg |-> user[i]]]
  BY <1>2 DEF Nodes
<1>6. ns \in Seq(Node) /\ id \in Ids
  BY NodesOfClient
<1> HIDE DEF user, ns, id
<1>7. /\ Len(ns) = Len(user)
      /\ \A i \in 1..Len(ns) : /\ ns[i].conn = k /\ ns[i].msg = user[i]
                               /\ ns[i] \in OfConn(j) <=> j = k /\ user[i] \in Numbers
  BY <1>2, <1>5, <1>6 DEF OfConn
<1> DEFINE u == Only(ns, OfConn(j))
           v == Only(user, Numbers)
           p == Pending(ns, j)
<1>8. /\ p \in Seq(Nat) /\ Len(p) = Len(u)
      /\ \A i \in 1..Len(p) : p[i] = u[i].msg
  BY <1>6, PendingTyped
<1>9. CASE j = k
  <2>1. \A i \in 1..Len(ns) : ns[i] \in OfConn(j) <=> user[i] \in Numbers
    BY <1>7, <1>9
  <2>2. /\ v \in Seq(Strings) /\ Len(u) = Len(v)
        /\ \A i \in 1..Len(u) : \E x \in 1..Len(ns) : u[i] = ns[x] /\ v[i] = user[x]
    <3> DEFINE T == OfConn(j)
    <3>1. Len(ns) = Len(user) /\ \A i \in 1..Len(ns) : ns[i] \in T <=> user[i] \in Numbers
      BY <1>7, <2>1
    <3> HIDE DEF T
    <3>2. /\ Only(user, Numbers) \in Seq(Strings) /\ Len(Only(ns, T)) = Len(Only(user, Numbers))
          /\ \A i \in 1..Len(Only(ns, T)) :
                \E x \in 1..Len(ns) : Only(ns, T)[i] = ns[x] /\ Only(user, Numbers)[i] = user[x] /\ ns[x] \in T
      BY <1>2, <1>6, <3>1, OnlyOfBoth, SMTT(60)
    <3>3. QED
      BY <3>2 DEF T
  <2>3. \A i \in 1..Len(u) : v[i] = u[i].msg
    <3>1. ASSUME NEW i \in 1..Len(u)
          PROVE  v[i] = u[i].msg
      BY <1>7, <2>2, <3>1
    <3>2. QED
      BY <3>1
  <2> HIDE DEF u, v, p
  <2>4. p = v
    <3>1. Nat \subseteq Int /\ Strings \subseteq Int
      BY Constants
    <3>2. p \in Seq(Int) /\ v \in Seq(Int)
      BY <1>8, <2>2, <3>1, SeqMonotonic
    <3>3. Len(p) = Len(v) /\ \A i \in 1..Len(p) : p[i] = v[i]
      BY <1>8, <2>2, <2>3
    <3>4. QED
      BY <3>2, <3>3, SeqEqual
  <2>5. QED
    BY <1>4, <1>9, <2>4 DEF p, v, ns
<1>10. CASE j # k
  <2>1. u = <<>>
    BY <1>6, <1>7, <1>10, OnlyOfNone
  <2> HIDE DEF p
  <2>2. p = <<>>
    BY <1>8, <2>1
  <2>3. QED
    BY <1>10, <2>2 DEF p, ns
<1>11. QED
  BY <1>9, <1>10

-----------------------------------------------------------------------------
(* What is under way on a connection before its handshake has been read.   *)

(* The connection waits, or a mini server has it that is not connected.    *)
Unread(mi, bl, k) == Contains(bl, k) \/ \E i \in Ids : mi[i].sock = k /\ ~mi[i].linked

(* Nothing comes before the handshake and nothing after the close command. *)
Stream(s, e, unread) ==
    /\ e \in {"none", "connected"} => s = <<>>
    /\ \A i \in 1..Len(s) : s[i] = CloseCmd => i = Len(s) /\ e \notin {"connected", "open"}
    /\ unread => /\ s # <<>> => s[1] = HandshakeCmd
                 /\ e = "open" => s # <<>>
Streams(ss, en, mi, bl) == \A k \in Conns : Stream(ss[k], en[k], Unread(mi, bl, k))

(* The code of a reset connection that Poll may meet is left of an answer. *)
Leftover(er, en) == er = "reset" => \E k \in Conns : en[k] = "broken"

(* Nobody wakes the listener thread before the stop request is there.      *)
Stopping(mn, st) == mn \in {"wake", "signal", "join"} => st

SInv ==
    /\ IInv
    /\ Streams(up, end, mini, backlog)
    /\ Leftover(err, end)
    /\ Stopping(main, stop)

LEMMA StreamsKeep ==
    ASSUME SInv, \A k \in Conns : up'[k] = up[k],
           \A k \in Conns : end'[k] = end[k] \/ {end[k], end'[k]} \subseteq {"shut", "reset", "broken"},
           \A k \in Conns : Unread(mini', backlog', k) => Unread(mini, backlog, k)
    PROVE  Streams(up, end, mini, backlog)'
BY DEF SInv, Streams, Stream

(* A connection whose handshake has not been read has an open end.         *)
LEMMA UnreadIsHeld ==
    ASSUME IInv, NEW k \in Conns, Unread(mini, backlog, k)
    PROVE  Held(k)
<1>1. k # NoConn /\ list \in Seq(Ids)
  BY Constants DEF IInv, TypeOK
<1>2. CASE Contains(backlog, k)
  BY <1>2 DEF Held
<1>3. CASE \E i \in Ids : mini[i].sock = k
  <2>1. PICK i \in Ids : mini[i].sock = k
    BY <1>3
  <2>2. Contains(list, i)
    BY <1>1, <2>1 DEF IInv, Owned
  <2>3. i \in ToSet(list)
    BY <1>1, <2>2 DEF Contains, ToSet
  <2>4. QED
    BY <2>1, <2>3 DEF Held
<1>4. QED
  BY <1>2, <1>3 DEF Unread

LEMMA ListenerStreams ==
    ASSUME SInv, Listener
    PROVE  Streams(up, end, mini, backlog)'
<1> USE DEF thread, minis, shut, owner, net, faults
<1>1. UNCHANGED <<up, end>>
  BY DEF Listener, New, Accept, AcceptFails, SetNonBlocking, Ignore, Loop, ThreadHarakiri
<1>2. IInv /\ mini \in [Ids -> MiniServer] /\ cur \in Ids /\ NoConn \notin Conns
  BY Constants DEF SInv, IInv, TypeOK, MiniServer
<1>3. CASE New \/ AcceptFails \/ Loop \/ ThreadHarakiri
  <2>1. UNCHANGED <<mini, backlog>>
    BY <1>3 DEF New, AcceptFails, Loop, ThreadHarakiri
  <2>2. QED
    BY <1>1, <2>1, StreamsKeep
<1>4. CASE Accept
  <2>1. PICK q \in Sockets : /\ q = Head(backlog) /\ Contains(backlog, q)
                             /\ \A x : Contains(backlog', x) <=> Contains(backlog, x) /\ x # q
                             /\ \A i \in Ids : mini'[i].sock = IF i = cur THEN q ELSE mini[i].sock
    BY <1>2, <1>4, AcceptKeeps
  <2>2. \A i \in Ids : i # cur => mini'[i] = mini[i]
    BY <1>2, <1>4 DEF Accept
  <2>3. \A k \in Conns : Unread(mini', backlog', k) => Unread(mini, backlog, k)
    BY <2>1, <2>2 DEF Unread
  <2>4. QED
    BY <1>1, <2>3, StreamsKeep
<1>5. CASE SetNonBlocking
  <2>1. [mini[cur] EXCEPT !.blocking = FALSE].sock = mini[cur].sock
        /\ [mini[cur] EXCEPT !.blocking = FALSE].linked = mini[cur].linked
    BY <1>2 DEF MiniServer
  <2>2. mini' = [mini EXCEPT ![cur] = [mini[cur] EXCEPT !.blocking = FALSE]] /\ UNCHANGED backlog
    BY <1>5 DEF SetNonBlocking
  <2>3. \A i \in Ids : mini'[i].sock = mini[i].sock /\ mini'[i].linked = mini[i].linked
    BY <1>2, <2>1, <2>2
  <2>4. QED
    BY <1>1, <2>2, <2>3, StreamsKeep DEF Unread
<1>6. CASE Ignore
  <2>1. [mini[cur] EXCEPT !.sock = NoConn].sock = NoConn
    BY <1>2 DEF MiniServer
  <2>2. (UNCHANGED mini \/ mini' = [mini EXCEPT ![cur] = [mini[cur] EXCEPT !.sock = NoConn]])
        /\ UNCHANGED backlog
    BY <1>6 DEF Ignore
  <2>3. \A i \in Ids : mini'[i] = mini[i] \/ mini'[i].sock = NoConn
    BY <1>2, <2>1, <2>2
  <2>4. QED
    BY <1>1, <1>2, <2>2, <2>3, StreamsKeep DEF Unread
<1>7. QED
  BY <1>3, <1>4, <1>5, <1>6 DEF Listener

(* The streams after recv(): what is left of one is the end of what it     *)
(* was, or nothing.                                                        *)
LEMMA ReceivedLeaves ==
    ASSUME SInv, Polling, Sock # NoConn, NEW n \in 1..Len(up[Sock]), Receive(n) \/ ReceiveSplit(n)
    PROVE  /\ Sock \in Conns /\ end[Sock] \notin {"none", "connected"}
           /\ \A k \in Conns : k # Sock => up'[k] = up[k]
           /\ \/ up'[Sock] = <<>>
              \/ up'[Sock] = SubSeq(up[Sock], n + 1, Len(up[Sock]))
              \/ up'[Sock] = <<Fragment>> \o SubSeq(up[Sock], n + 1, Len(up[Sock]))
           /\ \A i \in Ids : i # Polled => mini'[i] = mini[i]
           /\ mini'[Polled].sock = NoConn \/ mini'[Polled].linked
           /\ UNCHANGED <<end, backlog>>
<1>1. IInv /\ mini \in [Ids -> MiniServer] /\ up \in [Sockets -> Seq(Strings)]
  BY DEF SInv, IInv, TypeOK, MiniServer
<1>2. Sock \in Conns /\ Polled \in Ids
  BY <1>1, ReceiveIsReceived, PolledOne
<1>3. end[Sock] \notin {"none", "connected"}
  <2>1. up[Sock] # <<>>
    BY <1>1, <1>2, Constants
  <2>2. QED
    BY <1>2, <2>1 DEF SInv, Streams, Stream
<1>4. PICK s, rest : /\ Received(s, rest) /\ UNCHANGED <<end, backlog>>
                     /\ \/ rest = SubSeq(up[Sock], n + 1, Len(up[Sock]))
                        \/ rest = <<Fragment>> \o SubSeq(up[Sock], n + 1, Len(up[Sock]))
  BY DEF Receive, ReceiveSplit
<1>5. /\ up' = [up EXCEPT ![Sock] = rest] \/ up' = [up EXCEPT ![Sock] = <<>>]
      /\ \/ mini' = [mini EXCEPT ![Polled] = [mini[Polled] EXCEPT !.linked = TRUE]]
         \/ mini' = [mini EXCEPT ![Polled] = Fresh]
  BY <1>4 DEF Received
<1>6. Sock \in Sockets /\ \A k \in Conns : k \in Sockets
  BY <1>2, Constants
<1>7. /\ up'[Sock] \in {rest, <<>>}
      /\ \A k \in Conns : k # Sock => up'[k] = up[k]
  BY <1>1, <1>5, <1>6
<1>8. [mini[Polled] EXCEPT !.linked = TRUE].linked /\ Fresh.sock = NoConn
  BY <1>1, <1>2 DEF Fresh, MiniServer
<1>9. /\ \A i \in Ids : i # Polled => mini'[i] = mini[i]
      /\ mini'[Polled].sock = NoConn \/ mini'[Polled].linked
  BY <1>1, <1>2, <1>5, <1>8
<1>10. QED
  BY <1>2, <1>3, <1>4, <1>7, <1>9

LEMMA ReceiveStreams ==
    ASSUME SInv, Polling, Sock # NoConn, NEW n \in 1..Len(up[Sock]), Receive(n) \/ ReceiveSplit(n)
    PROVE  Streams(up, end, mini, backlog)'
<1> DEFINE q == Sock
<1>1. /\ q \in Conns /\ end[q] \notin {"none", "connected"}
      /\ \A k \in Conns : k # q => up'[k] = up[k]
      /\ \/ up'[q] = <<>>
         \/ up'[q] = SubSeq(up[q], n + 1, Len(up[q]))
         \/ up'[q] = <<Fragment>> \o SubSeq(up[q], n + 1, Len(up[q]))
      /\ \A i \in Ids : i # Polled => mini'[i] = mini[i]
      /\ mini'[Polled].sock = NoConn \/ mini'[Polled].linked
      /\ UNCHANGED <<end, backlog>>
  BY ReceivedLeaves
<1>2. /\ IInv /\ q \in Sockets /\ NoConn \notin Conns /\ mini[Polled].sock = q /\ Polled \in Ids
      /\ up[q] \in Seq(Strings) /\ Stream(up[q], end[q], Unread(mini, backlog, q))
  BY <1>1, Constants, PolledOne DEF SInv, IInv, TypeOK, Sock, Streams
<1>3. ~Unread(mini', backlog', q)
  <2>1. q # NoConn
    BY <1>1, <1>2
  <2>2. ~Contains(backlog, q) /\ \A i \in Ids : mini[i].sock = q => i = Polled
    BY <1>2, <2>1 DEF IInv, Owned
  <2>3. QED
    BY <1>1, <1>2, <2>2 DEF Unread
<1>4. \A k \in Conns : k # q => (Unread(mini', backlog', k) => Unread(mini, backlog, k))
  BY <1>1, <1>2 DEF Unread
<1> HIDE DEF q
<1>5. \A i \in 1..Len(up'[q]) : up'[q][i] = CloseCmd => i = Len(up'[q]) /\ end[q] # "open"
  <2> DEFINE s == up[q]
             r == SubSeq(s, n + 1, Len(s))
             u == <<Fragment>> \o r
  <2>1. /\ s \in Seq(Strings) /\ n \in 1..Len(s) /\ Len(s) \in Nat
        /\ \A i \in 1..Len(s) : s[i] = CloseCmd => i = Len(s) /\ end[q] # "open"
    BY <1>2 DEF Stream, q
  <2>2. /\ r \in Seq(Strings) /\ Len(r) = Len(s) - n
        /\ \A i \in 1..Len(r) : n + i \in 1..Len(s) /\ r[i] = s[n + i]
    BY <2>1
  <2>3. /\ Len(u) = Len(r) + 1 /\ u[1] = Fragment
        /\ \A i \in 2..Len(u) : i - 1 \in 1..Len(r) /\ u[i] = r[i - 1]
    BY <2>2 DEF Strings
  <2> HIDE DEF s, r, u
  <2>4. \A i \in 1..Len(r) : r[i] = CloseCmd => i = Len(r) /\ end[q] # "open"
    <3>1. ASSUME NEW i \in 1..Len(r), r[i] = CloseCmd
          PROVE  i = Len(r) /\ end[q] # "open"
      BY <2>1, <2>2, <3>1
    <3>2. QED
      BY <3>1
  <2>5. \A i \in 1..Len(u) : u[i] = CloseCmd => i = Len(u) /\ end[q] # "open"
    <3>1. ASSUME NEW i \in 1..Len(u), u[i] = CloseCmd
          PROVE  i = Len(u) /\ end[q] # "open"
      <4>1. i \in 2..Len(u)
        BY <2>2, <2>3, <3>1 DEF Fragment, CloseCmd
      <4>2. i - 1 \in 1..Len(r) /\ r[i - 1] = CloseCmd
        BY <2>3, <3>1, <4>1
      <4>3. i - 1 = Len(r) /\ end[q] # "open"
        BY <2>4, <4>2
      <4>4. Len(u) = Len(r) + 1
        BY <2>3
      <4>5. i = Len(u)
        BY <4>1, <4>3, <4>4
      <4>6. QED
        BY <4>3, <4>5
    <3>2. QED
      BY <3>1
  <2>6. up'[q] \in {<<>>, r, u}
    BY <1>1 DEF r, u, s
  <2>7. QED
    BY <2>4, <2>5, <2>6
<1>6. ASSUME NEW k \in Conns
      PROVE  Stream(up'[k], end'[k], Unread(mini', backlog', k))
  <2>1. CASE k = q
    BY <1>1, <1>3, <1>5, <2>1 DEF Stream
  <2>2. CASE k # q
    BY <1>1, <1>4, <2>2 DEF Stream, SInv, Streams
  <2>3. QED
    BY <2>1, <2>2
<1>7. QED
  BY <1>6 DEF Streams

(* What a client adds to its stream, or loses of it, changes no other.     *)
LEMMA ClientStream ==
    ASSUME SInv, NEW k \in Conns, NEW s \in Seq(Strings), NEW e,
           up' = [up EXCEPT ![k] = s], end' = [end EXCEPT ![k] = e], UNCHANGED mini,
           \A j \in Conns : j # k => (Contains(backlog', j) => Contains(backlog, j)),
           Stream(s, e, Unread(mini, backlog', k))
    PROVE  Streams(up, end, mini, backlog)'
<1>1. /\ up \in [Sockets -> Seq(Strings)]
      /\ end \in [Sockets -> {"none", "connected", "open", "shut", "reset", "broken"}]
      /\ \A j \in Conns : j \in Sockets
  BY Constants DEF SInv, IInv, TypeOK
<1>2. ASSUME NEW j \in Conns
      PROVE  Stream(up'[j], end'[j], Unread(mini', backlog', j))
  <2>1. CASE j = k
    BY <1>1, <2>1 DEF Unread
  <2>2. CASE j # k
    <3>1. up'[j] = up[j] /\ end'[j] = end[j]
      BY <1>1, <2>2
    <3>2. Unread(mini', backlog', j) => Unread(mini, backlog, j)
      BY <2>2 DEF Unread
    <3>3. QED
      BY <3>1, <3>2 DEF Stream, SInv, Streams
  <2>3. QED
    BY <2>1, <2>2
<1>3. QED
  BY <1>2 DEF Streams

LEMMA ClientsStreams ==
    ASSUME SInv, Clients
    PROVE  Streams(up, end, mini, backlog)'
<1> USE DEF thread, minis, shut, owner, net, faults
<1>1. PICK k \in Conns : \/ Connect(k) \/ Handshake(k) \/ ClientSend(k) \/ ClientReceive(k)
                         \/ Disconnect(k) \/ Crash(k)
  BY DEF Clients
<1>2. /\ IInv /\ up \in [Sockets -> Seq(Strings)] /\ k \in Sockets /\ backlog \in Seq(Sockets)
      /\ end \in [Sockets -> {"none", "connected", "open", "shut", "reset", "broken"}]
      /\ up = [up EXCEPT ![k] = up[k]] /\ end = [end EXCEPT ![k] = end[k]]
      /\ up[k] \in Seq(Strings) /\ Stream(up[k], end[k], Unread(mini, backlog, k))
  BY Constants DEF SInv, IInv, TypeOK, Streams
<1>3. /\ Len(up[k]) \in Nat
      /\ \A i \in 1..Len(up[k]) : up[k][i] = CloseCmd =>
            i = Len(up[k]) /\ end[k] \notin {"connected", "open"}
  BY <1>2 DEF Stream
<1>4. UNCHANGED mini
  BY <1>1 DEF Connect, Handshake, ClientSend, ClientReceive, Disconnect, Crash, Client
<1>5. CASE Connect(k)
  <2>1. /\ end[k] = "none" /\ end' = [end EXCEPT ![k] = "connected"]
        /\ backlog' = Append(backlog, k) /\ up' = up
    BY <1>5 DEF Connect
  <2>2. up[k] = <<>>
    BY <1>2, <2>1 DEF Stream
  <2>3. \A x : Contains(backlog', x) <=> Contains(backlog, x) \/ x = k
    BY <1>2, <2>1, AppendedElement
  <2>4. Stream(up[k], "connected", Unread(mini, backlog', k))
    BY <2>2 DEF Stream
  <2>5. QED
    BY <1>2, <1>4, <2>1, <2>3, <2>4, ClientStream
<1>6. CASE Handshake(k)
  <2>1. /\ end[k] = "connected" /\ end' = [end EXCEPT ![k] = "open"] /\ UNCHANGED backlog
        /\ IF Held(k) THEN up' = [up EXCEPT ![k] = Append(up[k], HandshakeCmd)] ELSE up' = up
    BY <1>6 DEF Handshake, Write
  <2>2. up[k] = <<>> /\ HandshakeCmd \in Strings /\ HandshakeCmd # CloseCmd
    BY <1>2, <2>1 DEF Stream, Strings, HandshakeCmd, CloseCmd
  <2>3. CASE Held(k)
    <3>1. /\ Append(up[k], HandshakeCmd) = <<HandshakeCmd>> /\ <<HandshakeCmd>> \in Seq(Strings)
          /\ Len(<<HandshakeCmd>>) = 1 /\ <<HandshakeCmd>>[1] = HandshakeCmd
      BY <2>2
    <3>2. Stream(<<HandshakeCmd>>, "open", Unread(mini, backlog', k))
      BY <2>2, <3>1 DEF Stream
    <3>3. /\ up' = [up EXCEPT ![k] = <<HandshakeCmd>>] /\ end' = [end EXCEPT ![k] = "open"]
          /\ UNCHANGED <<mini, backlog>>
      BY <1>4, <2>1, <2>3, <3>1
    <3>4. QED
      BY <3>1, <3>2, <3>3, ClientStream
  <2>4. CASE ~Held(k)
    <3>1. ~Unread(mini, backlog, k)
      BY <1>2, <2>4, UnreadIsHeld
    <3>2. Stream(up[k], "open", Unread(mini, backlog', k))
      BY <2>1, <2>2, <3>1 DEF Stream
    <3>3. QED
      BY <1>2, <1>4, <2>1, <2>4, <3>2, ClientStream
  <2>5. QED
    BY <2>3, <2>4
<1>7. CASE ClientSend(k)
  <2> DEFINE m == sent[k] + 1
  <2>1. /\ end[k] = "open" /\ UNCHANGED <<end, backlog>>
        /\ up' = [up EXCEPT ![k] = Append(up[k], m)] /\ sent[k] < MaxMsgs[k]
    BY <1>7 DEF ClientSend, Write
  <2>2. m \in Strings /\ m # CloseCmd
    <3>1. sent[k] \in Nat /\ MaxMsgs[k] \in Nat
      BY <1>2, Constants DEF IInv, TypeOK
    <3>2. m \in 1..MaxMsgs[k]
      BY <2>1, <3>1
    <3>3. QED
      BY <3>2 DEF Strings, Numbers, CloseCmd
  <2>3. /\ Append(up[k], m) \in Seq(Strings) /\ Len(Append(up[k], m)) = Len(up[k]) + 1
        /\ Append(up[k], m)[Len(up[k]) + 1] = m
        /\ \A i \in 1..Len(up[k]) : Append(up[k], m)[i] = up[k][i]
    BY <1>2, <2>2
  <2> HIDE DEF m
  <2>4. \A i \in 1..Len(Append(up[k], m)) : Append(up[k], m)[i] # CloseCmd
    BY <1>3, <2>1, <2>2, <2>3
  <2>5. Unread(mini, backlog', k) => up[k] # <<>> /\ up[k][1] = HandshakeCmd
    BY <1>2, <2>1 DEF Stream
  <2>6. Unread(mini, backlog', k) => Append(up[k], m)[1] = HandshakeCmd
    <3>1. up[k] # <<>> => 1 \in 1..Len(up[k])
      BY <1>2
    <3>2. QED
      BY <2>3, <2>5, <3>1
  <2>7. Stream(Append(up[k], m), end[k], Unread(mini, backlog', k))
    <3>1. Append(up[k], m) # <<>>
      BY <1>3, <2>3
    <3>2. QED
      BY <2>1, <2>4, <2>6, <3>1 DEF Stream
  <2>8. QED
    BY <1>2, <1>4, <2>1, <2>3, <2>7, ClientStream
<1>8. CASE ClientReceive(k)
  <2>1. /\ end[k] = "open" /\ UNCHANGED <<up, backlog>>
        /\ end' = end \/ end' = [end EXCEPT ![k] = "shut"]
    BY <1>8 DEF ClientReceive
  <2>2. Stream(up[k], "shut", Unread(mini, backlog', k))
    BY <1>2, <1>3, <2>1 DEF Stream
  <2>3. QED
    BY <1>2, <1>4, <2>1, <2>2, ClientStream
<1>9. CASE Disconnect(k)
  <2>1. /\ end[k] = "open" /\ end' = [end EXCEPT ![k] = "shut"] /\ UNCHANGED backlog
        /\ up' = [up EXCEPT ![k] = Append(up[k], CloseCmd)] \/ up' = up
    BY <1>9 DEF Disconnect, Write
  <2>2. CASE up' = up
    <3>1. Stream(up[k], "shut", Unread(mini, backlog', k))
      BY <1>2, <1>3, <2>1 DEF Stream
    <3>2. QED
      BY <1>2, <1>4, <2>1, <2>2, <3>1, ClientStream
  <2>3. CASE up' = [up EXCEPT ![k] = Append(up[k], CloseCmd)]
    <3> DEFINE r == Append(up[k], CloseCmd)
    <3>1. /\ r \in Seq(Strings) /\ Len(r) = Len(up[k]) + 1
          /\ \A i \in 1..Len(up[k]) : r[i] = up[k][i]
      BY <1>2 DEF Strings
    <3> HIDE DEF r
    <3>2. \A i \in 1..Len(r) : r[i] = CloseCmd => i = Len(r)
      BY <1>3, <2>1, <3>1
    <3>3. Unread(mini, backlog', k) => up[k] # <<>> /\ up[k][1] = HandshakeCmd
      BY <1>2, <2>1 DEF Stream
    <3>4. up[k] # <<>> => 1 \in 1..Len(up[k])
      BY <1>2
    <3>5. Stream(r, "shut", Unread(mini, backlog', k))
      BY <3>1, <3>2, <3>3, <3>4 DEF Stream
    <3>6. QED
      BY <1>2, <1>4, <2>1, <2>3, <3>1, <3>5, ClientStream DEF r
  <2>4. QED
    BY <2>1, <2>2, <2>3
<1>10. CASE Crash(k)
  <2>1. PICK n \in 0..Len(up[k]) : up' = [up EXCEPT ![k] = SubSeq(up[k], 1, n)]
    BY <1>10 DEF Crash
  <2>2. end' = [end EXCEPT ![k] = "reset"] /\ UNCHANGED backlog /\ end[k] \in {"connected", "open"}
    BY <1>10 DEF Crash
  <2> DEFINE r == SubSeq(up[k], 1, n)
  <2>3. /\ r \in Seq(Strings) /\ Len(r) = n
        /\ \A i \in 1..n : r[i] = up[k][i] /\ i \in 1..Len(up[k])
    BY <1>2
  <2> HIDE DEF r
  <2>4. \A i \in 1..Len(r) : r[i] # CloseCmd
    BY <1>3, <2>2, <2>3
  <2>5. r # <<>> => r[1] = up[k][1] /\ up[k] # <<>>
    <3>1. r # <<>> => 1 \in 1..n
      BY <2>3
    <3>2. 1 \in 1..n => up[k] # <<>>
      BY <2>3
    <3>3. QED
      BY <2>3, <3>1, <3>2
  <2>6. Stream(r, "reset", Unread(mini, backlog', k))
    BY <1>2, <2>2, <2>4, <2>5 DEF Stream
  <2>7. QED
    BY <1>2, <1>4, <2>1, <2>2, <2>3, <2>6, ClientStream DEF r
<1>11. QED
  BY <1>1, <1>5, <1>6, <1>7, <1>8, <1>9, <1>10

LEMMA StreamsStep ==
    ASSUME SInv, [Next]_vars
    PROVE  Streams(up, end, mini, backlog)'
<1> USE DEF thread, minis, shut, owner, net, faults, vars
<1>1. IInv /\ \A k \in Conns : k \in Sockets /\ k # Dummy /\ k # NoConn
  BY Constants DEF SInv
<1>2. CASE UNCHANGED <<up, end, mini, backlog>>
  BY <1>2, StreamsKeep
<1>3. CASE Listener
  BY <1>3, ListenerStreams
<1>4. CASE Clients
  BY <1>4, ClientsStreams
<1>5. CASE Polling /\ Sock # NoConn /\ \E n \in 1..Len(up[Sock]) : Receive(n) \/ ReceiveSplit(n)
  BY <1>5, ReceiveStreams
<1>6. CASE ConnectionClosed
  <2>1. mini' = [mini EXCEPT ![Polled] = Fresh] /\ UNCHANGED <<up, end, backlog>>
    BY <1>6 DEF ConnectionClosed
  <2>2. mini \in [Ids -> MiniServer] /\ Fresh.sock = NoConn
    BY <1>1 DEF IInv, TypeOK, MiniServer, Fresh
  <2>3. \A i \in Ids : mini'[i] = mini[i] \/ mini'[i].sock = NoConn
    BY <2>1, <2>2
  <2>4. QED
    BY <1>1, <2>1, <2>3, StreamsKeep DEF Unread
<1>7. CASE Send
  <2>1. UNCHANGED <<up, mini, backlog>>
    BY <1>7 DEF Send
  <2>2. end \in [Sockets -> {"none", "connected", "open", "shut", "reset", "broken"}]
    BY <1>1 DEF IInv, TypeOK
  <2>3. ASSUME NEW k \in Conns, Answer(k, k),
               end[k] \in {"connected", "open", "shut", "reset", "broken"}
        PROVE  \A j \in Conns : end'[j] = end[j]
                                \/ {end[j], end'[j]} \subseteq {"shut", "reset", "broken"}
    BY <1>1, <2>2, <2>3 DEF Answer
  <2>4. \A j \in Conns : end'[j] = end[j] \/ {end[j], end'[j]} \subseteq {"shut", "reset", "broken"}
    BY <1>1, <1>7, <2>3, SendReaches
  <2>5. QED
    BY <2>1, <2>4, StreamsKeep
<1>8. CASE Wakeup
  <2>1. UNCHANGED <<up, mini>> /\ backlog \in Seq(Sockets)
        /\ end \in [Sockets -> {"none", "connected", "open", "shut", "reset", "broken"}]
    BY <1>1, <1>8 DEF Wakeup, IInv, TypeOK
  <2>2. CASE UNCHANGED <<backlog, end>>
    BY <1>2, <2>1, <2>2
  <2>3. CASE backlog' = Append(backlog, Dummy) /\ end' = [end EXCEPT ![Dummy] = "shut"]
    <3>1. \A x : Contains(backlog', x) <=> Contains(backlog, x) \/ x = Dummy
      BY <2>1, <2>3, Constants, AppendedElement
    <3>2. \A k \in Conns : end'[k] = end[k]
      BY <1>1, <2>1, <2>3
    <3>3. QED
      BY <1>1, <2>1, <3>1, <3>2, StreamsKeep DEF Unread
  <2>4. QED
    BY <1>1, <1>8, <2>2, <2>3, WakeupEnds
<1>9. CASE Join
  <2>1. /\ \A k \in Conns : up'[k] = <<>> /\ \A i \in Ids : mini'[i].sock # k
        /\ backlog' = <<>>
    BY <1>1, <1>9 DEF Join, Fresh
  <2>2. \A k \in Conns : ~Unread(mini', backlog', k)
    BY <2>1 DEF Unread, Contains
  <2>3. QED
    BY <2>1, <2>2 DEF Streams, Stream
<1>10. CASE \/ PollStart \/ PollEnd \/ PollUnbound \/ WouldBlock \/ Block \/ GetMsg \/ Stop
            \/ LetDie
  BY <1>2, <1>10 DEF PollStart, PollEnd, PollUnbound, WouldBlock, Block, GetMsg, Stop, LetDie
<1>11. QED
  BY <1>2, <1>3, <1>4, <1>5, <1>6, <1>7, <1>8, <1>9, <1>10 DEF Next, Main, PollStep

(* An end that is broken stays so, and nothing that makes a channel        *)
(* unreliable is ever taken back.                                          *)
LEMMA LeftoverStep ==
    ASSUME SInv, [Next]_vars
    PROVE  Leftover(err, end)' /\ (Reliable' => Reliable)
<1> USE DEF thread, minis, shut, owner, net, faults, vars
<1>1. /\ IInv /\ Leftover(err, end)
      /\ end \in [Sockets -> {"none", "connected", "open", "shut", "reset", "broken"}]
      /\ splits \in Nat /\ crashes \in Nat /\ \A k \in Conns : k \in Sockets /\ k # Dummy
  BY Constants, Summands DEF SInv, IInv, TypeOK
<1> DEFINE BrokenStays == \A k \in Conns : end[k] = "broken" => end'[k] = "broken"
<1>2. ASSUME BrokenStays, err' = "reset" => err = "reset"
      PROVE  Leftover(err, end)'
  BY <1>1, <1>2 DEF Leftover
<1>3. ASSUME BrokenStays, splits' = splits \/ splits' = splits + 1,
             crashes' = crashes \/ crashes' = crashes + 1, stop' = stop \/ stop'
      PROVE  Reliable' => Reliable
  BY <1>1, <1>3 DEF Reliable
<1>4. CASE Listener
  <2>1. UNCHANGED <<end, err, splits, crashes, stop>>
    BY <1>4 DEF Listener, New, Accept, AcceptFails, SetNonBlocking, Ignore, Loop, ThreadHarakiri
  <2>2. QED
    BY <1>2, <1>3, <2>1
<1>5. CASE PollStep
  <2>1. /\ UNCHANGED <<end, crashes, stop>>
        /\ splits' = splits \/ splits' = splits + 1
        /\ err' = err \/ err' = "other"
    BY <1>5 DEF PollStep, PollEnd, PollUnbound, WouldBlock, Block, ConnectionClosed, Receive,
                ReceiveSplit
  <2>2. QED
    BY <1>2, <1>3, <2>1
<1>6. CASE PollStart \/ GetMsg \/ Stop \/ LetDie \/ Join
  <2>1. UNCHANGED <<end, err, splits, crashes>> /\ (stop' = stop \/ stop')
    BY <1>6 DEF PollStart, GetMsg, Stop, LetDie, Join
  <2>2. QED
    BY <1>2, <1>3, <2>1
<1>7. CASE Send
  <2>1. UNCHANGED <<splits, crashes, stop>>
    BY <1>7 DEF Send
  <2>2. ASSUME NEW k \in Conns, Answer(k, k),
               end[k] \in {"connected", "open", "shut", "reset", "broken"}
        PROVE  BrokenStays /\ Leftover(err, end)'
    <3>1. k \in Sockets
      BY <1>1
    <3>2. CASE UNCHANGED <<err, end>>
      BY <1>2, <3>2
    <3>3. CASE end[k] = "shut" /\ end' = [end EXCEPT ![k] = "reset"] /\ UNCHANGED err
      BY <1>1, <1>2, <3>1, <3>3
    <3>4. CASE end[k] = "reset" /\ end' = [end EXCEPT ![k] = "broken"]
      BY <1>1, <3>1, <3>4 DEF Leftover
    <3>5. QED
      BY <2>2, <3>2, <3>3, <3>4 DEF Answer
  <2>3. BrokenStays /\ Leftover(err, end)'
    BY <1>1, <1>2, <1>7, <2>2, SendReaches
  <2>4. QED
    BY <1>3, <2>1, <2>3
<1>8. CASE Wakeup
  <2>1. UNCHANGED <<err, splits, crashes, stop>>
    BY <1>8 DEF Wakeup
  <2>2. BrokenStays
    BY <1>1, <1>8, WakeupEnds
  <2>3. QED
    BY <1>2, <1>3, <2>1, <2>2
<1>9. CASE Clients
  <2>1. PICK k \in Conns : \/ Connect(k) \/ Handshake(k) \/ ClientSend(k) \/ ClientReceive(k)
                           \/ Disconnect(k) \/ Crash(k)
    BY <1>9 DEF Clients
  <2>2. UNCHANGED <<err, splits, stop>> /\ (crashes' = crashes \/ crashes' = crashes + 1)
    BY <2>1 DEF Connect, Handshake, ClientSend, ClientReceive, Disconnect, Crash, Client
  <2>3. \/ UNCHANGED end
        \/ \E e : end[k] \in {"none", "connected", "open"} /\ end' = [end EXCEPT ![k] = e]
    BY <2>1 DEF Connect, Handshake, ClientSend, ClientReceive, Disconnect, Crash
  <2>4. BrokenStays
    BY <1>1, <2>3
  <2>5. QED
    BY <1>2, <1>3, <2>2, <2>4
<1>10. CASE UNCHANGED vars
  BY <1>2, <1>3, <1>10
<1>11. QED
  BY <1>4, <1>5, <1>6, <1>7, <1>8, <1>9, <1>10 DEF Next, Main

LEMMA StoppingStep ==
    ASSUME SInv, [Next]_vars
    PROVE  Stopping(main, stop)'
<1> USE DEF thread, minis, shut, owner, net, faults, vars
<1>1. Stopping(main, stop)
  BY DEF SInv
<1>2. CASE UNCHANGED <<main, stop>>
  BY <1>1, <1>2
<1>3. CASE Listener
  BY <1>2, <1>3 DEF Listener, New, Accept, AcceptFails, SetNonBlocking, Ignore, Loop, ThreadHarakiri
<1>4. CASE Clients
  <2>1. UNCHANGED <<main, stop>>
    BY <1>4 DEF Clients, Connect, Handshake, ClientSend, ClientReceive, Disconnect, Crash, Client
  <2>2. QED
    BY <1>2, <2>1
<1>5. CASE PollStart \/ PollStep \/ GetMsg
  <2>1. main' \in {"run", "poll", "recv"}
    BY <1>5 DEF PollStart, PollStep, PollEnd, PollUnbound, WouldBlock, Block, ConnectionClosed,
                Receive, ReceiveSplit, Received, Stays, Goes, GetMsg
  <2>2. QED
    BY <2>1 DEF Stopping
<1>6. CASE Send
  <2>1. UNCHANGED stop /\ main = "run" /\ SInv
    BY <1>6 DEF Send
  <2>2. main' = "run" \/ main' = "killed"
    <3>1. ASSUME NEW k, Answer(k, k), end[k] \in {"connected", "open", "shut", "reset", "broken"}
          PROVE  main' = main \/ main' = "killed"
      BY <3>1 DEF Answer
    <3>2. QED
      BY <1>6, <2>1, <3>1, SendReaches DEF SInv
  <2>3. QED
    BY <2>2 DEF Stopping
<1>7. CASE Stop \/ Wakeup \/ LetDie \/ Join
  BY <1>1, <1>7 DEF Stop, Wakeup, LetDie, Join, Stopping
<1>8. QED
  BY <1>2, <1>3, <1>4, <1>5, <1>6, <1>7 DEF Next, Main

-----------------------------------------------------------------------------
(* What a step does to the messages under way.                             *)

LEMMA OnlyNumbers == \A s \in Seq(Strings) : Only(s, Numbers) \in Seq(Nat)
<1> SUFFICES ASSUME NEW s \in Seq(Strings)
             PROVE  Only(s, Numbers) \in Seq(Nat)
  OBVIOUS
<1> DEFINE r == Only(s, Numbers)
<1>1. r \in Seq(Strings) /\ \E f : Picks(f, s, Numbers, r)
  BY OnlyPicks
<1> HIDE DEF r
<1>2. PICK f : Picks(f, s, Numbers, r)
  BY <1>1
<1>3. \A k \in 1..Len(r) : r[k] \in Numbers
  BY <1>2 DEF Picks, Along, Upwards
<1>4. Numbers \subseteq Nat
  BY Constants DEF Numbers
<1>5. r \in Seq(Nat)
  <2>1. Len(r) \in Nat /\ r \in [1..Len(r) -> Strings]
    BY <1>1
  <2>2. r \in [1..Len(r) -> Nat]
    BY <1>3, <1>4, <2>1
  <2>3. QED
    BY <2>1, <2>2
<1>6. QED
  BY <1>5 DEF r

LEMMA OnlyEmpty == Only(<<>>, Numbers) = <<>>
<1> DEFINE q == <<>>
<1>1. q \in Seq(Strings) /\ \A i \in 1..Len(q) : q[i] \notin Numbers
  OBVIOUS
<1> HIDE DEF q
<1>2. Only(q, Numbers) = <<>>
  BY <1>1, OnlyOfNone
<1>3. QED
  BY <1>2 DEF q

LEMMA WayTyped ==
    ASSUME IInv, NEW k \in Conns
    PROVE  /\ msgs \in Seq(Node) /\ up[k] \in Seq(Strings) /\ up[k] \in Seq(OfClient(k))
           /\ Pending(msgs, k) \in Seq(Nat) /\ Only(up[k], Numbers) \in Seq(Nat)
           /\ UnderWay[k] = Pending(msgs, k) \o Only(up[k], Numbers)
           /\ UnderWay[k] \in Seq(Nat)
<1>1. msgs \in Seq(Node) /\ up[k] \in Seq(Strings) /\ up[k] \in Seq(OfClient(k))
  BY Constants DEF IInv, TypeOK, FromClients
<1>2. Pending(msgs, k) \in Seq(Nat) /\ Only(up[k], Numbers) \in Seq(Nat)
  BY <1>1, PendingTyped, OnlyNumbers
<1>3. UnderWay[k] = Pending(msgs, k) \o Only(up[k], Numbers)
  BY DEF UnderWay
<1>4. QED
  BY <1>1, <1>2, <1>3

Keeps == UNCHANGED <<UnderWay, got, sent>>
Loses ==
    /\ ~Reliable'
    /\ \A k \in Conns : Channel!Thinned(UnderWay'[k], UnderWay[k])
    /\ UNCHANGED <<got, sent>>
Sends ==
    \E k \in Conns :
        /\ sent[k] + 1 \in 1..MaxMsgs[k]
        /\ UnderWay' = [UnderWay EXCEPT ![k] = Append(@, sent[k] + 1)]
        /\ sent' = [sent EXCEPT ![k] = @ + 1]
        /\ UNCHANGED <<got, Reliable>>
Gets ==
    \E k \in Conns :
        /\ UnderWay[k] # <<>>
        /\ UnderWay' = [UnderWay EXCEPT ![k] = Tail(@)]
        /\ got' = [got EXCEPT ![k] = Append(@, Head(UnderWay[k]))]
        /\ UNCHANGED <<sent, Reliable>>

LEMMA WayKeeps ==
    ASSUME UNCHANGED <<msgs, got, sent>>, \A k \in Conns : Only(up'[k], Numbers) = Only(up[k], Numbers)
    PROVE  Keeps
BY DEF Keeps, UnderWay

LEMMA WrittenWay ==
    ASSUME NEW p \in Seq(Nat), NEW s \in Seq(Strings), NEW x \in Strings
    PROVE  p \o Only(Append(s, x), Numbers) = IF x \in Numbers THEN Append(p \o Only(s, Numbers), x)
                                                               ELSE p \o Only(s, Numbers)
<1> DEFINE r == Only(s, Numbers)
           u == Only(<<x>>, Numbers)
<1>1. Append(s, x) = s \o <<x>> /\ <<x>> \in Seq(Strings)
  OBVIOUS
<1>2. Only(Append(s, x), Numbers) = r \o u /\ r \in Seq(Nat) /\ u \in Seq(Nat)
  <2> DEFINE q == <<x>>
  <2>1. Append(s, x) = s \o q /\ q \in Seq(Strings)
    BY <1>1
  <2> HIDE DEF q
  <2>2. Only(s \o q, Numbers) = Only(s, Numbers) \o Only(q, Numbers)
    BY <2>1, OnlyOfJoined
  <2>3. QED
    BY <2>1, <2>2, OnlyNumbers DEF q
<1>3. u = IF x \in Numbers THEN <<x>> ELSE <<>>
  BY OnlyOfOne
<1> HIDE DEF r, u
<1>4. CASE x \in Numbers
  <2>1. x \in Nat
    BY <1>4, Constants DEF Numbers
  <2>2. p \o (r \o <<x>>) = Append(p \o r, x)
    BY <1>2, <2>1
  <2>3. QED
    BY <1>2, <1>3, <1>4, <2>2 DEF r
<1>5. CASE x \notin Numbers
  BY <1>2, <1>3, <1>5 DEF r
<1>6. QED
  BY <1>4, <1>5

(* The stream of a connection, taken apart.                                *)
LEMMA Apart ==
    ASSUME NEW T, NEW s \in Seq(T), T \subseteq Strings, NEW n \in 0..Len(s)
    PROVE  LET pre == SubSeq(s, 1, n)
               suf == SubSeq(s, n + 1, Len(s))
           IN  /\ pre \in Seq(T) /\ suf \in Seq(T) /\ Len(pre) = n /\ Len(suf) = Len(s) - n
               /\ \A i \in 1..n : pre[i] = s[i]
               /\ Only(pre, Numbers) \in Seq(Nat) /\ Only(suf, Numbers) \in Seq(Nat)
               /\ Only(s, Numbers) = Only(pre, Numbers) \o Only(suf, Numbers)
<1> DEFINE pre == SubSeq(s, 1, n)
           suf == SubSeq(s, n + 1, Len(s))
<1>1. /\ pre \in Seq(T) /\ suf \in Seq(T) /\ Len(pre) = n /\ Len(suf) = Len(s) - n
      /\ \A i \in 1..n : pre[i] = s[i]
  OBVIOUS
<1>2. s = pre \o suf
  <2>1. /\ Len(suf) = Len(s) - n /\ \A i \in 1..Len(s) - n : suf[i] = s[n + i]
        /\ n \in Nat /\ Len(s) \in Nat
    OBVIOUS
  <2> HIDE DEF pre, suf
  <2>2. /\ pre \o suf \in Seq(T) /\ Len(pre \o suf) = Len(s)
        /\ \A i \in 1..Len(s) : (pre \o suf)[i] = IF i <= n THEN pre[i] ELSE suf[i - n]
    BY <1>1, <2>1, ConcatProperties
  <2>3. \A i \in 1..Len(s) : s[i] = (pre \o suf)[i]
    BY <1>1, <2>1, <2>2
  <2>4. QED
    BY <2>2, <2>3, SeqEqual
<1> HIDE DEF pre, suf
<1>3. Only(s, Numbers) = Only(pre, Numbers) \o Only(suf, Numbers)
  BY <1>1, <1>2, OnlyOfJoined
<1>4. pre \in Seq(Strings) /\ suf \in Seq(Strings)
  BY <1>1, SeqMonotonic
<1>5. QED
  BY <1>1, <1>3, <1>4, OnlyNumbers DEF pre, suf

LEMMA FragmentFirst ==
    ASSUME NEW s \in Seq(Strings)
    PROVE  Only(<<Fragment>> \o s, Numbers) = Only(s, Numbers)
<1> DEFINE q == <<Fragment>>
<1>1. q \in Seq(Strings) /\ \A i \in 1..Len(q) : q[i] \notin Numbers
  BY Constants DEF Strings, Numbers, Fragment
<1> HIDE DEF q
<1>2. Only(q, Numbers) = <<>>
  BY <1>1, OnlyOfNone
<1>3. Only(q \o s, Numbers) = Only(q, Numbers) \o Only(s, Numbers)
  BY <1>1, OnlyOfJoined
<1>4. <<>> \o Only(s, Numbers) = Only(s, Numbers)
  BY OnlyNumbers, ConcatEmptySeq
<1>5. QED
  BY <1>2, <1>3, <1>4 DEF q

(* What Poll makes of the beginning of a stream, while the channels are    *)
(* reliable: it drops nothing, because nothing follows what makes it close *)
(* the connection.                                                         *)
LEMMA NothingDropped ==
    ASSUME SInv, SInv', Polling, Sock \in Conns, NEW n \in 1..Len(up[Sock]), Receive(n), Reliable'
    PROVE  /\ err # "reset"
           /\ \/ Linked(SubSeq(up[Sock], 1, n), mini[Polled].linked)
              \/ SubSeq(up[Sock], n + 1, Len(up[Sock])) = <<>>
<1> DEFINE k == Sock
           s == up[k]
           pre == SubSeq(s, 1, n)
<1>1. /\ IInv /\ s \in Seq(Strings) /\ Stream(s, end[k], Unread(mini, backlog, k)) /\ Polled \in Ids
  BY PolledOne, WayTyped DEF SInv, Streams
<1>2. /\ pre \in Seq(Strings) /\ Len(pre) = n /\ \A i \in 1..n : pre[i] = s[i]
      /\ n \in 1..Len(s) /\ DOMAIN pre = 1..n
  BY <1>1
<1>3. err # "reset"
  <2>1. UNCHANGED <<err, end>>
    BY DEF Receive
  <2>2. QED
    BY <2>1 DEF Reliable, SInv, Leftover
<1>4. CASE \E i \in 1..n : pre[i] = CloseCmd
  <2>1. n = Len(s)
    BY <1>1, <1>2, <1>4 DEF Stream
  <2>2. SubSeq(s, n + 1, Len(s)) = <<>>
    BY <1>1, <2>1
  <2>3. QED
    BY <1>3, <2>2
<1>5. CASE ~\E i \in 1..n : pre[i] = CloseCmd
  <2>1. ~Contains(pre, CloseCmd)
    BY <1>2, <1>5 DEF Contains
  <2>2. CASE mini[Polled].linked
    BY <1>3, <2>1, <2>2 DEF Linked
  <2>3. CASE ~mini[Polled].linked
    <3>1. Unread(mini, backlog, k)
      BY <1>1, <2>3 DEF Unread, Sock
    <3>2. s[1] = HandshakeCmd
      BY <1>1, <1>2, <3>1 DEF Stream
    <3>3. 1 \in DOMAIN pre /\ pre[1] = HandshakeCmd /\ \A j \in DOMAIN pre : pre[j] # CloseCmd
      BY <1>2, <1>5, <3>2
    <3>4. QED
      BY <1>3, <3>3 DEF Linked
  <2>4. QED
    BY <2>2, <2>3
<1>6. QED
  BY <1>4, <1>5

LEMMA PartsThinned ==
    ASSUME NEW p \in Seq(Nat), NEW a \in Seq(Nat), NEW b \in Seq(Nat),
           NEW x \in {a, <<>>}, NEW y \in {b, <<>>}
    PROVE  Channel!Thinned((p \o x) \o y, p \o (a \o b)) /\ (p \o a) \o b = p \o (a \o b)
<1>1. x \in Seq(Nat) /\ y \in Seq(Nat)
  <2>1. <<>> \in Seq(Nat)
    OBVIOUS
  <2>2. (x = a \/ x = <<>>) /\ (y = b \/ y = <<>>)
    OBVIOUS
  <2>3. QED
    BY <2>1, <2>2
<1>2. x \o y \in Seq(Nat) /\ a \o b \in Seq(Nat)
  BY <1>1, ConcatProperties
<1>3. Channel!Thinned(x, a) /\ Channel!Thinned(y, b) /\ Channel!Thinned(p, p)
  BY ThinnedSelf
<1>4. Channel!Thinned(x \o y, a \o b)
  BY <1>1, <1>3, ThinnedJoined
<1>5. Channel!Thinned(p \o (x \o y), p \o (a \o b))
  BY <1>2, <1>3, <1>4, ThinnedJoined
<1>6. (p \o x) \o y = p \o (x \o y) /\ (p \o a) \o b = p \o (a \o b)
  <2>1. ASSUME NEW u \in Seq(Nat), NEW v \in Seq(Nat)
        PROVE  (p \o u) \o v = p \o (u \o v)
    BY ConcatAssociative
  <2>2. QED
    BY <1>1, <2>1
<1>7. QED
  BY <1>5, <1>6

LEMMA ReceiveWay ==
    ASSUME SInv, SInv', Polling, Sock # NoConn, NEW n \in 1..Len(up[Sock]),
           Receive(n) \/ ReceiveSplit(n)
    PROVE  Keeps \/ Loses
<1> DEFINE k == Sock
           s == up[k]
           pre == SubSeq(s, 1, n)
           suf == SubSeq(s, n + 1, Len(s))
           P == Pending(msgs, k)
           A == Only(pre, Numbers)
           B == Only(suf, Numbers)
<1>1. /\ IInv /\ k \in Conns /\ UNCHANGED <<got, sent>> /\ Polled \in Ids
      /\ \A j \in Conns : j # k => up'[j] = up[j]
  BY ReceivedLeaves, PolledOne DEF SInv, Receive, ReceiveSplit
<1>2. /\ msgs \in Seq(Node) /\ s \in Seq(OfClient(k)) /\ P \in Seq(Nat)
      /\ UnderWay[k] = P \o Only(s, Numbers)
  BY <1>1, WayTyped
<1>3. /\ OfClient(k) \subseteq Strings /\ n \in 0..Len(s) /\ \A j \in Conns : j \in Sockets
      /\ up \in [Sockets -> Seq(Strings)]
  <2>1. OfClient(k) \subseteq Strings /\ \A j \in Conns : j \in Sockets
    BY <1>1, Constants
  <2>2. up \in [Sockets -> Seq(Strings)]
    BY <1>1 DEF IInv, TypeOK
  <2>3. n \in 0..Len(s)
    OBVIOUS
  <2>4. QED
    BY <2>1, <2>2, <2>3
<1>4. /\ pre \in Seq(OfClient(k)) /\ suf \in Seq(OfClient(k)) /\ suf \in Seq(Strings)
      /\ A \in Seq(Nat) /\ B \in Seq(Nat)
      /\ Only(s, Numbers) = A \o B
  BY <1>1, <1>2, <1>3, Apart, SeqMonotonic
<1>5. \A j \in Conns : UnderWay'[j] = Pending(msgs', j) \o Only(up'[j], Numbers)
  BY DEF UnderWay
<1>6. ASSUME NEW j \in Conns, j # k
      PROVE  UnderWay'[j] = UnderWay[j]
  <2>1. UnderWay[j] = Pending(msgs, j) \o Only(up[j], Numbers) /\ Pending(msgs, j) \in Seq(Nat)
    BY <1>1, WayTyped
  <2>2. Pending(msgs', j) = Pending(msgs, j)
    <3>1. CASE msgs' = msgs
      BY <3>1
    <3>2. ASSUME NEW t \in Seq(OfClient(k)), msgs' = msgs \o Nodes(t)
          PROVE  Pending(msgs', j) = Pending(msgs, j)
      <4>1. Nodes(t) \in Seq(Node)
        BY <1>1, NodesOfClient
      <4>2. Pending(Nodes(t), j) = <<>>
        BY <1>1, <1>6, PendingOfNodes
      <4>3. Pending(msgs', j) = Pending(msgs, j) \o <<>>
        BY <1>2, <3>2, <4>1, <4>2, PendingJoined
      <4>4. QED
        BY <2>1, <4>3
    <3>3. <<>> \in Seq(OfClient(k))
      OBVIOUS
    <3>4. QED
      BY <1>4, <3>1, <3>2, <3>3 DEF Receive, ReceiveSplit, Received
  <2>3. QED
    BY <1>1, <1>5, <1>6, <2>1, <2>2
<1>7. /\ UnderWay[k] = P \o (A \o B) /\ (P \o A) \o B = P \o (A \o B)
      /\ Channel!Thinned((P \o A) \o B, P \o (A \o B))
      /\ Channel!Thinned((P \o A) \o <<>>, P \o (A \o B))
      /\ Channel!Thinned((P \o <<>>) \o B, P \o (A \o B))
      /\ Channel!Thinned((P \o <<>>) \o <<>>, P \o (A \o B))
      /\ P \o <<>> = P
  <2> HIDE DEF A, B, P, pre, suf, s, k
  <2>1. UnderWay[k] = P \o (A \o B)
    BY <1>2, <1>4
  <2>2. P \in Seq(Nat) /\ A \in Seq(Nat) /\ B \in Seq(Nat) /\ P \o <<>> = P
    BY <1>2, <1>4, ConcatEmptySeq
  <2>3. QED
    BY <2>1, <2>2, PartsThinned
<1>8. /\ \A j \in Conns : j # k => Channel!Thinned(UnderWay'[j], UnderWay[j])
      /\ DOMAIN UnderWay' = Conns /\ DOMAIN UnderWay = Conns
      /\ UnderWay = [j \in Conns |-> UnderWay[j]] /\ UnderWay' = [j \in Conns |-> UnderWay'[j]]
  <2>1. \A j \in Conns : UnderWay[j] \in Seq(Nat)
    BY <1>1, WayTyped
  <2>2. QED
    BY <1>6, <2>1, ThinnedSelf DEF UnderWay
<1>9. CASE Receive(n)
  <2> DEFINE linked == err # "reset" /\ Linked(pre, mini[Polled].linked)
  <2>1. /\ msgs' = IF err = "reset" THEN msgs ELSE msgs \o Nodes(pre)
        /\ up' = [up EXCEPT ![k] = IF linked THEN suf ELSE <<>>]
    BY <1>9 DEF Receive, Received
  <2>2. Only(up'[k], Numbers) = IF linked THEN B ELSE <<>>
    <3>1. Only(<<>>, Numbers) = <<>>
      BY OnlyEmpty
    <3>2. QED
      BY <1>1, <1>3, <2>1, <3>1
  <2>3. Pending(msgs', k) = IF err = "reset" THEN P ELSE P \o A
    <3>1. Nodes(pre) \in Seq(Node) /\ Pending(Nodes(pre), k) = A
      BY <1>1, <1>4, NodesOfClient, PendingOfNodes
    <3>2. QED
      <4> HIDE DEF A, P, pre, k
      <4>1. Pending(msgs \o Nodes(pre), k) = Pending(msgs, k) \o Pending(Nodes(pre), k)
        BY <1>1, <1>2, <3>1, PendingJoined
      <4>2. QED
        BY <2>1, <3>1, <4>1 DEF P
  <2> HIDE DEF linked, A, B, P, pre, suf, s, k
  <2>4. P \o <<>> = P
    BY <1>7
  <2>5. UnderWay'[k] = (P \o (IF err = "reset" THEN <<>> ELSE A)) \o (IF linked THEN B ELSE <<>>)
    BY <1>1, <1>5, <2>2, <2>3, <2>4
  <2>6. CASE ~Reliable'
    <3>1. Channel!Thinned(UnderWay'[k], UnderWay[k])
      <4>1. CASE err = "reset" /\ linked
        BY <1>7, <2>5, <4>1
      <4>2. CASE err = "reset" /\ ~linked
        BY <1>7, <2>5, <4>2
      <4>3. CASE err # "reset" /\ linked
        BY <1>7, <2>5, <4>3
      <4>4. CASE err # "reset" /\ ~linked
        BY <1>7, <2>5, <4>4
      <4>5. QED
        BY <4>1, <4>2, <4>3, <4>4
    <3>2. QED
      BY <1>1, <1>8, <2>6, <3>1 DEF Loses
  <2>7. CASE Reliable'
    <3>1. err # "reset" /\ (linked \/ suf = <<>>)
      BY <1>1, <1>9, <2>7, NothingDropped DEF linked, pre, suf, s, k
    <3>2. B = IF linked THEN B ELSE <<>>
      BY <3>1, OnlyEmpty DEF B
    <3>3. UnderWay'[k] = (P \o A) \o B
      BY <2>5, <3>1, <3>2
    <3>4. UnderWay'[k] = UnderWay[k]
      BY <1>7, <3>3
    <3>5. \A j \in Conns : UnderWay'[j] = UnderWay[j]
      BY <1>6, <3>4
    <3>6. UnderWay' = UnderWay
      BY <1>8, <3>5
    <3>7. QED
      BY <1>1, <3>6 DEF Keeps
  <2>8. QED
    BY <2>6, <2>7
<1>10. CASE ReceiveSplit(n)
  <2>1. /\ msgs' = IF err = "reset" THEN msgs ELSE msgs \o Nodes(<<>>)
        /\ up' = [up EXCEPT ![k] = <<Fragment>> \o suf] \/ up' = [up EXCEPT ![k] = <<>>]
        /\ splits' = splits + 1
    BY <1>10 DEF ReceiveSplit, Received
  <2>2. Only(up'[k], Numbers) \in {B, <<>>}
    <3>1. Only(<<Fragment>> \o suf, Numbers) = B /\ Only(<<>>, Numbers) = <<>>
      BY <1>4, FragmentFirst, OnlyEmpty
    <3>2. QED
      BY <1>1, <1>3, <2>1, <3>1
  <2>3. Pending(msgs', k) = P
    <3>1. <<>> \in Seq(OfClient(k))
      OBVIOUS
    <3>2. Nodes(<<>>) \in Seq(Node)
      BY <1>1, <3>1, NodesOfClient
    <3>3. Pending(Nodes(<<>>), k) = <<>>
      BY <1>1, <3>1, PendingOfNodes, OnlyEmpty
    <3>4. P \o <<>> = P
      BY <1>2
    <3>5. QED
      BY <1>1, <1>2, <2>1, <3>2, <3>3, <3>4, PendingJoined
  <2> HIDE DEF A, B, P, pre, suf, s, k
  <2>4. P \o <<>> = P
    BY <1>7
  <2>5. UnderWay'[k] = (P \o <<>>) \o Only(up'[k], Numbers)
    BY <1>1, <1>5, <2>3, <2>4
  <2>6. Channel!Thinned(UnderWay'[k], UnderWay[k])
    <3>1. CASE Only(up'[k], Numbers) = B
      BY <1>7, <2>5, <3>1
    <3>2. CASE Only(up'[k], Numbers) = <<>>
      BY <1>7, <2>5, <3>2
    <3>3. QED
      BY <2>2, <3>1, <3>2
  <2>7. ~Reliable'
    BY <1>1, <2>1, Summands DEF Reliable
  <2>8. QED
    BY <1>1, <1>8, <2>6, <2>7 DEF Loses
<1>11. QED
  BY <1>9, <1>10

LEMMA GetWay ==
    ASSUME SInv, GetMsg
    PROVE  Keeps \/ Gets
<1> DEFINE m == Head(msgs)
           rest == Tail(msgs)
<1>1. IInv /\ msgs \in Seq(Node) /\ msgs # <<>> /\ UNCHANGED <<up, sent, splits, crashes, stop, end>>
  BY DEF SInv, IInv, FromClients, GetMsg, shut, faults
<1>2. m \in Node /\ rest \in Seq(Node) /\ msgs = <<m>> \o rest /\ <<m>> \in Seq(Node)
  BY <1>1
<1>3. /\ msgs' = rest /\ UNCHANGED Reliable
      /\ got' = IF m.msg = Fragment THEN got ELSE [got EXCEPT ![m.conn] = Append(@, m.msg)]
  BY <1>1 DEF GetMsg, Reliable
<1> HIDE DEF m, rest
<1>4. ASSUME NEW k \in Conns
      PROVE  /\ UnderWay'[k] \in Seq(Nat)
             /\ UnderWay[k] = IF m.conn = k /\ m.msg # Fragment THEN <<m.msg>> \o UnderWay'[k]
                                                                ELSE UnderWay'[k]
  <2> DEFINE p == Pending(rest, k)
             r == Only(up[k], Numbers)
  <2>1. /\ UnderWay[k] = Pending(msgs, k) \o r /\ r \in Seq(Nat) /\ UnderWay'[k] = p \o r
        /\ p \in Seq(Nat)
    BY <1>1, <1>2, <1>3, WayTyped, PendingTyped DEF UnderWay
  <2>2. Pending(msgs, k) = Pending(<<m>>, k) \o p
    <3> DEFINE q == <<m>>
    <3>1. q \in Seq(Node) /\ msgs = q \o rest
      BY <1>2
    <3> HIDE DEF q
    <3>2. Pending(q \o rest, k) = Pending(q, k) \o Pending(rest, k)
      BY <1>2, <3>1, PendingJoined
    <3>3. QED
      BY <3>1, <3>2 DEF q
  <2>3. Pending(<<m>>, k) = IF m.conn = k /\ m.msg # Fragment THEN <<m.msg>> ELSE <<>>
    BY <1>2, PendingOne
  <2> HIDE DEF p, r
  <2>4. UnderWay'[k] \in Seq(Nat)
    BY <2>1
  <2>5. CASE m.conn = k /\ m.msg # Fragment
    <3>1. m.msg \in Nat
      BY <1>2, <2>5, Constants DEF Node
    <3>2. <<m.msg>> \in Seq(Nat)
      BY <3>1
    <3>3. (<<m.msg>> \o p) \o r = <<m.msg>> \o (p \o r)
      BY <2>1, <3>2, ConcatAssociative
    <3>4. UnderWay[k] = <<m.msg>> \o UnderWay'[k]
      BY <2>1, <2>2, <2>3, <2>5, <3>3
    <3>5. QED
      BY <2>5, <2>4, <3>4
  <2>6. CASE ~(m.conn = k /\ m.msg # Fragment)
    <3>1. <<>> \o p = p
      BY <2>1
    <3>2. UnderWay[k] = UnderWay'[k]
      BY <2>1, <2>2, <2>3, <2>6, <3>1
    <3>3. QED
      BY <2>6, <2>4, <3>2
  <2>7. QED
    BY <2>5, <2>6
<1>5. UnderWay = [k \in Conns |-> UnderWay[k]] /\ UnderWay' = [k \in Conns |-> UnderWay'[k]]
  BY DEF UnderWay
<1>6. CASE m.msg = Fragment
  <2>1. \A k \in Conns : UnderWay'[k] = UnderWay[k]
    BY <1>4, <1>6
  <2>2. UnderWay' = UnderWay
    BY <1>5, <2>1
  <2>3. QED
    BY <1>1, <1>3, <1>6, <2>2 DEF Keeps
<1>7. CASE m.msg # Fragment
  <2> DEFINE k == m.conn
             w == UnderWay'[k]
  <2>1. k \in Conns /\ m.msg \in Nat
    BY <1>2, <1>7, Constants DEF Node
  <2>2. UnderWay[k] = <<m.msg>> \o w /\ w \in Seq(Nat)
    BY <1>4, <1>7, <2>1
  <2> HIDE DEF w
  <2>3. UnderWay[k] # <<>> /\ Head(UnderWay[k]) = m.msg /\ Tail(UnderWay[k]) = w
    BY <2>1, <2>2
  <2>4. \A j \in Conns : UnderWay'[j] = IF j = k THEN Tail(UnderWay[k]) ELSE UnderWay[j]
    BY <1>4, <2>3 DEF w
  <2>5. UnderWay' = [UnderWay EXCEPT ![k] = Tail(@)]
    BY <1>5, <2>4
  <2>6. got' = [got EXCEPT ![k] = Append(@, Head(UnderWay[k]))]
    BY <1>3, <1>7, <2>3
  <2>7. QED
    BY <1>1, <1>3, <2>1, <2>3, <2>5, <2>6 DEF Gets
<1>8. QED
  BY <1>6, <1>7

LEMMA ClientsWay ==
    ASSUME SInv, Clients
    PROVE  Keeps \/ Sends \/ Loses
<1> USE DEF thread, minis, shut, owner, net, faults
<1>1. PICK k \in Conns : \/ Connect(k) \/ Handshake(k) \/ ClientSend(k) \/ ClientReceive(k)
                         \/ Disconnect(k) \/ Crash(k)
  BY DEF Clients
<1>2. /\ IInv /\ up \in [Sockets -> Seq(Strings)] /\ k \in Sockets /\ \A j \in Conns : j \in Sockets
      /\ splits \in Nat /\ crashes \in Nat
  BY Constants, Summands DEF SInv, IInv, TypeOK
<1>3. /\ up[k] \in Seq(Strings)
      /\ Pending(msgs, k) \in Seq(Nat) /\ UnderWay[k] = Pending(msgs, k) \o Only(up[k], Numbers)
      /\ UnderWay[k] \in Seq(Nat)
  BY <1>2, WayTyped
<1>4. UNCHANGED <<msgs, got, stop, splits>>
  BY <1>1 DEF Connect, Handshake, ClientSend, ClientReceive, Disconnect, Crash, Client
<1>5. UnderWay' = [j \in Conns |-> Pending(msgs, j) \o Only(up'[j], Numbers)]
  BY <1>4 DEF UnderWay
<1>6. CASE Connect(k) \/ ClientReceive(k)
  <2>1. UNCHANGED <<up, sent>>
    BY <1>6 DEF Connect, ClientReceive
  <2>2. QED
    BY <1>4, <2>1, WayKeeps
<1>7. CASE Handshake(k) \/ Disconnect(k)
  <2>1. /\ UNCHANGED sent
        /\ \/ up' = up
           \/ \E x \in {HandshakeCmd, CloseCmd} : up' = [up EXCEPT ![k] = Append(up[k], x)]
    BY <1>7 DEF Handshake, Disconnect, Write
  <2>2. CASE up' = up
    BY <1>4, <2>1, <2>2, WayKeeps
  <2>3. ASSUME NEW x \in {HandshakeCmd, CloseCmd}, up' = [up EXCEPT ![k] = Append(up[k], x)]
        PROVE  Keeps
    <3>1. x \in Strings /\ x \notin Numbers
      BY Constants DEF Strings, Numbers, HandshakeCmd, CloseCmd
    <3>2. <<>> \in Seq(Nat) /\ Only(Append(up[k], x), Numbers) \in Seq(Nat)
          /\ Only(up[k], Numbers) \in Seq(Nat)
      <4>1. Append(up[k], x) \in Seq(Strings) /\ <<>> \in Seq(Nat)
        BY <1>3, <3>1
      <4>2. QED
        BY <1>3, <4>1, OnlyNumbers
    <3>3. <<>> \o Only(Append(up[k], x), Numbers) = <<>> \o Only(up[k], Numbers)
      BY <1>3, <3>1, <3>2, WrittenWay
    <3>4. Only(Append(up[k], x), Numbers) = Only(up[k], Numbers)
      BY <3>2, <3>3, ConcatEmptySeq
    <3>5. \A j \in Conns : Only(up'[j], Numbers) = Only(up[j], Numbers)
      BY <1>2, <2>3, <3>4
    <3>6. QED
      BY <1>4, <2>1, <3>5, WayKeeps
  <2>4. QED
    BY <2>1, <2>2, <2>3
<1>8. CASE ClientSend(k)
  <2> DEFINE x == sent[k] + 1
  <2>1. /\ UNCHANGED <<end, crashes>> /\ sent' = [sent EXCEPT ![k] = @ + 1] /\ sent[k] < MaxMsgs[k]
        /\ up' = [up EXCEPT ![k] = Append(up[k], x)]
    BY <1>8 DEF ClientSend, Write
  <2>2. x \in 1..MaxMsgs[k]
    <3>1. sent[k] \in Nat /\ MaxMsgs[k] \in Nat
      BY <1>2, Constants DEF IInv, TypeOK
    <3>2. QED
      BY <2>1, <3>1
  <2>3. x \in Numbers /\ x \in Strings
    BY <2>2 DEF Numbers, Strings
  <2>4. Pending(msgs, k) \o Only(Append(up[k], x), Numbers) = Append(UnderWay[k], x)
    BY <1>3, <2>3, WrittenWay
  <2>5. \A j \in Conns : UnderWay'[j] = IF j = k THEN Append(UnderWay[k], x) ELSE UnderWay[j]
    BY <1>2, <1>5, <2>1, <2>4 DEF UnderWay
  <2>6. UnderWay' = [UnderWay EXCEPT ![k] = Append(@, x)]
    <3>1. UnderWay = [j \in Conns |-> UnderWay[j]] /\ UnderWay' = [j \in Conns |-> UnderWay'[j]]
      BY DEF UnderWay
    <3> HIDE DEF x
    <3>2. QED
      BY <2>5, <3>1
  <2>7. UNCHANGED Reliable
    BY <1>4, <2>1 DEF Reliable
  <2>8. QED
    BY <1>4, <2>1, <2>2, <2>6, <2>7 DEF Sends
<1>9. CASE Crash(k)
  <2>1. PICK n \in 0..Len(up[k]) : up' = [up EXCEPT ![k] = SubSeq(up[k], 1, n)]
    BY <1>9 DEF Crash
  <2>2. UNCHANGED sent /\ crashes' = crashes + 1
    BY <1>9 DEF Crash
  <2>3. ~Reliable'
    BY <1>2, <2>2 DEF Reliable
  <2> DEFINE a == Only(SubSeq(up[k], 1, n), Numbers)
             b == Only(SubSeq(up[k], n + 1, Len(up[k])), Numbers)
             p == Pending(msgs, k)
  <2>4. a \in Seq(Nat) /\ b \in Seq(Nat) /\ UnderWay[k] = p \o (a \o b) /\ p \in Seq(Nat)
    BY <1>3, Apart
  <2>5. UnderWay'[k] = p \o a
    BY <1>2, <1>5, <2>1
  <2> HIDE DEF a, b, p
  <2>6. Channel!Thinned(UnderWay'[k], UnderWay[k])
    <3>1. /\ Channel!Thinned((p \o a) \o <<>>, p \o (a \o b))
          /\ p \o a \in Seq(Nat)
      BY <2>4, PartsThinned, ConcatProperties
    <3>2. (p \o a) \o <<>> = p \o a
      BY <3>1, ConcatEmptySeq
    <3>3. QED
      BY <2>4, <2>5, <3>1, <3>2
  <2>7. ASSUME NEW j \in Conns, j # k
        PROVE  Channel!Thinned(UnderWay'[j], UnderWay[j])
    <3>1. UnderWay'[j] = UnderWay[j]
      BY <1>2, <1>5, <2>1, <2>7 DEF UnderWay
    <3>2. UnderWay[j] \in Seq(Nat)
      BY <1>2, WayTyped
    <3>3. QED
      BY <3>1, <3>2, ThinnedSelf
  <2>8. QED
    BY <1>4, <2>2, <2>3, <2>6, <2>7 DEF Loses
<1>10. QED
  BY <1>1, <1>6, <1>7, <1>8, <1>9

(* Every step adds a message to what is under way, hands the first one     *)
(* over, loses some, or leaves all of them.                                *)
LEMMA WayStep ==
    ASSUME SInv, SInv', [Next]_vars
    PROVE  Keeps \/ Loses \/ Sends \/ Gets
<1> USE DEF thread, minis, shut, owner, net, faults, vars
<1>1. CASE UNCHANGED <<msgs, up, got, sent>>
  BY <1>1, WayKeeps
<1>2. CASE Polling /\ Sock # NoConn /\ \E n \in 1..Len(up[Sock]) : Receive(n) \/ ReceiveSplit(n)
  BY <1>2, ReceiveWay
<1>3. CASE GetMsg
  BY <1>3, GetWay
<1>4. CASE Clients
  BY <1>4, ClientsWay
<1>5. CASE Join
  <2>1. stop' /\ UNCHANGED <<got, sent>> /\ msgs' = <<>> /\ \A k \in Conns : up'[k] = <<>>
    BY <1>5, Constants DEF Join, SInv, Stopping
  <2>2. ~Reliable'
    BY <2>1 DEF Reliable
  <2>3. ASSUME NEW k \in Conns
        PROVE  Channel!Thinned(UnderWay'[k], UnderWay[k])
    <3>1. UnderWay'[k] = Pending(<<>>, k) \o Only(<<>>, Numbers)
      BY <2>1 DEF UnderWay
    <3>2. UnderWay'[k] = <<>> /\ UnderWay[k] \in Seq(Nat)
      BY <3>1, PendingNone, OnlyEmpty, WayTyped DEF SInv
    <3>3. QED
      BY <3>2, ThinnedSelf
  <2>4. QED
    BY <2>1, <2>2, <2>3 DEF Loses
<1>6. CASE Listener
  BY <1>1, <1>6 DEF Listener, New, Accept, AcceptFails, SetNonBlocking, Ignore, Loop, ThreadHarakiri
<1>7. CASE \/ PollStart \/ PollEnd \/ PollUnbound \/ WouldBlock \/ Block \/ ConnectionClosed
           \/ Send \/ Stop \/ Wakeup \/ LetDie
  <2>1. UNCHANGED <<msgs, up, got, sent>>
    BY <1>7 DEF PollStart, PollEnd, PollUnbound, WouldBlock, Block, ConnectionClosed, Send, Stop,
                Wakeup, LetDie
  <2>2. QED
    BY <1>1, <2>1
<1>8. QED
  BY <1>1, <1>2, <1>3, <1>4, <1>5, <1>6, <1>7 DEF Next, Main, PollStep

-----------------------------------------------------------------------------
(* The channels.                                                           *)

(* No message is under way or handed over that has not been sent, and all  *)
(* of them are as long as the channels are reliable.                       *)
Delivered ==
    \A k \in Conns :
        /\ \A i \in 1..Len(UnderWay[k]) : UnderWay[k][i] <= sent[k]
        /\ \A i \in 1..Len(got[k]) : got[k][i] <= sent[k]
        /\ Reliable => Len(UnderWay[k]) + Len(got[k]) = sent[k]

LEMMA ChannelTypes ==
    ASSUME IInv
    PROVE  /\ UnderWay \in [Conns -> Seq(Nat)] /\ got \in [Conns -> Seq(Nat)]
           /\ sent \in [Conns -> Nat]
<1>1. \A k \in Conns : UnderWay[k] \in Seq(Nat)
  BY WayTyped
<1>2. QED
  BY <1>1 DEF UnderWay, IInv, TypeOK

LEMMA ChannelStep ==
    ASSUME SInv, SInv', Delivered, [Next]_vars
    PROVE  Delivered' /\ [Channel!Next]_(Channel!vars)
<1>1. /\ UnderWay \in [Conns -> Seq(Nat)] /\ got \in [Conns -> Seq(Nat)]
      /\ sent \in [Conns -> Nat] /\ UnderWay' \in [Conns -> Seq(Nat)]
  <2>1. msgs' \in Seq(Node) /\ \A k \in Conns : up'[k] \in Seq(Strings)
    BY Constants DEF SInv, IInv, TypeOK, FromClients
  <2>2. ASSUME NEW k \in Conns
        PROVE  UnderWay'[k] \in Seq(Nat)
    <3>1. Pending(msgs', k) \in Seq(Nat) /\ Only(up'[k], Numbers) \in Seq(Nat)
      BY <2>1, PendingTyped, OnlyNumbers
    <3>2. UnderWay'[k] = Pending(msgs', k) \o Only(up'[k], Numbers)
      BY DEF UnderWay
    <3>3. QED
      BY <3>1, <3>2
  <2>3. UnderWay' = [k \in Conns |-> UnderWay'[k]]
    BY DEF UnderWay
  <2>4. UnderWay' \in [Conns -> Seq(Nat)]
    BY <2>2, <2>3
  <2>5. QED
    BY <2>4, ChannelTypes DEF SInv
<1>2. Reliable' => Reliable
  BY LeftoverStep
<1>3. Reliable \in BOOLEAN /\ Reliable' \in BOOLEAN
  BY DEF Reliable
<1>4. ASSUME Loses
      PROVE  Delivered' /\ Channel!Next
  <2>1. Channel!Lose
    BY <1>1, <1>4 DEF Loses, Channel!Lose
  <2>2. ASSUME NEW k \in Conns, NEW i \in 1..Len(UnderWay'[k])
        PROVE  UnderWay'[k][i] <= sent[k]
    <3>1. \E j \in 1..Len(UnderWay[k]) : UnderWay'[k][i] = UnderWay[k][j]
      BY <1>4, <2>2 DEF Loses, Channel!Thinned
    <3>2. QED
      BY <3>1 DEF Delivered
  <2>3. UNCHANGED <<got, sent>> /\ ~Reliable'
    BY <1>4 DEF Loses
  <2>4. Delivered'
    BY <2>2, <2>3 DEF Delivered
  <2>5. QED
    BY <2>1, <2>4 DEF Channel!Next
<1>5. ASSUME Keeps
      PROVE  Delivered' /\ [Channel!Next]_(Channel!vars)
  <2>1. Delivered'
    BY <1>2, <1>5 DEF Keeps, Delivered
  <2>2. CASE Reliable' = Reliable
    BY <1>5, <2>1, <2>2 DEF Keeps, Channel!vars
  <2>3. CASE ~Reliable'
    <3>1. Loses
      BY <1>1, <1>5, <2>3, ThinnedSelf DEF Keeps, Loses
    <3>2. QED
      BY <1>4, <3>1
  <2>4. QED
    BY <1>2, <1>3, <2>2, <2>3
<1>6. ASSUME NEW k \in Conns, sent[k] + 1 \in 1..MaxMsgs[k],
             UnderWay' = [UnderWay EXCEPT ![k] = Append(@, sent[k] + 1)],
             sent' = [sent EXCEPT ![k] = @ + 1], UNCHANGED <<got, Reliable>>
      PROVE  Delivered' /\ Channel!Next
  <2> DEFINE s == UnderWay[k]
             n == sent[k] + 1
  <2>1. /\ s \in Seq(Nat) /\ n \in Nat /\ sent[k] \in Nat /\ Len(s) \in Nat /\ Len(got[k]) \in Nat
        /\ \A i \in 1..Len(s) : s[i] \in Nat /\ s[i] <= sent[k]
        /\ \A i \in 1..Len(got[k]) : got[k][i] \in Nat /\ got[k][i] <= sent[k]
        /\ Reliable => Len(s) + Len(got[k]) = sent[k]
    BY <1>1 DEF Delivered
  <2>2. /\ Append(s, n) \in Seq(Nat) /\ Len(Append(s, n)) = Len(s) + 1
        /\ \A i \in 1..Len(s) + 1 : Append(s, n)[i] = IF i <= Len(s) THEN s[i] ELSE n
    BY <2>1
  <2>3. Channel!Send(k, n)
    <3>1. (\A i \in 1..Len(s) : s[i] < n) /\ (\A i \in 1..Len(got[k]) : got[k][i] < n)
      BY <2>1
    <3>2. Reliable => n = Len(s) + Len(got[k]) + 1
      BY <2>1
    <3>3. QED
      BY <1>6, <3>1, <3>2 DEF Channel!Send
  <2>4. ASSUME NEW j \in Conns
        PROVE  /\ \A i \in 1..Len(UnderWay'[j]) : UnderWay'[j][i] <= sent'[j]
               /\ \A i \in 1..Len(got'[j]) : got'[j][i] <= sent'[j]
               /\ Reliable' => Len(UnderWay'[j]) + Len(got'[j]) = sent'[j]
    <3>1. CASE j # k
      <4>1. UnderWay'[j] = UnderWay[j] /\ sent'[j] = sent[j] /\ got'[j] = got[j]
        BY <1>1, <1>6, <3>1
      <4>2. QED
        BY <1>2, <4>1 DEF Delivered
    <3>2. CASE j = k
      <4>1. UnderWay'[j] = Append(s, n) /\ sent'[j] = n /\ got'[j] = got[k]
        BY <1>1, <1>6, <3>2
      <4> HIDE DEF s
      <4>2. \A i \in 1..Len(s) + 1 : Append(s, n)[i] <= n
        BY <2>1, <2>2
      <4>3. \A i \in 1..Len(got[k]) : got[k][i] <= n
        BY <2>1
      <4>4. ASSUME Reliable'
            PROVE  Len(s) + 1 + Len(got[k]) = n
        <5>1. Len(s) + Len(got[k]) = sent[k]
          BY <1>2, <2>1, <4>4 DEF s
        <5> DEFINE a == Len(s)
                   b == Len(got[k])
                   c == sent[k]
        <5>2. a \in Nat /\ b \in Nat /\ c \in Nat /\ a + b = c
          BY <2>1, <5>1
        <5> HIDE DEF a, b, c
        <5>3. a + 1 + b = c + 1
          BY <5>2
        <5>4. QED
          BY <5>3 DEF a, b, c
      <4>5. QED
        BY <2>2, <4>1, <4>2, <4>3, <4>4
    <3>3. QED
      BY <3>1, <3>2
  <2>5. Delivered'
    BY <2>4 DEF Delivered
  <2>6. QED
    BY <1>6, <2>3, <2>5 DEF Channel!Next
<1>7. ASSUME NEW k \in Conns, UnderWay[k] # <<>>,
             UnderWay' = [UnderWay EXCEPT ![k] = Tail(@)],
             got' = [got EXCEPT ![k] = Append(@, Head(UnderWay[k]))],
             UNCHANGED <<sent, Reliable>>
      PROVE  Delivered' /\ Channel!Next
  <2> DEFINE s == UnderWay[k]
             g == got[k]
  <2>1. Channel!Get(k)
    BY <1>7 DEF Channel!Get
  <2>2. /\ s \in Seq(Nat) /\ s # <<>> /\ g \in Seq(Nat) /\ sent[k] \in Nat
        /\ \A i \in 1..Len(s) : s[i] <= sent[k]
        /\ \A i \in 1..Len(g) : g[i] <= sent[k]
        /\ Reliable => Len(s) + Len(g) = sent[k]
    BY <1>1, <1>7 DEF Delivered
  <2> HIDE DEF s, g
  <2>3. /\ Len(s) \in Nat /\ Len(g) \in Nat /\ Len(s) > 0
        /\ Head(s) = s[1] /\ s[1] \in Nat
        /\ Len(Tail(s)) = Len(s) - 1 /\ \A i \in 1..Len(s) - 1 : Tail(s)[i] = s[i + 1]
    BY <2>2
  <2>4. /\ Len(Append(g, Head(s))) = Len(g) + 1
        /\ \A i \in 1..Len(g) + 1 : Append(g, Head(s))[i] = IF i <= Len(g) THEN g[i] ELSE s[1]
    BY <2>2, <2>3
  <2>5. ASSUME NEW j \in Conns
        PROVE  /\ \A i \in 1..Len(UnderWay'[j]) : UnderWay'[j][i] <= sent'[j]
               /\ \A i \in 1..Len(got'[j]) : got'[j][i] <= sent'[j]
               /\ Reliable' => Len(UnderWay'[j]) + Len(got'[j]) = sent'[j]
    <3>1. CASE j # k
      <4>1. UnderWay'[j] = UnderWay[j] /\ sent'[j] = sent[j] /\ got'[j] = got[j]
        BY <1>1, <1>7, <3>1
      <4>2. QED
        BY <1>2, <4>1 DEF Delivered
    <3>2. CASE j = k
      <4>1. UnderWay'[j] = Tail(s) /\ sent'[j] = sent[k] /\ got'[j] = Append(g, Head(s))
        BY <1>1, <1>7, <3>2 DEF s, g
      <4>2. \A i \in 1..Len(s) - 1 : Tail(s)[i] <= sent[k]
        BY <2>2, <2>3
      <4>3. \A i \in 1..Len(g) + 1 : Append(g, Head(s))[i] <= sent[k]
        BY <2>2, <2>3, <2>4
      <4>4. Reliable' => (Len(s) - 1) + (Len(g) + 1) = sent[k]
        BY <1>2, <2>2, <2>3
      <4>5. QED
        BY <2>3, <2>4, <4>1, <4>2, <4>3, <4>4
    <3>3. QED
      BY <3>1, <3>2
  <2>6. Delivered'
    BY <2>5 DEF Delivered
  <2>7. QED
    BY <2>1, <2>6 DEF Channel!Next
<1>8. QED
  <2>1. CASE Sends
    BY <1>6, <2>1 DEF Sends
  <2>2. CASE Gets
    BY <1>7, <2>2 DEF Gets
  <2>3. QED
    BY <1>4, <1>5, <2>1, <2>2, WayStep

LEMMA ChannelInit == Init => Channel!Init /\ Delivered /\ SInv
<1> SUFFICES ASSUME Init
             PROVE  Channel!Init /\ Delivered /\ SInv
  OBVIOUS
<1>1. /\ \A k \in Conns : up[k] = <<>> /\ end[k] = "none" /\ sent[k] = 0 /\ got[k] = <<>>
      /\ err = "none" /\ main = "run" /\ msgs = <<>> /\ got = [k \in Conns |-> <<>>]
  BY Constants DEF Init
<1>2. SInv
  BY <1>1, InvInit DEF SInv, Streams, Stream, Leftover, Stopping
<1>3. UnderWay = [k \in Conns |-> <<>>]
  <2>1. ASSUME NEW k \in Conns
        PROVE  UnderWay[k] = <<>>
    <3>1. UnderWay[k] = Pending(<<>>, k) \o Only(<<>>, Numbers)
      BY <1>1 DEF UnderWay
    <3>2. QED
      BY <3>1, PendingNone, OnlyEmpty
  <2>2. QED
    BY <2>1 DEF UnderWay
<1>4. Reliable
  BY <1>1 DEF Init, Reliable
<1>5. Channel!Init
  BY <1>1, <1>3, <1>4 DEF Channel!Init
<1>6. Delivered
  BY <1>1, <1>3 DEF Delivered
<1>7. QED
  BY <1>2, <1>5, <1>6

(* The listener thread, Poll and GetMsg make a channel of every            *)
(* connection: what a client sends on it is handed over whole, in the      *)
(* order of sending and once, and unless there is a fault or the server    *)
(* shuts down, nothing is lost.                                            *)
THEOREM ChannelsKept == Spec => ImplementsChannel
<1>1. SInv /\ [Next]_vars => SInv'
  BY InvStep, StreamsStep, LeftoverStep, StoppingStep DEF SInv
<1>2. SInv /\ SInv' /\ Delivered /\ [Next]_vars => Delivered' /\ [Channel!Next]_(Channel!vars)
  BY ChannelStep
<1>3. QED
  BY <1>1, <1>2, ChannelInit, PTL DEF Spec, ImplementsChannel, Channel!Spec
=============================================================================
