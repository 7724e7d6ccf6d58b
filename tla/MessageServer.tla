--------------------------- MODULE MessageServer ---------------------------
(***************************************************************************)
(* Mangalore's message subsystem: ports, dispatchers, which are ports that *)
(* forward to the ports attached to them, and the server, which broadcasts *)
(* to the ports registered with it.  Server and Dispatcher hold their      *)
(* ports in the same way, and are called hubs here.                        *)
(*                                                                         *)
(* Everything runs in one thread, but a synchronous message calls into the *)
(* application, whose handler may register and remove ports and send       *)
(* further messages while the loops over the arrays are under way: `stack' *)
(* holds those loops and the handlers they called.  Accepts() and Put()    *)
(* never call the application, so sending an asynchronous message is one   *)
(* step.                                                                   *)
(***************************************************************************)
EXTENDS Naturals, Sequences, FiniteSets, SequencesExt, Sublists

CONSTANTS
    Leaf,          \* ports that handle messages: handlers, properties, managers
    Deaf,          \* those that accept none, as Port does by default
    Dispatchers,   \* the entities' dispatchers
    Server,        \* the message server
    None,          \* the null pointer
    Holds,         \* for each hub, the ports the application attaches to it
    MaxMsgs,       \* bound: messages sent
    MaxDepth       \* bound: nested loops and handlers

Hub  == Dispatchers \cup {Server}
Port == Leaf \cup Dispatchers

ASSUME MessageServerAssumption ==
    /\ Deaf \subseteq Leaf
    /\ Leaf \cap Dispatchers = {} /\ Server \notin Port /\ None \notin Port
    /\ IsFiniteSet(Port)
    /\ Holds \in [Hub -> SUBSET Port]
    /\ \A d \in Dispatchers : Holds[d] \subseteq Leaf
    /\ MaxMsgs \in Nat /\ MaxDepth \in Nat

VARIABLES
    slots,   \* portArray of each hub, with null elements
    locks,   \* broadcastLockCount and handleMsgLockCount
    queue,   \* msgQueue of each leaf
    stack,   \* the loops and handlers under way, innermost last
    sent,    \* the number of messages sent so far; a message is its number
    handled  \* history: the messages each leaf has taken from its queue

vars == <<slots, locks, queue, stack, sent, handled>>

(* A loop over the ports of a hub: `num' is the array's size at its start, *)
(* i the next element.  History: `calls' are the ports called so far,      *)
(* `stayed' those that have been in the array since the start.             *)
Loop(h, m) == [kind |-> "loop", at |-> h, msg |-> m, num |-> Len(slots[h]), i |-> 1,
               calls |-> <<>>, stayed |-> Range(slots[h]) \ {None}]

(* HandlePendingMessages of port p, and a handler of port p.               *)
Pending(p)    == [kind |-> "pending", at |-> p, num |-> Len(queue[p]), i |-> 1]
Handler(p, m) == [kind |-> "handler", at |-> p, msg |-> m]

Accepts(p) == p \notin Deaf
Attached(h) == Range(slots[h]) \ {None}

Init ==
    /\ slots = [h \in Hub |-> <<>>]
    /\ locks = [h \in Hub |-> 0]
    /\ queue = [p \in Leaf |-> <<>>]
    /\ stack = <<>>
    /\ sent = 0
    /\ handled = [p \in Leaf |-> <<>>]

-----------------------------------------------------------------------------
(* The array of a hub.                                                     *)

Compact(s) == Sublist(s, {i \in DOMAIN s : s[i] # None})

(* nArray::Find of a port, or of null: the first element that holds it.    *)
Find(s, p) == Min({i \in DOMAIN s : s[i] = p})

(* Seeded fault: elements move whenever a port comes or goes.              *)
CleanupAlways(h, s) == Compact(s)

(* CleanupEmptyPorts: elements move only while no loop is under way.       *)
CleanupEmptyPorts(h, s) == IF locks[h] = 0 THEN Compact(s) ELSE s

(* Seeded fault: the array always grows.                                   *)
InsertAtEnd(s, p) == Append(s, p)

(* The first free element is used before the array grows.                  *)
Insert(s, p) ==
    IF None \in Range(s)
    THEN [s EXCEPT ![Find(s, None)] = p]
    ELSE Append(s, p)

(* Application code runs: a handler, or the frame loop outside of all.     *)
AppRuns == stack # <<>> => Last(stack).kind = "handler"

(* RegisterPort and AttachPort                                             *)
RegisterPort(h, p) ==
    /\ AppRuns
    /\ p \in Holds[h] /\ p \notin Attached(h)
    /\ slots' = [slots EXCEPT ![h] = Insert(CleanupEmptyPorts(h, @), p)]
    /\ UNCHANGED <<locks, queue, stack, sent, handled>>

(* UnregisterPort and RemovePort                                           *)
UnregisterPort(h, p) ==
    /\ AppRuns
    /\ p \in Attached(h)
    /\ slots' = [slots EXCEPT ![h] =
                    CleanupEmptyPorts(h, [@ EXCEPT ![Find(@, p)] = None])]
    /\ stack' = [k \in DOMAIN stack |->
                    IF stack[k].kind = "loop" /\ stack[k].at = h
                    THEN [stack[k] EXCEPT !.stayed = @ \ {p}]
                    ELSE stack[k]]
    /\ UNCHANGED <<locks, queue, sent, handled>>

-----------------------------------------------------------------------------
(* Sending.                                                                *)

NewMsg == AppRuns /\ sent < MaxMsgs /\ sent' = sent + 1

(* Does Put on port p reach leaf q?                                        *)
Reaches(p, q) == p = q \/ (p \in Dispatchers /\ q \in Attached(p))

(* Port::Put and Dispatcher::Put of a new message on the given ports: a    *)
(* leaf gets one copy for each way that leads to it.                       *)
PutOn(ports) ==
    queue' = [q \in Leaf |->
                IF Accepts(q)
                THEN queue[q] \o [k \in 1 .. Cardinality({p \in ports : Reaches(p, q)}) |-> sent + 1]
                ELSE queue[q]]

SendAsync(p) ==
    /\ NewMsg
    /\ PutOn({p})
    /\ UNCHANGED <<slots, locks, stack, handled>>

BroadcastAsync ==
    /\ NewMsg
    /\ PutOn(Attached(Server))
    /\ UNCHANGED <<slots, locks, stack, handled>>

(* Seeded fault: the lock is a flag, set by the innermost loop.            *)
BeginLoopFlag(h, m, below) ==
    /\ stack' = Append(below, Loop(h, m))
    /\ locks' = [locks EXCEPT ![h] = 1]

(* Server::BroadcastSync and Dispatcher::HandleMessage lock their array.   *)
BeginLoop(h, m, below) ==
    /\ stack' = Append(below, Loop(h, m))
    /\ locks' = [locks EXCEPT ![h] = @ + 1]

(* HandleMessage of a port that accepts the message.                       *)
Deliver(p, m, below) ==
    \/ /\ p \in Dispatchers
       /\ BeginLoop(p, m, below)
    \/ /\ p \in Leaf /\ Accepts(p)
       /\ stack' = Append(below, Handler(p, m))
       /\ UNCHANGED locks

SendSync(p) ==
    /\ NewMsg
    /\ Len(stack) < MaxDepth
    /\ Deliver(p, sent + 1, stack)
    /\ UNCHANGED <<slots, queue, handled>>

BroadcastSync ==
    /\ NewMsg
    /\ Len(stack) < MaxDepth
    /\ BeginLoop(Server, sent + 1, stack)
    /\ UNCHANGED <<slots, queue, handled>>

-----------------------------------------------------------------------------
(* The loops.                                                              *)

Running(kind) == stack # <<>> /\ Last(stack).kind = kind
Below == Front(stack)

(* One element of the array, skipped when it is null or does not accept.   *)
(* The program aborts when the array has shrunk below it.                  *)
LoopNext ==
    /\ Running("loop")
    /\ LET f == Last(stack)
           p == slots[f.at][f.i]
       IN  /\ f.i <= f.num /\ f.i <= Len(slots[f.at])
           /\ \/ /\ p = None \/ p \in Deaf
                 /\ stack' = Append(Below, [f EXCEPT !.i = @ + 1])
                 /\ UNCHANGED locks
              \/ /\ p # None
                 /\ Deliver(p, f.msg, Append(Below, [f EXCEPT !.i = @ + 1, !.calls = Append(@, p)]))
    /\ UNCHANGED <<slots, queue, sent, handled>>

(* Seeded fault: the end of a loop unlocks the array for all loops.        *)
UnlockAll(h) == 0

Unlock(h) == locks[h] - 1

LoopEnd ==
    /\ Running("loop")
    /\ Last(stack).i > Last(stack).num
    /\ locks' = [locks EXCEPT ![Last(stack).at] = Unlock(Last(stack).at)]
    /\ stack' = Below
    /\ UNCHANGED <<slots, queue, sent, handled>>

HandlerReturn ==
    /\ Running("handler")
    /\ stack' = Below
    /\ UNCHANGED <<slots, locks, queue, sent, handled>>

(* A port's owner handles its messages once per frame.                     *)
HandlePendingMessages(p) ==
    /\ stack = <<>>
    /\ queue[p] # <<>>
    /\ stack' = <<Pending(p)>>
    /\ UNCHANGED <<slots, locks, queue, sent, handled>>

PendingNext ==
    /\ Running("pending")
    /\ LET f == Last(stack)
           m == queue[f.at][f.i]
       IN  /\ f.i <= f.num
           /\ stack' = Append(Append(Below, [f EXCEPT !.i = @ + 1]), Handler(f.at, m))
           /\ handled' = [handled EXCEPT ![f.at] = Append(@, m)]
    /\ UNCHANGED <<slots, locks, queue, sent>>

(* Seeded fault: the queue is not cleared.                                 *)
PendingKeep ==
    /\ Running("pending")
    /\ Last(stack).i > Last(stack).num
    /\ stack' = Below
    /\ UNCHANGED <<slots, locks, queue, sent, handled>>

PendingEnd ==
    /\ Running("pending")
    /\ Last(stack).i > Last(stack).num
    /\ queue' = [queue EXCEPT ![Last(stack).at] = <<>>]
    /\ stack' = Below
    /\ UNCHANGED <<slots, locks, sent, handled>>

-----------------------------------------------------------------------------
Next ==
    \/ \E h \in Hub, p \in Port : RegisterPort(h, p) \/ UnregisterPort(h, p)
    \/ \E p \in Port : SendAsync(p) \/ SendSync(p)
    \/ BroadcastAsync \/ BroadcastSync
    \/ LoopNext \/ LoopEnd \/ HandlerReturn
    \/ \E p \in Leaf : HandlePendingMessages(p)
    \/ PendingNext \/ PendingEnd

Spec == Init /\ [][Next]_vars
-----------------------------------------------------------------------------
(* Properties.                                                             *)

Loops == {k \in DOMAIN stack : stack[k].kind = "loop"}

Frame ==
    [kind : {"loop"}, at : Hub, msg : 1 .. MaxMsgs, num : Nat, i : Nat \ {0},
     calls : Seq(Port), stayed : SUBSET Port]
    \cup [kind : {"pending"}, at : Leaf, num : Nat, i : Nat \ {0}]
    \cup [kind : {"handler"}, at : Leaf, msg : 1 .. MaxMsgs]

(* Every variable keeps its type.                                          *)
TypeOK ==
    /\ slots \in [Hub -> Seq(Port \cup {None})]
    /\ locks \in [Hub -> Nat]
    /\ queue \in [Leaf -> Seq(1 .. sent)]
    /\ sent \in 0 .. MaxMsgs
    /\ handled \in [Leaf -> Seq(1 .. sent)]
    /\ stack \in Seq(Frame)

(* No loop runs past the end of its array, whatever the handlers it calls  *)
(* do to the array and however deeply the loops over it are nested:        *)
(* nArray::operator[] would abort.                                         *)
LoopsInBounds == \A k \in Loops : stack[k].num <= Len(slots[stack[k].at])

(* A loop that is done has called every port that accepts the message and  *)
(* has been in the array all the time, once: ports that come and go during *)
(* the loop make it neither skip nor repeat another.                       *)
DeliveredOnce ==
    \A k \in Loops : stack[k].i > stack[k].num =>
        \A p \in stack[k].stayed \ Deaf :
            Cardinality({c \in DOMAIN stack[k].calls : stack[k].calls[c] = p}) = 1

(* The arrays do not grow with the number of ports that ever come and go,  *)
(* although a removed port leaves its element behind.                      *)
SlotsBounded == \A h \in Hub : Len(slots[h]) <= Cardinality(Holds[h])

(* A port that is attached to one hub handles its asynchronous messages in *)
(* the order they were sent, and none twice, whatever is sent while a      *)
(* handler runs.                                                           *)
HeldOnce(p) == \A g, h \in Hub : p \in Holds[g] /\ p \in Holds[h] => g = h

HandledInOrder ==
    \A p \in Leaf : HeldOnce(p) =>
        \A i, j \in DOMAIN handled[p] : i < j => handled[p][i] < handled[p][j]

-----------------------------------------------------------------------------
(* What the documentation says, and the code does not do.                  *)

(* "the message will be processed during the port's                        *)
(* HandlePendingMessages() method" (server.cc): a message leaves the queue *)
(* only when it has been handled.                                          *)
QueuedIsHandled ==
    [][\A p \in Leaf : \A m \in Range(queue[p]) \ Range(queue'[p]) :
          m \in Range(handled[p])]_vars
=============================================================================
