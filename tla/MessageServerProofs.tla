------------------------ MODULE MessageServerProofs ------------------------
(***************************************************************************)
(* Theorems about MessageServer: for any ports and hubs, any number of     *)
(* messages and any depth of nesting, no loop over an array of ports runs  *)
(* past its end, a loop that is done has called every port that stayed in  *)
(* the array once, the arrays do not grow with the ports that come and go, *)
(* and asynchronous messages are handled in the order they were sent.      *)
(*                                                                         *)
(* What carries the proof is that the lock count of an array is the number *)
(* of loops over it on the stack: the elements of an array move only when  *)
(* that number is 0, so a port that some loop still has to call stays      *)
(* where the loop will find it.                                            *)
(***************************************************************************)
EXTENDS MessageServer, ListLemmas

-----------------------------------------------------------------------------
(* The array of a hub at any time.                                         *)

Arrays == Seq(Port \cup {None})

(* The ports in s are the hub's, none of them is there twice, and there    *)
(* are no more elements than the hub ever has ports.                       *)
Tidy(h, s) ==
    /\ s \in Arrays
    /\ \A j \in 1 .. Len(s) : s[j] # None => s[j] \in Holds[h]
    /\ \A j, k \in 1 .. Len(s) : s[j] = s[k] /\ s[j] # None => j = k
    /\ Len(s) <= Cardinality(Holds[h])

(* t has all the elements of s, where they were.                           *)
Keeps(s, t) ==
    /\ Len(s) <= Len(t)
    /\ \A j \in 1 .. Len(s) : s[j] # None => t[j] = s[j]

LEMMA HeldAreFinite ==
    ASSUME NEW h \in Hub
    PROVE  /\ Holds[h] \subseteq Port /\ None \notin Holds[h]
           /\ IsFiniteSet(Holds[h]) /\ Cardinality(Holds[h]) \in Nat
<1>1. Holds[h] \in SUBSET Port /\ IsFiniteSet(Port) /\ None \notin Port
  BY MessageServerAssumption
<1>2. QED
  BY <1>1, FS_Subset, FS_CardinalityType

(* Find comes to an element that holds what it looks for.                  *)
LEMMA Found ==
    ASSUME NEW s \in Arrays, NEW p, p \in Range(s)
    PROVE  Find(s, p) \in 1 .. Len(s) /\ s[Find(s, p)] = p
<1> DEFINE I == {i \in DOMAIN s : s[i] = p}
<1>1. I \in SUBSET Nat /\ I # {} /\ DOMAIN s = 1 .. Len(s)
  BY DEF Arrays, Range
<1>2. Min(I) \in I
  BY <1>1, LeastNumber
<1>3. QED
  BY <1>1, <1>2 DEF Find

(* CleanupEmptyPorts leaves a tidy array, and while the array is locked it *)
(* leaves it alone.                                                        *)
LEMMA CleanupKeepsTidy ==
    ASSUME NEW h \in Hub, NEW s, Tidy(h, s)
    PROVE  /\ Tidy(h, CleanupEmptyPorts(h, s))
           /\ locks[h] # 0 => CleanupEmptyPorts(h, s) = s
           /\ Range(CleanupEmptyPorts(h, s)) \subseteq Range(s)
<1> DEFINE keep == {i \in DOMAIN s : s[i] # None}
           c == Compact(s)
           n == Cardinality(keep)
<1>1. s \in Seq(Port \cup {None}) /\ DOMAIN s = 1 .. Len(s) /\ keep \in SUBSET (1 .. Len(s))
      /\ c = Sublist(s, keep) /\ Len(s) \in Nat
  BY DEF Tidy, Arrays, Compact
<1>2. PICK f \in [1 .. n -> keep] :
         /\ n \in Nat /\ n <= Len(s)
         /\ Sublist(s, keep) \in Seq(Port \cup {None}) /\ Len(Sublist(s, keep)) = n
         /\ \A k \in 1 .. n : Sublist(s, keep)[k] = s[f[k]]
         /\ \A j, k \in 1 .. n : j < k => f[j] < f[k]
  <2> HIDE DEF keep, c
  <2>1. QED
    BY <1>1, SublistProperties
<1>3. \A k \in 1 .. n : f[k] \in 1 .. Len(s) /\ s[f[k]] # None
  BY <1>1
<1> HIDE DEF keep, n, c
<1>4. c \in Seq(Port \cup {None}) /\ Len(c) = n /\ \A k \in 1 .. n : c[k] = s[f[k]]
  BY <1>1, <1>2
<1>5. \A k \in 1 .. n : c[k] \in Holds[h]
  BY <1>3, <1>4 DEF Tidy
<1>6. ASSUME NEW j \in 1 .. n, NEW k \in 1 .. n, c[j] = c[k]
      PROVE  j = k
  <2>1. f[j] = f[k]
    BY <1>3, <1>4, <1>6 DEF Tidy
  <2>2. ~ (j < k) /\ ~ (k < j)
    BY <1>1, <1>2, <1>3, <2>1
  <2>3. QED
    BY <1>2, <2>2
<1>7. n <= Cardinality(Holds[h])
  BY <1>1, <1>2, HeldAreFinite DEF Tidy
<1>8. Tidy(h, c)
  BY <1>4, <1>5, <1>6, <1>7 DEF Tidy, Arrays
<1>9. Range(c) \subseteq Range(s)
  BY <1>1, <1>2, <1>3, <1>4 DEF Range
<1>10. QED
  BY <1>8, <1>9 DEF CleanupEmptyPorts, c

(* A new port fits: with no null element the array holds ports of the hub, *)
(* each once, and the new one is not among them.                           *)
LEMMA InsertKeepsTidy ==
    ASSUME NEW h \in Hub, NEW s, Tidy(h, s), NEW p \in Holds[h], p \notin Range(s)
    PROVE  Tidy(h, Insert(s, p)) /\ Keeps(s, Insert(s, p))
<1> DEFINE t == Insert(s, p)
<1>1. /\ s \in Seq(Port \cup {None}) /\ DOMAIN s = 1 .. Len(s) /\ Len(s) \in Nat
      /\ p \in Port /\ p # None
      /\ \A j \in 1 .. Len(s) : s[j] # None => s[j] \in Holds[h]
      /\ Len(s) <= Cardinality(Holds[h])
      /\ Cardinality(Holds[h]) \in Nat /\ IsFiniteSet(Holds[h])
  BY HeldAreFinite DEF Tidy, Arrays
<1>2. /\ \A j, k \in 1 .. Len(s) : s[j] = s[k] /\ s[j] # None => j = k
      /\ \A j \in 1 .. Len(s) : s[j] # p
  BY <1>1 DEF Tidy, Range
<1>3. CASE None \in Range(s)
  <2>1. PICK i \in 1 .. Len(s) : s[i] = None /\ t = [s EXCEPT ![i] = p]
    BY <1>1, <1>3, Found DEF Insert, Arrays
  <2>2. /\ t \in Seq(Port \cup {None}) /\ Len(t) = Len(s)
        /\ \A j \in 1 .. Len(s) : t[j] = IF j = i THEN p ELSE s[j]
    BY <1>1, <2>1
  <2> HIDE DEF t
  <2>3. QED
    BY <1>1, <1>2, <2>1, <2>2 DEF t, Tidy, Keeps, Arrays
<1>4. CASE None \notin Range(s)
  <2>1. \A j \in 1 .. Len(s) : s[j] # None
    BY <1>1, <1>4 DEF Range
  <2>2. /\ t = Append(s, p) /\ t \in Seq(Port \cup {None}) /\ Len(t) = Len(s) + 1
        /\ t[Len(s) + 1] = p
        /\ \A j \in 1 .. Len(s) : t[j] = s[j]
    BY <1>1, <1>4 DEF Insert
  <2> HIDE DEF t
  <2>3. \A j \in 1 .. Len(s) + 1 : t[j] \in Holds[h]
    BY <1>1, <2>1, <2>2
  <2>4. \A j, k \in 1 .. Len(s) + 1 : t[j] = t[k] => j = k
    BY <1>1, <1>2, <2>1, <2>2
  <2>5. Len(s) + 1 <= Cardinality(Holds[h])
    <3>1. DOMAIN t = 1 .. Len(s) + 1
      BY <2>2, <1>1
    <3>2. t \in [1 .. Len(s) + 1 -> Holds[h]]
      <4>1. t \in [1 .. Len(t) -> Port \cup {None}]
        BY <2>2, LenProperties
      <4>2. QED
        BY <2>2, <2>3, <4>1
    <3>3. t \in Injection(1 .. Len(s) + 1, Holds[h])
      BY <2>4, <3>1, <3>2 DEF Injection, IsInjective
    <3>4. Cardinality(1 .. Len(s) + 1) <= Cardinality(Holds[h])
      BY <1>1, <3>3, FS_Injection
    <3>5. Cardinality(1 .. Len(s) + 1) = Len(s) + 1
      <4>1. Len(s) + 1 \in Int /\ Len(s) + 1 >= 1
        BY <1>1
      <4>2. QED
        BY <4>1, FS_Interval
    <3>6. QED
      BY <3>4, <3>5
  <2>6. Len(s) <= Len(t)
    BY <1>1, <2>2
  <2>7. QED
    BY <1>1, <2>2, <2>3, <2>4, <2>5, <2>6 DEF t, Tidy, Keeps, Arrays
<1>5. QED
  BY <1>3, <1>4

(* A removed port leaves a null element behind.                            *)
LEMMA RemoveKeepsTidy ==
    ASSUME NEW h \in Hub, NEW s, Tidy(h, s), NEW p, p # None, p \in Range(s)
    PROVE  LET t == [s EXCEPT ![Find(s, p)] = None]
           IN  /\ Tidy(h, t) /\ Len(t) = Len(s)
               /\ \A j \in 1 .. Len(s) : s[j] # p => t[j] = s[j]
<1> DEFINE i == Find(s, p)
           t == [s EXCEPT ![i] = None]
<1>1. s \in Arrays /\ i \in 1 .. Len(s) /\ s[i] = p
  BY Found DEF Tidy
<1> HIDE DEF i
<1>2. /\ s \in Seq(Port \cup {None}) /\ t \in Seq(Port \cup {None}) /\ Len(t) = Len(s)
      /\ \A j \in 1 .. Len(s) : t[j] = IF j = i THEN None ELSE s[j]
  BY <1>1 DEF Arrays
<1> HIDE DEF t
<1>3. Tidy(h, t)
  <2>1. \A j, k \in 1 .. Len(s) : s[j] = s[k] /\ s[j] # None => j = k
    BY DEF Tidy
  <2>2. QED
    BY <1>1, <1>2, <2>1 DEF Tidy, Arrays
<1>4. QED
  BY <1>1, <1>2, <1>3 DEF t, i

-----------------------------------------------------------------------------
(* The stack, with the arrays its loops go through and the queues.         *)

LoopsOver(st, h) == {k \in DOMAIN st : st[k].kind = "loop" /\ st[k].at = h}

Called(f, p)     == \E c \in 1 .. Len(f.calls) : f.calls[c] = p
CalledOnce(f, p) == \E c \in 1 .. Len(f.calls) :
                        f.calls[c] = p /\ \A d \in 1 .. Len(f.calls) : f.calls[d] = p => d = c

(* Loop f over array s: the ports that stayed are where the loop found or  *)
(* will find them, called if it has come past them.                        *)
OnCourse(f, s) ==
    /\ f.num <= Len(s)
    /\ \A p \in f.stayed : \E j \in 1 .. f.num :
          /\ s[j] = p
          /\ p \notin Deaf /\ j < f.i => CalledOnce(f, p)
          /\ p \notin Deaf /\ j >= f.i => ~ Called(f, p)

LocksCounted(st, lk) == \A h \in Hub : lk[h] = Cardinality(LoopsOver(st, h))

LoopsOnCourse(st, sl) ==
    \A k \in DOMAIN st : st[k].kind = "loop" => OnCourse(st[k], sl[st[k].at])

(* Pending messages are handled outside of all loops and handlers.         *)
PendingFirst(st, qu) ==
    \A k \in DOMAIN st : st[k].kind = "pending" => k = 1 /\ st[k].num <= Len(qu[st[k].at])

Stacked(st, lk, sl, qu) ==
    /\ st \in Seq(Frame) /\ lk \in [Hub -> Nat]
    /\ LocksCounted(st, lk) /\ LoopsOnCourse(st, sl) /\ PendingFirst(st, qu)

(* How many messages of p's queue have been taken up.                      *)
Taken(st, p) ==
    IF st # <<>> /\ st[1].kind = "pending" /\ st[1].at = p THEN st[1].i - 1 ELSE 0

LEMMA FrameFields ==
    ASSUME NEW f \in Frame
    PROVE  /\ f.kind \in {"loop", "pending", "handler"}
           /\ f.kind = "loop" =>
                /\ f.at \in Hub /\ f.msg \in 1 .. MaxMsgs /\ f.num \in Nat
                /\ f.i \in Nat \ {0} /\ f.calls \in Seq(Port) /\ f.stayed \subseteq Port
           /\ f.kind = "pending" => f.at \in Leaf /\ f.num \in Nat /\ f.i \in Nat \ {0}
           /\ f.kind = "handler" => f.at \in Leaf
BY DEF Frame

LEMMA TopFrame ==
    ASSUME NEW st \in Seq(Frame), st # <<>>
    PROVE  /\ Front(st) \in Seq(Frame) /\ Last(st) \in Frame
           /\ st = Append(Front(st), Last(st))
<1>1. /\ Len(st) \in Nat \ {0} /\ Last(st) = st[Len(st)] /\ Last(st) \in Frame
      /\ Front(st) \in Seq(Frame) /\ Len(Front(st)) = Len(st) - 1
      /\ \A k \in 1 .. Len(st) - 1 : Front(st)[k] = st[k]
  BY TopOfStack
<1> DEFINE u == Append(Front(st), Last(st))
<1>2. /\ u \in Seq(Frame) /\ Len(u) = Len(st)
      /\ \A k \in 1 .. Len(st) : u[k] = st[k]
  <2>1. /\ u \in Seq(Frame) /\ Len(u) = Len(Front(st)) + 1
        /\ u[Len(Front(st)) + 1] = Last(st)
        /\ \A k \in 1 .. Len(Front(st)) : u[k] = Front(st)[k]
    BY <1>1, AppendProperties
  <2> HIDE DEF u
  <2>2. QED
    BY <1>1, <2>1
<1> HIDE DEF u
<1>3. st = u
  BY <1>2, SeqEqual
<1>4. QED
  BY <1>1, <1>3 DEF u

LEMMA LoopsAreFinite ==
    ASSUME NEW st \in Seq(Frame), NEW h
    PROVE  /\ IsFiniteSet(LoopsOver(st, h)) /\ Cardinality(LoopsOver(st, h)) \in Nat
           /\ \A k \in LoopsOver(st, h) : Cardinality(LoopsOver(st, h)) # 0
<1>1. Len(st) \in Nat /\ DOMAIN st = 1 .. Len(st)
  BY LenProperties
<1>2. IsFiniteSet(DOMAIN st) /\ LoopsOver(st, h) \in SUBSET DOMAIN st
  BY <1>1, FS_Interval DEF LoopsOver
<1>3. QED
  BY <1>2, FS_Subset, FS_CardinalityType, FS_EmptySet

(* A frame more on the stack.                                              *)
LEMMA PushedFrame ==
    ASSUME NEW st \in Seq(Frame), NEW f \in Frame
    PROVE  /\ Append(st, f) \in Seq(Frame) /\ Append(st, f) # <<>>
           /\ Front(Append(st, f)) = st /\ Last(Append(st, f)) = f
           /\ Len(Append(st, f)) = Len(st) + 1
           /\ \A h : Cardinality(LoopsOver(Append(st, f), h))
                       = Cardinality(LoopsOver(st, h)) + IF f.kind = "loop" /\ f.at = h THEN 1 ELSE 0
           /\ \A sl : LoopsOnCourse(Append(st, f), sl)
                       <=> LoopsOnCourse(st, sl) /\ (f.kind = "loop" => OnCourse(f, sl[f.at]))
           /\ \A qu : PendingFirst(Append(st, f), qu)
                       <=> /\ PendingFirst(st, qu)
                           /\ f.kind = "pending" => st = <<>> /\ f.num <= Len(qu[f.at])
           /\ \A p : f.kind # "pending" => Taken(Append(st, f), p) = Taken(st, p)
           /\ \A p : st # <<>> => Taken(Append(st, f), p) = Taken(st, p)
<1> DEFINE u == Append(st, f)
           n == Len(st)
<1>1. /\ u \in Seq(Frame) /\ Len(u) = n + 1 /\ n \in Nat
      /\ u[n + 1] = f /\ \A k \in 1 .. n : u[k] = st[k]
  BY AppendProperties
<1>2. DOMAIN st = 1 .. n /\ DOMAIN u = 1 .. n + 1
  BY <1>1
<1> HIDE DEF u
<1>3. u # <<>> /\ Last(u) = f
  BY <1>1, EmptySeq DEF Last
<1>4. Front(u) = st
  <2>1. /\ Front(u) \in Seq(Frame) /\ Len(Front(u)) = n
        /\ \A k \in 1 .. n : Front(u)[k] = u[k]
    BY <1>1, <1>3, TopOfStack
  <2>2. QED
    BY <1>1, <2>1, SeqEqual
<1>5. ASSUME NEW h
      PROVE  Cardinality(LoopsOver(u, h))
                = Cardinality(LoopsOver(st, h)) + IF f.kind = "loop" /\ f.at = h THEN 1 ELSE 0
  <2>1. IsFiniteSet(LoopsOver(st, h)) /\ Cardinality(LoopsOver(st, h)) \in Nat
    BY LoopsAreFinite
  <2>2. CASE f.kind = "loop" /\ f.at = h
    <3>1. LoopsOver(u, h) = LoopsOver(st, h) \cup {n + 1}
      BY <1>1, <1>2, <2>2 DEF LoopsOver
    <3>2. n + 1 \notin LoopsOver(st, h)
      BY <1>1, <1>2 DEF LoopsOver
    <3>3. QED
      BY <2>1, <2>2, <3>1, <3>2, FS_AddElement
  <2>3. CASE ~ (f.kind = "loop" /\ f.at = h)
    <3>1. LoopsOver(u, h) = LoopsOver(st, h)
      BY <1>1, <1>2, <2>3 DEF LoopsOver
    <3>2. QED
      BY <2>1, <2>3, <3>1
  <2>4. QED
    BY <2>2, <2>3
<1>6. ASSUME NEW sl
      PROVE  LoopsOnCourse(u, sl)
                <=> LoopsOnCourse(st, sl) /\ (f.kind = "loop" => OnCourse(f, sl[f.at]))
  BY <1>1, <1>2 DEF LoopsOnCourse
<1>7. st = <<>> <=> n = 0
  BY EmptySeq
<1>8. ASSUME NEW qu
      PROVE  PendingFirst(u, qu)
                <=> /\ PendingFirst(st, qu)
                    /\ f.kind = "pending" => st = <<>> /\ f.num <= Len(qu[f.at])
  BY <1>1, <1>2, <1>7 DEF PendingFirst
<1>9. ASSUME NEW p, f.kind # "pending" \/ st # <<>>
      PROVE  Taken(u, p) = Taken(st, p)
  <2>1. CASE st = <<>>
    BY <1>1, <1>7, <1>9, <2>1 DEF Taken
  <2>2. CASE st # <<>>
    <3>1. u[1] = st[1]
      BY <1>1, <1>7, <2>2
    <3>2. QED
      BY <1>3, <2>2, <3>1 DEF Taken
  <2>3. QED
    BY <2>1, <2>2
<1>10. QED
  BY <1>1, <1>3, <1>4, <1>5, <1>6, <1>8, <1>9 DEF u

-----------------------------------------------------------------------------
(* The inductive invariant.  Of a port that at most one hub holds, the     *)
(* messages handled and those still in its queue are in order, the former  *)
(* before the latter.                                                      *)

InOrder(s) == \A j, k \in 1 .. Len(s) : j < k => s[j] < s[k]

Ordered(st, qu, ha) ==
    \A p \in Leaf : HeldOnce(p) =>
        /\ InOrder(qu[p]) /\ InOrder(ha[p])
        /\ \A j \in 1 .. Len(ha[p]), k \in 1 .. Len(qu[p]) :
              Taken(st, p) < k => ha[p][j] < qu[p][k]

AllTidy(sl) == \A h \in Hub : Tidy(h, sl[h])

IInv ==
    /\ TypeOK
    /\ AllTidy(slots)
    /\ Stacked(stack, locks, slots, queue)
    /\ Ordered(stack, queue, handled)

(* A loop over the ports of h begins.                                      *)
LEMMA NewLoop ==
    ASSUME slots \in [Hub -> Arrays], NEW below, Stacked(below, locks, slots, queue),
           NEW h \in Hub, NEW m \in 1 .. MaxMsgs, BeginLoop(h, m, below)
    PROVE  /\ Stacked(stack', locks', slots, queue)
           /\ \A p : Taken(stack', p) = Taken(below, p)
<1> DEFINE f == Loop(h, m)
<1>1. /\ slots[h] \in Seq(Port \cup {None}) /\ Len(slots[h]) \in Nat
      /\ DOMAIN slots[h] = 1 .. Len(slots[h])
  BY DEF Arrays
<1>2. /\ f \in Frame /\ f.kind = "loop" /\ f.at = h
      /\ f.num = Len(slots[h]) /\ f.i = 1 /\ f.calls = <<>>
      /\ f.stayed = Range(slots[h]) \ {None}
  BY <1>1 DEF Loop, Frame, Range
<1>3. OnCourse(f, slots[f.at])
  <2>1. ASSUME NEW p \in f.stayed
        PROVE  \E j \in 1 .. f.num : slots[h][j] = p /\ j >= f.i
    BY <1>1, <1>2, <2>1 DEF Range
  <2>2. \A p : ~ Called(f, p)
    BY <1>2 DEF Called
  <2>3. \A j \in 1 .. f.num : j >= f.i /\ ~ (j < f.i)
    BY <1>1, <1>2
  <2>4. f.num <= Len(slots[f.at])
    BY <1>1, <1>2
  <2> HIDE DEF f
  <2>5. QED
    BY <1>2, <2>1, <2>2, <2>3, <2>4 DEF OnCourse
<1> HIDE DEF f
<1>4. /\ below \in Seq(Frame) /\ locks \in [Hub -> Nat]
      /\ LocksCounted(below, locks) /\ LoopsOnCourse(below, slots) /\ PendingFirst(below, queue)
  BY DEF Stacked
<1>5. /\ stack' = Append(below, f)
      /\ locks' = [locks EXCEPT ![h] = @ + 1]
  BY DEF BeginLoop, f
<1>6. locks' \in [Hub -> Nat] /\ LocksCounted(stack', locks')
  <2>1. \A g \in Hub : locks'[g] = locks[g] + IF f.kind = "loop" /\ f.at = g THEN 1 ELSE 0
    BY <1>2, <1>4, <1>5
  <2>2. QED
    BY <1>2, <1>4, <1>5, <2>1, PushedFrame DEF LocksCounted
<1>7. stack' \in Seq(Frame) /\ LoopsOnCourse(stack', slots) /\ PendingFirst(stack', queue)
  BY <1>2, <1>3, <1>4, <1>5, PushedFrame
<1>8. \A p : Taken(stack', p) = Taken(below, p)
  BY <1>2, <1>4, <1>5, PushedFrame
<1>9. QED
  BY <1>6, <1>7, <1>8 DEF Stacked

(* HandleMessage of a port: a loop over its ports or a handler.            *)
LEMMA Delivered ==
    ASSUME slots \in [Hub -> Arrays], NEW below, Stacked(below, locks, slots, queue),
           NEW p \in Port, NEW m \in 1 .. MaxMsgs, Deliver(p, m, below)
    PROVE  /\ Stacked(stack', locks', slots, queue)
           /\ \A q : Taken(stack', q) = Taken(below, q)
<1>1. CASE p \in Dispatchers /\ BeginLoop(p, m, below)
  BY <1>1, NewLoop DEF Hub
<1>2. CASE p \in Leaf /\ stack' = Append(below, Handler(p, m)) /\ locks' = locks
  <2> DEFINE f == Handler(p, m)
  <2>1. f \in Frame /\ f.kind = "handler"
    BY <1>2 DEF Handler, Frame
  <2> HIDE DEF f
  <2>2. /\ below \in Seq(Frame) /\ locks \in [Hub -> Nat]
        /\ LocksCounted(below, locks) /\ LoopsOnCourse(below, slots) /\ PendingFirst(below, queue)
    BY DEF Stacked
  <2>3. stack' = Append(below, f) /\ locks' = locks
    BY <1>2 DEF f
  <2>4. LocksCounted(stack', locks')
    <3>1. \A h : Cardinality(LoopsOver(stack', h)) = Cardinality(LoopsOver(below, h))
                      + IF f.kind = "loop" /\ f.at = h THEN 1 ELSE 0
      BY <2>1, <2>2, <2>3, PushedFrame
    <3>2. \A h : Cardinality(LoopsOver(below, h)) \in Nat
      BY <2>2, LoopsAreFinite
    <3>3. QED
      BY <2>1, <2>2, <2>3, <3>1, <3>2 DEF LocksCounted
  <2>5. stack' \in Seq(Frame) /\ LoopsOnCourse(stack', slots) /\ PendingFirst(stack', queue)
    BY <2>1, <2>2, <2>3, PushedFrame
  <2>6. \A q : Taken(stack', q) = Taken(below, q)
    BY <2>1, <2>2, <2>3, PushedFrame
  <2>7. QED
    BY <2>2, <2>3, <2>4, <2>5, <2>6 DEF Stacked
<1>3. QED
  BY <1>1, <1>2 DEF Deliver

(* The innermost loop or handler returns.                                  *)
LEMMA Returned ==
    ASSUME Stacked(stack, locks, slots, queue), stack # <<>>,
           NEW lk \in [Hub -> Nat],
           \A h \in Hub : locks[h] = lk[h] + IF Last(stack).kind = "loop" /\ Last(stack).at = h
                                             THEN 1 ELSE 0
    PROVE  /\ Stacked(Below, lk, slots, queue)
           /\ Last(stack).kind # "pending" => \A p : Taken(Below, p) = Taken(stack, p)
           /\ Last(stack).kind = "pending" => Below = <<>>
           /\ Last(stack) \in Frame
           /\ Last(stack).kind = "loop" => OnCourse(Last(stack), slots[Last(stack).at])
           /\ Last(stack).kind = "pending" => Last(stack).num <= Len(queue[Last(stack).at])
<1> DEFINE b == Front(stack)
           f == Last(stack)
<1>1. /\ stack \in Seq(Frame) /\ locks \in [Hub -> Nat]
      /\ LocksCounted(stack, locks) /\ LoopsOnCourse(stack, slots) /\ PendingFirst(stack, queue)
  BY DEF Stacked
<1>2. b \in Seq(Frame) /\ f \in Frame /\ stack = Append(b, f)
  BY <1>1, TopFrame
<1> HIDE DEF b, f
<1>3. /\ \A h : Cardinality(LoopsOver(stack, h))
                       = Cardinality(LoopsOver(b, h)) + IF f.kind = "loop" /\ f.at = h THEN 1 ELSE 0
      /\ LoopsOnCourse(b, slots) /\ (f.kind = "loop" => OnCourse(f, slots[f.at]))
      /\ PendingFirst(b, queue)
      /\ f.kind = "pending" => b = <<>> /\ f.num <= Len(queue[f.at])
      /\ \A p : f.kind # "pending" => Taken(stack, p) = Taken(b, p)
  BY <1>1, <1>2, PushedFrame
<1>4. LocksCounted(b, lk)
  <2>1. \A h : Cardinality(LoopsOver(b, h)) \in Nat
    BY <1>2, LoopsAreFinite
  <2>2. ASSUME NEW h \in Hub
        PROVE  lk[h] = Cardinality(LoopsOver(b, h))
    <3>1. locks[h] = Cardinality(LoopsOver(stack, h)) /\ lk[h] \in Nat
      BY <1>1 DEF LocksCounted
    <3>2. locks[h] = lk[h] + IF f.kind = "loop" /\ f.at = h THEN 1 ELSE 0
      BY DEF f
    <3>3. /\ Cardinality(LoopsOver(stack, h))
                = Cardinality(LoopsOver(b, h)) + IF f.kind = "loop" /\ f.at = h THEN 1 ELSE 0
          /\ Cardinality(LoopsOver(b, h)) \in Nat
      BY <1>3, <2>1
    <3>4. CASE f.kind = "loop" /\ f.at = h
      <4>1. locks[h] = lk[h] + 1
        BY <3>2, <3>4
      <4>2. Cardinality(LoopsOver(stack, h)) = Cardinality(LoopsOver(b, h)) + 1
        BY <3>3, <3>4
      <4>3. QED
        BY <3>1, <3>3, <4>1, <4>2
    <3>5. CASE ~ (f.kind = "loop" /\ f.at = h)
      <4>1. locks[h] = lk[h]
        BY <3>1, <3>2, <3>5
      <4>2. Cardinality(LoopsOver(stack, h)) = Cardinality(LoopsOver(b, h))
        BY <3>3, <3>5
      <4>3. QED
        BY <3>1, <4>1, <4>2
    <3>6. QED
      BY <3>4, <3>5
  <2>3. QED
    BY <2>2 DEF LocksCounted
<1>5. Stacked(b, lk, slots, queue)
  BY <1>2, <1>3, <1>4 DEF Stacked
<1>6. Below = b /\ Last(stack) = f
  BY DEF Below, b, f
<1>7. QED
  BY <1>2, <1>3, <1>5, <1>6

-----------------------------------------------------------------------------
(* Each action keeps the invariant.                                        *)

LEMMA InvInit ==
    ASSUME Init
    PROVE  IInv
<1>1. TypeOK
  BY MessageServerAssumption DEF Init, TypeOK
<1>2. AllTidy(slots)
  <2>1. ASSUME NEW h \in Hub
        PROVE  Tidy(h, slots[h])
    <3>1. slots[h] = <<>> /\ <<>> \in Arrays /\ Len(<<>>) = 0
      BY EmptySeq DEF Init, Arrays
    <3>2. 0 <= Cardinality(Holds[h])
      BY HeldAreFinite
    <3>3. QED
      BY <3>1, <3>2 DEF Tidy
  <2>2. QED
    BY <2>1 DEF AllTidy
<1>3. Stacked(stack, locks, slots, queue)
  <2>1. stack = <<>> /\ DOMAIN stack = {} /\ locks = [h \in Hub |-> 0]
    BY DEF Init
  <2>2. \A h : LoopsOver(stack, h) = {}
    BY <2>1 DEF LoopsOver
  <2>3. QED
    BY <2>1, <2>2, FS_EmptySet DEF Stacked, LocksCounted, LoopsOnCourse, PendingFirst
<1>4. Ordered(stack, queue, handled)
  BY DEF Init, Ordered, InOrder
<1>5. QED
  BY <1>1, <1>2, <1>3, <1>4 DEF IInv

(* A loop over h is under way only while h is locked.                      *)
LEMMA LoopLocks ==
    ASSUME Stacked(stack, locks, slots, queue), NEW k \in DOMAIN stack, stack[k].kind = "loop"
    PROVE  /\ stack[k] \in Frame /\ stack[k].at \in Hub /\ locks[stack[k].at] # 0
           /\ OnCourse(stack[k], slots[stack[k].at])
<1>1. /\ stack \in Seq(Frame) /\ LocksCounted(stack, locks) /\ LoopsOnCourse(stack, slots)
  BY DEF Stacked
<1>2. stack[k] \in Frame
  BY <1>1
<1>3. stack[k].at \in Hub
  BY <1>2, FrameFields
<1>4. k \in LoopsOver(stack, stack[k].at)
  BY DEF LoopsOver
<1>5. QED
  BY <1>1, <1>2, <1>3, <1>4, LoopsAreFinite DEF LocksCounted, LoopsOnCourse

LEMMA RegisterPortKeeps ==
    ASSUME IInv, NEW h \in Hub, NEW p \in Port, RegisterPort(h, p)
    PROVE  IInv'
<1> DEFINE s == CleanupEmptyPorts(h, slots[h])
           t == Insert(s, p)
<1>1. /\ slots \in [Hub -> Arrays] /\ AllTidy(slots)
      /\ Stacked(stack, locks, slots, queue)
      /\ p \in Holds[h] /\ p \notin Range(slots[h]) \ {None}
      /\ slots' = [slots EXCEPT ![h] = t]
      /\ locks' = locks /\ queue' = queue /\ stack' = stack /\ sent' = sent /\ handled' = handled
  BY DEF IInv, TypeOK, Arrays, RegisterPort, Attached
<1>2. /\ Tidy(h, s) /\ Range(s) \subseteq Range(slots[h])
      /\ locks[h] # 0 => s = slots[h]
  BY <1>1, CleanupKeepsTidy DEF AllTidy
<1>3. p # None
  BY <1>1, HeldAreFinite
<1>4. Tidy(h, t) /\ Keeps(s, t)
  BY <1>1, <1>2, <1>3, InsertKeepsTidy
<1> HIDE DEF s, t
<1>5. slots' \in [Hub -> Arrays] /\ AllTidy(slots')
  BY <1>1, <1>4 DEF AllTidy, Tidy
<1>6. LoopsOnCourse(stack, slots')
  <2>1. ASSUME NEW k \in DOMAIN stack, stack[k].kind = "loop"
        PROVE  OnCourse(stack[k], slots'[stack[k].at])
    <3>1. /\ stack[k] \in Frame /\ stack[k].at \in Hub /\ locks[stack[k].at] # 0
          /\ OnCourse(stack[k], slots[stack[k].at])
      BY <1>1, <2>1, LoopLocks
    <3>2. CASE stack[k].at # h
      BY <1>1, <3>1, <3>2
    <3>3. CASE stack[k].at = h
      <4>1. slots'[h] = t /\ Keeps(slots[h], t)
        BY <1>1, <1>2, <1>4, <3>1, <3>3
      <4>2. Len(slots[h]) \in Nat /\ Len(t) \in Nat /\ None \notin Port
        BY <1>1, <1>4, MessageServerAssumption DEF Arrays, Tidy
      <4>3. stack[k].num \in Nat /\ stack[k].stayed \subseteq Port
        BY <2>1, <3>1, FrameFields
      <4>4. stack[k].num <= Len(slots[h])
        BY <3>1, <3>3 DEF OnCourse
      <4>5. \A j \in 1 .. stack[k].num : slots[h][j] \in Port => t[j] = slots[h][j]
        BY <4>1, <4>2, <4>3, <4>4 DEF Keeps
      <4>6. stack[k].num <= Len(t)
        BY <4>1, <4>2, <4>3, <4>4 DEF Keeps
      <4>7. QED
        BY <3>1, <3>3, <4>1, <4>3, <4>5, <4>6 DEF OnCourse
    <3>4. QED
      BY <3>2, <3>3
  <2>2. QED
    BY <2>1 DEF LoopsOnCourse
<1>7. TypeOK'
  BY <1>1, <1>5 DEF IInv, TypeOK, Arrays
<1>8. Stacked(stack', locks', slots', queue')
  BY <1>1, <1>6 DEF Stacked
<1>9. Ordered(stack', queue', handled')
  BY <1>1 DEF IInv
<1>10. QED
  BY <1>5, <1>7, <1>8, <1>9 DEF IInv

LEMMA UnregisterPortKeeps ==
    ASSUME IInv, NEW h \in Hub, NEW p \in Port, UnregisterPort(h, p)
    PROVE  IInv'
<1> DEFINE s == [slots[h] EXCEPT ![Find(slots[h], p)] = None]
           t == CleanupEmptyPorts(h, s)
<1>1. /\ slots \in [Hub -> Arrays] /\ AllTidy(slots)
      /\ Stacked(stack, locks, slots, queue) /\ stack \in Seq(Frame)
      /\ p \in Range(slots[h]) /\ p # None /\ None \notin Port
      /\ slots' = [slots EXCEPT ![h] = t]
      /\ locks' = locks /\ queue' = queue /\ sent' = sent /\ handled' = handled
  BY MessageServerAssumption DEF IInv, TypeOK, Arrays, UnregisterPort, Attached
<1>2. /\ Tidy(h, slots[h]) /\ Tidy(h, s) /\ Len(s) = Len(slots[h])
      /\ \A j \in 1 .. Len(slots[h]) : slots[h][j] # p => s[j] = slots[h][j]
  BY <1>1, RemoveKeepsTidy DEF AllTidy
<1> HIDE DEF s
<1>3. Tidy(h, t) /\ (locks[h] # 0 => t = s)
  BY <1>2, CleanupKeepsTidy
<1> HIDE DEF t
<1>4. slots' \in [Hub -> Arrays] /\ AllTidy(slots')
  BY <1>1, <1>3 DEF AllTidy, Tidy
<1>5. Len(stack) \in Nat /\ DOMAIN stack = 1 .. Len(stack)
  BY <1>1
<1> DEFINE g == [k \in DOMAIN stack |->
                    IF stack[k].kind = "loop" /\ stack[k].at = h
                    THEN [stack[k] EXCEPT !.stayed = @ \ {p}]
                    ELSE stack[k]]
<1>6. stack' = g
  BY DEF UnregisterPort
<1>7. ASSUME NEW k \in DOMAIN stack
      PROVE  /\ stack[k] \in Frame /\ g[k] \in Frame
             /\ g[k].kind = stack[k].kind
             /\ g[k].at = stack[k].at
             /\ g[k].kind = "pending" => g[k] = stack[k]
             /\ g[k].kind = "loop" =>
                   /\ g[k].num = stack[k].num /\ g[k].i = stack[k].i /\ g[k].calls = stack[k].calls
                   /\ g[k].stayed = IF stack[k].at = h THEN stack[k].stayed \ {p}
                                                        ELSE stack[k].stayed
  <2>1. stack[k] \in Frame
    BY <1>1
  <2>2. CASE ~ (stack[k].kind = "loop" /\ stack[k].at = h)
    BY <2>1, <2>2
  <2>3. CASE stack[k].kind = "loop" /\ stack[k].at = h
    <3>1. stack[k] \in [kind : {"loop"}, at : Hub, msg : 1 .. MaxMsgs, num : Nat, i : Nat \ {0},
                        calls : Seq(Port), stayed : SUBSET Port]
      BY <2>1, <2>3 DEF Frame
    <3>2. g[k] = [stack[k] EXCEPT !.stayed = stack[k].stayed \ {p}]
      BY <2>3
    <3>3. QED
      BY <2>1, <2>3, <3>1, <3>2 DEF Frame
  <2>4. QED
    BY <2>2, <2>3
<1>8. DOMAIN g = DOMAIN stack
  OBVIOUS
<1> HIDE DEF g
<1>9. /\ stack' \in Seq(Frame) /\ DOMAIN stack' = DOMAIN stack
       /\ \A k \in DOMAIN stack : stack'[k] = g[k]
  <2>1. \A k \in 1 .. Len(stack) : g[k] \in Frame
    BY <1>5, <1>7
  <2>2. g \in [1 .. Len(stack) -> Frame]
    BY <1>5, <1>6, <1>8, <2>1 DEF g
  <2>3. g \in Seq(Frame)
    BY <1>5, <2>2, SeqDef
  <2>4. QED
    BY <1>6, <1>8, <2>3
<1>10. LocksCounted(stack', locks')
  <2>1. \A q : LoopsOver(stack', q) = LoopsOver(stack, q)
    BY <1>7, <1>9, ZenonT(60) DEF LoopsOver
  <2>2. QED
    BY <1>1, <2>1 DEF Stacked, LocksCounted
<1>11. PendingFirst(stack', queue')
  <2>1. PendingFirst(stack, queue)
    BY <1>1 DEF Stacked
  <2>2. ASSUME NEW k \in DOMAIN stack', stack'[k].kind = "pending"
        PROVE  k = 1 /\ stack'[k].num <= Len(queue'[stack'[k].at])
    <3>1. k \in DOMAIN stack /\ stack'[k] = stack[k] /\ stack[k].kind = "pending"
      BY <1>7, <1>9, <2>2
    <3>2. QED
      BY <1>1, <2>1, <3>1 DEF PendingFirst
  <2>3. QED
    BY <2>2 DEF PendingFirst
<1>12. LoopsOnCourse(stack', slots')
  <2>1. ASSUME NEW k \in DOMAIN stack, stack'[k].kind = "loop"
        PROVE  OnCourse(g[k], slots'[stack[k].at])
    <3>1. stack[k].kind = "loop" /\ g[k].kind = "loop"
      BY <1>7, <1>9, <2>1
    <3>2. /\ stack[k] \in Frame /\ stack[k].at \in Hub /\ locks[stack[k].at] # 0
          /\ OnCourse(stack[k], slots[stack[k].at])
      BY <1>1, <3>1, LoopLocks
    <3>3. /\ g[k].num = stack[k].num /\ g[k].i = stack[k].i /\ g[k].calls = stack[k].calls
          /\ g[k].stayed = IF stack[k].at = h THEN stack[k].stayed \ {p} ELSE stack[k].stayed
      BY <1>7, <3>1
    <3>4. \A q : (Called(g[k], q) <=> Called(stack[k], q))
                 /\ (CalledOnce(g[k], q) <=> CalledOnce(stack[k], q))
      BY <3>3 DEF Called, CalledOnce
    <3>5. CASE stack[k].at # h
      <4>1. slots'[stack[k].at] = slots[stack[k].at]
        BY <1>1, <3>2, <3>5
      <4>2. QED
        BY <3>2, <3>3, <3>4, <3>5, <4>1 DEF OnCourse
    <3>6. CASE stack[k].at = h
      <4>1. slots'[h] = s
        BY <1>1, <1>3, <3>2, <3>6
      <4>2. stack[k].num \in Nat /\ Len(slots[h]) \in Nat /\ stack[k].num <= Len(slots[h])
        BY <1>1, <3>1, <3>2, <3>6, FrameFields DEF OnCourse, Arrays
      <4>3. \A j \in 1 .. stack[k].num : slots[h][j] # p => s[j] = slots[h][j]
        BY <1>2, <4>2
      <4>4. QED
        BY <1>2, <3>2, <3>3, <3>4, <3>6, <4>1, <4>3 DEF OnCourse
    <3>7. QED
      BY <3>5, <3>6
  <2>2. ASSUME NEW k \in DOMAIN stack', stack'[k].kind = "loop"
        PROVE  OnCourse(stack'[k], slots'[stack'[k].at])
    <3>1. k \in DOMAIN stack /\ stack'[k] = g[k] /\ g[k].at = stack[k].at
      BY <1>7, <1>9
    <3>2. QED
      BY <2>1, <2>2, <3>1
  <2>3. QED
    BY <2>2 DEF LoopsOnCourse
<1>13. \A q : Taken(stack', q) = Taken(stack, q)
  <2>1. stack' = <<>> <=> stack = <<>>
    BY <1>5, <1>9
  <2>2. stack # <<>> => 1 \in DOMAIN stack
    BY <1>1, <1>5, EmptySeq
  <2>3. QED
    BY <1>7, <1>9, <2>1, <2>2 DEF Taken
<1>14. TypeOK'
  BY <1>1, <1>4, <1>9 DEF IInv, TypeOK, Arrays
<1>15. Stacked(stack', locks', slots', queue')
  BY <1>1, <1>9, <1>10, <1>11, <1>12 DEF Stacked
<1>16. Ordered(stack', queue', handled')
  BY <1>1, <1>13 DEF IInv, Ordered
<1>17. QED
  BY <1>4, <1>14, <1>15, <1>16 DEF IInv

(* A new message is put at the end of queues; it is later than all others. *)
LEMMA PutKeeps ==
    ASSUME IInv, NewMsg, NEW ports \in SUBSET Port, PutOn(ports),
           UNCHANGED <<slots, locks, stack, handled>>,
           \A q \in Leaf : HeldOnce(q) =>
               \A a, b \in ports : Reaches(a, q) /\ Reaches(b, q) => a = b
    PROVE  IInv'
<1> DEFINE ways(q) == {p \in ports : Reaches(p, q)}
           new(q) == [k \in 1 .. Cardinality(ways(q)) |-> sent + 1]
<1>1. /\ slots' = slots /\ locks' = locks /\ stack' = stack /\ handled' = handled
      /\ sent \in Nat /\ sent' = sent + 1 /\ sent' \in 0 .. MaxMsgs
      /\ queue \in [Leaf -> Seq(1 .. sent)] /\ handled \in [Leaf -> Seq(1 .. sent)]
  BY MessageServerAssumption DEF IInv, TypeOK, NewMsg
<1>2. ASSUME NEW q \in Leaf
      PROVE  IsFiniteSet(ways(q)) /\ Cardinality(ways(q)) \in Nat
  <2>1. IsFiniteSet(Port) /\ ways(q) \in SUBSET Port
    BY MessageServerAssumption
  <2>2. QED
    BY <2>1, FS_Subset, FS_CardinalityType
<1>3. ASSUME NEW q \in Leaf
      PROVE  /\ queue'[q] \in Seq(1 .. sent + 1)
             /\ handled'[q] \in Seq(1 .. sent + 1)
             /\ Len(queue[q]) <= Len(queue'[q])
             /\ \A k \in 1 .. Len(queue[q]) : queue'[q][k] = queue[q][k]
             /\ \A k \in 1 .. Len(queue'[q]) : k > Len(queue[q]) => queue'[q][k] = sent + 1
             /\ Len(queue'[q]) <= Len(queue[q]) + Cardinality(ways(q))
  <2>1. 1 .. sent \subseteq 1 .. sent + 1
    BY <1>1
  <2>2. /\ queue[q] \in Seq(1 .. sent + 1) /\ Len(queue[q]) \in Nat
        /\ handled[q] \in Seq(1 .. sent + 1)
    BY <1>1, <2>1, SeqMonotonic
  <2>3. /\ new(q) \in Seq(1 .. sent + 1) /\ Len(new(q)) = Cardinality(ways(q))
        /\ \A k \in 1 .. Cardinality(ways(q)) : new(q)[k] = sent + 1
    <3> DEFINE n == Cardinality(ways(q))
    <3>1. n \in Nat /\ new(q) = [k \in 1 .. n |-> sent + 1] /\ sent + 1 \in 1 .. sent + 1
      <4>1. n \in Nat
        BY <1>2
      <4>2. sent + 1 \in 1 .. sent + 1
        BY <1>1
      <4>3. QED
        BY <4>1, <4>2
    <3> HIDE DEF n
    <3>2. [k \in 1 .. n |-> sent + 1] \in Seq(1 .. sent + 1)
      BY <3>1
    <3>3. QED
      BY <3>1, <3>2 DEF n
  <2>4. queue'[q] = IF Accepts(q) THEN queue[q] \o new(q) ELSE queue[q]
    BY DEF PutOn
  <2> HIDE DEF new, ways
  <2>5. /\ queue[q] \o new(q) \in Seq(1 .. sent + 1)
        /\ Len(queue[q] \o new(q)) = Len(queue[q]) + Len(new(q))
        /\ \A k \in 1 .. Len(queue[q]) + Len(new(q)) :
              (queue[q] \o new(q))[k] = IF k <= Len(queue[q]) THEN queue[q][k]
                                        ELSE new(q)[k - Len(queue[q])]
    BY <2>2, <2>3, ConcatProperties
  <2>6. CASE ~ Accepts(q)
    BY <1>1, <1>2, <2>2, <2>4, <2>6
  <2>7. CASE Accepts(q)
    <3>1. queue'[q] = queue[q] \o new(q) /\ Len(new(q)) \in Nat
      BY <1>2, <2>3, <2>4, <2>7
    <3>2. \A k \in 1 .. Len(queue[q]) : k \in 1 .. Len(queue[q]) + Len(new(q)) /\ k <= Len(queue[q])
      BY <2>2, <3>1
    <3>3. \A k \in 1 .. Len(queue[q]) + Len(new(q)) : k > Len(queue[q]) =>
              k - Len(queue[q]) \in 1 .. Len(new(q)) /\ ~ (k <= Len(queue[q]))
      BY <2>2, <3>1
    <3>4. Len(queue[q]) <= Len(queue[q]) + Len(new(q))
      BY <2>2, <3>1
    <3>5. Len(queue[q]) + Len(new(q)) <= Len(queue[q]) + Cardinality(ways(q))
      BY <2>2, <2>3, <3>1
    <3>6. QED
      BY <1>1, <2>2, <2>3, <2>5, <3>1, <3>2, <3>3, <3>4, <3>5
  <2>8. QED
    BY <2>6, <2>7
<1> HIDE DEF ways, new
<1>4. queue' \in [Leaf -> Seq(1 .. sent + 1)] /\ handled' \in [Leaf -> Seq(1 .. sent + 1)]
  <2>1. DOMAIN queue' = Leaf
    BY DEF PutOn
  <2>2. queue' = [q \in Leaf |-> queue'[q]]
    BY DEF PutOn
  <2>3. QED
    BY <1>1, <1>3, <2>2
<1>5. TypeOK'
  BY <1>1, <1>4 DEF IInv, TypeOK
<1>6. PendingFirst(stack', queue')
  <2>1. PendingFirst(stack, queue) /\ stack \in Seq(Frame)
    BY DEF IInv, Stacked
  <2>2. ASSUME NEW k \in DOMAIN stack, stack[k].kind = "pending"
        PROVE  k = 1 /\ stack[k].num <= Len(queue'[stack[k].at])
    <3>1. stack[k] \in Frame
      BY <2>1
    <3>2. stack[k].at \in Leaf /\ stack[k].num \in Nat
      BY <2>2, <3>1, FrameFields
    <3>3. k = 1 /\ stack[k].num <= Len(queue[stack[k].at])
      BY <2>1, <2>2 DEF PendingFirst
    <3>4. Len(queue[stack[k].at]) \in Nat /\ Len(queue'[stack[k].at]) \in Nat
      BY <1>1, <1>4, <3>2
    <3>5. QED
      BY <1>3, <3>2, <3>3, <3>4
  <2>3. QED
    BY <1>1, <2>2 DEF PendingFirst
<1>7. Stacked(stack', locks', slots', queue')
  BY <1>1, <1>6 DEF IInv, Stacked
<1>8. Ordered(stack', queue', handled')
  <2>1. ASSUME NEW q \in Leaf, HeldOnce(q)
        PROVE  /\ InOrder(queue'[q]) /\ InOrder(handled'[q])
               /\ \A j \in 1 .. Len(handled'[q]), k \in 1 .. Len(queue'[q]) :
                     Taken(stack', q) < k => handled'[q][j] < queue'[q][k]
    <3>1. Cardinality(ways(q)) <= 1
      <4>1. \A a, b \in ways(q) : a = b
        BY <2>1 DEF ways
      <4>2. Cardinality(ways(q)) \in 0 .. 1
        BY <4>1, AtMostOne
      <4>3. QED
        BY <4>2
    <3>2. /\ Len(queue[q]) \in Nat /\ Len(queue'[q]) \in Nat /\ Cardinality(ways(q)) \in Nat
          /\ Len(handled[q]) \in Nat
          /\ \A k \in 1 .. Len(queue[q]) : queue[q][k] \in 1 .. sent
          /\ \A k \in 1 .. Len(handled[q]) : handled[q][k] \in 1 .. sent
      BY <1>1, <1>2, <1>4, <2>1
    <3>3. \A k \in 1 .. Len(queue'[q]) :
             \/ k \in 1 .. Len(queue[q]) /\ queue'[q][k] = queue[q][k]
             \/ k = Len(queue[q]) + 1 /\ queue'[q][k] = sent + 1
      BY <1>3, <3>1, <3>2
    <3>4. /\ InOrder(queue[q]) /\ InOrder(handled[q])
          /\ \A j \in 1 .. Len(handled[q]), k \in 1 .. Len(queue[q]) :
                Taken(stack, q) < k => handled[q][j] < queue[q][k]
      BY <2>1 DEF IInv, Ordered
    <3>5. ASSUME NEW j \in 1 .. Len(queue'[q]), NEW k \in 1 .. Len(queue'[q]), j < k
          PROVE  queue'[q][j] < queue'[q][k]
      <4>1. j \in 1 .. Len(queue[q]) /\ queue'[q][j] = queue[q][j] /\ queue[q][j] \in 1 .. sent
        BY <3>2, <3>3, <3>5
      <4>2. CASE k \in 1 .. Len(queue[q]) /\ queue'[q][k] = queue[q][k]
        BY <3>4, <3>5, <4>1, <4>2 DEF InOrder
      <4>3. CASE queue'[q][k] = sent + 1
        BY <1>1, <4>1, <4>3
      <4>4. QED
        BY <3>3, <4>2, <4>3
    <3>6. ASSUME NEW j \in 1 .. Len(handled'[q]), NEW k \in 1 .. Len(queue'[q]),
                 Taken(stack', q) < k
          PROVE  handled'[q][j] < queue'[q][k]
      <4>1. /\ j \in 1 .. Len(handled[q]) /\ handled'[q][j] = handled[q][j]
            /\ handled[q][j] \in 1 .. sent /\ Taken(stack, q) < k
        BY <1>1, <3>2, <3>6
      <4>2. CASE k \in 1 .. Len(queue[q]) /\ queue'[q][k] = queue[q][k]
        BY <3>4, <4>1, <4>2
      <4>3. CASE queue'[q][k] = sent + 1
        BY <1>1, <4>1, <4>3
      <4>4. QED
        BY <3>3, <4>2, <4>3
    <3>7. QED
      BY <1>1, <3>4, <3>5, <3>6 DEF InOrder
  <2>2. QED
    BY <2>1 DEF Ordered
<1>9. AllTidy(slots')
  BY <1>1 DEF IInv
<1>10. QED
  BY <1>5, <1>7, <1>8, <1>9 DEF IInv

LEMMA SendAsyncKeeps ==
    ASSUME IInv, NEW p \in Port, SendAsync(p)
    PROVE  IInv'
BY PutKeeps DEF SendAsync

(* Two ways to a port from the ports of the server are two hubs that hold  *)
(* the port.                                                               *)
LEMMA BroadcastAsyncKeeps ==
    ASSUME IInv, BroadcastAsync
    PROVE  IInv'
<1> DEFINE ports == Attached(Server)
<1>1. ASSUME NEW h \in Hub
      PROVE  Attached(h) \subseteq Holds[h]
  <2>1. Tidy(h, slots[h])
    BY DEF IInv, AllTidy
  <2>2. DOMAIN slots[h] = 1 .. Len(slots[h])
    BY <2>1 DEF Tidy, Arrays
  <2>3. QED
    BY <2>1, <2>2 DEF Tidy, Attached, Range
<1>2. Server \in Hub /\ ports \in SUBSET Port
  BY <1>1, HeldAreFinite DEF Hub
<1>3. ASSUME NEW q \in Leaf, HeldOnce(q), NEW a \in ports, NEW b \in ports,
             Reaches(a, q), Reaches(b, q)
      PROVE  a = b
  <2>1. \A c \in ports : Reaches(c, q) =>
            \/ c = q /\ q \in Holds[Server]
            \/ c \in Dispatchers /\ c \in Hub /\ q \in Holds[c]
    BY <1>1, <1>2 DEF Reaches, Hub
  <2>2. Server \notin Dispatchers
    BY MessageServerAssumption DEF Port
  <2>3. QED
    BY <1>2, <1>3, <2>1, <2>2 DEF HeldOnce
<1> HIDE DEF ports
<1>4. PutOn(ports) /\ NewMsg /\ UNCHANGED <<slots, locks, stack, handled>>
  BY DEF BroadcastAsync, ports
<1>5. QED
  BY <1>2, <1>3, <1>4, PutKeeps

(* A synchronous message changes the stack and the locks alone.            *)
LEMMA StackKeeps ==
    ASSUME IInv, UNCHANGED <<slots, queue, handled>>,
           sent' = sent \/ NewMsg,
           Stacked(stack', locks', slots, queue),
           \A p : Taken(stack', p) = Taken(stack, p)
    PROVE  IInv'
<1>1. /\ slots' = slots /\ queue' = queue /\ handled' = handled
      /\ sent \in Nat /\ sent' \in 0 .. MaxMsgs /\ 1 .. sent \subseteq 1 .. sent'
      /\ queue \in [Leaf -> Seq(1 .. sent)] /\ handled \in [Leaf -> Seq(1 .. sent)]
  BY MessageServerAssumption DEF IInv, TypeOK, NewMsg
<1>2. queue' \in [Leaf -> Seq(1 .. sent')] /\ handled' \in [Leaf -> Seq(1 .. sent')]
  <2>1. \A q \in Leaf : queue[q] \in Seq(1 .. sent') /\ handled[q] \in Seq(1 .. sent')
    BY <1>1, SeqMonotonic
  <2>2. QED
    BY <1>1, <2>1
<1>3. TypeOK'
  BY <1>1, <1>2 DEF IInv, TypeOK, Stacked
<1>4. Ordered(stack', queue', handled')
  BY <1>1 DEF IInv, Ordered
<1>5. QED
  BY <1>1, <1>3, <1>4 DEF IInv

LEMMA SendSyncKeeps ==
    ASSUME IInv, NEW p \in Port, SendSync(p)
    PROVE  IInv'
<1>1. /\ slots \in [Hub -> Arrays] /\ Stacked(stack, locks, slots, queue)
      /\ NewMsg /\ sent + 1 \in 1 .. MaxMsgs /\ Deliver(p, sent + 1, stack)
      /\ UNCHANGED <<slots, queue, handled>>
  BY MessageServerAssumption DEF IInv, TypeOK, Arrays, SendSync, NewMsg
<1>2. /\ Stacked(stack', locks', slots, queue)
      /\ \A q : Taken(stack', q) = Taken(stack, q)
  BY <1>1, Delivered
<1>3. QED
  BY <1>1, <1>2, StackKeeps

LEMMA BroadcastSyncKeeps ==
    ASSUME IInv, BroadcastSync
    PROVE  IInv'
<1>1. /\ slots \in [Hub -> Arrays] /\ Stacked(stack, locks, slots, queue)
      /\ NewMsg /\ sent + 1 \in 1 .. MaxMsgs /\ BeginLoop(Server, sent + 1, stack)
      /\ UNCHANGED <<slots, queue, handled>> /\ Server \in Hub
  BY MessageServerAssumption DEF IInv, TypeOK, Arrays, BroadcastSync, NewMsg, Hub
<1>2. /\ Stacked(stack', locks', slots, queue)
      /\ \A q : Taken(stack', q) = Taken(stack, q)
  BY <1>1, NewLoop
<1>3. QED
  BY <1>1, <1>2, StackKeeps

(* A frame on top of a stack.                                              *)
LEMMA OnTop ==
    ASSUME NEW b, NEW lk, NEW sl, NEW qu, Stacked(b, lk, sl, qu),
           NEW f \in Frame, NEW lk2 \in [Hub -> Nat],
           \A h \in Hub : lk2[h] = lk[h] + IF f.kind = "loop" /\ f.at = h THEN 1 ELSE 0,
           f.kind = "loop" => OnCourse(f, sl[f.at]),
           f.kind = "pending" => b = <<>> /\ f.num <= Len(qu[f.at])
    PROVE  Stacked(Append(b, f), lk2, sl, qu)
<1>1. /\ b \in Seq(Frame) /\ LocksCounted(b, lk) /\ LoopsOnCourse(b, sl) /\ PendingFirst(b, qu)
  BY DEF Stacked
<1>2. /\ Append(b, f) \in Seq(Frame) /\ LoopsOnCourse(Append(b, f), sl)
      /\ PendingFirst(Append(b, f), qu)
  BY <1>1, PushedFrame
<1>3. \A h : Cardinality(LoopsOver(Append(b, f), h))
                = Cardinality(LoopsOver(b, h)) + IF f.kind = "loop" /\ f.at = h THEN 1 ELSE 0
  BY <1>1, PushedFrame
<1>4. LocksCounted(Append(b, f), lk2)
  BY <1>1, <1>3 DEF LocksCounted
<1>5. QED
  BY <1>2, <1>4 DEF Stacked

(* A loop goes on to the next element; when it calls the port in the       *)
(* present one, it has not called it before.                               *)
LEMMA Advanced ==
    ASSUME NEW f \in Frame, f.kind = "loop", NEW s, Tidy(f.at, s), OnCourse(f, s),
           f.i <= f.num
    PROVE  /\ f.i \in 1 .. Len(s) /\ s[f.i] \in Port \cup {None}
           /\ LET g == [f EXCEPT !.i = @ + 1]
              IN  /\ g \in Frame /\ g.kind = "loop" /\ g.at = f.at
                  /\ s[f.i] = None \/ s[f.i] \in Deaf => OnCourse(g, s)
           /\ s[f.i] # None =>
                LET g == [f EXCEPT !.i = @ + 1, !.calls = Append(@, s[f.i])]
                IN  g \in Frame /\ g.kind = "loop" /\ g.at = f.at /\ OnCourse(g, s)
<1> DEFINE p == s[f.i]
           g == [f EXCEPT !.i = f.i + 1]
           c == [f EXCEPT !.i = f.i + 1, !.calls = Append(f.calls, p)]
<1>1. /\ f \in [kind : {"loop"}, at : Hub, msg : 1 .. MaxMsgs, num : Nat, i : Nat \ {0},
                calls : Seq(Port), stayed : SUBSET Port]
      /\ f.num \in Nat /\ f.i \in Nat \ {0} /\ f.calls \in Seq(Port) /\ f.stayed \subseteq Port
      /\ Len(f.calls) \in Nat /\ None \notin Port
  BY MessageServerAssumption DEF Frame
<1>2. /\ s \in Seq(Port \cup {None}) /\ Len(s) \in Nat /\ f.num <= Len(s)
      /\ \A j, k \in 1 .. Len(s) : s[j] = s[k] /\ s[j] # None => j = k
  BY DEF Tidy, Arrays, OnCourse
<1>3. f.i \in 1 .. Len(s) /\ f.i \in 1 .. f.num /\ p \in Port \cup {None}
  BY <1>1, <1>2
<1>4. ASSUME NEW q \in f.stayed
      PROVE  \E j \in 1 .. f.num : /\ s[j] = q /\ j \in 1 .. Len(s)
                                   /\ q \notin Deaf /\ j < f.i => CalledOnce(f, q)
                                   /\ q \notin Deaf /\ j >= f.i => ~ Called(f, q)
                                   /\ p = q <=> j = f.i
  <2>1. PICK j \in 1 .. f.num : /\ s[j] = q
                                /\ q \notin Deaf /\ j < f.i => CalledOnce(f, q)
                                /\ q \notin Deaf /\ j >= f.i => ~ Called(f, q)
    BY DEF OnCourse
  <2>2. j \in 1 .. Len(s) /\ q # None
    BY <1>1, <1>2
  <2>3. QED
    BY <1>2, <1>3, <2>1, <2>2
<1> HIDE DEF p
<1>5. /\ g \in Frame /\ g.kind = "loop" /\ g.at = f.at
      /\ g.num = f.num /\ g.i = f.i + 1 /\ g.stayed = f.stayed /\ g.calls = f.calls
  BY <1>1 DEF Frame
<1>6. ASSUME p = None \/ p \in Deaf
      PROVE  OnCourse(g, s)
  <2> HIDE DEF g
  <2>1. \A q : (Called(g, q) <=> Called(f, q)) /\ (CalledOnce(g, q) <=> CalledOnce(f, q))
    BY <1>5 DEF Called, CalledOnce
  <2>2. ASSUME NEW q \in g.stayed
        PROVE  \E j \in 1 .. g.num : /\ s[j] = q
                                     /\ q \notin Deaf /\ j < g.i => CalledOnce(g, q)
                                     /\ q \notin Deaf /\ j >= g.i => ~ Called(g, q)
    <3>1. PICK j \in 1 .. f.num : /\ s[j] = q
                                  /\ q \notin Deaf /\ j < f.i => CalledOnce(f, q)
                                  /\ q \notin Deaf /\ j >= f.i => ~ Called(f, q)
                                  /\ p = q <=> j = f.i
      BY <1>4, <1>5
    <3>2. q \in Port
      BY <1>1, <1>5
    <3>3. q \notin Deaf => j # f.i
      BY <1>1, <1>6, <3>1, <3>2
    <3>4. (q \notin Deaf /\ j < f.i + 1 => j < f.i) /\ (j >= f.i + 1 => j >= f.i)
      BY <1>1, <3>3
    <3>5. QED
      BY <1>5, <2>1, <3>1, <3>4
  <2>3. QED
    BY <1>2, <1>5, <2>2 DEF OnCourse
<1>7. ASSUME p # None
      PROVE  /\ c \in Frame /\ c.kind = "loop" /\ c.at = f.at
             /\ OnCourse(c, s)
  <2>1. p \in Port /\ Append(f.calls, p) \in Seq(Port)
    BY <1>1, <1>3, <1>7
  <2>2. /\ c \in Frame /\ c.kind = "loop" /\ c.at = f.at
        /\ c.num = f.num /\ c.i = f.i + 1 /\ c.stayed = f.stayed /\ c.calls = Append(f.calls, p)
    <3> DEFINE a == Append(f.calls, p)
               i == f.i + 1
               d == [f EXCEPT !.i = i, !.calls = a]
    <3>1. i \in Nat \ {0} /\ a \in Seq(Port) /\ c = d
      BY <1>1, <2>1
    <3> HIDE DEF a, i, c
    <3>2. /\ d \in [kind : {"loop"}, at : Hub, msg : 1 .. MaxMsgs, num : Nat, i : Nat \ {0},
                    calls : Seq(Port), stayed : SUBSET Port]
          /\ d.kind = "loop" /\ d.at = f.at /\ d.num = f.num /\ d.i = i
          /\ d.stayed = f.stayed /\ d.calls = a
      BY <1>1, <3>1
    <3> HIDE DEF d
    <3>3. d \in Frame
      BY <3>2 DEF Frame
    <3>4. QED
      BY <3>1, <3>2, <3>3 DEF a, i
  <2> HIDE DEF c
  <2>3. /\ Len(c.calls) = Len(f.calls) + 1 /\ c.calls[Len(f.calls) + 1] = p
        /\ \A d \in 1 .. Len(f.calls) : c.calls[d] = f.calls[d]
    BY <1>1, <2>1, <2>2, AppendProperties
  <2>4. \A d \in 1 .. Len(f.calls) + 1 : d \in 1 .. Len(f.calls) \/ d = Len(f.calls) + 1
    BY <1>1
  <2>5. 1 .. Len(f.calls) \subseteq 1 .. Len(f.calls) + 1 /\ Len(f.calls) + 1 \in 1 .. Len(f.calls) + 1
    BY <1>1
  <2>6. ASSUME NEW q, q # p
        PROVE  (Called(c, q) <=> Called(f, q)) /\ (CalledOnce(f, q) => CalledOnce(c, q))
    BY <2>3, <2>4, <2>5, <2>6 DEF Called, CalledOnce
  <2>7. ~ Called(f, p) => CalledOnce(c, p)
    BY <2>3, <2>4, <2>5 DEF Called, CalledOnce
  <2>8. ASSUME NEW q \in c.stayed
        PROVE  \E j \in 1 .. c.num : /\ s[j] = q
                                     /\ q \notin Deaf /\ j < c.i => CalledOnce(c, q)
                                     /\ q \notin Deaf /\ j >= c.i => ~ Called(c, q)
    <3>1. PICK j \in 1 .. f.num : /\ s[j] = q
                                  /\ q \notin Deaf /\ j < f.i => CalledOnce(f, q)
                                  /\ q \notin Deaf /\ j >= f.i => ~ Called(f, q)
                                  /\ p = q <=> j = f.i
      BY <1>4, <2>2
    <3>2. CASE p = q
      <4>1. j >= f.i /\ ~ (j >= f.i + 1)
        BY <1>1, <3>1, <3>2
      <4>2. QED
        BY <2>2, <2>7, <3>1, <3>2, <4>1
    <3>3. CASE p # q
      <4>1. (j < f.i + 1 => j < f.i) /\ (j >= f.i + 1 => j >= f.i)
        BY <1>1, <3>1, <3>3
      <4>2. QED
        BY <2>2, <2>6, <3>1, <3>3, <4>1
    <3>4. QED
      BY <3>2, <3>3
  <2>9. QED
    BY <1>2, <2>2, <2>8 DEF OnCourse
<1>8. QED
  BY <1>3, <1>5, <1>6, <1>7 DEF p

LEMMA LoopNextKeeps ==
    ASSUME IInv, LoopNext
    PROVE  IInv'
<1> DEFINE f == Last(stack)
           s == slots[f.at]
           p == s[f.i]
           lk == [locks EXCEPT ![f.at] = @ - 1]
<1>1. /\ stack # <<>> /\ f.kind = "loop" /\ f.i <= f.num
      /\ UNCHANGED <<slots, queue, sent, handled>>
      /\ \/ /\ p = None \/ p \in Deaf
            /\ stack' = Append(Below, [f EXCEPT !.i = @ + 1])
            /\ locks' = locks
         \/ /\ p # None
            /\ Deliver(p, f.msg, Append(Below, [f EXCEPT !.i = @ + 1, !.calls = Append(@, p)]))
  BY DEF LoopNext, Running
<1>2. /\ slots \in [Hub -> Arrays] /\ Stacked(stack, locks, slots, queue) /\ AllTidy(slots)
      /\ stack \in Seq(Frame) /\ locks \in [Hub -> Nat]
  BY DEF IInv, TypeOK, Arrays, Stacked
<1>3. Len(stack) \in DOMAIN stack /\ f = stack[Len(stack)] /\ stack = Append(Below, f)
  BY <1>1, <1>2, TopOfStack, TopFrame DEF Below
<1>4. f \in Frame /\ f.at \in Hub /\ locks[f.at] # 0 /\ OnCourse(f, s)
  BY <1>1, <1>2, <1>3, LoopLocks
<1>5. f.msg \in 1 .. MaxMsgs
  BY <1>1, <1>4, FrameFields
<1>6. /\ lk \in [Hub -> Nat]
      /\ \A h \in Hub : locks[h] = lk[h] + IF f.kind = "loop" /\ f.at = h THEN 1 ELSE 0
  BY <1>1, <1>2, <1>4
<1> HIDE DEF lk
<1>7. Stacked(Below, lk, slots, queue) /\ \A q : Taken(Below, q) = Taken(stack, q)
  BY <1>1, <1>2, <1>6, Returned
<1>8. Tidy(f.at, s)
  BY <1>2, <1>4 DEF AllTidy
<1> HIDE DEF f, s
<1>9. /\ p = s[f.i] /\ f.i \in 1 .. Len(s) /\ p \in Port \cup {None}
      /\ LET g == [f EXCEPT !.i = @ + 1]
         IN  /\ g \in Frame /\ g.kind = "loop" /\ g.at = f.at
             /\ p = None \/ p \in Deaf => OnCourse(g, s)
      /\ p # None =>
           LET g == [f EXCEPT !.i = @ + 1, !.calls = Append(@, p)]
           IN  g \in Frame /\ g.kind = "loop" /\ g.at = f.at /\ OnCourse(g, s)
  BY <1>1, <1>4, <1>8, Advanced
<1> HIDE DEF p
<1>10. ASSUME NEW g \in Frame, g.kind = "loop", g.at = f.at, OnCourse(g, s)
       PROVE  /\ Stacked(Append(Below, g), locks, slots, queue)
              /\ \A q : Taken(Append(Below, g), q) = Taken(stack, q)
  <2>1. /\ Below \in Seq(Frame) /\ OnCourse(g, slots[g.at]) /\ locks \in [Hub -> Nat]
        /\ \A h \in Hub : locks[h] = lk[h] + IF g.kind = "loop" /\ g.at = h THEN 1 ELSE 0
    BY <1>1, <1>2, <1>6, <1>7, <1>10 DEF Stacked, s
  <2>2. Stacked(Append(Below, g), locks, slots, queue)
    BY <1>7, <1>10, <2>1, OnTop
  <2>3. \A q : Taken(Append(Below, g), q) = Taken(Below, q)
    BY <1>10, <2>1, PushedFrame
  <2>4. QED
    BY <1>7, <2>2, <2>3
<1>11. Stacked(stack', locks', slots, queue) /\ \A q : Taken(stack', q) = Taken(stack, q)
  <2>1. CASE /\ p = None \/ p \in Deaf
             /\ stack' = Append(Below, [f EXCEPT !.i = @ + 1])
             /\ locks' = locks
    <3> DEFINE g == [f EXCEPT !.i = @ + 1]
    <3>1. g \in Frame /\ g.kind = "loop" /\ g.at = f.at /\ OnCourse(g, s) /\ stack' = Append(Below, g)
      BY <1>9, <2>1
    <3> HIDE DEF g
    <3>2. QED
      BY <1>10, <2>1, <3>1
  <2>2. CASE /\ p # None
             /\ Deliver(p, f.msg, Append(Below, [f EXCEPT !.i = @ + 1, !.calls = Append(@, p)]))
    <3> DEFINE g == [f EXCEPT !.i = @ + 1, !.calls = Append(@, p)]
    <3>1. /\ g \in Frame /\ g.kind = "loop" /\ g.at = f.at /\ OnCourse(g, s)
          /\ p \in Port /\ Deliver(p, f.msg, Append(Below, g))
      BY <1>9, <2>2
    <3> HIDE DEF g
    <3>2. /\ Stacked(Append(Below, g), locks, slots, queue)
          /\ \A q : Taken(Append(Below, g), q) = Taken(stack, q)
      BY <1>10, <3>1
    <3>3. QED
      BY <1>2, <1>5, <3>1, <3>2, Delivered
  <2>3. QED
    BY <1>1, <2>1, <2>2
<1>12. QED
  BY <1>1, <1>11, StackKeeps

LEMMA LoopEndKeeps ==
    ASSUME IInv, LoopEnd
    PROVE  IInv'
<1> DEFINE f == Last(stack)
<1>1. /\ stack # <<>> /\ f.kind = "loop"
      /\ UNCHANGED <<slots, queue, sent, handled>>
      /\ stack' = Below /\ locks' = [locks EXCEPT ![f.at] = locks[f.at] - 1]
  BY DEF LoopEnd, Running, Unlock
<1>2. /\ Stacked(stack, locks, slots, queue)
      /\ stack \in Seq(Frame) /\ locks \in [Hub -> Nat]
  BY DEF IInv, Stacked
<1>3. Len(stack) \in DOMAIN stack /\ f = stack[Len(stack)]
  BY <1>1, <1>2, TopOfStack
<1>4. f \in Frame /\ f.at \in Hub /\ locks[f.at] # 0
  BY <1>1, <1>2, <1>3, LoopLocks
<1>5. /\ locks' \in [Hub -> Nat]
      /\ \A h \in Hub : locks[h] = locks'[h] + IF f.kind = "loop" /\ f.at = h THEN 1 ELSE 0
  BY <1>1, <1>2, <1>4
<1>6. Stacked(Below, locks', slots, queue) /\ \A q : Taken(Below, q) = Taken(stack, q)
  BY <1>1, <1>2, <1>5, Returned
<1>7. QED
  BY <1>1, <1>6, StackKeeps

LEMMA HandlerReturnKeeps ==
    ASSUME IInv, HandlerReturn
    PROVE  IInv'
<1>1. /\ stack # <<>> /\ Last(stack).kind = "handler"
      /\ UNCHANGED <<slots, locks, queue, sent, handled>> /\ stack' = Below
  BY DEF HandlerReturn, Running
<1>2. Stacked(stack, locks, slots, queue) /\ locks \in [Hub -> Nat]
  BY DEF IInv, Stacked
<1>3. \A h \in Hub : locks[h] = locks[h]
            + IF Last(stack).kind = "loop" /\ Last(stack).at = h THEN 1 ELSE 0
  BY <1>1, <1>2
<1>4. Stacked(Below, locks, slots, queue) /\ \A q : Taken(Below, q) = Taken(stack, q)
  BY <1>1, <1>2, <1>3, Returned
<1>5. QED
  BY <1>1, <1>4, StackKeeps

LEMMA HandlePendingMessagesKeeps ==
    ASSUME IInv, NEW p \in Leaf, HandlePendingMessages(p)
    PROVE  IInv'
<1> DEFINE f == Pending(p)
<1>1. /\ stack = <<>> /\ stack' = <<f>>
      /\ UNCHANGED <<slots, locks, queue, sent, handled>>
      /\ Stacked(stack, locks, slots, queue) /\ locks \in [Hub -> Nat]
      /\ queue[p] \in Seq(1 .. sent) /\ Len(queue[p]) \in Nat
  BY DEF HandlePendingMessages, IInv, TypeOK, Stacked
<1>2. /\ f \in Frame /\ f.kind = "pending" /\ f.at = p /\ f.i = 1
      /\ f.num = Len(queue[p]) /\ f.num <= Len(queue[f.at])
  BY <1>1 DEF Pending, Frame
<1> HIDE DEF f
<1>3. /\ \A h \in Hub : locks[h] = locks[h] + IF f.kind = "loop" /\ f.at = h THEN 1 ELSE 0
      /\ stack' = Append(stack, f)
  BY <1>1, <1>2
<1>4. Stacked(stack', locks, slots, queue)
  <2>1. /\ Stacked(stack, locks, slots, queue) /\ locks \in [Hub -> Nat]
        /\ f.kind = "loop" => OnCourse(f, slots[f.at])
        /\ f.kind = "pending" => stack = <<>> /\ f.num <= Len(queue[f.at])
    BY <1>1, <1>2
  <2>2. Stacked(Append(stack, f), locks, slots, queue)
    BY <1>2, <1>3, <2>1, OnTop
  <2>3. QED
    BY <1>3, <2>2
<1>5. \A q : Taken(stack', q) = Taken(stack, q)
  BY <1>1, <1>2 DEF Taken
<1>6. QED
  BY <1>1, <1>4, <1>5, StackKeeps

(* The next pending message is later than those handled before it, and     *)
(* those that are left are later still.                                    *)
LEMMA PendingNextKeeps ==
    ASSUME IInv, PendingNext
    PROVE  IInv'
<1> DEFINE f == Last(stack)
           m == queue[f.at][f.i]
           g == [f EXCEPT !.i = f.i + 1]
           h == Handler(f.at, m)
<1>1. /\ stack # <<>> /\ f.kind = "pending" /\ f.i <= f.num
      /\ UNCHANGED <<slots, locks, queue, sent>>
      /\ stack' = Append(Append(Below, g), h)
      /\ handled' = [handled EXCEPT ![f.at] = Append(@, m)]
  BY DEF PendingNext, Running
<1>2. /\ Stacked(stack, locks, slots, queue) /\ stack \in Seq(Frame) /\ locks \in [Hub -> Nat]
      /\ queue \in [Leaf -> Seq(1 .. sent)] /\ handled \in [Leaf -> Seq(1 .. sent)]
      /\ sent \in 0 .. MaxMsgs /\ MaxMsgs \in Nat
      /\ Ordered(stack, queue, handled) /\ AllTidy(slots)
  BY MessageServerAssumption DEF IInv, TypeOK, Stacked
<1>3. \A q \in Hub : locks[q] = locks[q] + IF f.kind = "loop" /\ f.at = q THEN 1 ELSE 0
  BY <1>1, <1>2
<1>4. /\ Below = <<>> /\ Stacked(Below, locks, slots, queue)
      /\ f \in Frame /\ f.num <= Len(queue[f.at])
  BY <1>1, <1>2, <1>3, Returned
<1>5. /\ f \in [kind : {"pending"}, at : Leaf, num : Nat, i : Nat \ {0}]
      /\ f.at \in Leaf /\ f.num \in Nat /\ f.i \in Nat \ {0}
  BY <1>1, <1>4 DEF Frame
<1>6. stack = <<f>>
  <2>1. stack = Append(Below, f)
    BY <1>1, <1>2, TopFrame DEF Below
  <2>2. QED
    BY <1>4, <2>1
<1>7. /\ queue[f.at] \in Seq(1 .. sent) /\ handled[f.at] \in Seq(1 .. sent)
      /\ Len(queue[f.at]) \in Nat /\ Len(handled[f.at]) \in Nat
      /\ f.i \in 1 .. Len(queue[f.at]) /\ m \in 1 .. sent /\ m \in 1 .. MaxMsgs
  <2>1. queue[f.at] \in Seq(1 .. sent) /\ Len(queue[f.at]) \in Nat
    BY <1>2, <1>5
  <2>2. f.i \in 1 .. Len(queue[f.at])
    BY <1>1, <1>4, <1>5, <2>1
  <2>3. m \in 1 .. sent
    BY <2>1, <2>2, ElementOfSeq
  <2>4. QED
    BY <1>2, <1>5, <2>1, <2>2, <2>3
<1>8. /\ g \in Frame /\ g.kind = "pending" /\ g.at = f.at /\ g.num = f.num /\ g.i = f.i + 1
      /\ h \in Frame /\ h.kind = "handler"
  BY <1>5, <1>7, SMTT(30) DEF Frame, Handler
<1> HIDE DEF f, m, g, h
<1>9. /\ \A q \in Hub : locks[q] = locks[q] + IF g.kind = "loop" /\ g.at = q THEN 1 ELSE 0
      /\ \A q \in Hub : locks[q] = locks[q] + IF h.kind = "loop" /\ h.at = q THEN 1 ELSE 0
  BY <1>2, <1>8
<1>10. Stacked(Append(Below, g), locks, slots, queue)
  BY <1>2, <1>4, <1>8, <1>9, OnTop
<1>11. Stacked(stack', locks, slots, queue)
  BY <1>1, <1>2, <1>8, <1>9, <1>10, OnTop
<1>12. \A q : /\ Taken(stack, q) = IF q = f.at THEN f.i - 1 ELSE 0
              /\ Taken(stack', q) = IF q = f.at THEN f.i ELSE 0
  <2> DEFINE b == Append(Below, g)
  <2>1. b \in Seq(Frame) /\ b # <<>> /\ Len(Below) = 0 /\ Below \in Seq(Frame)
    BY <1>4, <1>8, PushedFrame DEF Stacked
  <2>2. b[1] = g
    BY <1>8, <2>1, AppendProperties
  <2>3. stack' = Append(b, h)
    BY <1>1
  <2> HIDE DEF b
  <2>4. \A q : Taken(stack', q) = Taken(b, q)
    BY <1>8, <2>1, <2>3, PushedFrame
  <2>5. b[1].kind = "pending" /\ b[1].at = f.at /\ b[1].i - 1 = f.i
    BY <1>5, <1>8, <2>2
  <2>6. ASSUME NEW q
        PROVE  Taken(b, q) = IF q = f.at THEN f.i ELSE 0
    BY <2>1, <2>5 DEF Taken
  <2>7. ASSUME NEW q
        PROVE  Taken(stack, q) = IF q = f.at THEN f.i - 1 ELSE 0
    <3>1. stack # <<>> /\ stack[1] = f
      BY <1>6
    <3>2. QED
      BY <1>1, <3>1 DEF Taken
  <2>8. QED
    BY <2>4, <2>6, <2>7
<1>13. /\ handled' \in [Leaf -> Seq(1 .. sent)]
       /\ Len(handled'[f.at]) = Len(handled[f.at]) + 1
       /\ handled'[f.at][Len(handled[f.at]) + 1] = m
       /\ \A j \in 1 .. Len(handled[f.at]) : handled'[f.at][j] = handled[f.at][j]
       /\ \A q \in Leaf : q # f.at => handled'[q] = handled[q]
  <2>1. handled'[f.at] = Append(handled[f.at], m)
    BY <1>1, <1>2, <1>5
  <2>2. /\ Append(handled[f.at], m) \in Seq(1 .. sent)
        /\ Len(Append(handled[f.at], m)) = Len(handled[f.at]) + 1
        /\ Append(handled[f.at], m)[Len(handled[f.at]) + 1] = m
        /\ \A j \in 1 .. Len(handled[f.at]) : Append(handled[f.at], m)[j] = handled[f.at][j]
    BY <1>7, AppendProperties
  <2>3. QED
    BY <1>1, <1>2, <1>5, <2>1, <2>2
<1>14. Ordered(stack', queue', handled')
  <2>1. ASSUME NEW q \in Leaf, HeldOnce(q)
        PROVE  /\ InOrder(queue[q]) /\ InOrder(handled'[q])
               /\ \A j \in 1 .. Len(handled'[q]), k \in 1 .. Len(queue[q]) :
                     Taken(stack', q) < k => handled'[q][j] < queue[q][k]
    <3>1. /\ InOrder(queue[q]) /\ InOrder(handled[q])
          /\ \A j \in 1 .. Len(handled[q]), k \in 1 .. Len(queue[q]) :
                Taken(stack, q) < k => handled[q][j] < queue[q][k]
      BY <1>2, <2>1 DEF Ordered
    <3>2. CASE q # f.at
      BY <1>12, <1>13, <2>1, <3>1, <3>2
    <3>3. CASE q = f.at
      <4>1. Taken(stack, q) = f.i - 1 /\ Taken(stack', q) = f.i /\ f.i - 1 < f.i
        BY <1>5, <1>12, <3>3
      <4>2. \A j \in 1 .. Len(handled'[q]) :
               \/ j \in 1 .. Len(handled[q]) /\ handled'[q][j] = handled[q][j]
               \/ j = Len(handled[q]) + 1 /\ handled'[q][j] = m
        BY <1>7, <1>13, <3>3
      <4>3. \A j \in 1 .. Len(handled[q]) : handled[q][j] < m
        BY <1>7, <3>1, <3>3, <4>1 DEF m
      <4>4. ASSUME NEW j \in 1 .. Len(handled'[q]), NEW k \in 1 .. Len(handled'[q]), j < k
            PROVE  handled'[q][j] < handled'[q][k]
        <5>1. j \in 1 .. Len(handled[q]) /\ handled'[q][j] = handled[q][j]
          BY <1>7, <1>13, <3>3, <4>2, <4>4
        <5>2. CASE k \in 1 .. Len(handled[q]) /\ handled'[q][k] = handled[q][k]
          BY <3>1, <4>4, <5>1, <5>2 DEF InOrder
        <5>3. CASE handled'[q][k] = m
          BY <4>3, <5>1, <5>3
        <5>4. QED
          BY <4>2, <5>2, <5>3
      <4>5. ASSUME NEW j \in 1 .. Len(handled'[q]), NEW k \in 1 .. Len(queue[q]), f.i < k
            PROVE  handled'[q][j] < queue[q][k]
        <5>1. f.i - 1 < k /\ m < queue[q][k]
          BY <1>5, <1>7, <3>1, <3>3, <4>5 DEF InOrder, m
        <5>2. CASE j \in 1 .. Len(handled[q]) /\ handled'[q][j] = handled[q][j]
          BY <3>1, <4>1, <5>1, <5>2
        <5>3. CASE handled'[q][j] = m
          BY <5>1, <5>3
        <5>4. QED
          BY <4>2, <5>2, <5>3
      <4>6. QED
        BY <3>1, <4>1, <4>4, <4>5 DEF InOrder
    <3>4. QED
      BY <3>2, <3>3
  <2>2. QED
    BY <1>1, <2>1 DEF Ordered
<1>15. TypeOK'
  BY <1>1, <1>11, <1>13 DEF IInv, TypeOK, Stacked
<1>16. QED
  BY <1>1, <1>2, <1>11, <1>14, <1>15 DEF IInv

LEMMA PendingEndKeeps ==
    ASSUME IInv, PendingEnd
    PROVE  IInv'
<1> DEFINE f == Last(stack)
<1>1. /\ stack # <<>> /\ f.kind = "pending"
      /\ UNCHANGED <<slots, locks, sent, handled>>
      /\ stack' = Below
      /\ queue' = [queue EXCEPT ![f.at] = <<>>]
  BY DEF PendingEnd, Running
<1>2. /\ Stacked(stack, locks, slots, queue) /\ stack \in Seq(Frame) /\ locks \in [Hub -> Nat]
      /\ queue \in [Leaf -> Seq(1 .. sent)] /\ Ordered(stack, queue, handled)
  BY DEF IInv, TypeOK, Stacked
<1>3. \A q \in Hub : locks[q] = locks[q] + IF f.kind = "loop" /\ f.at = q THEN 1 ELSE 0
  BY <1>1, <1>2
<1>4. Below = <<>> /\ Stacked(Below, locks, slots, queue) /\ f \in Frame
  BY <1>1, <1>2, <1>3, Returned
<1>5. f.at \in Leaf
  BY <1>1, <1>4, FrameFields
<1>6. stack = <<f>>
  <2>1. stack = Append(Below, f)
    BY <1>1, <1>2, TopFrame DEF Below
  <2>2. QED
    BY <1>4, <2>1
<1> HIDE DEF f
<1>7. \A q : q # f.at => Taken(stack, q) = 0 /\ Taken(stack', q) = 0
  BY <1>1, <1>4, <1>6 DEF Taken
<1>8. /\ queue' \in [Leaf -> Seq(1 .. sent)] /\ queue'[f.at] = <<>>
      /\ \A q \in Leaf : q # f.at => queue'[q] = queue[q]
  BY <1>1, <1>2, <1>5
<1>9. Ordered(stack', queue', handled')
  <2>1. ASSUME NEW q \in Leaf, HeldOnce(q)
        PROVE  /\ InOrder(queue'[q]) /\ InOrder(handled[q])
               /\ \A j \in 1 .. Len(handled[q]), k \in 1 .. Len(queue'[q]) :
                     Taken(stack', q) < k => handled[q][j] < queue'[q][k]
    <3>1. /\ InOrder(queue[q]) /\ InOrder(handled[q])
          /\ \A j \in 1 .. Len(handled[q]), k \in 1 .. Len(queue[q]) :
                Taken(stack, q) < k => handled[q][j] < queue[q][k]
      BY <1>2, <2>1 DEF Ordered
    <3>2. CASE q # f.at
      BY <1>7, <1>8, <2>1, <3>1, <3>2
    <3>3. CASE q = f.at
      <4>1. Len(queue'[q]) = 0
        BY <1>8, <3>3
      <4>2. QED
        BY <3>1, <4>1 DEF InOrder
    <3>4. QED
      BY <3>2, <3>3
  <2>2. QED
    BY <1>1, <2>1 DEF Ordered
<1>10. Stacked(stack', locks', slots', queue')
  BY <1>1, <1>2, <1>4 DEF Stacked, LocksCounted, LoopsOnCourse, PendingFirst
<1>11. TypeOK'
  BY <1>1, <1>8, <1>10 DEF IInv, TypeOK, Stacked
<1>12. QED
  BY <1>1, <1>9, <1>10, <1>11 DEF IInv

LEMMA InvStep ==
    ASSUME IInv, [Next]_vars
    PROVE  IInv'
<1>1. CASE UNCHANGED vars
  BY <1>1 DEF vars, IInv, TypeOK, AllTidy, Stacked, Ordered
<1>2. CASE Next
  <2>1. CASE \E h \in Hub, p \in Port : RegisterPort(h, p) \/ UnregisterPort(h, p)
    BY <2>1, RegisterPortKeeps, UnregisterPortKeeps
  <2>2. CASE \E p \in Port : SendAsync(p) \/ SendSync(p)
    BY <2>2, SendAsyncKeeps, SendSyncKeeps
  <2>3. CASE BroadcastAsync \/ BroadcastSync
    BY <2>3, BroadcastAsyncKeeps, BroadcastSyncKeeps
  <2>4. CASE LoopNext \/ LoopEnd \/ HandlerReturn
    BY <2>4, LoopNextKeeps, LoopEndKeeps, HandlerReturnKeeps
  <2>5. CASE \E p \in Leaf : HandlePendingMessages(p)
    BY <2>5, HandlePendingMessagesKeeps
  <2>6. CASE PendingNext \/ PendingEnd
    BY <2>6, PendingNextKeeps, PendingEndKeeps
  <2>7. QED
    BY <1>2, <2>1, <2>2, <2>3, <2>4, <2>5, <2>6 DEF Next
<1>3. QED
  BY <1>1, <1>2

-----------------------------------------------------------------------------
(* The theorems.                                                           *)

LEMMA Invariance == Spec => []IInv
<1>1. Init => IInv
  BY InvInit
<1>2. IInv /\ [Next]_vars => IInv'
  BY InvStep
<1>3. QED
  BY <1>1, <1>2, PTL DEF Spec

(* The variables keep their types: whatever is registered, removed and     *)
(* sent from within handlers, an array holds ports and null pointers, a    *)
(* lock count does not become negative (Server::EndBroadcast asserts it),  *)
(* and every loop and handler on the stack is one of the code's.           *)
THEOREM TypeCorrect == Spec => []TypeOK
<1>1. IInv => TypeOK
  BY DEF IInv
<1>2. QED
  BY <1>1, Invariance, PTL

(* No loop of BroadcastSync or Dispatcher::HandleMessage indexes its array *)
(* beyond the end, however deeply loops and handlers are nested.           *)
THEOREM LoopsStayInBounds == Spec => []LoopsInBounds
<1>1. IInv => LoopsInBounds
  <2>1. ASSUME IInv, NEW k \in Loops
        PROVE  stack[k].num <= Len(slots[stack[k].at])
    <3>1. Stacked(stack, locks, slots, queue) /\ k \in DOMAIN stack /\ stack[k].kind = "loop"
      BY <2>1 DEF IInv, Loops
    <3>2. OnCourse(stack[k], slots[stack[k].at])
      BY <3>1, LoopLocks
    <3>3. QED
      BY <3>2 DEF OnCourse
  <2>2. QED
    BY <2>1 DEF LoopsInBounds
<1>2. QED
  BY <1>1, Invariance, PTL

(* A loop that is done has called every port that accepts the message and  *)
(* has been in the array all the time exactly once.                        *)
THEOREM StayedAreCalledOnce == Spec => []DeliveredOnce
<1>1. IInv => DeliveredOnce
  <2>1. ASSUME IInv, NEW k \in Loops, stack[k].i > stack[k].num, NEW p \in stack[k].stayed \ Deaf
        PROVE  Cardinality({c \in DOMAIN stack[k].calls : stack[k].calls[c] = p}) = 1
    <3> DEFINE f == stack[k]
    <3>1. Stacked(stack, locks, slots, queue) /\ k \in DOMAIN stack /\ f.kind = "loop"
      BY <2>1 DEF IInv, Loops
    <3>2. f \in Frame /\ OnCourse(f, slots[f.at])
      BY <3>1, LoopLocks
    <3>3. f.num \in Nat /\ f.i \in Nat /\ f.calls \in Seq(Port)
      BY <3>1, <3>2, FrameFields
    <3>4. DOMAIN f.calls = 1 .. Len(f.calls)
      BY <3>3
    <3> HIDE DEF f
    <3>5. PICK j \in 1 .. f.num : p \notin Deaf /\ j < f.i => CalledOnce(f, p)
      BY <2>1, <3>2 DEF OnCourse, f
    <3>6. j < f.i
      BY <2>1, <3>3 DEF f
    <3>7. PICK c \in 1 .. Len(f.calls) :
             f.calls[c] = p /\ \A d \in 1 .. Len(f.calls) : f.calls[d] = p => d = c
      BY <2>1, <3>5, <3>6 DEF CalledOnce
    <3>8. {d \in DOMAIN f.calls : f.calls[d] = p} = {c}
      BY <3>4, <3>7
    <3>9. Cardinality({d \in DOMAIN f.calls : f.calls[d] = p}) = 1
      BY <3>8, FS_Singleton
    <3>10. QED
      BY <3>9 DEF f
  <2>2. QED
    BY <2>1 DEF DeliveredOnce
<1>2. QED
  BY <1>1, Invariance, PTL

(* The array of a hub never has more elements than ports are ever attached *)
(* to the hub at all: null elements are used again.                        *)
THEOREM ArraysAreBounded == Spec => []SlotsBounded
<1>1. IInv => SlotsBounded
  BY DEF IInv, AllTidy, Tidy, SlotsBounded
<1>2. QED
  BY <1>1, Invariance, PTL

(* A port attached to one hub at most handles its asynchronous messages in *)
(* the order they were sent, and none of them twice.                       *)
THEOREM MessagesStayInOrder == Spec => []HandledInOrder
<1>1. IInv => HandledInOrder
  <2>1. ASSUME IInv, NEW p \in Leaf, HeldOnce(p)
        PROVE  \A i, j \in DOMAIN handled[p] : i < j => handled[p][i] < handled[p][j]
    <3>1. handled[p] \in Seq(1 .. sent) /\ InOrder(handled[p])
      BY <2>1 DEF IInv, TypeOK, Ordered
    <3>2. DOMAIN handled[p] = 1 .. Len(handled[p])
      BY <3>1
    <3>3. QED
      BY <3>1, <3>2 DEF InOrder
  <2>2. QED
    BY <2>1 DEF HandledInOrder
<1>2. QED
  BY <1>1, Invariance, PTL
=============================================================================
