--------------------------- MODULE SignalsProofs ----------------------------
(***************************************************************************)
(* Theorems about Signals, for every set of objects and bindings, every    *)
(* assignment of priorities, and every depth of nesting.                   *)
(***************************************************************************)
EXTENDS Signals, ListLemmas

(* A list of bindings is in the order of their priorities, and holds none  *)
(* of them twice.                                                          *)
Sorted(s) ==
    /\ IsInjective(s)
    /\ \A x, y \in Binding : Before(s, x, y) => Priority[x] <= Priority[y]

Lists(bd) ==
    \A e \in Object :
        /\ Sorted(bd[e])
        /\ \A b \in Binding : Contains(bd[e], b) => Emitter[b] = e

(* A loop over the list s.  Behind its binding are those it has still to   *)
(* invoke; a binding it has invoked is not behind it, nor does a binding   *)
(* come to stand there that has a higher priority.                         *)
AtBinding(f, s) ==
    /\ Contains(s, f.cur)
    /\ f.invoked <=> Contains(f.calls, f.cur)
    /\ \A x \in Binding : Contains(f.calls, x) =>
          /\ Priority[x] <= Priority[f.cur]
          /\ Contains(s, x) /\ x # f.cur => Before(s, x, f.cur)
    /\ \A b \in f.stayed : Contains(f.calls, b) \/ b = f.cur \/ Before(s, f.cur, b)

AtEnd(f) == ~f.invoked /\ \A b \in f.stayed : Contains(f.calls, b)

OnCourse(f, s, al) ==
    /\ IsInjective(f.calls)
    /\ \A x, y \in Binding : Before(f.calls, x, y) => Priority[x] <= Priority[y]
    /\ \A b \in f.stayed : Contains(s, b) /\ Receiver[b] \in al
    /\ f.cur \in Binding => AtBinding(f, s)
    /\ f.cur = None => AtEnd(f)

Emitting(st, bd, al) ==
    \A k \in DOMAIN st : st[k].kind = "emit" => OnCourse(st[k], bd[st[k].at], al)

(* Only Trigger's loop is at the bottom of the stack, at the frame time.   *)
Run(st) == IF st # <<>> /\ st[1].kind = "trigger" THEN st[1].run ELSE 0
AtBottom(st, tm) == \A k \in DOMAIN st : st[k].kind = "trigger" => k = 1 /\ st[k].t = tm

(* The posted signals in the list: numbered, in the order of time, and with *)
(* them the one that is being executed; those that have been executed are  *)
(* the others.                                                             *)
Numbered(s, m) ==
    /\ \A i \in DOMAIN s : s[i].n <= m
    /\ \A i, j \in DOMAIN s : s[i].n = s[j].n => i = j
InTime(s) == \A i, j \in DOMAIN s : i < j => s[i].t <= s[j].t
Posted(ps, dn, run, m, tm) ==
    /\ Numbered(ps, m) /\ Numbered(dn, m) /\ InTime(ps) /\ InTime(dn)
    /\ Len(ps) + Len(dn) = m + (IF run # 0 THEN 1 ELSE 0)
    /\ run # 0 => \E i \in DOMAIN ps : ps[i].n = run
    /\ \A i \in DOMAIN dn : dn[i].t <= tm
    /\ \A i \in DOMAIN dn : \A j \in DOMAIN ps :
          IF ps[j].n = run THEN TRUE ELSE dn[i].n # ps[j].n /\ dn[i].t <= ps[j].t

ListsInv ==
    /\ alive \subseteq Object /\ hasSets \subseteq alive
    /\ bound \in [Object -> Seq(Binding)] /\ Lists(bound)
    /\ stack \in Seq(Frame) /\ Emitting(stack, bound, alive) /\ AtBottom(stack, now)

ServerInv ==
    /\ now \in 0 .. MaxTime
    /\ posted \in Seq(Posting) /\ done \in Seq(Taken)
    /\ free \in 0 .. PoolSize /\ free + Len(posted) = PoolSize
    /\ posts \in 0 .. MaxPosts
    /\ Posted(posted, done, Run(stack), posts, now)

IInv == ListsInv /\ ServerInv /\ fault \in Faults

LEMMA Assumed ==
    /\ Emitter \in [Binding -> Object] /\ Receiver \in [Binding -> Object]
    /\ Priority \in [Binding -> Nat]
    /\ None \notin Binding /\ None # Dangling /\ Dangling \notin Binding
    /\ PoolSize \in Nat /\ Delays \subseteq Nat
    /\ MaxTime \in Nat /\ MaxPosts \in Nat /\ MaxDepth \in Nat
BY SignalsAssumption

LEMMA RangeContains ==
    ASSUME NEW S, NEW s \in Seq(S)
    PROVE  \A x : x \in Range(s) <=> Contains(s, x)
<1>1. DOMAIN s = 1 .. Len(s)
  OBVIOUS
<1>2. QED
  BY <1>1 DEF Range, Contains

-----------------------------------------------------------------------------
(* The lists of bindings.                                                  *)

LEMMA InsertSorted ==
    ASSUME NEW s \in Seq(Binding), Sorted(s), NEW b \in Binding, ~Contains(s, b)
    PROVE  /\ Insert(s, b) \in Seq(Binding) /\ Sorted(Insert(s, b))
           /\ \A x : Contains(Insert(s, b), x) <=> Contains(s, x) \/ x = b
           /\ \A x, y : x # b /\ y # b => (Before(Insert(s, b), x, y) <=> Before(s, x, y))
           /\ \A x \in Binding : Before(Insert(s, b), x, b) => Priority[x] < Priority[b]
<1> DEFINE before == {i \in DOMAIN s : Priority[s[i]] >= Priority[b]}
           r == Insert(s, b)
<1>1. before \in SUBSET (1 .. Len(s)) /\ IsInjective(s) /\ DOMAIN s = 1 .. Len(s)
  BY DEF Sorted
<1>2. r = InsertBefore(s, before, b)
  BY DEF Insert
<1>3. \A i \in DOMAIN s : i \in before <=> Priority[s[i]] >= Priority[b]
  OBVIOUS
<1>4. \A i \in DOMAIN s : s[i] \in Binding /\ i \in Nat
  BY <1>1
<1>5. \A x \in Binding : Priority[x] \in Nat
  BY Assumed
<1> HIDE DEF before, r
<1>6. /\ r \in Seq(Binding) /\ IsInjective(r)
      /\ \A x : Contains(r, x) <=> Contains(s, x) \/ x = b
      /\ \A x, y : x # b /\ y # b => (Before(r, x, y) <=> Before(s, x, y))
      /\ \A x : Before(r, x, b) =>
            \E i \in DOMAIN s : s[i] = x /\ \A j \in 1 .. i : j \notin before
      /\ \A y : Before(r, b, y) =>
            \E i \in DOMAIN s : s[i] = y /\ \E j \in 1 .. i : j \in before
  BY <1>1, <1>2, InsertOrder
<1>7. ASSUME NEW x \in Binding, Before(r, x, b)
      PROVE  Priority[x] < Priority[b]
  <2>1. PICK i \in DOMAIN s : s[i] = x /\ \A j \in 1 .. i : j \notin before
    BY <1>6, <1>7
  <2>2. i \in 1 .. i
    BY <1>1
  <2>3. QED
    BY <1>3, <1>5, <2>1, <2>2
<1>8. ASSUME NEW y \in Binding, Before(r, b, y)
      PROVE  Priority[b] <= Priority[y]
  <2>1. PICK i \in DOMAIN s : s[i] = y /\ \E j \in 1 .. i : j \in before
    BY <1>6, <1>8
  <2>2. PICK j \in 1 .. i : j \in before
    BY <2>1
  <2>3. j \in DOMAIN s /\ (j = i \/ j < i) /\ Priority[b] <= Priority[s[j]]
    BY <1>1, <1>3, <1>4, <1>5, <2>2
  <2>4. CASE j = i
    BY <2>1, <2>3, <2>4
  <2>5. CASE j < i
    <3>1. Before(s, s[j], y)
      BY <2>1, <2>3, <2>5 DEF Before
    <3>2. Priority[s[j]] <= Priority[y]
      BY <1>4, <2>3, <3>1 DEF Sorted
    <3>3. QED
      BY <1>4, <1>5, <2>3, <3>2
  <2>6. QED
    BY <2>3, <2>4, <2>5
<1>9. ASSUME NEW x \in Binding, NEW y \in Binding, Before(r, x, y)
      PROVE  Priority[x] <= Priority[y]
  <2>1. CASE x # b /\ y # b
    BY <1>6, <1>9, <2>1 DEF Sorted
  <2>2. CASE x = b
    BY <1>8, <1>9, <2>2
  <2>3. CASE y = b
    BY <1>5, <1>7, <1>9, <2>3
  <2>4. QED
    BY <2>1, <2>2, <2>3
<1>10. QED
  BY <1>6, <1>7, <1>9 DEF Sorted, r

LEMMA WithoutSorted ==
    ASSUME bound \in [Object -> Seq(Binding)], Lists(bound), NEW T, NEW e \in Object
    PROVE  /\ Without(T)[e] \in Seq(Binding) /\ Sorted(Without(T)[e])
           /\ \A x : Contains(Without(T)[e], x) <=> Contains(bound[e], x) /\ x \notin T
           /\ \A x, y : Before(Without(T)[e], x, y) <=>
                 Before(bound[e], x, y) /\ x \notin T /\ y \notin T
<1> DEFINE q == bound[e]
           r == LeaveOut(q, T)
<1>1. q \in Seq(Binding) /\ Sorted(q) /\ IsInjective(q)
  BY DEF Lists, Sorted
<1>2. Without(T)[e] = r
  BY DEF Without
<1> HIDE DEF q
<1>3. /\ r \in Seq(Binding) /\ IsInjective(r)
      /\ \A x : Contains(r, x) <=> Contains(q, x) /\ x \notin T
      /\ \A x, y : Before(r, x, y) <=> Before(q, x, y) /\ x \notin T /\ y \notin T
  BY <1>1, LeaveOutOrder
<1> HIDE DEF r
<1>4. Sorted(r)
  BY <1>1, <1>3 DEF Sorted
<1>5. QED
  BY <1>2, <1>3, <1>4 DEF q

(* GetSucc of a binding in a list: the next one, or none.                  *)
LEMMA SuccIsNext ==
    ASSUME bound \in [Object -> Seq(Binding)], Lists(bound), NEW b \in Binding,
           Contains(bound[Emitter[b]], b)
    PROVE  LET s == bound[Emitter[b]]
               c == Succ(b)
           IN  \/ c = None /\ \A x : ~Before(s, b, x)
               \/ /\ c \in Binding /\ Before(s, b, c)
                  /\ \A x : Before(s, b, x) => x = c \/ Before(s, c, x)
<1> DEFINE s == bound[Emitter[b]]
           here == {j \in DOMAIN s : s[j] = b}
<1>1. s \in Seq(Binding) /\ IsInjective(s)
  BY Assumed DEF Lists, Sorted
<1>2. DOMAIN s = 1 .. Len(s) /\ Len(s) \in Nat
  BY <1>1
<1>3. here \in SUBSET Nat /\ here # {}
  BY <1>2 DEF Contains
<1>4. Succ(b) = IF Min(here) = Len(s) THEN None ELSE s[Min(here) + 1]
  BY DEF Succ
<1> HIDE DEF here, s
<1>5. Min(here) \in here
  BY <1>3, LeastNumber
<1>6. PICK i \in 1 .. Len(s) : i = Min(here) /\ s[i] = b
  BY <1>2, <1>5 DEF here
<1>7. \A j \in DOMAIN s : s[j] = b => j = i
  BY <1>1, <1>2, <1>6 DEF IsInjective
<1>8. ASSUME NEW x, Before(s, b, x)
      PROVE  \E j \in 1 .. Len(s) : i < j /\ s[j] = x
  BY <1>2, <1>7, <1>8 DEF Before
<1>9. CASE i = Len(s)
  <2>1. \A x : ~Before(s, b, x)
    BY <1>2, <1>8, <1>9
  <2>2. QED
    BY <1>4, <1>6, <1>9, <2>1 DEF s
<1>10. CASE i < Len(s)
  <2>1. i + 1 \in 1 .. Len(s) /\ i < i + 1 /\ i # Len(s)
    BY <1>2, <1>6, <1>10
  <2>2. Succ(b) = s[i + 1]
    BY <1>4, <1>6, <2>1
  <2>3. Succ(b) \in Binding /\ Before(s, b, Succ(b))
    BY <1>1, <1>2, <1>6, <2>1, <2>2, SMTT(30) DEF Before
  <2>4. ASSUME NEW x, Before(s, b, x)
        PROVE  x = Succ(b) \/ Before(s, Succ(b), x)
    <3>1. PICK j \in 1 .. Len(s) : i < j /\ s[j] = x
      BY <1>8, <2>4
    <3>2. j = i + 1 \/ i + 1 < j
      BY <1>2, <1>6, <3>1
    <3>3. QED
      BY <1>2, <2>1, <2>2, <3>1, <3>2 DEF Before
  <2>5. QED
    BY <2>3, <2>4 DEF s
<1>11. i = Len(s) \/ i < Len(s)
  BY <1>2, <1>6
<1>12. QED
  BY <1>9, <1>10, <1>11

-----------------------------------------------------------------------------
(* What an emission has called, called after the others.                   *)

LEMMA CallsAppended ==
    ASSUME NEW c \in Seq(Binding), IsInjective(c), NEW b \in Binding, ~Contains(c, b)
    PROVE  /\ Append(c, b) \in Seq(Binding) /\ IsInjective(Append(c, b))
           /\ \A x : Contains(Append(c, b), x) <=> Contains(c, x) \/ x = b
           /\ \A x, y : Before(Append(c, b), x, y) =>
                 Before(c, x, y) \/ (Contains(c, x) /\ y = b)
<1> DEFINE r == Append(c, b)
<1>1. /\ r \in Seq(Binding) /\ Len(r) = Len(c) + 1 /\ Len(c) \in Nat
      /\ \A i \in 1 .. Len(c) : r[i] = c[i]
      /\ r[Len(c) + 1] = b
  BY AppendProperties
<1>2. DOMAIN r = 1 .. Len(c) + 1 /\ DOMAIN c = 1 .. Len(c)
  BY <1>1
<1> HIDE DEF r
<1>3. /\ \A x : Contains(r, x) <=> \E i \in 1 .. Len(c) + 1 : r[i] = x
      /\ \A x : Contains(c, x) <=> \E i \in 1 .. Len(c) : c[i] = x
  BY <1>1 DEF Contains
<1>4. \A i \in 1 .. Len(c) + 1 : i \in 1 .. Len(c) \/ i = Len(c) + 1
  BY <1>1
<1>5. \A i \in 1 .. Len(c) : c[i] # b /\ i \in 1 .. Len(c) + 1
  BY <1>1, <1>3
<1>6. \A x : Contains(r, x) <=> Contains(c, x) \/ x = b
  <2>1. Len(c) + 1 \in 1 .. Len(c) + 1
    BY <1>1
  <2>2. QED
    BY <1>1, <1>3, <1>4, <1>5, <2>1
<1>7. IsInjective(r)
  <2>1. \A i, j \in 1 .. Len(c) : c[i] = c[j] => i = j
    BY <1>2 DEF IsInjective
  <2>2. QED
    BY <1>1, <1>2, <1>4, <1>5, <2>1 DEF IsInjective
<1>8. ASSUME NEW x, NEW y, Before(r, x, y)
      PROVE  Before(c, x, y) \/ (Contains(c, x) /\ y = b)
  <2>1. PICK i, j \in 1 .. Len(c) + 1 : i < j /\ r[i] = x /\ r[j] = y
    BY <1>2, <1>8 DEF Before
  <2>2. i \in 1 .. Len(c) /\ c[i] = x
    BY <1>1, <2>1
  <2>3. CASE j \in 1 .. Len(c)
    BY <1>1, <1>2, <2>1, <2>2, <2>3 DEF Before
  <2>4. CASE j = Len(c) + 1
    BY <1>1, <1>3, <2>1, <2>2, <2>4
  <2>5. QED
    BY <1>4, <2>1, <2>3, <2>4
<1>9. QED
  BY <1>1, <1>6, <1>7, <1>8 DEF r

-----------------------------------------------------------------------------
(* What keeps a loop on its course.                                        *)

LEMMA CourseStarts ==
    ASSUME bound \in [Object -> Seq(Binding)], Lists(bound), NEW e \in Object, NEW va \in BOOLEAN
    PROVE  Emission(e, va) \in EmitFrame /\ OnCourse(Emission(e, va), bound[e], alive)
<1> DEFINE s == bound[e]
           f == Emission(e, va)
<1>1. s \in Seq(Binding) /\ Sorted(s) /\ IsInjective(s) /\ DOMAIN s = 1 .. Len(s) /\ Len(s) \in Nat
  BY DEF Lists, Sorted
<1>2. /\ f.kind = "emit" /\ f.at = e /\ f.va = va /\ ~f.invoked /\ f.calls = <<>>
      /\ f.cur = IF s = <<>> THEN None ELSE Head(s)
      /\ f.stayed = {b \in Range(s) : Receiver[b] \in alive}
  BY DEF Emission
<1>3. f = [kind |-> "emit", at |-> e, va |-> va, invoked |-> FALSE, calls |-> <<>>,
           cur |-> f.cur, stayed |-> f.stayed]
  BY DEF Emission
<1> HIDE DEF s, f
<1>4. \A x : x \in Range(s) <=> Contains(s, x)
  BY <1>1, RangeContains
<1>5. \A x : Contains(s, x) <=> \E i \in 1 .. Len(s) : s[i] = x
  BY DEF Contains
<1>6. \A b \in f.stayed : b \in Binding /\ Contains(s, b) /\ Receiver[b] \in alive
  BY <1>1, <1>2, <1>4, <1>5
<1>7. /\ \A x : ~Contains(f.calls, x)
      /\ \A x, y : ~Before(f.calls, x, y)
      /\ IsInjective(f.calls) /\ f.calls \in Seq(Binding)
  BY <1>2 DEF Contains, Before, IsInjective
<1>8. ASSUME f.cur \in Binding \cup {None, Dangling}
      PROVE  f \in EmitFrame
  <2>1. f.stayed \in SUBSET Binding /\ <<>> \in Seq(Binding)
    BY <1>6
  <2>2. \A x \in Binding \cup {None, Dangling}, y \in SUBSET Binding :
           [kind |-> "emit", at |-> e, va |-> va, invoked |-> FALSE, calls |-> <<>>,
            cur |-> x, stayed |-> y] \in EmitFrame
    BY <2>1 DEF EmitFrame
  <2>3. QED
    BY <1>3, <1>8, <2>1, <2>2, Zenon
<1>9. CASE s = <<>>
  <2>1. f.cur = None /\ f.stayed = {}
    BY <1>2, <1>5, <1>6, <1>9
  <2>2. f \in EmitFrame
    BY <1>8, <2>1
  <2>3. QED
    BY <1>2, <1>6, <1>7, <2>1, <2>2, Assumed DEF OnCourse, AtEnd, s, f
<1>10. CASE s # <<>>
  <2>1. f.cur = s[1] /\ 1 \in 1 .. Len(s) /\ s[1] \in Binding
    BY <1>1, <1>2, <1>10
  <2>2. Contains(s, f.cur)
    BY <1>5, <2>1
  <2>3. ASSUME NEW b, Contains(s, b)
        PROVE  b = f.cur \/ Before(s, f.cur, b)
    <3>1. PICK i \in 1 .. Len(s) : s[i] = b
      BY <1>5, <2>3
    <3>2. i = 1 \/ 1 < i
      OBVIOUS
    <3>3. QED
      BY <1>1, <2>1, <3>1, <3>2 DEF Before
  <2>4. f \in EmitFrame
    BY <1>8, <2>1
  <2>5. AtBinding(f, s)
    BY <1>2, <1>6, <1>7, <2>2, <2>3 DEF AtBinding
  <2>6. OnCourse(f, s, alive)
    BY <1>6, <1>7, <2>1, <2>5, Assumed DEF OnCourse
  <2>7. QED
    BY <2>4, <2>6 DEF s, f
<1>11. QED
  BY <1>9, <1>10

(* A binding is added.                                                     *)
LEMMA CourseAdded ==
    ASSUME NEW f \in EmitFrame, NEW s \in Seq(Binding), Sorted(s), NEW al, OnCourse(f, s, al),
           NEW b \in Binding, ~Contains(s, b)
    PROVE  OnCourse(f, Insert(s, b), al)
<1> DEFINE r == Insert(s, b)
<1>1. /\ r \in Seq(Binding) /\ Sorted(r) /\ IsInjective(r)
      /\ \A x : Contains(r, x) <=> Contains(s, x) \/ x = b
      /\ \A x, y : x # b /\ y # b => (Before(r, x, y) <=> Before(s, x, y))
      /\ \A x \in Binding : Before(r, x, b) => Priority[x] < Priority[b]
  BY InsertSorted DEF Sorted
<1> HIDE DEF r
<1>2. \A x, y : Contains(r, x) /\ Contains(r, y) /\ x # y => Before(r, x, y) \/ Before(r, y, x)
  BY <1>1, OneOrder
<1>3. ASSUME f.cur \in Binding
      PROVE  AtBinding(f, r)
  <2>1. AtBinding(f, s)
    BY <1>3 DEF OnCourse
  <2>2. Contains(s, f.cur) /\ Contains(r, f.cur) /\ f.cur # b
    BY <1>1, <2>1 DEF AtBinding
  <2>3. ASSUME NEW x \in Binding, Contains(f.calls, x), Contains(r, x), x # f.cur
        PROVE  Before(r, x, f.cur)
    <3>1. CASE x # b
      BY <1>1, <2>1, <2>2, <2>3, <3>1 DEF AtBinding
    <3>2. CASE x = b
      <4>1. Priority[b] <= Priority[f.cur]
        BY <2>1, <2>3, <3>2 DEF AtBinding
      <4>2. ~Before(r, f.cur, b)
        BY <1>1, <1>3, <4>1, Assumed
      <4>3. QED
        BY <1>2, <2>2, <2>3, <3>2, <4>2
    <3>3. QED
      BY <3>1, <3>2
  <2>4. ASSUME NEW x \in f.stayed
        PROVE  Contains(f.calls, x) \/ x = f.cur \/ Before(r, f.cur, x)
    <3>1. Contains(s, x) /\ x # b
      BY <2>4 DEF OnCourse
    <3>2. QED
      BY <1>1, <2>1, <2>2, <3>1 DEF AtBinding
  <2>5. QED
    BY <2>1, <2>2, <2>3, <2>4 DEF AtBinding
<1>4. QED
  BY <1>1, <1>3 DEF OnCourse, r

(* Bindings are deleted: those of T, and the objects of `gone' with them.  *)
PassedOne(f, T, gone) ==
    [f EXCEPT !.cur = IF @ \in T THEN Dangling ELSE @,
              !.stayed = {b \in @ \ T : Receiver[b] \notin gone}]

LEMMA CoursePassed ==
    ASSUME NEW f \in EmitFrame, NEW s \in Seq(Binding), NEW al, OnCourse(f, s, al),
           NEW T \in SUBSET Binding, NEW gone, NEW r \in Seq(Binding),
           \A x : Contains(r, x) <=> Contains(s, x) /\ x \notin T,
           \A x, y : Before(r, x, y) <=> Before(s, x, y) /\ x \notin T /\ y \notin T
    PROVE  PassedOne(f, T, gone) \in EmitFrame /\ OnCourse(PassedOne(f, T, gone), r, al \ gone)
<1> DEFINE g == PassedOne(f, T, gone)
           left == {b \in f.stayed \ T : Receiver[b] \notin gone}
           next == IF f.cur \in T THEN Dangling ELSE f.cur
<1>1. /\ f.kind = "emit" /\ f.at \in Object /\ f.va \in BOOLEAN /\ f.invoked \in BOOLEAN
      /\ f.calls \in Seq(Binding) /\ f.cur \in Binding \cup {None, Dangling}
      /\ f.stayed \in SUBSET Binding
  BY DEF EmitFrame
<1>2. g = [f EXCEPT !.cur = next, !.stayed = left]
  BY DEF PassedOne
<1>3. \A b : b \in left <=> b \in f.stayed /\ b \notin T /\ Receiver[b] \notin gone
  OBVIOUS
<1>4. next \in Binding \cup {None, Dangling} /\ left \in SUBSET Binding
  BY <1>1
<1>5. /\ next \in Binding => next = f.cur /\ f.cur \notin T
      /\ next = None => f.cur = None
  BY Assumed
<1> HIDE DEF next, left, g
<1>6. /\ g.cur = next /\ g.stayed = left /\ g.calls = f.calls /\ g.invoked = f.invoked
  BY <1>2 DEF EmitFrame
<1>7. g \in EmitFrame
  BY <1>2, <1>4 DEF EmitFrame
<1>8. \A b \in left : Contains(r, b) /\ Receiver[b] \in al \ gone
  BY <1>3 DEF OnCourse
<1>9. ASSUME next \in Binding
      PROVE  AtBinding(g, r)
  <2>1. AtBinding(f, s) /\ next = f.cur /\ f.cur \notin T
    BY <1>5, <1>9 DEF OnCourse
  <2>2. QED
    BY <1>3, <1>6, <2>1 DEF AtBinding
<1>10. ASSUME next = None
       PROVE  AtEnd(g)
  BY <1>3, <1>5, <1>6, <1>10 DEF OnCourse, AtEnd
<1>11. QED
  BY <1>6, <1>7, <1>8, <1>9, <1>10 DEF OnCourse, g

(* The loop goes on to the next binding: it has invoked its binding, or    *)
(* need not do so.                                                         *)
LEMMA CourseGoesOn ==
    ASSUME bound \in [Object -> Seq(Binding)], Lists(bound),
           NEW f \in EmitFrame, NEW al, OnCourse(f, bound[f.at], al),
           f.cur \in Binding, f.invoked \/ f.cur \notin f.stayed
    PROVE  LET g == [f EXCEPT !.invoked = FALSE, !.cur = Succ(@)]
           IN  g \in EmitFrame /\ g.cur # f.cur /\ OnCourse(g, bound[f.at], al)
<1> DEFINE s == bound[f.at]
           b == f.cur
           c == Succ(f.cur)
           g == [f EXCEPT !.invoked = FALSE, !.cur = c]
<1>1. f.at \in Object /\ s \in Seq(Binding) /\ Sorted(s) /\ IsInjective(s) /\ AtBinding(f, s)
  BY DEF EmitFrame, Lists, Sorted, OnCourse
<1>2. Contains(s, b) /\ Emitter[b] = f.at
  BY <1>1 DEF AtBinding, Lists
<1>3. \/ c = None /\ \A x : ~Before(s, b, x)
      \/ /\ c \in Binding /\ Before(s, b, c)
         /\ \A x : Before(s, b, x) => x = c \/ Before(s, c, x)
  BY <1>2, SuccIsNext
<1> HIDE DEF s, c
<1>4. /\ \A x, y : Before(s, x, y) =>
             Contains(s, x) /\ Contains(s, y) /\ x # y /\ ~Before(s, y, x)
      /\ \A x, y, z : Before(s, x, y) /\ Before(s, y, z) => Before(s, x, z)
  BY <1>1, OneOrder
<1>5. g \in EmitFrame
  BY <1>3 DEF EmitFrame
<1>6. /\ ~g.invoked /\ g.cur = c /\ g.calls = f.calls /\ g.stayed = f.stayed
      /\ f.stayed \in SUBSET Binding
  BY DEF EmitFrame
<1> HIDE DEF g
<1>7. \A x \in f.stayed : Contains(f.calls, x) \/ Before(s, b, x)
  BY <1>1 DEF AtBinding
<1>8. CASE c = None /\ \A x : ~Before(s, b, x)
  <2>1. AtEnd(g) /\ g.cur \notin Binding /\ g.cur # f.cur
    BY <1>6, <1>7, <1>8, Assumed DEF AtEnd
  <2>2. QED
    BY <1>5, <1>6, <2>1 DEF OnCourse, g, c, s
<1>9. CASE /\ c \in Binding /\ Before(s, b, c)
           /\ \A x : Before(s, b, x) => x = c \/ Before(s, c, x)
  <2>1. Contains(s, c) /\ c # b /\ ~Before(s, c, b) /\ Priority[b] <= Priority[c]
    BY <1>1, <1>4, <1>9 DEF Sorted
  <2>2. ~Contains(f.calls, c)
    BY <1>1, <1>9, <2>1 DEF AtBinding
  <2>3. ASSUME NEW x \in Binding, Contains(f.calls, x)
        PROVE  /\ Priority[x] <= Priority[c]
               /\ Contains(s, x) => Before(s, x, c)
    <3>1. Priority[x] <= Priority[b] /\ (Contains(s, x) /\ x # b => Before(s, x, b))
      BY <1>1, <2>3 DEF AtBinding
    <3>2. QED
      BY <1>4, <1>9, <2>1, <3>1, Assumed
  <2>4. AtBinding(g, s)
    BY <1>6, <1>7, <1>9, <2>1, <2>2, <2>3 DEF AtBinding
  <2>5. g.cur \in Binding /\ g.cur # None /\ g.cur # f.cur
    BY <1>6, <1>9, <2>1, Assumed
  <2>6. QED
    BY <1>5, <1>6, <2>4, <2>5 DEF OnCourse, g, c, s
<1>10. QED
  BY <1>3, <1>8, <1>9

(* The loop invokes its binding.                                           *)
LEMMA CourseInvokes ==
    ASSUME NEW f \in EmitFrame, NEW s \in Seq(Binding), NEW al, OnCourse(f, s, al),
           f.cur \in Binding, ~f.invoked
    PROVE  LET g == [f EXCEPT !.invoked = TRUE, !.calls = Append(@, f.cur)]
           IN  g \in EmitFrame /\ OnCourse(g, s, al)
<1> DEFINE b == f.cur
           c == Append(f.calls, f.cur)
           g == [f EXCEPT !.invoked = TRUE, !.calls = c]
<1>1. AtBinding(f, s) /\ f.calls \in Seq(Binding) /\ IsInjective(f.calls) /\ ~Contains(f.calls, b)
  BY DEF OnCourse, EmitFrame, AtBinding
<1>2. /\ c \in Seq(Binding) /\ IsInjective(c)
      /\ \A x : Contains(c, x) <=> Contains(f.calls, x) \/ x = b
      /\ \A x, y : Before(c, x, y) => Before(f.calls, x, y) \/ (Contains(f.calls, x) /\ y = b)
  BY <1>1, CallsAppended
<1> HIDE DEF c
<1>3. g \in EmitFrame
  BY <1>2 DEF EmitFrame
<1>4. g.invoked /\ g.calls = c /\ g.cur = f.cur /\ g.stayed = f.stayed
  BY DEF EmitFrame
<1> HIDE DEF g
<1>5. \A x, y \in Binding : Before(c, x, y) => Priority[x] <= Priority[y]
  BY <1>1, <1>2 DEF OnCourse, AtBinding
<1>6. Priority[b] <= Priority[b]
  BY Assumed
<1>7. AtBinding(g, s)
  BY <1>1, <1>2, <1>4, <1>6 DEF AtBinding
<1>8. f.cur # None
  BY Assumed
<1>9. QED
  BY <1>2, <1>3, <1>4, <1>5, <1>7, <1>8 DEF OnCourse, g, c

(* The loop has lost its binding.                                          *)
LEMMA CourseLost ==
    ASSUME NEW f \in EmitFrame, NEW s, NEW al, OnCourse(f, s, al)
    PROVE  LET g == [f EXCEPT !.cur = Dangling]
           IN  g \in EmitFrame /\ OnCourse(g, s, al)
<1> DEFINE g == [f EXCEPT !.cur = Dangling]
<1>1. g \in EmitFrame /\ g.calls = f.calls /\ g.stayed = f.stayed /\ g.cur = Dangling
  BY DEF EmitFrame
<1> HIDE DEF g
<1>2. g.cur \notin Binding /\ g.cur # None
  BY <1>1, Assumed
<1>3. QED
  BY <1>1, <1>2 DEF OnCourse, g

-----------------------------------------------------------------------------
(* The stack of loops and commands.                                        *)

LEMMA FrameKinds ==
    /\ \A f \in Frame : /\ f.kind = "emit" => f \in EmitFrame
                       /\ f.kind = "trigger" => f \in TriggerFrame
    /\ \A f \in EmitFrame : f \in Frame /\ f.kind = "emit"
    /\ \A f \in TriggerFrame : f \in Frame /\ f.kind = "trigger"
    /\ Command \in Frame /\ Command.kind = "command"
BY DEF Frame, EmitFrame, TriggerFrame, Command

LEMMA IsEmission ==
    ASSUME NEW f \in Frame, f.kind = "emit"
    PROVE  f \in EmitFrame /\ f.at \in Object
BY DEF Frame, EmitFrame, TriggerFrame

LEMMA IsTrigger ==
    ASSUME NEW f \in Frame, f.kind = "trigger"
    PROVE  f \in TriggerFrame
BY DEF Frame, EmitFrame, TriggerFrame

LEMMA Pushed ==
    ASSUME NEW st \in Seq(Frame), NEW bd, NEW al, NEW tm, Emitting(st, bd, al), AtBottom(st, tm),
           NEW f \in Frame, f.kind # "trigger", f.kind = "emit" => OnCourse(f, bd[f.at], al)
    PROVE  /\ Append(st, f) \in Seq(Frame) /\ Emitting(Append(st, f), bd, al)
           /\ AtBottom(Append(st, f), tm) /\ Run(Append(st, f)) = Run(st)
<1> DEFINE r == Append(st, f)
<1>1. /\ r \in Seq(Frame) /\ Len(r) = Len(st) + 1 /\ Len(st) \in Nat
      /\ \A k \in 1 .. Len(st) : r[k] = st[k]
      /\ r[Len(st) + 1] = f
  BY AppendProperties
<1>2. DOMAIN r = 1 .. Len(st) + 1 /\ DOMAIN st = 1 .. Len(st)
  BY <1>1
<1> HIDE DEF r
<1>3. \A k \in DOMAIN r : (k \in DOMAIN st /\ r[k] = st[k]) \/ r[k] = f
  BY <1>1, <1>2
<1>4. Emitting(r, bd, al)
  BY <1>3 DEF Emitting
<1>5. AtBottom(r, tm)
  BY <1>3 DEF AtBottom
<1>6. Run(r) = Run(st)
  <2>1. CASE st = <<>>
    <3>1. r[1] = f
      BY <1>1, <2>1
    <3>2. QED
      BY <2>1, <3>1 DEF Run
  <2>2. CASE st # <<>>
    <3>1. Len(st) # 0
      BY <2>2, EmptySeq
    <3>2. r # <<>> /\ r[1] = st[1]
      BY <1>1, <3>1
    <3>3. QED
      BY <2>2, <3>2 DEF Run
  <2>3. QED
    BY <2>1, <2>2
<1>7. QED
  BY <1>1, <1>4, <1>5, <1>6 DEF r

LEMMA Popped ==
    ASSUME NEW st \in Seq(Frame), st # <<>>, NEW bd, NEW al, NEW tm,
           Emitting(st, bd, al), AtBottom(st, tm)
    PROVE  /\ Front(st) \in Seq(Frame) /\ Emitting(Front(st), bd, al) /\ AtBottom(Front(st), tm)
           /\ Last(st) \in Frame
           /\ Last(st).kind = "emit" => OnCourse(Last(st), bd[Last(st).at], al)
           /\ Last(st).kind # "trigger" => Run(Front(st)) = Run(st)
           /\ Last(st).kind = "trigger" =>
                 /\ Front(st) = <<>> /\ Last(st).t = tm /\ Run(st) = Last(st).run
<1> DEFINE r == Front(st)
           n == Len(st)
           f == Last(st)
<1>1. /\ n \in Nat \ {0} /\ n \in 1 .. n /\ f = st[n] /\ f \in Frame
      /\ r \in Seq(Frame) /\ Len(r) = n - 1
      /\ \A k \in 1 .. n - 1 : r[k] = st[k]
      /\ DOMAIN st = 1 .. n /\ DOMAIN r = 1 .. n - 1
  BY TopOfStack
<1> HIDE DEF r, n, f
<1>2. \A k \in DOMAIN r : k \in DOMAIN st /\ r[k] = st[k]
  BY <1>1
<1>3. Emitting(r, bd, al) /\ AtBottom(r, tm)
  BY <1>2 DEF Emitting, AtBottom
<1>4. f.kind = "emit" => OnCourse(f, bd[f.at], al)
  BY <1>1 DEF Emitting
<1>5. ASSUME f.kind # "trigger"
      PROVE  Run(r) = Run(st)
  <2>1. CASE n = 1
    <3>1. r = <<>> /\ st[1] = f
      BY <1>1, <2>1, EmptySeq
    <3>2. QED
      BY <1>5, <3>1 DEF Run
  <2>2. CASE n # 1
    <3>1. r # <<>> /\ r[1] = st[1]
      BY <1>1, <2>2
    <3>2. QED
      BY <3>1 DEF Run
  <2>3. QED
    BY <2>1, <2>2
<1>6. ASSUME f.kind = "trigger"
      PROVE  r = <<>> /\ f.t = tm /\ Run(st) = f.run
  <2>1. n = 1 /\ f.t = tm
    BY <1>1, <1>6 DEF AtBottom
  <2>2. r = <<>>
    BY <1>1, <2>1, EmptySeq
  <2>3. QED
    BY <1>1, <1>6, <2>1, <2>2 DEF Run
<1>7. QED
  BY <1>1, <1>3, <1>4, <1>5, <1>6 DEF r, f

(* Trigger's loop alone.                                                   *)
LEMMA AtTheBottom ==
    ASSUME NEW f \in TriggerFrame, NEW bd, NEW al, NEW tm, f.t = tm
    PROVE  /\ Append(<<>>, f) \in Seq(Frame) /\ Append(<<>>, f) = <<f>>
           /\ Emitting(<<f>>, bd, al) /\ AtBottom(<<f>>, tm) /\ Run(<<f>>) = f.run
<1>1. f \in Frame /\ f.kind = "trigger"
  BY FrameKinds
<1>2. Append(<<>>, f) = <<f>> /\ <<f>> \in Seq(Frame) /\ DOMAIN <<f>> = {1} /\ <<f>>[1] = f /\ <<f>> # <<>>
  BY <1>1
<1>3. QED
  BY <1>1, <1>2 DEF Emitting, AtBottom, Run

(* The bindings of T are deleted, the objects of `gone' with them.         *)
LEMMA PassedBy ==
    ASSUME bound \in [Object -> Seq(Binding)], Lists(bound),
           NEW st \in Seq(Frame), NEW al, NEW tm, Emitting(st, bound, al), AtBottom(st, tm),
           NEW T \in SUBSET Binding, NEW gone
    PROVE  /\ Passed(st, T, gone) \in Seq(Frame)
           /\ Emitting(Passed(st, T, gone), Without(T), al \ gone)
           /\ AtBottom(Passed(st, T, gone), tm) /\ Run(Passed(st, T, gone)) = Run(st)
<1> DEFINE r == Passed(st, T, gone)
<1>1. /\ DOMAIN r = DOMAIN st
      /\ \A k \in DOMAIN st :
            r[k] = IF st[k].kind = "emit" THEN PassedOne(st[k], T, gone) ELSE st[k]
  BY DEF Passed, PassedOne
<1>2. r = [k \in 1 .. Len(st) |-> r[k]] /\ DOMAIN st = 1 .. Len(st) /\ Len(st) \in Nat
  BY DEF Passed
<1> HIDE DEF r
<1>3. \A k \in DOMAIN st : st[k] \in Frame
  BY <1>2
<1>4. ASSUME NEW k \in DOMAIN st, st[k].kind = "emit"
      PROVE  /\ r[k] \in EmitFrame /\ r[k].at = st[k].at
             /\ OnCourse(r[k], Without(T)[r[k].at], al \ gone)
  <2> DEFINE f == st[k]
  <2>1. OnCourse(f, bound[f.at], al)
    BY <1>4 DEF Emitting
  <2>2. f \in Frame /\ f.kind = "emit"
    BY <1>3, <1>4
  <2> HIDE DEF f
  <2>3. f \in EmitFrame /\ OnCourse(f, bound[f.at], al) /\ f.at \in Object
    BY <2>1, <2>2, IsEmission
  <2>4. /\ bound[f.at] \in Seq(Binding) /\ Without(T)[f.at] \in Seq(Binding)
        /\ \A x : Contains(Without(T)[f.at], x) <=> Contains(bound[f.at], x) /\ x \notin T
        /\ \A x, y : Before(Without(T)[f.at], x, y) <=>
              Before(bound[f.at], x, y) /\ x \notin T /\ y \notin T
    BY <2>3, WithoutSorted
  <2>5. /\ PassedOne(f, T, gone) \in EmitFrame
        /\ OnCourse(PassedOne(f, T, gone), Without(T)[f.at], al \ gone)
    BY <2>3, <2>4, CoursePassed
  <2>6. PassedOne(f, T, gone).at = f.at
    BY <2>3 DEF PassedOne, EmitFrame
  <2>7. r[k] = PassedOne(f, T, gone)
    BY <1>1, <1>4 DEF f
  <2>8. QED
    BY <2>5, <2>6, <2>7 DEF f
<1>5. \A k \in DOMAIN st : r[k].kind = st[k].kind /\ (st[k].kind # "emit" => r[k] = st[k])
  BY <1>1, <1>4, FrameKinds
<1>6. \A k \in DOMAIN st : r[k] \in Frame
  BY <1>3, <1>4, <1>5, FrameKinds
<1>7. r \in Seq(Frame)
  BY <1>2, <1>6
<1>8. Emitting(r, Without(T), al \ gone)
  BY <1>1, <1>4, <1>5 DEF Emitting
<1>9. AtBottom(r, tm)
  <2>1. \A k \in DOMAIN st : r[k].kind = "trigger" => r[k] = st[k]
    BY <1>5
  <2>2. QED
    BY <1>1, <1>5, <2>1 DEF AtBottom
<1>10. Run(r) = Run(st)
  <2>1. Len(r) = Len(st)
    BY <1>1, <1>2, <1>7
  <2>2. CASE st = <<>>
    <3>1. r = <<>>
      BY <1>7, <2>1, <2>2, EmptySeq
    <3>2. QED
      BY <2>2, <3>1
  <2>3. CASE st # <<>>
    <3>1. 1 \in DOMAIN st /\ r # <<>>
      BY <1>2, <1>7, <2>1, <2>3, EmptySeq
    <3>2. r[1].kind = st[1].kind /\ (st[1].kind # "emit" => r[1] = st[1])
      BY <1>5, <3>1
    <3>3. QED
      BY <2>3, <3>1, <3>2 DEF Run
  <2>4. QED
    BY <2>2, <2>3
<1>11. QED
  BY <1>7, <1>8, <1>9, <1>10 DEF r

LEMMA WithoutLists ==
    ASSUME bound \in [Object -> Seq(Binding)], Lists(bound), NEW T
    PROVE  Without(T) \in [Object -> Seq(Binding)] /\ Lists(Without(T))
<1>1. \A e \in Object :
         /\ Without(T)[e] \in Seq(Binding) /\ Sorted(Without(T)[e])
         /\ \A x : Contains(Without(T)[e], x) => Contains(bound[e], x)
  BY WithoutSorted
<1>2. Without(T) = [e \in Object |-> Without(T)[e]]
  BY DEF Without
<1>3. QED
  BY <1>1, <1>2 DEF Lists

-----------------------------------------------------------------------------
(* The steps that do not concern the signal server.                        *)

(* Some bindings are deleted, and with `gone' objects.                     *)
LEMMA Deleted ==
    ASSUME ListsInv, NEW T \in SUBSET Binding, NEW gone,
           alive' = alive \ gone, hasSets' \subseteq alive',
           bound' = Without(T), stack' = Passed(stack, T, gone), now' = now
    PROVE  ListsInv' /\ Run(stack') = Run(stack)
<1>1. Without(T) \in [Object -> Seq(Binding)] /\ Lists(Without(T))
  BY WithoutLists DEF ListsInv
<1>2. /\ Passed(stack, T, gone) \in Seq(Frame)
      /\ Emitting(Passed(stack, T, gone), Without(T), alive \ gone)
      /\ AtBottom(Passed(stack, T, gone), now)
      /\ Run(Passed(stack, T, gone)) = Run(stack)
  BY PassedBy DEF ListsInv
<1>3. QED
  BY <1>1, <1>2 DEF ListsInv

LEMMA DeletedOnly ==
    ASSUME ListsInv, NEW T \in SUBSET Binding, Delete(T), hasSets' \subseteq alive,
           UNCHANGED <<alive, now>>
    PROVE  ListsInv' /\ Run(stack') = Run(stack)
<1>1. alive' = alive \ {} /\ hasSets' \subseteq alive'
  OBVIOUS
<1>2. bound' = Without(T) /\ stack' = Passed(stack, T, {})
  BY DEF Delete
<1>3. QED
  BY <1>1, <1>2, Deleted

LEMMA RangeIsBinding ==
    ASSUME ListsInv, NEW e \in Object
    PROVE  Range(bound[e]) \in SUBSET Binding
<1>1. bound[e] \in Seq(Binding)
  BY DEF ListsInv
<1>2. QED
  BY <1>1 DEF Range

(* UnbindSignal in its three forms.                                        *)
LEMMA Unbound ==
    ASSUME ListsInv, NEW e \in Object, NEW T \in SUBSET Binding, UnbindSignal(e, T)
    PROVE  ListsInv' /\ Run(stack') = Run(stack)
<1>1. hasSets' \subseteq alive /\ UNCHANGED <<alive, now>>
  BY DEF ListsInv, UnbindSignal, server
<1>2. CASE Delete(T)
  BY <1>1, <1>2, DeletedOnly
<1>3. CASE UNCHANGED <<bound, stack>>
  BY <1>1, <1>3 DEF ListsInv
<1>4. QED
  BY <1>2, <1>3 DEF UnbindSignal

LEMMA ListsStep ==
    ASSUME ListsInv, fault \in Faults,
           \/ \E b \in Binding : BindSignal(b) \/ UnbindCommand(b) \/ UnbindBinding(b)
           \/ \E e \in Emitters, o \in Object : UnbindTargetObject(e, o) \/ UnbindTargetEverywhere(e, o)
           \/ \E e \in Emitters : UnbindAllSignals(e)
           \/ \E o \in Object : Release(o)
    PROVE  ListsInv' /\ Run(stack') = Run(stack) /\ UNCHANGED server /\ fault' \in Faults
<1>1. Emitters \subseteq Object
  BY Assumed DEF Emitters, Range
<1>2. ASSUME NEW b \in Binding, BindSignal(b)
      PROVE  ListsInv' /\ Run(stack') = Run(stack)
  <2> DEFINE e == Emitter[b]
             s == bound[e]
  <2>1. e \in Object /\ s \in Seq(Binding) /\ Sorted(s)
    BY Assumed DEF ListsInv, Lists
  <2>2. ~Contains(s, b)
    BY <1>2, <2>1, RangeContains DEF BindSignal, Bound
  <2>3. /\ bound' = [bound EXCEPT ![e] = Insert(s, b)]
        /\ hasSets' = hasSets \cup {e} /\ e \in alive
        /\ UNCHANGED <<alive, now, stack>>
    BY <1>2 DEF BindSignal, server
  <2>4. Insert(s, b) \in Seq(Binding) /\ Sorted(Insert(s, b))
        /\ \A x : Contains(Insert(s, b), x) <=> Contains(s, x) \/ x = b
    BY <2>1, <2>2, InsertSorted
  <2>5. bound' \in [Object -> Seq(Binding)]
    BY <2>3, <2>4 DEF ListsInv
  <2>6. /\ bound'[e] = Insert(s, b)
        /\ \A x \in Object : x # e => bound'[x] = bound[x]
    BY <2>1, <2>3 DEF ListsInv
  <2>7. Lists(bound')
    BY <2>4, <2>6 DEF Lists, ListsInv
  <2>8. Emitting(stack, bound', alive)
    <3>1. ASSUME NEW k \in DOMAIN stack, stack[k].kind = "emit"
          PROVE  OnCourse(stack[k], bound'[stack[k].at], alive)
      <4> DEFINE f == stack[k]
      <4>1. f \in Frame /\ f.kind = "emit"
        BY <3>1 DEF ListsInv
      <4>2. OnCourse(f, bound[f.at], alive)
        BY <3>1 DEF ListsInv, Emitting
      <4> HIDE DEF f
      <4>3. f \in EmitFrame /\ f.at \in Object
        BY <4>1, IsEmission
      <4>4. ASSUME f.at = e
            PROVE  OnCourse(f, bound'[f.at], alive)
        <5>1. OnCourse(f, Insert(s, b), alive)
          BY <2>1, <2>2, <4>3, <4>2, <4>4, CourseAdded
        <5>2. QED
          BY <2>6, <4>4, <5>1
      <4>5. ASSUME f.at # e
            PROVE  OnCourse(f, bound'[f.at], alive)
        BY <2>6, <4>3, <4>2, <4>5
      <4>6. QED
        BY <4>4, <4>5 DEF f
    <3>2. QED
      BY <3>1 DEF Emitting
  <2>9. QED
    BY <2>3, <2>5, <2>7, <2>8 DEF ListsInv
<1>3. ASSUME NEW b \in Binding, UnbindCommand(b)
      PROVE  ListsInv' /\ Run(stack') = Run(stack)
  BY <1>3, Unbound, Assumed DEF UnbindCommand
<1>4. ASSUME NEW b \in Binding, UnbindBinding(b)
      PROVE  ListsInv' /\ Run(stack') = Run(stack)
  <2>1. UNCHANGED <<alive, now>> /\ hasSets' \subseteq alive /\ {b} \in SUBSET Binding
    BY <1>4 DEF UnbindBinding, server, ListsInv
  <2>2. CASE Delete({b})
    BY <2>1, <2>2, DeletedOnly
  <2>3. CASE UNCHANGED <<bound, stack>>
    BY <2>1, <2>3 DEF ListsInv
  <2>4. QED
    BY <1>4, <2>2, <2>3 DEF UnbindBinding
<1>5. ASSUME NEW e \in Emitters, NEW o \in Object,
             UnbindTargetObject(e, o) \/ UnbindTargetEverywhere(e, o)
      PROVE  ListsInv' /\ Run(stack') = Run(stack)
  <2>1. e \in Object
    BY <1>1
  <2>2. CASE UnbindTargetObject(e, o)
    <3> DEFINE T == {b \in Range(bound[e]) : Receiver[b] = o}
    <3>1. T \in SUBSET Binding
      BY <2>1, RangeIsBinding
    <3>2. UnbindSignal(e, T)
      BY <2>2 DEF UnbindTargetObject
    <3> HIDE DEF T
    <3>3. QED
      BY <2>1, <3>1, <3>2, Unbound
  <2>3. CASE UNCHANGED <<lists, server, stack>>
    BY <2>3 DEF ListsInv, lists, server
  <2>4. QED
    BY <1>5, <2>2, <2>3 DEF UnbindTargetEverywhere
<1>6. ASSUME NEW e \in Emitters, UnbindAllSignals(e)
      PROVE  ListsInv' /\ Run(stack') = Run(stack)
  <2>1. Range(bound[e]) \in SUBSET Binding
    BY <1>1, RangeIsBinding
  <2>2. Delete(Range(bound[e])) /\ hasSets' \subseteq alive /\ UNCHANGED <<alive, now>>
    BY <1>6 DEF UnbindAllSignals, server, ListsInv
  <2>3. QED
    BY <2>1, <2>2, DeletedOnly
<1>7. ASSUME NEW o \in Object, Release(o)
      PROVE  ListsInv' /\ Run(stack') = Run(stack)
  <2>1. Range(bound[o]) \in SUBSET Binding
    BY RangeIsBinding
  <2>2. /\ alive' = alive \ {o} /\ hasSets' \subseteq alive' /\ now' = now
        /\ bound' = Without(Range(bound[o])) /\ stack' = Passed(stack, Range(bound[o]), {o})
    BY <1>7 DEF Release, server, ListsInv
  <2>3. QED
    BY <2>1, <2>2, Deleted
<1>8. UNCHANGED server /\ fault' \in Faults
  <2>1. \A b \in Binding : BindSignal(b) \/ UnbindCommand(b) \/ UnbindBinding(b) =>
           UNCHANGED server /\ fault' \in Faults
    BY DEF BindSignal, UnbindCommand, UnbindBinding, UnbindSignal, Faults
  <2>2. \A e \in Emitters, o \in Object :
           UnbindTargetObject(e, o) \/ UnbindTargetEverywhere(e, o) =>
              UNCHANGED server /\ fault' \in Faults
    BY DEF UnbindTargetObject, UnbindTargetEverywhere, UnbindSignal, Faults
  <2>3. \A e \in Emitters : UnbindAllSignals(e) => UNCHANGED server /\ fault' \in Faults
    BY DEF UnbindAllSignals
  <2>4. \A o \in Object : Release(o) => UNCHANGED server /\ fault' \in Faults
    BY DEF Release
  <2>5. QED
    BY <2>1, <2>2, <2>3, <2>4
<1>9. QED
  BY <1>2, <1>3, <1>4, <1>5, <1>6, <1>7, <1>8

LEMMA EmittingTop ==
    ASSUME ListsInv, Running("emit")
    PROVE  /\ Top \in EmitFrame /\ Top.at \in Object /\ OnCourse(Top, bound[Top.at], alive)
           /\ Below \in Seq(Frame) /\ Emitting(Below, bound, alive) /\ AtBottom(Below, now)
           /\ Run(Below) = Run(stack)
<1>1. /\ Below \in Seq(Frame) /\ Emitting(Below, bound, alive) /\ AtBottom(Below, now)
      /\ Top \in Frame
      /\ Top.kind = "emit" => OnCourse(Top, bound[Top.at], alive)
      /\ Top.kind # "trigger" => Run(Below) = Run(stack)
  BY Popped DEF ListsInv, Running, Top, Below
<1>2. Top.kind = "emit"
  BY DEF Running, Top
<1>3. QED
  BY <1>1, <1>2, IsEmission

(* The frame of the loop, changed, is put back.                            *)
LEMMA EmittingAgain ==
    ASSUME NEW st \in Seq(Frame), NEW bd, NEW al, NEW tm, Emitting(st, bd, al), AtBottom(st, tm),
           NEW g \in EmitFrame, OnCourse(g, bd[g.at], al)
    PROVE  /\ Append(st, g) \in Seq(Frame) /\ Emitting(Append(st, g), bd, al)
           /\ AtBottom(Append(st, g), tm) /\ Run(Append(st, g)) = Run(st)
<1>1. g \in Frame /\ g.kind = "emit"
  BY DEF EmitFrame, Frame
<1>2. QED
  BY <1>1, Pushed

LEMMA LoopStep ==
    ASSUME ListsInv, now \in 0 .. MaxTime,
           \/ \E e \in Emitters, va \in BOOLEAN : EmitSignal(e, va)
           \/ Trigger \/ CommandReturn
           \/ Invoke \/ Discard \/ EmitSucc \/ EmitLost \/ EmitEnd
           \/ Running("trigger") /\ Top.run = 0 /\ stack' = Below /\ UNCHANGED <<lists, server>>
    PROVE  ListsInv' /\ Run(stack') = Run(stack)
<1> DEFINE Stack(st, bd) ==
               /\ st \in Seq(Frame) /\ Emitting(st, bd, alive) /\ AtBottom(st, now)
               /\ Run(st) = Run(stack)
<1>1. /\ alive \subseteq Object /\ hasSets \subseteq alive
      /\ bound \in [Object -> Seq(Binding)] /\ Lists(bound) /\ Stack(stack, bound)
  BY DEF ListsInv
<1>2. ASSUME UNCHANGED <<alive, bound, now>>, hasSets' \subseteq alive, Stack(stack', bound)
      PROVE  ListsInv' /\ Run(stack') = Run(stack)
  BY <1>1, <1>2 DEF ListsInv
<1>3. ASSUME NEW e \in Emitters, NEW va \in BOOLEAN, EmitSignal(e, va)
      PROVE  ListsInv' /\ Run(stack') = Run(stack)
  <2>1. e \in Object
    BY Assumed DEF Emitters, Range
  <2>2. Emission(e, va) \in EmitFrame /\ OnCourse(Emission(e, va), bound[e], alive)
    BY <1>1, <2>1, CourseStarts
  <2>3. Emission(e, va).at = e
    BY DEF Emission
  <2>4. Stack(Append(stack, Emission(e, va)), bound)
    BY <1>1, <2>2, <2>3, EmittingAgain
  <2>5. /\ stack' = Append(stack, Emission(e, va)) /\ hasSets' \subseteq alive
        /\ UNCHANGED <<alive, bound, now>>
    BY <1>1, <1>3 DEF EmitSignal, server
  <2>6. QED
    BY <1>2, <2>4, <2>5
<1>4. ASSUME Trigger
      PROVE  ListsInv' /\ Run(stack') = Run(stack)
  <2>1. Triggering \in TriggerFrame /\ Triggering.t = now /\ Triggering.run = 0
    BY Assumed DEF Triggering, TriggerFrame
  <2>2. stack = <<>> /\ stack' = <<Triggering>> /\ UNCHANGED <<alive, hasSets, bound, now>>
    BY <1>4 DEF Trigger, lists, server
  <2>3. /\ <<Triggering>> \in Seq(Frame) /\ Emitting(<<Triggering>>, bound, alive)
        /\ AtBottom(<<Triggering>>, now) /\ Run(<<Triggering>>) = 0
    BY <2>1, AtTheBottom
  <2>4. Run(stack) = 0
    BY <2>2 DEF Run
  <2>5. QED
    BY <1>1, <1>2, <2>2, <2>3, <2>4
<1>5. ASSUME CommandReturn
      PROVE  ListsInv' /\ Run(stack') = Run(stack)
  <2>1. /\ stack # <<>> /\ Last(stack).kind = "command" /\ stack' = Front(stack)
        /\ UNCHANGED <<alive, hasSets, bound, now>>
    BY <1>5 DEF CommandReturn, Running, Below, lists, server
  <2>2. Stack(Front(stack), bound)
    BY <1>1, <2>1, Popped
  <2>3. QED
    BY <1>1, <1>2, <2>1, <2>2
<1>6. ASSUME Running("emit")
      PROVE  /\ Top \in EmitFrame /\ Top.at \in Object /\ OnCourse(Top, bound[Top.at], alive)
             /\ Stack(Below, bound)
  BY <1>6, EmittingTop
<1>7. ASSUME Invoke
      PROVE  ListsInv' /\ Run(stack') = Run(stack)
  <2> DEFINE g == [Top EXCEPT !.invoked = TRUE, !.calls = Append(@, Top.cur)]
  <2>1. /\ Running("emit") /\ ~Top.invoked /\ Top.cur \in Binding
        /\ stack' = Append(Append(Below, g), Command)
        /\ UNCHANGED <<alive, hasSets, bound, now>>
    BY <1>7 DEF Invoke, lists, server
  <2>2. g \in EmitFrame /\ OnCourse(g, bound[Top.at], alive)
    <3>1. bound[Top.at] \in Seq(Binding)
      BY <1>1, <1>6, <2>1
    <3>2. QED
      BY <1>6, <2>1, <3>1, CourseInvokes
  <2>3. g.at = Top.at
    BY <1>6, <2>1 DEF EmitFrame
  <2> HIDE DEF g
  <2>4. Stack(Append(Below, g), bound)
    BY <1>6, <2>1, <2>2, <2>3, EmittingAgain
  <2>5. Stack(Append(Append(Below, g), Command), bound)
    <3>1. Command \in Frame /\ Command.kind # "trigger" /\ Command.kind # "emit"
      BY DEF Command, Frame
    <3>2. QED
      BY <2>4, <3>1, Pushed
  <2>6. QED
    BY <1>1, <1>2, <2>1, <2>5
<1>8. ASSUME Discard
      PROVE  ListsInv' /\ Run(stack') = Run(stack)
  <2> DEFINE b == Top.cur
             T == {Top.cur}
             next == IF Top.va THEN Dangling ELSE Succ(Top.cur)
             g == [Top EXCEPT !.cur = next]
  <2>1. /\ Running("emit") /\ ~Top.invoked /\ b \in Binding /\ Receiver[b] \notin alive
        /\ bound' = Without(T)
        /\ stack' = Append(Passed(Below, T, {}), g)
        /\ UNCHANGED <<alive, hasSets, now>>
    BY <1>8 DEF Discard, IsValid, server
  <2>2. /\ Top \in EmitFrame /\ Top.at \in Object /\ OnCourse(Top, bound[Top.at], alive)
        /\ Stack(Below, bound)
    BY <1>6, <2>1
  <2>3. b \notin Top.stayed /\ T \in SUBSET Binding
    BY <2>1, <2>2 DEF OnCourse
  <2>4. g \in EmitFrame /\ g.cur # b /\ OnCourse(g, bound[Top.at], alive)
    <3>1. CASE Top.va
      <4>1. g = [Top EXCEPT !.cur = Dangling]
        BY <3>1
      <4>2. g \in EmitFrame /\ OnCourse(g, bound[Top.at], alive)
        BY <2>2, <4>1, CourseLost
      <4>3. g.cur = Dangling
        BY <2>2, <4>1 DEF EmitFrame
      <4>4. QED
        BY <2>1, <4>2, <4>3, Assumed
    <3>2. CASE ~Top.va
      <4>1. g = [Top EXCEPT !.invoked = FALSE, !.cur = Succ(@)]
        BY <2>1, <2>2, <3>2 DEF EmitFrame
      <4>2. QED
        BY <1>1, <2>1, <2>2, <2>3, <4>1, CourseGoesOn
    <3>3. QED
      BY <3>1, <3>2
  <2>5. g.at = Top.at /\ g.stayed = Top.stayed
    BY <2>2 DEF EmitFrame
  <2> HIDE DEF g, next
  <2>6. /\ bound[g.at] \in Seq(Binding) /\ Without(T)[g.at] \in Seq(Binding)
        /\ \A x : Contains(Without(T)[g.at], x) <=> Contains(bound[g.at], x) /\ x \notin T
        /\ \A x, y : Before(Without(T)[g.at], x, y) <=>
              Before(bound[g.at], x, y) /\ x \notin T /\ y \notin T
    <3> DEFINE e == Top.at
    <3>1. e \in Object
      BY <2>2
    <3> HIDE DEF e, T
    <3>2. /\ Without(T)[e] \in Seq(Binding)
          /\ \A x : Contains(Without(T)[e], x) <=> Contains(bound[e], x) /\ x \notin T
          /\ \A x, y : Before(Without(T)[e], x, y) <=>
                Before(bound[e], x, y) /\ x \notin T /\ y \notin T
      BY <1>1, <3>1, WithoutSorted
    <3>3. bound[e] \in Seq(Binding) /\ g.at = e
      BY <1>1, <2>5, <3>1 DEF e
    <3>4. QED
      BY <3>2, <3>3
  <2>7. PassedOne(g, T, {}) = g
    <3>1. {x \in g.stayed \ T : Receiver[x] \notin {}} = g.stayed
      BY <2>3, <2>5
    <3>2. (IF g.cur \in T THEN Dangling ELSE g.cur) = g.cur
      BY <2>4
    <3>3. [g EXCEPT !.cur = g.cur, !.stayed = g.stayed] = g
      BY <2>4 DEF EmitFrame
    <3>4. QED
      BY <3>1, <3>2, <3>3 DEF PassedOne
  <2>8. alive \ {} = alive
    OBVIOUS
  <2>9. OnCourse(g, Without(T)[g.at], alive)
    <3>1. OnCourse(PassedOne(g, T, {}), Without(T)[g.at], alive \ {})
      BY <2>3, <2>4, <2>5, <2>6, CoursePassed
    <3>2. QED
      BY <2>7, <2>8, <3>1
  <2>10. Stack(Passed(Below, T, {}), Without(T))
    <3>1. /\ Passed(Below, T, {}) \in Seq(Frame)
          /\ Emitting(Passed(Below, T, {}), Without(T), alive \ {})
          /\ AtBottom(Passed(Below, T, {}), now) /\ Run(Passed(Below, T, {})) = Run(Below)
      BY <1>1, <2>2, <2>3, PassedBy
    <3>2. QED
      BY <2>2, <2>8, <3>1
  <2>11. Stack(Append(Passed(Below, T, {}), g), Without(T))
    BY <2>4, <2>9, <2>10, EmittingAgain
  <2>12. Without(T) \in [Object -> Seq(Binding)] /\ Lists(Without(T))
    BY <1>1, WithoutLists
  <2>13. QED
    BY <1>1, <2>1, <2>11, <2>12 DEF ListsInv
<1>9. ASSUME EmitSucc
      PROVE  ListsInv' /\ Run(stack') = Run(stack)
  <2> DEFINE g == [Top EXCEPT !.invoked = FALSE, !.cur = Succ(@)]
  <2>1. /\ Running("emit") /\ Top.invoked /\ Top.cur # Dangling
        /\ stack' = Append(Below, g)
        /\ UNCHANGED <<alive, hasSets, bound, now>>
    BY <1>9 DEF EmitSucc, lists, server
  <2>2. Top.cur \in Binding
    BY <1>6, <2>1 DEF EmitFrame, OnCourse, AtEnd
  <2>3. g \in EmitFrame /\ OnCourse(g, bound[Top.at], alive)
    BY <1>1, <1>6, <2>1, <2>2, CourseGoesOn
  <2>4. g.at = Top.at
    BY <1>6, <2>1 DEF EmitFrame
  <2> HIDE DEF g
  <2>5. Stack(Append(Below, g), bound)
    BY <1>6, <2>1, <2>3, <2>4, EmittingAgain
  <2>6. QED
    BY <1>1, <1>2, <2>1, <2>5
<1>10. ASSUME EmitLost
       PROVE  ListsInv' /\ Run(stack') = Run(stack)
  BY <1>1, <1>2, <1>10 DEF EmitLost, lists, server
<1>11. ASSUME EmitEnd
       PROVE  ListsInv' /\ Run(stack') = Run(stack)
  <2>1. Running("emit") /\ stack' = Below /\ UNCHANGED <<alive, hasSets, bound, now>>
    BY <1>11 DEF EmitEnd, lists, server
  <2>2. QED
    BY <1>1, <1>2, <1>6, <2>1
<1>12. ASSUME Running("trigger"), Top.run = 0, stack' = Below, UNCHANGED <<lists, server>>
       PROVE  ListsInv' /\ Run(stack') = Run(stack)
  <2>1. UNCHANGED <<alive, hasSets, bound, now>>
    BY <1>12 DEF lists, server
  <2>2. /\ Below \in Seq(Frame) /\ Emitting(Below, bound, alive) /\ AtBottom(Below, now)
        /\ Below = <<>> /\ Run(stack) = 0
    BY <1>1, <1>12, Popped DEF Running, Top, Below
  <2>3. Run(Below) = 0
    BY <2>2 DEF Run
  <2>4. QED
    BY <1>1, <1>2, <1>12, <2>1, <2>2, <2>3
<1>13. QED
  BY <1>3, <1>4, <1>5, <1>7, <1>8, <1>9, <1>10, <1>11, <1>12

-----------------------------------------------------------------------------
(* The signal server's steps.                                              *)

(* What is left of the list without a number that stands there once.       *)
LEMMA OthersLeft ==
    ASSUME posted \in Seq(Posting), NEW m,
           \A i, j \in DOMAIN posted : posted[i].n = posted[j].n => i = j
    PROVE  LET r == Others(m) IN
           /\ r \in Seq(Posting)
           /\ (\E k \in DOMAIN posted : posted[k].n = m) => Len(r) = Len(posted) - 1
           /\ (\A k \in DOMAIN posted : posted[k].n # m) => Len(r) = Len(posted)
           /\ \E f \in [1 .. Len(r) -> DOMAIN posted] :
                 /\ \A i \in 1 .. Len(r) : r[i] = posted[f[i]] /\ posted[f[i]].n # m
                 /\ \A i, j \in 1 .. Len(r) : i < j => f[i] < f[j]
<1> DEFINE keep == {i \in DOMAIN posted : posted[i].n # m}
           n == Cardinality(keep)
           r == Others(m)
<1>1. /\ DOMAIN posted = 1 .. Len(posted) /\ Len(posted) \in Nat
      /\ keep \in SUBSET (1 .. Len(posted))
  OBVIOUS
<1>2. r = Sublist(posted, keep)
  BY DEF Others
<1>3. \A i \in keep : i \in DOMAIN posted /\ posted[i].n # m
  OBVIOUS
<1>4. IsFiniteSet(1 .. Len(posted)) /\ Cardinality(1 .. Len(posted)) = Len(posted)
  BY <1>1, FS_Interval
<1>5. ASSUME NEW k \in DOMAIN posted, posted[k].n = m
      PROVE  n = Len(posted) - 1
  <2>1. keep = (1 .. Len(posted)) \ {k}
    BY <1>1, <1>5
  <2>2. Cardinality((1 .. Len(posted)) \ {k}) = Len(posted) - 1
    <3>1. k \in 1 .. Len(posted)
      BY <1>1, <1>5
    <3>2. QED
      BY <1>4, <3>1, FS_RemoveElement
  <2>3. QED
    BY <2>1, <2>2
<1>6. ASSUME \A k \in DOMAIN posted : posted[k].n # m
      PROVE  n = Len(posted)
  <2>1. keep = 1 .. Len(posted)
    BY <1>1, <1>6
  <2>2. QED
    BY <1>4, <2>1
<1> HIDE DEF keep, n, r
<1>7. PICK f \in [1 .. Cardinality(keep) -> keep] :
          /\ Sublist(posted, keep) \in Seq(Posting) /\ Len(Sublist(posted, keep)) = Cardinality(keep)
          /\ \A k \in 1 .. Cardinality(keep) : Sublist(posted, keep)[k] = posted[f[k]]
          /\ \A j, k \in 1 .. Cardinality(keep) : j < k => f[j] < f[k]
  BY <1>1, SublistProperties, SMTT(30)
<1>8. /\ r \in Seq(Posting) /\ Len(r) = n /\ f \in [1 .. Len(r) -> DOMAIN posted]
      /\ \A i \in 1 .. Len(r) : r[i] = posted[f[i]] /\ posted[f[i]].n # m
      /\ \A i, j \in 1 .. Len(r) : i < j => f[i] < f[j]
  BY <1>2, <1>3, <1>7 DEF n
<1>9. QED
  BY <1>5, <1>6, <1>8 DEF r

LEMMA NumbersFrom1 ==
    ASSUME posted \in Seq(Posting), done \in Seq(Taken)
    PROVE  /\ \A i \in DOMAIN posted : posted[i].n \in 1 .. MaxPosts /\ posted[i].t \in Nat
                                      /\ posted[i] \in Posting
           /\ \A i \in DOMAIN done : done[i].n \in 1 .. MaxPosts /\ done[i].t \in Nat
           /\ DOMAIN posted = 1 .. Len(posted) /\ Len(posted) \in Nat
           /\ DOMAIN done = 1 .. Len(done) /\ Len(done) \in Nat
<1>1. \A p \in Posting : p.n \in 1 .. MaxPosts /\ p.t \in Nat
  BY DEF Posting
<1>2. \A p \in Taken : p.n \in 1 .. MaxPosts /\ p.t \in Nat
  BY DEF Taken
<1>3. QED
  BY <1>1, <1>2

LEMMA PostStep ==
    ASSUME ServerInv, ListsInv, NEW e \in Emitters, NEW d \in Delays, PostSignal(e, d)
    PROVE  ServerInv' /\ ListsInv'
<1> DEFINE p == [n |-> posts + 1, emitter |-> e, t |-> now + d]
           before == {i \in DOMAIN posted : posted[i].t >= p.t}
           r == posted'
           run == Run(stack)
<1>1. e \in Object /\ d \in Nat /\ now \in Nat /\ posts \in Nat /\ posts < MaxPosts /\ free > 0
  BY Assumed DEF Emitters, Range, ServerInv, PostSignal
<1>2. /\ posted' = InsertBefore(posted, before, p)
      /\ free' = free - 1 /\ posts' = posts + 1
      /\ UNCHANGED <<alive, hasSets, bound, now, done, stack>>
  BY DEF PostSignal, lists
<1>3. /\ posted \in Seq(Posting) /\ done \in Seq(Taken)
      /\ \A i \in DOMAIN posted : posted[i].n \in 1 .. MaxPosts /\ posted[i].t \in Nat
      /\ \A i \in DOMAIN done : done[i].n \in 1 .. MaxPosts /\ done[i].t \in Nat
      /\ DOMAIN posted = 1 .. Len(posted) /\ Len(posted) \in Nat
      /\ Len(done) \in Nat
  BY NumbersFrom1 DEF ServerInv
<1>4. /\ p \in Posting /\ p.n = posts + 1 /\ p.t = now + d /\ p.t \in Nat
      /\ before \in SUBSET (1 .. Len(posted))
      /\ \A i \in DOMAIN posted : i \in before <=> posted[i].t >= p.t
  <2>1. posts + 1 \in 1 .. MaxPosts /\ now + d \in Nat
    BY <1>1, Assumed
  <2>2. QED
    BY <1>1, <1>3, <2>1 DEF Posting
<1> HIDE DEF p, before, r, run
<1>5. PICK k \in 1 .. Len(posted) + 1 :
          /\ r \in Seq(Posting) /\ Len(r) = Len(posted) + 1
          /\ r[k] = p
          /\ \A i \in 1 .. Len(posted) : i < k => r[i] = posted[i] /\ i \notin before
          /\ \A i \in 1 .. Len(posted) : i >= k => r[i + 1] = posted[i]
          /\ k = Len(posted) + 1 \/ k \in before
  <2> DEFINE u == InsertBefore(posted, before, p)
  <2>1. posted \in Seq(Posting) /\ p \in Posting /\ before \in SUBSET (1 .. Len(posted))
    BY <1>3, <1>4
  <2>2. \E k \in 1 .. Len(posted) + 1 :
          /\ u \in Seq(Posting) /\ Len(u) = Len(posted) + 1
          /\ u[k] = p
          /\ \A i \in 1 .. Len(posted) : i < k => u[i] = posted[i] /\ i \notin before
          /\ \A i \in 1 .. Len(posted) : i >= k => u[i + 1] = posted[i]
          /\ k = Len(posted) + 1 \/ k \in before
    BY <2>1, InsertPosition
  <2>3. r = u
    BY <1>2 DEF r
  <2> HIDE DEF u
  <2>4. QED
    BY <2>2, <2>3
<1>6. k = Len(posted) + 1 \/ k \in before
  BY <1>5
<1>7. /\ Numbered(posted, posts) /\ Numbered(done, posts) /\ InTime(posted) /\ InTime(done)
      /\ Len(posted) + Len(done) = posts + (IF run # 0 THEN 1 ELSE 0)
      /\ run # 0 => \E i \in DOMAIN posted : posted[i].n = run
      /\ \A i \in DOMAIN done : done[i].t <= now
      /\ \A i \in DOMAIN done : \A j \in DOMAIN posted :
            posted[j].n = run \/ (done[i].n # posted[j].n /\ done[i].t <= posted[j].t)
  BY DEF ServerInv, Posted, run
(* Each element of the new list is p or one of the old list. *)
<1>8. DOMAIN r = 1 .. Len(posted) + 1 /\ k \in Nat
  BY <1>3, <1>5
<1> DEFINE from(i) == IF i < k THEN i ELSE i - 1
<1>9. \A i \in DOMAIN r : i # k => from(i) \in 1 .. Len(posted) /\ r[i] = posted[from(i)]
  <2>1. ASSUME NEW i \in DOMAIN r, i < k
        PROVE  from(i) \in 1 .. Len(posted) /\ r[i] = posted[from(i)]
    BY <1>3, <1>5, <1>8, <2>1
  <2>2. ASSUME NEW i \in DOMAIN r, i > k
        PROVE  from(i) \in 1 .. Len(posted) /\ r[i] = posted[from(i)]
    <3>1. i - 1 \in 1 .. Len(posted) /\ i - 1 >= k /\ from(i) = i - 1 /\ (i - 1) + 1 = i
      BY <1>3, <1>8, <2>2
    <3>2. QED
      BY <1>5, <3>1
  <2>3. QED
    BY <1>8, <2>1, <2>2
<1>10. /\ \A i, j \in DOMAIN r : i # k /\ j # k => (i < j <=> from(i) < from(j))
       /\ \A i, j \in DOMAIN r : i # k /\ j # k /\ from(i) = from(j) => i = j
       /\ \A i \in DOMAIN r : i < k => from(i) < k
       /\ \A i \in DOMAIN r : i > k => from(i) >= k
  BY <1>3, <1>8
<1> HIDE DEF from
<1>11. Numbered(r, posts + 1)
  <2>1. \A i \in DOMAIN r : i # k => r[i].n <= posts /\ r[i].n \in Nat
    BY <1>3, <1>7, <1>9 DEF Numbered
  <2>2. \A i \in DOMAIN r : r[i].n <= posts + 1
    BY <1>1, <1>4, <1>5, <2>1
  <2>3. ASSUME NEW i \in DOMAIN r, NEW j \in DOMAIN r, r[i].n = r[j].n
        PROVE  i = j
    <3>1. CASE i # k /\ j # k
      <4>1. from(i) = from(j)
        BY <1>3, <1>7, <1>9, <2>3, <3>1 DEF Numbered
      <4>2. QED
        BY <1>10, <3>1, <4>1
    <3>2. CASE i = k \/ j = k
      BY <1>1, <1>4, <1>5, <2>1, <2>3, <3>2
    <3>3. QED
      BY <3>1, <3>2
  <2>4. QED
    BY <2>2, <2>3 DEF Numbered
<1>12. InTime(r)
  <2>1. ASSUME NEW i \in DOMAIN r, NEW j \in DOMAIN r, i < j
        PROVE  r[i].t <= r[j].t
    <3>1. CASE i # k /\ j # k
      BY <1>3, <1>7, <1>9, <1>10, <2>1, <3>1 DEF InTime
    <3>2. CASE i = k
      <4>1. j > k /\ from(j) >= k /\ from(j) \in 1 .. Len(posted) /\ r[j] = posted[from(j)]
        <5>1. j > k /\ j # k
          BY <1>8, <2>1, <3>2
        <5>2. from(j) \in 1 .. Len(posted) /\ r[j] = posted[from(j)]
          BY <1>9, <5>1
        <5>3. from(j) >= k
          BY <1>10, <5>1
        <5>4. QED
          BY <5>1, <5>2, <5>3
      <4>2. k \in before /\ k \in DOMAIN posted /\ posted[k].t >= p.t
        <5>1. k \in 1 .. Len(posted) /\ k # Len(posted) + 1
          BY <1>3, <1>8, <4>1
        <5>2. QED
          BY <1>3, <1>4, <1>6, <5>1
      <4>3. posted[k].t <= posted[from(j)].t
        <5>1. from(j) \in DOMAIN posted /\ posted[k].t \in Nat /\ from(j) \in Nat
          BY <1>3, <4>1, <4>2
        <5>2. k < from(j) => posted[k].t <= posted[from(j)].t
          BY <1>7, <4>2, <5>1 DEF InTime
        <5>3. k < from(j) \/ k = from(j)
          BY <1>8, <4>1, <5>1
        <5>4. QED
          BY <5>1, <5>2, <5>3
      <4>4. QED
        BY <1>3, <1>4, <1>5, <3>2, <4>1, <4>2, <4>3
    <3>3. CASE j = k
      <4>1. i < k /\ i \in 1 .. Len(posted)
        BY <1>3, <1>8, <2>1, <3>3
      <4>2. r[i] = posted[i] /\ i \notin before
        BY <1>5, <4>1
      <4>3. QED
        BY <1>3, <1>4, <1>5, <3>3, <4>1, <4>2
    <3>4. QED
      BY <3>1, <3>2, <3>3
  <2>2. QED
    BY <2>1 DEF InTime
<1>13. Numbered(done, posts + 1)
  BY <1>1, <1>3, <1>7 DEF Numbered
<1>14. run # 0 => \E i \in DOMAIN r : r[i].n = run
  <2>1. ASSUME NEW i \in 1 .. Len(posted)
        PROVE  \E j \in DOMAIN r : r[j] = posted[i]
    <3>1. CASE i < k
      BY <1>3, <1>5, <1>8, <3>1, SMTT(30)
    <3>2. CASE i >= k
      BY <1>3, <1>5, <1>8, <3>2, SMTT(30)
    <3>3. QED
      BY <1>8, <3>1, <3>2
  <2>2. QED
    BY <1>3, <1>7, <2>1
<1>15. ASSUME NEW i \in DOMAIN done, NEW j \in DOMAIN r
       PROVE  IF r[j].n = run THEN TRUE ELSE done[i].n # r[j].n /\ done[i].t <= r[j].t
  <2>1. CASE j # k
    BY <1>3, <1>7, <1>9, <2>1
  <2>2. CASE j = k
    <3>1. done[i].n <= posts /\ done[i].t <= now /\ done[i].n \in Nat /\ done[i].t \in Nat
      BY <1>3, <1>7 DEF Numbered
    <3>2. QED
      BY <1>1, <1>4, <1>5, <2>2, <3>1
  <2>3. QED
    BY <2>1, <2>2
<1>16. Posted(r, done, run, posts + 1, now)
  <2>1. Len(r) + Len(done) = posts + 1 + (IF run # 0 THEN 1 ELSE 0)
    BY <1>1, <1>3, <1>5, <1>7
  <2>2. QED
    BY <1>7, <1>11, <1>12, <1>13, <1>14, <1>15, <2>1 DEF Posted
<1>17. /\ free' \in 0 .. PoolSize /\ free' + Len(posted') = PoolSize
       /\ posts' \in 0 .. MaxPosts
  <2>1. free \in 0 .. PoolSize /\ free + Len(posted) = PoolSize /\ PoolSize \in Nat /\ MaxPosts \in Nat
    BY Assumed DEF ServerInv
  <2>2. Len(posted') = Len(posted) + 1
    BY <1>5 DEF r
  <2>3. QED
    <3>1. free - 1 \in 0 .. PoolSize /\ free - 1 + (Len(posted) + 1) = PoolSize
      <4>1. free \in Nat /\ Len(posted) \in Nat /\ free > 0 /\ free <= PoolSize
        BY <1>1, <1>3, <2>1
      <4>2. QED
        BY <2>1, <4>1
    <3>2. posts + 1 \in 0 .. MaxPosts
      BY <1>1, <2>1
    <3>3. QED
      BY <1>2, <2>2, <3>1, <3>2
<1>18. ServerInv'
  BY <1>2, <1>5, <1>16, <1>17 DEF ServerInv, r, run
<1>19. ListsInv'
  BY <1>2 DEF ListsInv
<1>20. QED
  BY <1>18, <1>19

LEMMA TriggerTop ==
    ASSUME ListsInv, Running("trigger")
    PROVE  /\ Top \in TriggerFrame /\ Top.t = now /\ Run(stack) = Top.run /\ Below = <<>>
           /\ \A n \in 0 .. MaxPosts :
                 LET g == [Top EXCEPT !.run = n]
                 IN  /\ Append(Below, g) \in Seq(Frame) /\ Emitting(Append(Below, g), bound, alive)
                     /\ AtBottom(Append(Below, g), now) /\ Run(Append(Below, g)) = n
<1>1. /\ Top \in Frame /\ Top.kind = "trigger"
      /\ Below = <<>> /\ Top.t = now /\ Run(stack) = Top.run
  BY Popped DEF ListsInv, Running, Top, Below
<1>2. Top \in TriggerFrame
  BY <1>1, IsTrigger
<1>3. ASSUME NEW n \in 0 .. MaxPosts
      PROVE  LET g == [Top EXCEPT !.run = n]
             IN  /\ Append(Below, g) \in Seq(Frame) /\ Emitting(Append(Below, g), bound, alive)
                 /\ AtBottom(Append(Below, g), now) /\ Run(Append(Below, g)) = n
  <2> DEFINE g == [Top EXCEPT !.run = n]
  <2>1. g \in TriggerFrame /\ g.t = now /\ g.run = n
    BY <1>1, <1>2 DEF TriggerFrame
  <2> HIDE DEF g
  <2>2. /\ Append(<<>>, g) \in Seq(Frame) /\ Append(<<>>, g) = <<g>>
        /\ Emitting(<<g>>, bound, alive) /\ AtBottom(<<g>>, now) /\ Run(<<g>>) = n
    BY <2>1, AtTheBottom
  <2>3. QED
    BY <1>1, <2>2 DEF g
<1>4. QED
  BY <1>1, <1>2, <1>3

LEMMA TakeStep ==
    ASSUME ServerInv, ListsInv, TriggerNext
    PROVE  ServerInv' /\ ListsInv'
<1> DEFINE p == Head(posted)
           q == [n |-> p.n, t |-> p.t]
           loop == Append(Below, [Top EXCEPT !.run = p.n])
           runs == p.emitter \in alive
           r == done'
<1>1. /\ Running("trigger") /\ Top.run = 0 /\ posted # <<>> /\ p.t <= Top.t
      /\ stack' = IF runs THEN Append(loop, Emission(p.emitter, FALSE)) ELSE loop
      /\ hasSets' = IF runs THEN hasSets \cup {p.emitter} ELSE hasSets
      /\ done' = Append(done, q)
      /\ UNCHANGED <<alive, bound, now, posted, free, posts>>
  BY DEF TriggerNext, Due
<1>2. /\ posted \in Seq(Posting) /\ done \in Seq(Taken)
      /\ \A i \in DOMAIN posted : posted[i].n \in 1 .. MaxPosts /\ posted[i].t \in Nat
                                 /\ posted[i] \in Posting
      /\ \A i \in DOMAIN done : done[i].n \in 1 .. MaxPosts /\ done[i].t \in Nat
      /\ DOMAIN posted = 1 .. Len(posted) /\ Len(posted) \in Nat
      /\ DOMAIN done = 1 .. Len(done) /\ Len(done) \in Nat
  BY NumbersFrom1 DEF ServerInv
<1>3. 1 \in DOMAIN posted /\ p = posted[1]
  BY <1>1, <1>2, EmptySeq
<1>4. p.n \in 1 .. MaxPosts /\ p.n # 0 /\ p.t \in Nat /\ p.emitter \in Object
  <2>1. p \in Posting
    BY <1>2, <1>3
  <2>2. QED
    BY <2>1, Assumed DEF Posting
<1>5. q \in Taken /\ q.n = p.n /\ q.t = p.t
  BY <1>4 DEF Taken
<1> HIDE DEF p, q, r, loop, runs
<1>6. /\ Top.t = now /\ Run(stack) = 0
      /\ \A n \in 0 .. MaxPosts :
            LET g == [Top EXCEPT !.run = n]
            IN  /\ Append(Below, g) \in Seq(Frame) /\ Emitting(Append(Below, g), bound, alive)
                /\ AtBottom(Append(Below, g), now) /\ Run(Append(Below, g)) = n
  <2>1. Running("trigger") /\ Top.run = 0
    BY <1>1
  <2>2. /\ Top.t = now /\ Run(stack) = Top.run
        /\ \A n \in 0 .. MaxPosts :
              LET g == [Top EXCEPT !.run = n]
              IN  /\ Append(Below, g) \in Seq(Frame) /\ Emitting(Append(Below, g), bound, alive)
                  /\ AtBottom(Append(Below, g), now) /\ Run(Append(Below, g)) = n
    BY <2>1, TriggerTop
  <2>3. QED
    BY <2>1, <2>2
<1>7. /\ loop \in Seq(Frame) /\ Emitting(loop, bound, alive) /\ AtBottom(loop, now)
      /\ Run(loop) = p.n
  <2>1. p.n \in 0 .. MaxPosts
    BY <1>4, Assumed
  <2>2. QED
    BY <1>6, <2>1 DEF loop
<1>8. /\ stack' \in Seq(Frame) /\ Emitting(stack', bound, alive) /\ AtBottom(stack', now)
      /\ Run(stack') = p.n
  <2>1. CASE runs
    <3>1. /\ Emission(p.emitter, FALSE) \in EmitFrame
          /\ OnCourse(Emission(p.emitter, FALSE), bound[p.emitter], alive)
      BY <1>4, CourseStarts DEF ListsInv
    <3>2. Emission(p.emitter, FALSE).at = p.emitter
      BY DEF Emission
    <3>3. QED
      BY <1>1, <1>7, <2>1, <3>1, <3>2, EmittingAgain
  <2>2. CASE ~runs
    BY <1>1, <1>7, <2>2
  <2>3. QED
    BY <2>1, <2>2
<1>9. ListsInv'
  <2>1. hasSets' \subseteq alive
    BY <1>1 DEF ListsInv, runs
  <2>2. QED
    BY <1>1, <1>8, <2>1 DEF ListsInv
<1>10. /\ r \in Seq(Taken) /\ Len(r) = Len(done) + 1 /\ DOMAIN r = 1 .. Len(done) + 1
       /\ \A i \in 1 .. Len(done) : r[i] = done[i]
       /\ r[Len(done) + 1] = q
  BY <1>1, <1>2, <1>5, AppendProperties DEF r
<1>11. /\ Numbered(posted, posts) /\ Numbered(done, posts) /\ InTime(posted) /\ InTime(done)
       /\ Len(posted) + Len(done) = posts
       /\ \A i \in DOMAIN done : done[i].t <= now
       /\ \A i \in DOMAIN done : \A j \in DOMAIN posted :
             done[i].n # posted[j].n /\ done[i].t <= posted[j].t
  <2>1. /\ Numbered(posted, posts) /\ Numbered(done, posts) /\ InTime(posted) /\ InTime(done)
        /\ Len(posted) + Len(done) = posts + 0
        /\ \A i \in DOMAIN done : done[i].t <= now
        /\ \A i \in DOMAIN done : \A j \in DOMAIN posted :
              IF posted[j].n = 0 THEN TRUE ELSE done[i].n # posted[j].n /\ done[i].t <= posted[j].t
    BY <1>6 DEF ServerInv, Posted
  <2>2. \A j \in DOMAIN posted : posted[j].n # 0
    BY <1>2, Assumed
  <2>3. posts \in Nat
    BY Assumed DEF ServerInv
  <2>4. QED
    BY <2>1, <2>2, <2>3
<1>12. \A i \in DOMAIN r : (i \in DOMAIN done /\ r[i] = done[i]) \/ (i = Len(done) + 1 /\ r[i] = q)
  BY <1>2, <1>10
<1>13. \A i \in DOMAIN done : done[i].n # p.n /\ done[i].t <= p.t
  BY <1>3, <1>11
<1>14. p.n <= posts /\ p.t <= now /\ \A j \in DOMAIN posted : p.t <= posted[j].t
  <2>1. p.n <= posts /\ p.t <= now
    BY <1>1, <1>3, <1>6, <1>11 DEF Numbered
  <2>2. ASSUME NEW j \in DOMAIN posted
        PROVE  p.t <= posted[j].t
    <3>1. j = 1 \/ 1 < j
      BY <1>2
    <3>2. QED
      BY <1>2, <1>3, <1>4, <1>11, <3>1 DEF InTime
  <2>3. QED
    BY <2>1, <2>2
<1>15. Numbered(r, posts)
  <2>1. \A i \in DOMAIN r : r[i].n <= posts
    BY <1>5, <1>11, <1>12, <1>14 DEF Numbered
  <2>2. \A i, j \in DOMAIN r : r[i].n = r[j].n => i = j
    BY <1>5, <1>11, <1>12, <1>13 DEF Numbered
  <2>3. QED
    BY <2>1, <2>2 DEF Numbered
<1>16. InTime(r)
  <2>1. ASSUME NEW i \in DOMAIN r, NEW j \in DOMAIN r, i < j
        PROVE  r[i].t <= r[j].t
    <3>1. i \in DOMAIN done /\ r[i] = done[i]
      BY <1>2, <1>10, <2>1
    <3>2. QED
      BY <1>5, <1>11, <1>12, <1>13, <2>1, <3>1 DEF InTime
  <2>2. QED
    BY <2>1 DEF InTime
<1>17. Posted(posted, r, p.n, posts, now)
  <2>1. Len(posted) + Len(r) = posts + (IF p.n # 0 THEN 1 ELSE 0)
    BY <1>2, <1>4, <1>10, <1>11
  <2>2. p.n # 0 => \E i \in DOMAIN posted : posted[i].n = p.n
    BY <1>3
  <2>3. \A i \in DOMAIN r : r[i].t <= now
    BY <1>5, <1>11, <1>12, <1>14
  <2>4. \A i \in DOMAIN r : \A j \in DOMAIN posted :
           IF posted[j].n = p.n THEN TRUE ELSE r[i].n # posted[j].n /\ r[i].t <= posted[j].t
    BY <1>5, <1>11, <1>12, <1>14
  <2>5. QED
    BY <1>11, <1>15, <1>16, <2>1, <2>2, <2>3, <2>4 DEF Posted
<1>18. ServerInv'
  BY <1>1, <1>8, <1>10, <1>17 DEF ServerInv, r
<1>19. QED
  BY <1>9, <1>18

LEMMA ReleaseStep ==
    ASSUME ServerInv, ListsInv, TriggerRelease
    PROVE  ServerInv' /\ ListsInv'
<1> DEFINE run == Top.run
           r == Others(Top.run)
<1>1. /\ Running("trigger") /\ run # 0 /\ posted' = r /\ free' = free + 1
      /\ stack' = Append(Below, [Top EXCEPT !.run = 0])
      /\ UNCHANGED <<alive, hasSets, bound, now, posts, done>>
  BY DEF TriggerRelease, lists
<1>2. /\ posted \in Seq(Posting) /\ done \in Seq(Taken)
      /\ \A i \in DOMAIN posted : posted[i].n \in 1 .. MaxPosts /\ posted[i].t \in Nat
                                 /\ posted[i] \in Posting
      /\ \A i \in DOMAIN done : done[i].n \in 1 .. MaxPosts /\ done[i].t \in Nat
      /\ DOMAIN posted = 1 .. Len(posted) /\ Len(posted) \in Nat
      /\ DOMAIN done = 1 .. Len(done) /\ Len(done) \in Nat
  BY NumbersFrom1 DEF ServerInv
<1>3. /\ Run(stack) = run
      /\ stack' \in Seq(Frame) /\ Emitting(stack', bound, alive) /\ AtBottom(stack', now)
      /\ Run(stack') = 0
  <2>1. 0 \in 0 .. MaxPosts
    BY Assumed
  <2>2. QED
    BY <1>1, <2>1, TriggerTop
<1>4. ListsInv'
  BY <1>1, <1>3 DEF ListsInv
<1>5. /\ Numbered(posted, posts) /\ Numbered(done, posts) /\ InTime(posted) /\ InTime(done)
      /\ Len(posted) + Len(done) = posts + 1
      /\ \E k \in DOMAIN posted : posted[k].n = run
      /\ \A i \in DOMAIN done : done[i].t <= now
      /\ \A i \in DOMAIN done : \A j \in DOMAIN posted :
            posted[j].n = run \/ (done[i].n # posted[j].n /\ done[i].t <= posted[j].t)
  BY <1>1, <1>3, SMTT(30) DEF ServerInv, Posted
<1> HIDE DEF r, run
<1>6. /\ r \in Seq(Posting) /\ Len(r) = Len(posted) - 1
      /\ \E f \in [1 .. Len(r) -> DOMAIN posted] :
            /\ \A i \in 1 .. Len(r) : r[i] = posted[f[i]] /\ posted[f[i]].n # run
            /\ \A i, j \in 1 .. Len(r) : i < j => f[i] < f[j]
  <2>1. \A i, j \in DOMAIN posted : posted[i].n = posted[j].n => i = j
    BY <1>5 DEF Numbered
  <2>2. QED
    BY <1>2, <1>5, <2>1, OthersLeft, ZenonT(60) DEF r, run
<1>7. PICK f \in [1 .. Len(r) -> DOMAIN posted] :
            /\ \A i \in 1 .. Len(r) : r[i] = posted[f[i]] /\ posted[f[i]].n # run
            /\ \A i, j \in 1 .. Len(r) : i < j => f[i] < f[j]
  BY <1>6
<1>8. DOMAIN r = 1 .. Len(r) /\ Len(r) \in Nat
  BY <1>6
<1>9. \A i, j \in DOMAIN r : i = j \/ f[i] # f[j]
  <2>1. ASSUME NEW i \in DOMAIN r, NEW j \in DOMAIN r, i # j
        PROVE  f[i] # f[j]
    <3>1. i < j \/ j < i
      BY <1>8, <2>1
    <3>2. f[i] \in Nat /\ f[j] \in Nat
      BY <1>2, <1>7, <1>8
    <3>3. QED
      BY <1>7, <1>8, <3>1, <3>2
  <2>2. QED
    BY <2>1
<1>10. \A i \in DOMAIN r : f[i] \in DOMAIN posted /\ r[i] = posted[f[i]] /\ r[i].n # run
  BY <1>7, <1>8
<1>11. Numbered(r, posts)
  <2>1. \A i \in DOMAIN r : r[i].n <= posts
    BY <1>5, <1>10 DEF Numbered
  <2>2. \A i, j \in DOMAIN r : r[i].n = r[j].n => i = j
    BY <1>5, <1>9, <1>10 DEF Numbered
  <2>3. QED
    BY <2>1, <2>2 DEF Numbered
<1>12. InTime(r)
  <2>1. \A i, j \in DOMAIN r : i < j => f[i] < f[j]
    BY <1>7, <1>8
  <2>2. QED
    BY <1>5, <1>10, <2>1 DEF InTime
<1>13. Posted(r, done, 0, posts, now)
  <2>1. Len(r) + Len(done) = posts + 0
    BY <1>2, <1>5, <1>6, Assumed DEF ServerInv
  <2>2. \A i \in DOMAIN done : \A j \in DOMAIN r :
           done[i].n # r[j].n /\ done[i].t <= r[j].t
    BY <1>5, <1>10
  <2>3. QED
    BY <1>5, <1>11, <1>12, <2>1, <2>2 DEF Posted
<1>14. free + 1 \in 0 .. PoolSize /\ free + 1 + Len(r) = PoolSize
  <2>1. /\ free \in 0 .. PoolSize /\ free + Len(posted) = PoolSize /\ PoolSize \in Nat
        /\ Len(posted) \in Nat /\ Len(r) = Len(posted) - 1 /\ Len(r) \in Nat
    BY <1>2, <1>6, <1>8, Assumed DEF ServerInv
  <2>2. QED
    BY <2>1
<1>15. ServerInv'
  BY <1>1, <1>3, <1>6, <1>13, <1>14 DEF ServerInv
<1>16. QED
  BY <1>4, <1>15

LEMMA TickStep ==
    ASSUME ServerInv, ListsInv, Tick
    PROVE  ServerInv' /\ ListsInv'
<1>1. /\ stack = <<>> /\ now < MaxTime /\ now' = now + 1 /\ now \in 0 .. MaxTime
      /\ UNCHANGED <<alive, hasSets, bound, posted, free, posts, done, stack>>
  BY DEF Tick, ServerInv, lists
<1>2. now' \in 0 .. MaxTime /\ now <= now' /\ now \in Nat /\ now' \in Nat
  BY <1>1, Assumed
<1>3. AtBottom(stack, now')
  BY <1>1 DEF AtBottom
<1>4. ListsInv'
  BY <1>1, <1>3 DEF ListsInv
<1>5. Posted(posted, done, Run(stack), posts, now')
  <2>1. Posted(posted, done, Run(stack), posts, now)
    BY DEF ServerInv
  <2>2. \A i \in DOMAIN done : done[i].t \in Nat
    BY NumbersFrom1 DEF ServerInv
  <2>3. \A i \in DOMAIN done : done[i].t <= now'
    BY <1>2, <2>1, <2>2 DEF Posted
  <2>4. QED
    BY <2>1, <2>3 DEF Posted
<1>6. ServerInv'
  BY <1>1, <1>2, <1>5 DEF ServerInv
<1>7. QED
  BY <1>4, <1>6

-----------------------------------------------------------------------------
(* The invariant.                                                          *)

LEMMA InitInv == Init => IInv
<1> SUFFICES ASSUME Init
             PROVE  IInv
  OBVIOUS
<1>1. /\ alive = Object /\ hasSets = {} /\ bound = [e \in Object |-> <<>>]
      /\ now = 0 /\ posted = <<>> /\ free = PoolSize /\ posts = 0 /\ done = <<>>
      /\ stack = <<>> /\ fault = "none"
  BY DEF Init
<1>2. bound \in [Object -> Seq(Binding)] /\ Lists(bound)
  <2>1. \A e \in Object : bound[e] = <<>>
    BY <1>1
  <2>2. bound \in [Object -> Seq(Binding)]
    BY <1>1
  <2>3. Sorted(<<>>) /\ \A b : ~Contains(<<>>, b)
    BY DEF Sorted, IsInjective, Before, Contains
  <2>4. QED
    BY <2>1, <2>2, <2>3 DEF Lists
<1>3. ListsInv
  BY <1>1, <1>2 DEF ListsInv, Emitting, AtBottom
<1>4. Posted(<<>>, <<>>, 0, 0, 0)
  <2>1. DOMAIN <<>> = {} /\ Len(<<>>) = 0
    OBVIOUS
  <2>2. Numbered(<<>>, 0) /\ InTime(<<>>)
    BY DEF Numbered, InTime
  <2>3. QED
    BY <2>1, <2>2 DEF Posted
<1>5. ServerInv
  BY <1>1, <1>4, Assumed DEF ServerInv, Run
<1>6. QED
  BY <1>1, <1>3, <1>5 DEF IInv, Faults

(* The server's invariant depends on the stack through Run alone.          *)
LEMMA ServerKept ==
    ASSUME ServerInv, UNCHANGED server, Run(stack') = Run(stack)
    PROVE  ServerInv'
BY DEF ServerInv, server

LEMMA StepInv == IInv /\ [Next]_vars => IInv'
<1> SUFFICES ASSUME IInv, [Next]_vars
             PROVE  IInv'
  OBVIOUS
<1>1. ListsInv /\ ServerInv /\ fault \in Faults /\ now \in 0 .. MaxTime
  BY DEF IInv, ServerInv
<1>2. ASSUME \/ \E b \in Binding : BindSignal(b) \/ UnbindCommand(b) \/ UnbindBinding(b)
             \/ \E e \in Emitters, o \in Object :
                   UnbindTargetObject(e, o) \/ UnbindTargetEverywhere(e, o)
             \/ \E e \in Emitters : UnbindAllSignals(e)
             \/ \E o \in Object : Release(o)
      PROVE  IInv'
  <2>1. ListsInv' /\ Run(stack') = Run(stack) /\ UNCHANGED server /\ fault' \in Faults
    BY <1>1, <1>2, ListsStep
  <2>2. QED
    BY <1>1, <2>1, ServerKept DEF IInv
<1>3. ASSUME \/ \E e \in Emitters, va \in BOOLEAN : EmitSignal(e, va)
             \/ Trigger \/ CommandReturn
             \/ Invoke \/ Discard \/ EmitSucc \/ EmitLost \/ EmitEnd \/ TriggerEnd
      PROVE  IInv'
  <2>1. UNCHANGED server /\ fault' \in Faults
    BY <1>1, <1>3
       DEF EmitSignal, Trigger, CommandReturn, Invoke, Discard, EmitSucc, EmitLost, EmitEnd,
           TriggerEnd, Faults
  <2>2. \/ \E e \in Emitters, va \in BOOLEAN : EmitSignal(e, va)
        \/ Trigger \/ CommandReturn
        \/ Invoke \/ Discard \/ EmitSucc \/ EmitLost \/ EmitEnd
        \/ Running("trigger") /\ Top.run = 0 /\ stack' = Below /\ UNCHANGED <<lists, server>>
    BY <1>3 DEF TriggerEnd
  <2>3. ListsInv' /\ Run(stack') = Run(stack)
    BY <1>1, <2>2, LoopStep
  <2>4. QED
    BY <1>1, <2>1, <2>3, ServerKept DEF IInv
<1>4. ASSUME NEW e \in Emitters, NEW d \in Delays, PostSignal(e, d)
      PROVE  IInv'
  <2>1. fault' = fault
    BY <1>4 DEF PostSignal
  <2>2. QED
    BY <1>1, <1>4, <2>1, PostStep DEF IInv
<1>5. CASE TriggerNext
  <2>1. fault' = fault
    BY <1>5 DEF TriggerNext
  <2>2. QED
    BY <1>1, <1>5, <2>1, TakeStep DEF IInv
<1>6. CASE TriggerRelease
  <2>1. fault' = fault
    BY <1>6 DEF TriggerRelease
  <2>2. QED
    BY <1>1, <1>6, <2>1, ReleaseStep DEF IInv
<1>7. CASE Tick
  <2>1. fault' = fault
    BY <1>7 DEF Tick
  <2>2. QED
    BY <1>1, <1>7, <2>1, TickStep DEF IInv
<1>8. CASE Stopped \/ UNCHANGED vars
  <2>1. UNCHANGED <<alive, hasSets, bound, now, posted, free, posts, done, stack, fault>>
    BY <1>8 DEF Stopped, vars, lists, server
  <2>2. ListsInv'
    BY <1>1, <2>1 DEF ListsInv
  <2>3. ServerInv'
    BY <1>1, <2>1 DEF ServerInv
  <2>4. QED
    BY <1>1, <2>1, <2>2, <2>3 DEF IInv
<1>9. QED
  BY <1>2, <1>3, <1>4, <1>5, <1>6, <1>7, <1>8 DEF Next, Application

(* Posted signals: those that wait are the list without the one that is    *)
(* being executed.                                                         *)
LEMMA WaitingIsOthers ==
    ASSUME IInv
    PROVE  Waiting = Others(Run(stack))
<1>1. \A i \in DOMAIN posted : posted[i].n \in 1 .. MaxPosts
  BY NumbersFrom1 DEF IInv, ServerInv
<1>2. \A i \in DOMAIN posted : posted[i].n # 0
  BY <1>1, Assumed
<1>3. stack \in Seq(Frame) /\ AtBottom(stack, now)
  BY DEF IInv, ListsInv
<1>4. ASSUME NEW i \in DOMAIN posted
      PROVE  (\A f \in Range(stack) : f.kind = "trigger" => f.run # posted[i].n)
                <=> posted[i].n # Run(stack)
  <2>1. CASE stack # <<>> /\ stack[1].kind = "trigger"
    <3>1. Run(stack) = stack[1].run /\ stack[1] \in Range(stack)
      BY <1>3, <2>1, EmptySeq DEF Run, Range
    <3>2. \A f \in Range(stack) : f.kind = "trigger" => f = stack[1]
      BY <1>3 DEF AtBottom, Range
    <3>3. QED
      BY <2>1, <3>1, <3>2
  <2>2. CASE ~(stack # <<>> /\ stack[1].kind = "trigger")
    <3>1. Run(stack) = 0
      BY <2>2 DEF Run
    <3>2. \A f \in Range(stack) : f.kind # "trigger"
      <4>1. \A k \in DOMAIN stack : stack[k].kind = "trigger" => k = 1 /\ stack # <<>>
        BY <1>3, EmptySeq DEF AtBottom
      <4>2. QED
        BY <2>2, <4>1 DEF Range
    <3>3. QED
      BY <1>2, <3>1, <3>2
  <2>3. QED
    BY <2>1, <2>2
<1>5. {i \in DOMAIN posted : \A f \in Range(stack) : f.kind = "trigger" => f.run # posted[i].n}
        = {i \in DOMAIN posted : posted[i].n # Run(stack)}
  BY <1>4
<1>6. QED
  BY <1>5 DEF Waiting, Others

LEMMA InvType == IInv => TypeOK
BY DEF IInv, ListsInv, ServerInv, TypeOK

LEMMA InvCalls == IInv => CallsInOrder /\ StayedAreCalled
<1> SUFFICES ASSUME IInv
             PROVE  CallsInOrder /\ StayedAreCalled
  OBVIOUS
<1>1. /\ stack \in Seq(Frame) /\ Emitting(stack, bound, alive)
  BY DEF IInv, ListsInv
<1>2. ASSUME NEW f \in Emissions
      PROVE  f \in EmitFrame /\ \E s : OnCourse(f, s, alive)
  <2>1. PICK k \in DOMAIN stack : f = stack[k] /\ f.kind = "emit"
    BY DEF Emissions
  <2>2. f \in Frame /\ OnCourse(f, bound[f.at], alive)
    BY <1>1, <2>1 DEF Emitting
  <2>3. f \in EmitFrame
    BY <2>1, <2>2, IsEmission
  <2>4. QED
    BY <2>2, <2>3
<1>3. ASSUME NEW f \in Emissions, NEW i \in DOMAIN f.calls, NEW j \in DOMAIN f.calls, i < j
      PROVE  Priority[f.calls[i]] <= Priority[f.calls[j]] /\ f.calls[i] # f.calls[j]
  <2>1. PICK s : OnCourse(f, s, alive)
    BY <1>2
  <2>2. f.calls \in Seq(Binding)
    BY <1>2 DEF EmitFrame
  <2>3. /\ IsInjective(f.calls)
        /\ \A x, y \in Binding : Before(f.calls, x, y) => Priority[x] <= Priority[y]
    BY <2>1 DEF OnCourse
  <2> DEFINE c == f.calls
  <2>4. c[i] \in Binding /\ c[j] \in Binding /\ i \in Nat /\ j \in Nat /\ Before(c, c[i], c[j])
    BY <1>3, <2>2 DEF Before
  <2>5. c[i] # c[j]
    BY <1>3, <2>3, <2>4 DEF IsInjective
  <2>6. QED
    BY <2>3, <2>4, <2>5
<1>4. ASSUME NEW f \in Emissions, f.cur = None
      PROVE  f.stayed \subseteq Range(f.calls)
  <2>1. f.calls \in Seq(Binding)
    BY <1>2 DEF EmitFrame
  <2>2. \A b \in f.stayed : Contains(f.calls, b)
    BY <1>2, <1>4 DEF OnCourse, AtEnd
  <2>3. QED
    BY <2>1, <2>2, RangeContains
<1>5. QED
  BY <1>3, <1>4 DEF CallsInOrder, StayedAreCalled

LEMMA InvPosted == IInv => PostedInOrderOnce
<1> SUFFICES ASSUME IInv
             PROVE  PostedInOrderOnce
  OBVIOUS
<1> DEFINE w == Waiting
           run == Run(stack)
           all == w \o done
<1>1. /\ posted \in Seq(Posting) /\ done \in Seq(Taken) /\ posts \in Nat
      /\ Posted(posted, done, run, posts, now)
  BY Assumed DEF IInv, ServerInv
<1>2. w = Others(run)
  BY WaitingIsOthers
<1> HIDE DEF w, run
<1>3. /\ DOMAIN posted = 1 .. Len(posted) /\ Len(posted) \in Nat
      /\ DOMAIN done = 1 .. Len(done) /\ Len(done) \in Nat
      /\ \A i \in DOMAIN posted : posted[i].n \in 1 .. MaxPosts
  BY <1>1, NumbersFrom1
<1>4. /\ \A i, j \in DOMAIN posted : posted[i].n = posted[j].n => i = j
      /\ \A i, j \in DOMAIN done : done[i].n = done[j].n => i = j
      /\ \A i, j \in DOMAIN done : i < j => done[i].t <= done[j].t
      /\ Len(posted) + Len(done) = posts + (IF run # 0 THEN 1 ELSE 0)
      /\ run # 0 => \E i \in DOMAIN posted : posted[i].n = run
      /\ \A i \in DOMAIN done : \A j \in DOMAIN posted :
            posted[j].n # run => done[i].n # posted[j].n
  BY <1>1 DEF Posted, Numbered, InTime
<1>5. /\ w \in Seq(Posting)
      /\ (\E k \in DOMAIN posted : posted[k].n = run) => Len(w) = Len(posted) - 1
      /\ (\A k \in DOMAIN posted : posted[k].n # run) => Len(w) = Len(posted)
      /\ \E f \in [1 .. Len(w) -> DOMAIN posted] :
            /\ \A i \in 1 .. Len(w) : w[i] = posted[f[i]] /\ posted[f[i]].n # run
            /\ \A i, j \in 1 .. Len(w) : i < j => f[i] < f[j]
  BY <1>1, <1>2, <1>4, OthersLeft, ZenonT(60)
<1>6. PICK f \in [1 .. Len(w) -> DOMAIN posted] :
          /\ \A i \in 1 .. Len(w) : w[i] = posted[f[i]] /\ posted[f[i]].n # run
          /\ \A i, j \in 1 .. Len(w) : i < j => f[i] < f[j]
  BY <1>5
<1>7. Len(w) + Len(done) = posts
  <2>1. CASE run = 0
    <3>1. \A k \in DOMAIN posted : posted[k].n # run
      BY <1>3, <2>1, Assumed
    <3>2. Len(w) = Len(posted)
      BY <1>5, <3>1
    <3>3. QED
      BY <1>4, <2>1, <3>2, <1>3, <1>1
  <2>2. CASE run # 0
    <3>1. Len(w) = Len(posted) - 1
      BY <1>4, <1>5, <2>2
    <3>2. QED
      BY <1>1, <1>3, <1>4, <2>2, <3>1
  <2>3. QED
    BY <2>1, <2>2
<1>8. \A i, j \in 1 .. Len(w) : w[i].n = w[j].n => i = j
  <2>1. ASSUME NEW i \in 1 .. Len(w), NEW j \in 1 .. Len(w), i # j
        PROVE  w[i].n # w[j].n
    <3>1. f[i] \in DOMAIN posted /\ f[j] \in DOMAIN posted
      OBVIOUS
    <3>2. i < j \/ j < i
      BY <1>5, <2>1
    <3>3. f[i] # f[j]
      BY <1>3, <1>6, <3>1, <3>2
    <3>4. QED
      BY <1>4, <1>6, <3>1, <3>3
  <2>2. QED
    BY <2>1
<1>9. \A i \in 1 .. Len(w), j \in 1 .. Len(done) : w[i].n # done[j].n
  <2>1. ASSUME NEW i \in 1 .. Len(w), NEW j \in 1 .. Len(done)
        PROVE  w[i].n # done[j].n
    <3>1. f[i] \in DOMAIN posted /\ w[i] = posted[f[i]] /\ posted[f[i]].n # run
      BY <1>6
    <3>2. QED
      BY <1>3, <1>4, <3>1
  <2>2. QED
    BY <2>1
<1>10. /\ Len(all) = Len(w) + Len(done) /\ DOMAIN all = 1 .. Len(w) + Len(done)
       /\ \A i \in 1 .. Len(w) + Len(done) :
             all[i] = IF i <= Len(w) THEN w[i] ELSE done[i - Len(w)]
  <2> DEFINE S == Posting \cup Taken
  <2>1. w \in Seq(S) /\ done \in Seq(S)
    BY <1>1, <1>5
  <2> HIDE DEF S
  <2>2. /\ all \in Seq(S) /\ Len(all) = Len(w) + Len(done)
        /\ \A i \in 1 .. Len(w) + Len(done) :
              all[i] = IF i <= Len(w) THEN w[i] ELSE done[i - Len(w)]
    BY <2>1, ConcatProperties
  <2> HIDE DEF all
  <2>3. QED
    BY <2>2
<1> HIDE DEF all
<1>11. Len(w) \in Nat
  BY <1>5
<1>12. ASSUME NEW i \in DOMAIN all, NEW j \in DOMAIN all, i # j
       PROVE  all[i].n # all[j].n
  <2>1. i \in 1 .. Len(w) + Len(done) /\ j \in 1 .. Len(w) + Len(done)
    BY <1>10
  <2>2. ASSUME NEW k \in 1 .. Len(w) + Len(done)
        PROVE  \/ k \in 1 .. Len(w) /\ all[k] = w[k]
               \/ k - Len(w) \in 1 .. Len(done) /\ all[k] = done[k - Len(w)]
    BY <1>3, <1>10, <1>11
  <2>3. CASE i \in 1 .. Len(w) /\ all[i] = w[i] /\ j \in 1 .. Len(w) /\ all[j] = w[j]
    BY <1>8, <1>12, <2>3
  <2>4. CASE /\ i - Len(w) \in 1 .. Len(done) /\ all[i] = done[i - Len(w)]
             /\ j - Len(w) \in 1 .. Len(done) /\ all[j] = done[j - Len(w)]
    <3>1. i - Len(w) # j - Len(w)
      BY <1>3, <1>11, <1>12, <2>1
    <3>2. QED
      BY <1>3, <1>4, <2>4, <3>1
  <2>5. CASE /\ i \in 1 .. Len(w) /\ all[i] = w[i]
             /\ j - Len(w) \in 1 .. Len(done) /\ all[j] = done[j - Len(w)]
    BY <1>9, <2>5
  <2>6. CASE /\ j \in 1 .. Len(w) /\ all[j] = w[j]
             /\ i - Len(w) \in 1 .. Len(done) /\ all[i] = done[i - Len(w)]
    BY <1>9, <2>6
  <2>7. QED
    BY <2>1, <2>2, <2>3, <2>4, <2>5, <2>6
<1>13. QED
  BY <1>4, <1>7, <1>10, <1>12 DEF PostedInOrderOnce, all, w

-----------------------------------------------------------------------------
(* Every variable has its type, and each of the entries of the pool is     *)
(* free or in the list of posted signals.                                  *)
THEOREM TypeCorrect == Spec => []TypeOK
<1>1. IInv => TypeOK
  BY InvType
<1>2. QED
  BY InitInv, StepInv, <1>1, PTL DEF Spec

(* An emission invokes bindings in the order of their priorities and none  *)
(* of them twice, however deep emissions are nested and whatever their     *)
(* commands bind, unbind and delete (nsignal.cc:42).                       *)
THEOREM CallsStayInOrder == Spec => []CallsInOrder
<1>1. IInv => CallsInOrder
  BY InvCalls
<1>2. QED
  BY InitInv, StepInv, <1>1, PTL DEF Spec

(* An emission that comes to the end of the list has invoked every binding *)
(* that was there all the time, to an object that lived all the time.      *)
THEOREM StayedGetCalled == Spec => []StayedAreCalled
<1>1. IInv => StayedAreCalled
  BY InvCalls
<1>2. QED
  BY InitInv, StepInv, <1>1, PTL DEF Spec

(* Posted signals are taken up in the order of their times, none of them   *)
(* is lost and none taken up twice (nsignalserver.cc:33).                  *)
THEOREM PostedOnceInOrder == Spec => []PostedInOrderOnce
<1>1. IInv => PostedInOrderOnce
  BY InvPosted
<1>2. QED
  BY InitInv, StepInv, <1>1, PTL DEF Spec
=============================================================================
