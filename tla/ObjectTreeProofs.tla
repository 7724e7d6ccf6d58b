-------------------------- MODULE ObjectTreeProofs --------------------------
(***************************************************************************)
(* Theorems about ObjectTree, for every number of objects and of safe      *)
(* pointers.  The inductive invariant adds to what the runs check that     *)
(* parents form no cycle, and that no destructor is under way at or above  *)
(* an object whose destructor started earlier.                             *)
(***************************************************************************)
EXTENDS ObjectTree, ListLemmas

Statuses == {"fresh", "alive", "dying", "freed"}
Destructors == [object : Object, part : {"derived", "children"}]

(* The count of an object that lives is the application's references to    *)
(* it, and perhaps the one that nobody holds.                              *)
Counted ==
    \A o \in Object :
        /\ status[o] = "fresh" => claims[o] = 0
        /\ status[o] = "alive" => refCount[o] \in {claims[o], claims[o] + 1}

AcyclicIn(par) == \A o \in Object : par[o] # Null => o \notin AboveIn(par[o], par)
Acyclic == AcyclicIn(parent)

DyingAreUnderWay ==
    \A o \in Object : status[o] = "dying" => \E k \in DOMAIN stack : stack[k].object = o

InnerFirst ==
    \A j, k \in DOMAIN stack : j < k => stack[k].object \notin Above(stack[j].object)

IInv == TypeOK /\ Counted /\ NothingDangles /\ Acyclic /\ DyingAreUnderWay /\ InnerFirst

-----------------------------------------------------------------------------
(* The objects above another one.                                          *)

Parents == [Object -> Object \cup {Null}]

LEMMA AboveLeast ==
    ASSUME NEW par, NEW o \in Object, NEW S \in SUBSET Object, o \in S, Closed(S, par)
    PROVE  AboveIn(o, par) \subseteq S
BY DEF AboveIn

LEMMA AboveClosed ==
    ASSUME NEW par \in Parents, NEW o \in Object
    PROVE  /\ o \in AboveIn(o, par)
           /\ AboveIn(o, par) \subseteq Object
           /\ \A x \in AboveIn(o, par) : par[x] # Null => par[x] \in AboveIn(o, par)
<1>1. o \in AboveIn(o, par) /\ AboveIn(o, par) \subseteq Object
  BY DEF AboveIn
<1>2. ASSUME NEW x \in AboveIn(o, par), par[x] # Null
      PROVE  par[x] \in AboveIn(o, par)
  <2>1. par[x] \in Object
    BY <1>1, <1>2 DEF Parents
  <2>2. ASSUME NEW S \in SUBSET Object, o \in S, Closed(S, par)
        PROVE  par[x] \in S
    BY <1>2, <2>2 DEF AboveIn, Closed
  <2>3. QED
    BY <2>1, <2>2 DEF AboveIn
<1>3. QED
  BY <1>1, <1>2

LEMMA AboveTransitive ==
    ASSUME NEW par \in Parents, NEW o \in Object, NEW x \in AboveIn(o, par)
    PROVE  AboveIn(x, par) \subseteq AboveIn(o, par)
BY AboveClosed, AboveLeast DEF Closed

(* Objects whose parents stay, or become Null, have nothing new above.     *)
LEMMA AboveKept ==
    ASSUME NEW par \in Parents, NEW new, NEW o \in Object,
           \A x \in AboveIn(o, par) : new[x] = par[x] \/ new[x] = Null
    PROVE  AboveIn(o, new) \subseteq AboveIn(o, par)
<1>1. o \in AboveIn(o, par) /\ AboveIn(o, par) \in SUBSET Object /\ Closed(AboveIn(o, par), new)
  BY AboveClosed DEF Closed
<1>2. QED
  BY <1>1, AboveLeast

(* What is put below p gets what is above p.                               *)
LEMMA AboveLinked ==
    ASSUME NEW par \in Parents, NEW o \in Object, NEW p \in Object, o \notin AboveIn(p, par),
           NEW x \in Object
    PROVE  /\ o \notin AboveIn(x, par) =>
                  AboveIn(x, [par EXCEPT ![o] = p]) \subseteq AboveIn(x, par)
           /\ AboveIn(x, [par EXCEPT ![o] = p]) \subseteq AboveIn(x, par) \cup AboveIn(p, par)
<1> DEFINE new == [par EXCEPT ![o] = p]
           S == AboveIn(x, par) \cup AboveIn(p, par)
<1>1. \A y \in Object : y # o => new[y] = par[y]
  BY DEF Parents
<1>2. o \notin AboveIn(x, par) => AboveIn(x, new) \subseteq AboveIn(x, par)
  BY <1>1, AboveClosed, AboveKept
<1>3. x \in S /\ p \in S /\ S \in SUBSET Object
  BY AboveClosed
<1>4. new[o] = p
  BY DEF Parents
<1>5. Closed(S, new)
  BY <1>1, <1>3, <1>4, AboveClosed DEF Closed
<1>6. AboveIn(x, new) \subseteq S
  BY <1>3, <1>5, AboveLeast
<1>7. QED
  BY <1>2, <1>6

(* What has nothing below it is above itself only.                         *)
LEMMA AboveUnused ==
    ASSUME NEW par \in Parents, NEW o \in Object, \A y \in Object : par[y] # o,
           NEW x \in Object, x # o
    PROVE  o \notin AboveIn(x, par)
<1>1. Object \ {o} \in SUBSET Object /\ x \in Object \ {o} /\ Closed(Object \ {o}, par)
  BY DEF Closed, Parents
<1>2. AboveIn(x, par) \subseteq Object \ {o}
  BY <1>1, AboveLeast
<1>3. QED
  BY <1>2

-----------------------------------------------------------------------------
(* Types and counts.                                                       *)

(* An object taken out of its parent's list is in no list.                 *)
LEMMA WithoutProperties ==
    ASSUME TypeOK, TreeOK, NEW o \in Object
    PROVE  /\ Without(o) \in [Object -> Seq(Object)]
           /\ \A p, x \in Object :
                 /\ Contains(Without(o)[p], x) <=> parent[x] = p /\ x # o
                 /\ IsInjective(Without(o)[p])
<1> DEFINE q == parent[o]
           i == Position(o)
<1>1. /\ children \in [Object -> Seq(Object)] /\ parent \in [Object -> Object \cup {Null}]
      /\ \A p, x \in Object : /\ Contains(children[p], x) <=> parent[x] = p
                              /\ IsInjective(children[p])
  BY DEF TypeOK, TreeOK
<1>2. CASE q = Null
  BY <1>1, <1>2, ObjectTreeAssumption DEF Without
<1>3. CASE q # Null
  <2>1. q \in Object /\ children[q] \in Seq(Object) /\ Contains(children[q], o) /\ IsInjective(children[q])
    BY <1>1, <1>3
  <2>2. i \in 1 .. Len(children[q]) /\ children[q][i] = o
    BY <2>1 DEF Contains, Position
  <2>3. Without(o) = [children EXCEPT ![q] = RemoveAt(children[q], i)]
    BY <1>1, <1>3, <2>1 DEF Without
  <2> HIDE DEF i, q
  <2>4. RemoveAt(children[q], i) \in Seq(Object)
    BY <2>1, <2>2, RemoveAtProperties
  <2>5. /\ IsInjective(RemoveAt(children[q], i))
        /\ \A x : Contains(RemoveAt(children[q], i), x) <=> Contains(children[q], x) /\ x # o
    BY <2>1, <2>2, RemovedElement
  <2>6. \A p \in Object : Without(o)[p] = IF p = q THEN RemoveAt(children[q], i) ELSE children[p]
    BY <1>1, <2>3
  <2>7. Without(o) \in [Object -> Seq(Object)]
    BY <1>1, <2>1, <2>3, <2>4
  <2>8. ASSUME NEW p \in Object, NEW x \in Object
        PROVE  /\ Contains(Without(o)[p], x) <=> parent[x] = p /\ x # o
               /\ IsInjective(Without(o)[p])
    BY <1>1, <2>5, <2>6, q = parent[o], ZenonT(60) DEF q
  <2>9. QED
    BY <2>7, <2>8
<1>4. QED
  BY <1>2, <1>3

(* Where the destructors of the innermost object are on the stack.         *)
LEMMA TopProperties ==
    ASSUME TypeOK, NEW part, Top(part)
    PROVE  /\ stack \in Seq(Destructors) /\ stack # <<>> /\ Len(stack) \in Nat \ {0}
           /\ DOMAIN stack = 1 .. Len(stack)
           /\ It \in Object /\ stack[Len(stack)].object = It /\ stack[Len(stack)].part = part
           /\ Below \in Seq(Destructors) /\ Len(Below) = Len(stack) - 1
           /\ DOMAIN Below = 1 .. Len(stack) - 1
           /\ \A k \in 1 .. Len(stack) - 1 : Below[k] = stack[k]
<1>1. stack \in Seq(Destructors) /\ stack # <<>>
  BY DEF TypeOK, Top, Destructors
<1>2. /\ Len(stack) \in Nat \ {0} /\ Last(stack) = stack[Len(stack)] /\ Last(stack) \in Destructors
      /\ Below \in Seq(Destructors) /\ Len(Below) = Len(stack) - 1
      /\ \A k \in 1 .. Len(stack) - 1 : Below[k] = stack[k]
      /\ DOMAIN stack = 1 .. Len(stack) /\ DOMAIN Below = 1 .. Len(stack) - 1
  BY <1>1, TopOfStack DEF Below
<1>3. It \in Object /\ stack[Len(stack)].object = It /\ stack[Len(stack)].part = part
  BY <1>2 DEF It, Top, Destructors
<1>4. QED
  BY <1>1, <1>2, <1>3

LEMMA StackGrows ==
    ASSUME TypeOK, NEW d \in Destructors
    PROVE  /\ Append(stack, d) \in Seq(Destructors)
           /\ DOMAIN stack = 1 .. Len(stack) /\ Len(stack) \in Nat
           /\ DOMAIN Append(stack, d) = 1 .. Len(stack) + 1
           /\ \A k \in 1 .. Len(stack) : Append(stack, d)[k] = stack[k]
           /\ Append(stack, d)[Len(stack) + 1] = d
BY AppendProperties DEF TypeOK, Destructors

(* Replacing the top of the stack.                                         *)
LEMMA TopReplaced ==
    ASSUME TypeOK, NEW part, Top(part), NEW d \in Destructors
    PROVE  /\ Append(Below, d) \in Seq(Destructors)
           /\ DOMAIN Append(Below, d) = DOMAIN stack
           /\ \A k \in 1 .. Len(stack) - 1 : Append(Below, d)[k] = stack[k]
           /\ Append(Below, d)[Len(stack)] = d
<1>1. /\ Below \in Seq(Destructors) /\ Len(Below) = Len(stack) - 1 /\ Len(stack) \in Nat \ {0}
      /\ \A k \in 1 .. Len(stack) - 1 : Below[k] = stack[k]
      /\ DOMAIN stack = 1 .. Len(stack)
  BY TopProperties
<1>2. /\ Append(Below, d) \in Seq(Destructors) /\ Len(Append(Below, d)) = Len(Below) + 1
      /\ \A k \in 1 .. Len(Below) : Append(Below, d)[k] = Below[k]
      /\ Append(Below, d)[Len(Below) + 1] = d
  BY <1>1, AppendProperties
<1>3. DOMAIN Append(Below, d) = 1 .. Len(stack)
  BY <1>1, <1>2
<1>4. QED
  BY <1>1, <1>2, <1>3

LEMMA TypeInit == Init => TypeOK /\ Counted
BY ObjectTreeAssumption DEF Init, TypeOK, Counted

(* Every step keeps the types, and an object referenced as long as it      *)
(* lives.                                                                  *)
LEMMA TypeStep ==
    ASSUME TypeOK, Counted, TreeOK, DyingOnce, [Next]_vars
    PROVE  TypeOK' /\ Counted'
<1> USE ObjectTreeAssumption
<1>1. ASSUME NEW o \in Object, NewUnnamedObject(o)
      PROVE  TypeOK' /\ Counted'
  BY <1>1, SMTT(30) DEF NewUnnamedObject, TypeOK, Counted, tree, cwds
<1>2. ASSUME NEW o \in Object, NEW p \in Object, New(p, o)
      PROVE  TypeOK' /\ Counted'
  <2>1. Append(children[p], o) \in Seq(Object)
    BY <1>2, AppendProperties DEF TypeOK
  <2>2. TypeOK'
    <3>1. children' \in [Object -> Seq(Object)] /\ parent' \in [Object -> Object \cup {Null}]
      BY <1>2, <2>1 DEF New, TypeOK
    <3>2. /\ refCount' \in [Object -> 0 .. MaxClaims + 1] /\ claims' \in [Object -> 0 .. MaxClaims]
          /\ \A x \in Object : (refCount'[x] > 0) = (status'[x] = "alive")
      <4>1. /\ status' = [status EXCEPT ![o] = "alive"]
            /\ refCount' = [refCount EXCEPT ![o] = 1]
            /\ claims' = [claims EXCEPT ![o] = 1]
        BY <1>2 DEF New
      <4>2. refCount' \in [Object -> 0 .. MaxClaims + 1]
        BY <4>1, SMTT(30) DEF TypeOK
      <4>3. claims' \in [Object -> 0 .. MaxClaims]
        BY <4>1, SMTT(30) DEF TypeOK
      <4>4. \A x \in Object : (refCount'[x] > 0) = (status'[x] = "alive")
        BY <4>1, SMTT(30) DEF TypeOK
      <4>5. QED
        BY <4>2, <4>3, <4>4
    <3>3. QED
      BY <1>2, <3>1, <3>2 DEF New, TypeOK, cwds
  <2>3. QED
    BY <1>2, <2>2 DEF New, TypeOK, Counted
<1>3. ASSUME NEW o \in Object, NEW p \in Object, NEW d \in Object, NewPath(p, d, o)
      PROVE  TypeOK' /\ Counted'
  <2>1. Append(children[p], d) \in Seq(Object) /\ <<o>> \in Seq(Object)
    BY <1>3, AppendProperties DEF TypeOK
  <2>2. children' \in [Object -> Seq(Object)]
    BY <1>3, <2>1 DEF NewPath, TypeOK
  <2>3. /\ status' = [status EXCEPT ![d] = "alive", ![o] = "alive"]
        /\ refCount' = [refCount EXCEPT ![d] = 1, ![o] = 1]
        /\ claims' = [claims EXCEPT ![o] = 1]
        /\ status[d] = "fresh" /\ status[o] = "fresh" /\ d # o
    BY <1>3 DEF NewPath
  <2>4. /\ refCount' \in [Object -> 0 .. MaxClaims + 1] /\ claims' \in [Object -> 0 .. MaxClaims]
        /\ \A x \in Object : (refCount'[x] > 0) = (status'[x] = "alive")
    <3> DEFINE T == 0 .. MaxClaims + 1
    <3>1. 1 \in T /\ refCount \in [Object -> T] /\ status \in [Object -> Statuses]
      BY SMTT(30) DEF TypeOK, Statuses
    <3> HIDE DEF T
    <3>2. refCount' \in [Object -> T]
      BY <2>3, <3>1
    <3>3. claims' \in [Object -> 0 .. MaxClaims]
      BY <2>3 DEF TypeOK
    <3>4. ASSUME NEW x \in Object
          PROVE  (refCount'[x] > 0) = (status'[x] = "alive")
      <4>1. (refCount[x] > 0) = (status[x] = "alive")
        BY DEF TypeOK
      <4>2. x # o /\ x # d => refCount'[x] = refCount[x] /\ status'[x] = status[x]
        BY <2>3, <3>1
      <4>3. x = o \/ x = d => refCount'[x] = 1 /\ status'[x] = "alive"
        BY <2>3, <3>1
      <4>4. QED
        BY <4>1, <4>2, <4>3
    <3>5. QED
      BY <3>2, <3>3, <3>4 DEF T
  <2>5. parent' \in [Object -> Object \cup {Null}] /\ status' \in [Object -> Statuses]
    BY <1>3, <2>3 DEF NewPath, TypeOK, Statuses
  <2>6. Counted'
    <3>1. claims[d] = 0 /\ claims[o] = 0
      BY <2>3 DEF Counted
    <3>2. /\ claims \in [Object -> 0 .. MaxClaims] /\ refCount \in [Object -> 0 .. MaxClaims + 1]
          /\ status \in [Object -> Statuses]
      BY DEF TypeOK, Statuses
    <3>3. ASSUME NEW x \in Object
          PROVE  /\ status'[x] = "fresh" => claims'[x] = 0
                 /\ status'[x] = "alive" => refCount'[x] \in {claims'[x], claims'[x] + 1}
      BY <2>3, <3>1, <3>2 DEF Counted
    <3>4. QED
      BY <3>3 DEF Counted
  <2>7. QED
    BY <1>3, <2>2, <2>4, <2>5, <2>6 DEF NewPath, TypeOK, cwds, Statuses
<1>4. ASSUME NEW o \in Object, AddRef(o)
      PROVE  TypeOK' /\ Counted'
  <2>1. /\ refCount' = [refCount EXCEPT ![o] = @ + 1]
        /\ claims' = [claims EXCEPT ![o] = @ + 1]
        /\ status[o] = "alive" /\ claims[o] < MaxClaims
        /\ refCount[o] \in {claims[o], claims[o] + 1}
        /\ status' = status
    BY <1>4 DEF AddRef, Counted
  <2>2. /\ refCount' \in [Object -> 0 .. MaxClaims + 1] /\ claims' \in [Object -> 0 .. MaxClaims]
        /\ \A x \in Object : (refCount'[x] > 0) = (status'[x] = "alive")
    <3>1. refCount' \in [Object -> 0 .. MaxClaims + 1]
      BY <2>1, SMTT(30) DEF TypeOK
    <3>2. claims' \in [Object -> 0 .. MaxClaims]
      BY <2>1, SMTT(30) DEF TypeOK
    <3>3. ASSUME NEW x \in Object
          PROVE  (refCount'[x] > 0) = (status'[x] = "alive")
      BY <2>1, SMTT(30) DEF TypeOK
    <3>4. QED
      BY <3>1, <3>2, <3>3
  <2>3. Counted'
    BY <2>1 DEF TypeOK, Counted
  <2>4. QED
    BY <1>4, <2>2, <2>3 DEF AddRef, TypeOK, tree, cwds
<1>5. ASSUME NEW o \in Object, Unlink(o)
      PROVE  TypeOK' /\ Counted'
  <2>1. Without(o) \in [Object -> Seq(Object)]
    BY WithoutProperties
  <2>2. QED
    BY <1>5, <2>1 DEF Unlink, TypeOK, Counted, counts, cwds
<1>6. ASSUME NEW o \in Object, NEW p \in Object, Link(p, o)
      PROVE  TypeOK' /\ Counted'
  <2>1. Append(children[p], o) \in Seq(Object) /\ <<o>> \o children[p] \in Seq(Object)
    BY <1>6, AppendProperties, PrependedElement DEF TypeOK
  <2>2. children' \in [Object -> Seq(Object)]
    BY <1>6, <2>1 DEF Link, TypeOK
  <2>3. QED
    BY <1>6, <2>2 DEF Link, TypeOK, Counted, counts, cwds
<1>7. ASSUME NEW r \in Ref, NEW o \in Object \cup {Null}, SetRef(r, o)
      PROVE  TypeOK' /\ Counted'
  BY <1>7 DEF SetRef, TypeOK, Counted, tree, counts, cwds
<1>8. ASSUME NEW o \in Object, SetCwd(o)
      PROVE  TypeOK' /\ Counted'
  BY <1>8 DEF SetCwd, TypeOK, Counted, tree, counts
<1>9. ASSUME NEW o \in Object, PushCwd(o)
      PROVE  TypeOK' /\ Counted'
  <2>1. Append(cwdStack, cwd) \in Seq(Object) /\ Len(Append(cwdStack, cwd)) = Len(cwdStack) + 1
    BY AppendProperties DEF TypeOK
  <2>2. Len(cwdStack) \in Nat
    BY DEF TypeOK
  <2>3. QED
    BY <1>9, <2>1, <2>2, SMTT(30) DEF PushCwd, TypeOK, Counted, tree, counts
<1>10. ASSUME PopCwd
       PROVE  TypeOK' /\ Counted'
  <2>1. /\ Last(cwdStack) \in Object /\ Front(cwdStack) \in Seq(Object)
        /\ Len(Front(cwdStack)) = Len(cwdStack) - 1 /\ Len(cwdStack) \in Nat
    BY <1>10, TopOfStack DEF PopCwd, TypeOK
  <2>2. cwd' \in Object /\ cwdStack' \in Seq(Object) /\ Len(cwdStack') <= MaxCwds
    BY <1>10, <2>1 DEF PopCwd, TypeOK
  <2>3. QED
    BY <1>10, <2>2 DEF PopCwd, TypeOK, Counted, tree, counts
<1>11. ASSUME NEW o \in Object, Release(o)
       PROVE  TypeOK' /\ Counted'
  <2>1. Append(stack, Derived(o)) \in Seq(Destructors)
    BY StackGrows DEF Derived, Destructors
  <2>2. stack' \in Seq([object : Object, part : {"derived", "children"}])
    BY <1>11, <2>1 DEF Release, TypeOK, Destructors
  <2>3. /\ refCount' = [refCount EXCEPT ![o] = @ - 1]
        /\ claims' = [claims EXCEPT ![o] = @ - 1]
        /\ status[o] = "alive" /\ claims[o] > 0 /\ refCount[o] > 0
        /\ refCount[o] \in {claims[o], claims[o] + 1}
        /\ status' = IF refCount[o] = 1 THEN [status EXCEPT ![o] = "dying"] ELSE status
    BY <1>11 DEF Release, TypeOK, Counted
  <2>4. /\ refCount \in [Object -> 0 .. MaxClaims + 1] /\ claims \in [Object -> 0 .. MaxClaims]
        /\ status \in [Object -> {"fresh", "alive", "dying", "freed"}]
        /\ \A x \in Object : (refCount[x] > 0) = (status[x] = "alive")
    BY DEF TypeOK
  <2>5. /\ refCount' \in [Object -> 0 .. MaxClaims + 1] /\ claims' \in [Object -> 0 .. MaxClaims]
        /\ status' \in [Object -> {"fresh", "alive", "dying", "freed"}]
    BY <2>3, <2>4
  <2>6. \A x \in Object : (refCount'[x] > 0) = (status'[x] = "alive")
    BY <2>3, <2>4
  <2>7. Counted'
    BY <2>3, <2>4 DEF Counted
  <2>8. QED
    BY <1>11, <2>2, <2>5, <2>6, <2>7 DEF Release, TypeOK, tree, cwds
<1>12. ASSUME DerivedEnd
       PROVE  TypeOK' /\ Counted'
  <2>1. It \in Object /\ Append(Below, Children(It)) \in Seq(Destructors)
    BY <1>12, TopProperties, TopReplaced DEF DerivedEnd, Children, Destructors
  <2>2. QED
    BY <1>12, <2>1 DEF DerivedEnd, TypeOK, Counted, Destructors, tree, counts
<1>13. ASSUME ReleaseChild
       PROVE  TypeOK' /\ Counted'
  <2> DEFINE c == Head(children[It])
  <2>1. It \in Object
    BY <1>13, TopProperties DEF ReleaseChild
  <2>2. c \in Object
    BY <1>13, <2>1, HeadTailProperties DEF ReleaseChild, TypeOK
  <2>3. Append(stack, Derived(c)) \in Seq(Destructors)
    BY <2>2, StackGrows DEF Derived, Destructors
  <2> HIDE DEF c
  <2>4. /\ refCount' = [refCount EXCEPT ![c] = 0]
        /\ status' = [status EXCEPT ![c] = "dying"]
        /\ stack' = Append(stack, Derived(c))
        /\ UNCHANGED <<tree, claims, target, cwds>>
    BY <1>13 DEF ReleaseChild, c
  <2>5. QED
    BY <2>2, <2>3, <2>4, SMTT(60) DEF TypeOK, Counted, Destructors, tree, cwds
<1>14. ASSUME Free
       PROVE  TypeOK' /\ Counted'
  <2>1. It \in Object /\ Below \in Seq(Destructors)
    BY <1>14, TopProperties DEF Free
  <2>2. Without(It) \in [Object -> Seq(Object)]
    BY <2>1, WithoutProperties
  <2>3. /\ children' = Without(It)
        /\ parent' = [parent EXCEPT ![It] = Null]
        /\ target' = [r \in Ref |-> IF target[r] = It THEN Null ELSE target[r]]
        /\ status' = [status EXCEPT ![It] = "freed"]
        /\ stack' = Below
        /\ UNCHANGED <<counts, cwds>>
    BY <1>14 DEF Free
  <2>4. status[It] # "alive"
    <3>1. status[It] = "dying"
      BY <1>14, TopProperties DEF Free, DyingOnce
    <3>2. QED
      BY <3>1
  <2>5. TypeOK'
    BY <2>1, <2>2, <2>3, <2>4 DEF TypeOK, Destructors, counts, cwds
  <2>6. QED
    BY <2>1, <2>3, <2>5 DEF TypeOK, Counted, counts
<1>15. CASE UNCHANGED vars
  BY <1>15 DEF vars, TypeOK, Counted
<1>16. QED
  BY <1>1, <1>2, <1>3, <1>4, <1>5, <1>6, <1>7, <1>8, <1>9, <1>10, <1>11, <1>12, <1>13, <1>14, <1>15
     DEF Next, Application, Destructor

-----------------------------------------------------------------------------
(* The tree and the safe pointers.                                         *)

(* Steps that leave the tree alone and free nothing.                       *)
Spares == /\ UNCHANGED tree
          /\ \A o \in Object : Exists(o) => Exists(o)'

LEMMA SparingSteps ==
    ASSUME TypeOK, TreeOK, DyingOnce, NEW o \in Object,
           \/ NewUnnamedObject(o) \/ AddRef(o) \/ Release(o)
           \/ SetCwd(o) \/ PushCwd(o) \/ PopCwd
           \/ \E r \in Ref, x \in Object \cup {Null} : SetRef(r, x)
           \/ DerivedEnd \/ ReleaseChild
           \/ UNCHANGED vars
    PROVE  Spares
<1>1. status \in [Object -> Statuses]
  BY DEF TypeOK, Statuses
<1>2. CASE NewUnnamedObject(o) \/ AddRef(o) \/ Release(o)
  BY <1>1, <1>2 DEF NewUnnamedObject, AddRef, Release, Spares, Exists
<1>3. CASE SetCwd(o) \/ PushCwd(o) \/ PopCwd \/ DerivedEnd \/ UNCHANGED vars
  BY <1>3 DEF SetCwd, PushCwd, PopCwd, DerivedEnd, vars, tree, Spares, Exists
<1>4. CASE \E r \in Ref, x \in Object \cup {Null} : SetRef(r, x)
  BY <1>4 DEF SetRef, Spares, Exists
<1>5. CASE ReleaseChild
  BY <1>1, <1>5 DEF ReleaseChild, Spares, Exists
<1>6. QED
  BY <1>2, <1>3, <1>4, <1>5

LEMMA SparedTree == TreeOK /\ Spares => TreeOK'
BY DEF TreeOK, Spares, tree

(* A fresh object is in nobody's list and has nothing below it.            *)
LEMMA FreshIsAlone ==
    ASSUME TypeOK, TreeOK, NEW o \in Object, status[o] = "fresh"
    PROVE  /\ parent[o] = Null
           /\ \A x \in Object : parent[x] # o /\ ~Contains(children[x], o)
<1>1. parent \in [Object -> Object \cup {Null}] /\ ~Exists(o)
  BY DEF TypeOK, Exists
<1>2. \A x \in Object : parent[x] # o
  BY <1>1 DEF TreeOK
<1>3. parent[o] = Null
  BY <1>1 DEF TreeOK
<1>4. QED
  BY <1>2, <1>3, ObjectTreeAssumption DEF TreeOK

LEMMA NewTree ==
    ASSUME TypeOK, TreeOK, NEW o \in Object, NEW p \in Object, New(p, o)
    PROVE  TreeOK'
<1>1. /\ children' = [children EXCEPT ![p] = Append(children[p], o)]
      /\ parent' = [parent EXCEPT ![o] = p]
      /\ status' = [status EXCEPT ![o] = "alive"]
      /\ status[o] = "fresh" /\ Exists(p)
  BY DEF New
<1>2. /\ children \in [Object -> Seq(Object)] /\ parent \in [Object -> Object \cup {Null}]
      /\ status \in [Object -> Statuses]
  BY DEF TypeOK, Statuses
<1>3. parent[o] = Null /\ \A x \in Object : parent[x] # o /\ ~Contains(children[x], o)
  BY <1>1, FreshIsAlone
<1>4. /\ \A x : Contains(Append(children[p], o), x) <=> Contains(children[p], x) \/ x = o
      /\ IsInjective(children[p]) => IsInjective(Append(children[p], o))
  BY <1>2, <1>3, AppendedElement
<1>5. ASSUME NEW q \in Object, NEW x \in Object
      PROVE  /\ Contains(children'[q], x) <=> parent'[x] = q
             /\ IsInjective(children'[q])
             /\ parent'[x] = q => Exists(q)' /\ Exists(x)'
  <2>1. /\ Contains(children[q], x) <=> parent[x] = q
        /\ IsInjective(children[q])
        /\ parent[x] = q => Exists(q) /\ Exists(x)
    BY DEF TreeOK
  <2>2. Exists(q) => Exists(q)'
    BY <1>1, <1>2 DEF Exists
  <2>3. Exists(x) => Exists(x)'
    BY <1>1, <1>2 DEF Exists
  <2>4. Exists(o)'
    BY <1>1, <1>2, ObjectTreeAssumption DEF Exists
  <2>5. children'[q] = IF q = p THEN Append(children[p], o) ELSE children[q]
    BY <1>1, <1>2
  <2>6. parent'[x] = IF x = o THEN p ELSE parent[x]
    BY <1>1, <1>2
  <2>7. QED
    BY <1>1, <1>3, <1>4, <2>1, <2>2, <2>3, <2>4, <2>5, <2>6
<1>6. QED
  BY <1>5 DEF TreeOK

LEMMA NewPathTree ==
    ASSUME TypeOK, TreeOK, NEW o \in Object, NEW p \in Object, NEW d \in Object, NewPath(p, d, o)
    PROVE  TreeOK'
<1>1. /\ children' = [children EXCEPT ![p] = Append(children[p], d), ![d] = <<o>>]
      /\ parent' = [parent EXCEPT ![d] = p, ![o] = d]
      /\ status' = [status EXCEPT ![d] = "alive", ![o] = "alive"]
      /\ status[o] = "fresh" /\ status[d] = "fresh" /\ Exists(p) /\ d # o /\ d # p /\ o # p
  BY DEF NewPath, Exists
<1>2. /\ children \in [Object -> Seq(Object)] /\ parent \in [Object -> Object \cup {Null}]
      /\ status \in [Object -> Statuses]
  BY DEF TypeOK, Statuses
<1>3. /\ parent[o] = Null /\ \A x \in Object : parent[x] # o /\ ~Contains(children[x], o)
      /\ parent[d] = Null /\ \A x \in Object : parent[x] # d /\ ~Contains(children[x], d)
  BY <1>1, FreshIsAlone
<1>4. /\ \A x : Contains(Append(children[p], d), x) <=> Contains(children[p], x) \/ x = d
      /\ IsInjective(children[p]) => IsInjective(Append(children[p], d))
  BY <1>2, <1>3, AppendedElement
<1>5. (\A x : Contains(<<o>>, x) <=> x = o) /\ IsInjective(<<o>>)
  BY DEF Contains, IsInjective
<1>6. ASSUME NEW q \in Object, NEW x \in Object
      PROVE  /\ Contains(children'[q], x) <=> parent'[x] = q
             /\ IsInjective(children'[q])
             /\ parent'[x] = q => Exists(q)' /\ Exists(x)'
  <2>1. /\ Contains(children[q], x) <=> parent[x] = q
        /\ IsInjective(children[q])
        /\ parent[x] = q => Exists(q) /\ Exists(x)
    BY DEF TreeOK
  <2>2. (Exists(q) => Exists(q)') /\ (Exists(x) => Exists(x)')
    BY <1>1, <1>2 DEF Exists
  <2>3. Exists(o)' /\ Exists(d)'
    BY <1>1, <1>2, ObjectTreeAssumption DEF Exists
  <2>4. /\ q = d => children'[q] = <<o>>
        /\ q = p => children'[q] = Append(children[p], d)
        /\ q # d /\ q # p => children'[q] = children[q]
    BY <1>1, <1>2
  <2>5. /\ x = o => parent'[x] = d
        /\ x = d => parent'[x] = p
        /\ x # o /\ x # d => parent'[x] = parent[x]
    BY <1>1, <1>2
  <2>6. CASE q = d
    BY <1>1, <1>3, <1>5, <2>3, <2>4, <2>5, <2>6
  <2>7. CASE q = p
    BY <1>1, <1>3, <1>4, <2>1, <2>2, <2>3, <2>4, <2>5, <2>7
  <2>8. CASE q # d /\ q # p
    BY <1>1, <1>3, <2>1, <2>2, <2>3, <2>4, <2>5, <2>8
  <2>9. QED
    BY <2>6, <2>7, <2>8
<1>7. QED
  BY <1>6 DEF TreeOK

LEMMA UnlinkTree ==
    ASSUME TypeOK, TreeOK, NEW o \in Object, Unlink(o)
    PROVE  TreeOK'
<1>1. children' = Without(o) /\ parent' = [parent EXCEPT ![o] = Null] /\ status' = status
  BY DEF Unlink
<1>2. parent \in [Object -> Object \cup {Null}]
  BY DEF TypeOK
<1>3. \A p, x \in Object :
        /\ Contains(children'[p], x) <=> parent[x] = p /\ x # o
        /\ IsInjective(children'[p])
  BY <1>1, WithoutProperties
<1>4. QED
  BY <1>1, <1>2, <1>3, ObjectTreeAssumption DEF TreeOK, Exists

LEMMA LinkTree ==
    ASSUME TypeOK, TreeOK, NEW o \in Object, NEW p \in Object, Link(p, o)
    PROVE  TreeOK'
<1>1. /\ parent' = [parent EXCEPT ![o] = p] /\ status' = status
      /\ Exists(p) /\ status[o] = "alive" /\ parent[o] = Null
  BY DEF Link
<1>2. /\ children \in [Object -> Seq(Object)] /\ parent \in [Object -> Object \cup {Null}]
      /\ status \in [Object -> Statuses]
  BY DEF TypeOK, Statuses
<1>3. \A q \in Object : IsInjective(children[q]) /\ ~Contains(children[q], o)
  BY <1>1, ObjectTreeAssumption DEF TreeOK
<1>4. PICK new : /\ children' = [children EXCEPT ![p] = new]
                 /\ new = Append(children[p], o) \/ new = <<o>> \o children[p]
  BY DEF Link
<1>5. /\ \A x : Contains(new, x) <=> Contains(children[p], x) \/ x = o
      /\ IsInjective(new)
  <2>1. children[p] \in Seq(Object)
    BY <1>2
  <2>2. CASE new = Append(children[p], o)
    BY <1>3, <2>1, <2>2, AppendedElement
  <2>3. CASE new = <<o>> \o children[p]
    BY <1>3, <2>1, <2>3, PrependedElement
  <2>4. QED
    BY <1>4, <2>2, <2>3
<1>6. ASSUME NEW q \in Object, NEW x \in Object
      PROVE  /\ Contains(children'[q], x) <=> parent'[x] = q
             /\ IsInjective(children'[q])
             /\ parent'[x] = q => Exists(q)' /\ Exists(x)'
  <2>1. /\ Contains(children[q], x) <=> parent[x] = q
        /\ parent[x] = q => Exists(q) /\ Exists(x)
    BY DEF TreeOK
  <2>2. \A y \in Object : Exists(y) <=> Exists(y)'
    BY <1>1 DEF Exists
  <2>3. Exists(o)
    BY <1>1, ObjectTreeAssumption DEF Exists
  <2>4. /\ children'[q] = IF q = p THEN new ELSE children[q]
        /\ parent'[x] = IF x = o THEN p ELSE parent[x]
    BY <1>1, <1>2, <1>4
  <2>5. QED
    BY <1>1, <1>3, <1>5, <2>1, <2>2, <2>3, <2>4, ObjectTreeAssumption
<1>7. QED
  BY <1>6 DEF TreeOK

LEMMA FreeTree ==
    ASSUME TypeOK, TreeOK, Free
    PROVE  TreeOK'
<1> DEFINE o == It
<1>1. o \in Object
  BY TopProperties DEF Free
<1>2. /\ children' = Without(o) /\ parent' = [parent EXCEPT ![o] = Null]
      /\ status' = [status EXCEPT ![o] = "freed"] /\ children[o] = <<>>
  BY DEF Free
<1>3. /\ parent \in [Object -> Object \cup {Null}] /\ status \in [Object -> Statuses]
  BY DEF TypeOK, Statuses
<1>4. \A p, x \in Object :
        /\ Contains(children'[p], x) <=> parent[x] = p /\ x # o
        /\ IsInjective(children'[p])
  BY <1>1, <1>2, WithoutProperties
<1>5. \A x \in Object : parent[x] # o
  <2>1. \A x : ~Contains(children[o], x)
    BY <1>2 DEF Contains
  <2>2. QED
    BY <1>1, <2>1 DEF TreeOK
<1> HIDE DEF o
<1>6. \A x \in Object : x # o /\ Exists(x) => Exists(x)'
  BY <1>1, <1>2, <1>3 DEF Exists
<1>7. QED
  BY <1>1, <1>2, <1>3, <1>4, <1>5, <1>6, ObjectTreeAssumption DEF TreeOK

LEMMA TreeStep ==
    ASSUME TypeOK, TreeOK, DyingOnce, [Next]_vars
    PROVE  TreeOK'
BY SparingSteps, SparedTree, NewTree, NewPathTree, UnlinkTree, LinkTree, FreeTree, ObjectTreeAssumption
   DEF Next, Application, Destructor

LEMMA RefsStep ==
    ASSUME TypeOK, TreeOK, DyingOnce, RefsExist, [Next]_vars
    PROVE  RefsExist'
<1>1. target \in [Ref -> Object \cup {Null}] /\ status \in [Object -> Statuses]
  BY DEF TypeOK, Statuses
<1>2. ASSUME Spares, UNCHANGED target
      PROVE  RefsExist'
  BY <1>1, <1>2 DEF RefsExist, Spares
<1>3. ASSUME NEW r \in Ref, NEW o \in Object \cup {Null}, SetRef(r, o)
      PROVE  RefsExist'
  <2>1. target' = [target EXCEPT ![r] = o] /\ status' = status /\ (o = Null \/ Exists(o))
    BY <1>3 DEF SetRef
  <2>2. \A x : Exists(x) <=> Exists(x)'
    BY <2>1 DEF Exists
  <2>3. QED
    BY <1>1, <2>1, <2>2 DEF RefsExist
<1>4. ASSUME NEW o \in Object, NEW p \in Object,
             New(p, o) \/ (\E d \in Object : NewPath(p, d, o)) \/ Unlink(o) \/ Link(p, o)
      PROVE  RefsExist'
  <2>1. target' = target /\ \A x \in Object : Exists(x) => Exists(x)'
    BY <1>1, <1>4 DEF New, NewPath, Unlink, Link, Exists
  <2>2. QED
    BY <1>1, <2>1 DEF RefsExist
<1>5. ASSUME Free
      PROVE  RefsExist'
  <2>1. /\ target' = [r \in Ref |-> IF target[r] = It THEN Null ELSE target[r]]
        /\ status' = [status EXCEPT ![It] = "freed"]
    BY <1>5 DEF Free
  <2>2. \A x \in Object : x # It /\ Exists(x) => Exists(x)'
    BY <1>1, <2>1 DEF Exists
  <2>3. QED
    BY <1>1, <2>1, <2>2 DEF RefsExist
<1>6. ASSUME NEW o \in Object,
             \/ NewUnnamedObject(o) \/ AddRef(o) \/ Release(o)
             \/ SetCwd(o) \/ PushCwd(o) \/ PopCwd
             \/ DerivedEnd \/ ReleaseChild \/ UNCHANGED vars
      PROVE  RefsExist'
  <2>1. UNCHANGED target
    BY <1>6 DEF NewUnnamedObject, AddRef, Release, SetCwd, PushCwd, PopCwd, DerivedEnd,
                ReleaseChild, vars
  <2>2. Spares
    BY <1>6, SparingSteps
  <2>3. QED
    BY <1>2, <2>1, <2>2
<1>7. QED
  BY <1>3, <1>4, <1>5, <1>6, ObjectTreeAssumption DEF Next, Application, Destructor

-----------------------------------------------------------------------------
(* Cycles and the order of the destructors.                                *)

LEMMA UnlinkAcyclic ==
    ASSUME NEW par \in Parents, AcyclicIn(par), NEW o \in Object
    PROVE  AcyclicIn([par EXCEPT ![o] = Null])
<1> DEFINE new == [par EXCEPT ![o] = Null]
<1>1. \A x \in Object : new[x] = par[x] \/ new[x] = Null
  BY DEF Parents
<1>2. ASSUME NEW x \in Object, new[x] # Null
      PROVE  x \notin AboveIn(new[x], new)
  <2>1. par[x] \in Object /\ new[x] = par[x]
    BY <1>1, <1>2 DEF Parents
  <2>2. x \notin AboveIn(par[x], par)
    BY <1>2, <2>1 DEF AcyclicIn
  <2> HIDE DEF new
  <2>3. \A y \in AboveIn(par[x], par) : new[y] = par[y] \/ new[y] = Null
    BY <1>1, <2>1, AboveClosed
  <2>4. AboveIn(par[x], new) \subseteq AboveIn(par[x], par)
    BY <2>1, <2>3, AboveKept
  <2>5. QED
    BY <2>1, <2>2, <2>4
<1>3. QED
  BY <1>2 DEF AcyclicIn

LEMMA LinkAcyclic ==
    ASSUME NEW par \in Parents, AcyclicIn(par), NEW o \in Object, NEW p \in Object,
           o \notin AboveIn(p, par)
    PROVE  AcyclicIn([par EXCEPT ![o] = p])
<1> DEFINE new == [par EXCEPT ![o] = p]
<1>1. new[o] = p /\ \A x \in Object : x # o => new[x] = par[x]
  BY DEF Parents
<1>2. ASSUME NEW x \in Object
      PROVE  /\ o \notin AboveIn(x, par) => AboveIn(x, new) \subseteq AboveIn(x, par)
             /\ AboveIn(x, new) \subseteq AboveIn(x, par) \cup AboveIn(p, par)
  BY AboveLinked
<1> HIDE DEF new
<1>3. ASSUME NEW x \in Object, new[x] # Null
      PROVE  x \notin AboveIn(new[x], new)
  <2>1. CASE x = o
    BY <1>1, <1>2, <2>1
  <2>2. CASE x # o
    <3>1. new[x] = par[x] /\ par[x] \in Object /\ par[x] # Null
      BY <1>1, <1>3, <2>2 DEF Parents
    <3>2. x \notin AboveIn(par[x], par)
      BY <3>1 DEF AcyclicIn
    <3>3. CASE o \notin AboveIn(par[x], par)
      BY <1>2, <3>1, <3>2, <3>3
    <3>4. CASE o \in AboveIn(par[x], par)
      <4>1. ASSUME x \in AboveIn(p, par)
            PROVE  FALSE
        <5>1. par[x] \in AboveIn(p, par)
          BY <3>1, <4>1, AboveClosed
        <5>2. AboveIn(par[x], par) \subseteq AboveIn(p, par)
          BY <5>1, AboveTransitive
        <5>3. QED
          BY <3>4, <5>2
      <4>2. QED
        BY <1>2, <3>1, <3>2, <4>1
    <3>5. QED
      BY <3>3, <3>4
  <2>3. QED
    BY <2>1, <2>2
<1>4. QED
  BY <1>3 DEF AcyclicIn, new

(* No step puts an object below itself.                                    *)
LEMMA AcyclicStep ==
    ASSUME TypeOK, TreeOK, Acyclic, [Next]_vars
    PROVE  Acyclic'
<1>1. parent \in Parents /\ Null \notin Object /\ AcyclicIn(parent)
  BY ObjectTreeAssumption DEF TypeOK, Parents, Acyclic
<1>2. CASE UNCHANGED parent
  BY <1>2 DEF Acyclic, AcyclicIn, AboveIn, Closed
<1>3. ASSUME NEW o \in Object, parent' = [parent EXCEPT ![o] = Null]
      PROVE  Acyclic'
  <2>1. AcyclicIn(parent')
    BY <1>1, <1>3, UnlinkAcyclic
  <2>2. QED
    BY <2>1 DEF Acyclic
<1>4. ASSUME NEW o \in Object, NEW p \in Object, Link(p, o)
      PROVE  Acyclic'
  <2>1. parent' = [parent EXCEPT ![o] = p] /\ o \notin AboveIn(p, parent)
    BY <1>4 DEF Link, Above
  <2>2. AcyclicIn(parent')
    BY <1>1, <2>1, LinkAcyclic
  <2>3. QED
    BY <2>2 DEF Acyclic
<1>5. ASSUME NEW o \in Object, NEW p \in Object, New(p, o)
      PROVE  Acyclic'
  <2>1. parent' = [parent EXCEPT ![o] = p] /\ status[o] = "fresh" /\ p # o
    BY <1>5 DEF New, Exists
  <2>2. o \notin AboveIn(p, parent)
    BY <1>1, <2>1, FreshIsAlone, AboveUnused
  <2>3. AcyclicIn(parent')
    BY <1>1, <2>1, <2>2, LinkAcyclic
  <2>4. QED
    BY <2>3 DEF Acyclic
<1>6. ASSUME NEW o \in Object, NEW p \in Object, NEW d \in Object, NewPath(p, d, o)
      PROVE  Acyclic'
  <2> DEFINE mid == [parent EXCEPT ![d] = p]
  <2>1. /\ parent' = [mid EXCEPT ![o] = d]
        /\ status[o] = "fresh" /\ status[d] = "fresh" /\ p # o /\ p # d /\ d # o
    BY <1>6 DEF NewPath, Exists
  <2>2. d \notin AboveIn(p, parent)
    BY <1>1, <2>1, FreshIsAlone, AboveUnused
  <2>3. mid \in Parents /\ AcyclicIn(mid)
    BY <1>1, <2>2, LinkAcyclic DEF Parents
  <2>4. \A y \in Object : mid[y] # o
    BY <1>1, <2>1, FreshIsAlone DEF Parents
  <2> HIDE DEF mid
  <2>5. o \notin AboveIn(d, mid)
    BY <2>1, <2>3, <2>4, AboveUnused
  <2>6. AcyclicIn(parent')
    BY <2>1, <2>3, <2>5, LinkAcyclic
  <2>7. QED
    BY <2>6 DEF Acyclic
<1>7. ASSUME NEW o \in Object, Unlink(o)
      PROVE  Acyclic'
  BY <1>3, <1>7 DEF Unlink
<1>8. ASSUME Free
      PROVE  Acyclic'
  <2>1. It \in Object
    BY <1>8, TopProperties DEF Free
  <2>2. QED
    BY <1>3, <1>8, <2>1 DEF Free
<1>9. ASSUME NEW o \in Object,
             \/ NewUnnamedObject(o) \/ AddRef(o) \/ Release(o)
             \/ SetCwd(o) \/ PushCwd(o) \/ PopCwd
             \/ \E r \in Ref, x \in Object \cup {Null} : SetRef(r, x)
             \/ DerivedEnd \/ ReleaseChild
             \/ UNCHANGED vars
      PROVE  UNCHANGED parent
  BY <1>9 DEF NewUnnamedObject, AddRef, Release, SetCwd, PushCwd, PopCwd, SetRef, DerivedEnd,
              ReleaseChild, vars, tree
<1>10. QED
  BY <1>2, <1>4, <1>5, <1>6, <1>7, <1>8, <1>9, ObjectTreeAssumption DEF Next, Application, Destructor

StackInv == DyingOnce /\ DyingAreUnderWay /\ InnerFirst

LEMMA OnStack ==
    ASSUME TypeOK, NEW k \in DOMAIN stack
    PROVE  stack[k].object \in Object /\ k \in Nat
<1>1. stack \in Seq(Destructors) /\ DOMAIN stack = 1 .. Len(stack) /\ Len(stack) \in Nat
  BY DEF TypeOK, Destructors
<1>2. stack[k] \in Destructors /\ k \in Nat
  BY <1>1, ElementOfSeq
<1>3. QED
  BY <1>2 DEF Destructors

(* Steps of the application that start no destructor.                      *)
LEMMA SameStack ==
    ASSUME TypeOK, StackInv, DOMAIN stack' = DOMAIN stack,
           \A k \in DOMAIN stack :
              /\ stack'[k].object = stack[k].object
              /\ status'[stack[k].object] = "dying"
              /\ AboveIn(stack[k].object, parent') \subseteq AboveIn(stack[k].object, parent),
           \A o \in Object : status'[o] = "dying" => status[o] = "dying"
    PROVE  StackInv'
<1>1. DyingOnce'
  BY DEF StackInv, DyingOnce
<1>2. DyingAreUnderWay'
  BY DEF StackInv, DyingAreUnderWay
<1>3. InnerFirst'
  BY DEF StackInv, InnerFirst, Above
<1>4. QED
  BY <1>1, <1>2, <1>3 DEF StackInv

(* A destructor starts, of an object above none whose destructor runs.     *)
LEMMA OneMore ==
    ASSUME TypeOK, StackInv, NEW o \in Object, Quiet(o),
           stack' = Append(stack, Derived(o)), status' = [status EXCEPT ![o] = "dying"],
           UNCHANGED parent
    PROVE  StackInv'
<1> DEFINE n == Len(stack)
<1>1. /\ n \in Nat /\ DOMAIN stack = 1 .. n /\ DOMAIN stack' = 1 .. n + 1
      /\ \A k \in 1 .. n : stack'[k] = stack[k]
      /\ stack'[n + 1].object = o
  BY StackGrows DEF Derived, Destructors
<1>2. \A k \in 1 .. n : stack[k].object \in Object /\ o \notin AboveIn(stack[k].object, parent)
  BY <1>1, OnStack DEF Quiet, Above
<1>3. \A k \in 1 .. n : stack[k].object # o
  BY <1>2, AboveClosed DEF TypeOK, Parents
<1>4. status \in [Object -> Statuses]
  BY DEF TypeOK, Statuses
<1> HIDE DEF n
<1>5. \A k \in 1 .. n + 1 : k \in 1 .. n \/ k = n + 1
  BY <1>1
<1>6. DyingOnce'
  <2>1. /\ \A k \in 1 .. n : status[stack[k].object] = "dying"
        /\ \A j, k \in 1 .. n : stack[j].object = stack[k].object => j = k
    BY <1>1 DEF StackInv, DyingOnce
  <2>2. ASSUME NEW j \in 1 .. n + 1, NEW k \in 1 .. n + 1
        PROVE  /\ status'[stack'[k].object] = "dying"
               /\ stack'[j].object = stack'[k].object => j = k
    <3>1. status'[o] = "dying" /\ \A x \in Object : status[x] = "dying" => status'[x] = "dying"
      BY <1>4
    <3>2. status'[stack'[k].object] = "dying"
      BY <1>1, <1>2, <1>5, <2>1, <3>1
    <3>3. CASE j \in 1 .. n /\ k \in 1 .. n
      <4>1. stack'[j] = stack[j] /\ stack'[k] = stack[k]
        BY <1>1, <3>3
      <4>2. QED
        BY <2>1, <3>2, <3>3, <4>1
    <3>4. CASE j = n + 1 /\ k = n + 1
      BY <3>2, <3>4
    <3>5. CASE j = n + 1 /\ k \in 1 .. n
      BY <1>1, <1>3, <3>2, <3>5
    <3>6. CASE j \in 1 .. n /\ k = n + 1
      BY <1>1, <1>3, <3>2, <3>6
    <3>7. QED
      BY <1>5, <3>3, <3>4, <3>5, <3>6
  <2>3. QED
    BY <1>1, <2>2 DEF DyingOnce
<1>7. DyingAreUnderWay'
  <2>1. ASSUME NEW x \in Object, status'[x] = "dying"
        PROVE  \E k \in 1 .. n + 1 : stack'[k].object = x
    <3>1. CASE x = o
      BY <1>1, <3>1
    <3>2. CASE x # o
      <4>1. PICK k \in 1 .. n : stack[k].object = x
        BY <1>1, <1>4, <2>1, <3>2 DEF StackInv, DyingAreUnderWay
      <4>2. k \in 1 .. n + 1 /\ stack'[k].object = x
        BY <1>1, <4>1
      <4>3. QED
        BY <4>2
    <3>3. QED
      BY <3>1, <3>2
  <2>2. QED
    BY <1>1, <2>1 DEF DyingAreUnderWay
<1>8. InnerFirst'
  <2>1. ASSUME NEW j \in 1 .. n + 1, NEW k \in 1 .. n + 1, j < k
        PROVE  stack'[k].object \notin AboveIn(stack'[j].object, parent)
    <3>1. j \in 1 .. n
      BY <1>1, <2>1
    <3>2. CASE k = n + 1
      BY <1>1, <1>2, <3>1, <3>2
    <3>3. CASE k \in 1 .. n
      BY <1>1, <2>1, <3>1, <3>3 DEF StackInv, InnerFirst, Above
    <3>4. QED
      BY <1>5, <3>2, <3>3
  <2>2. QED
    BY <1>1, <2>1 DEF InnerFirst, Above
<1>9. QED
  BY <1>6, <1>7, <1>8 DEF StackInv

(* The child that a destructor releases is not being destroyed.            *)
LEMMA ChildIsQuiet ==
    ASSUME TypeOK, TreeOK, Acyclic, StackInv, ReleaseChild
    PROVE  Head(children[It]) \in Object /\ Quiet(Head(children[It]))
<1> DEFINE c == Head(children[It])
           n == Len(stack)
<1>1. /\ It \in Object /\ stack[n].object = It /\ n \in Nat \ {0} /\ DOMAIN stack = 1 .. n
      /\ children[It] # <<>>
  BY TopProperties DEF ReleaseChild
<1>2. c \in Object /\ Contains(children[It], c)
  <2>1. children[It] \in Seq(Object)
    BY <1>1 DEF TypeOK
  <2>2. Len(children[It]) \in Nat \ {0} /\ c = children[It][1] /\ c \in Object
    BY <1>1, <2>1, EmptySeq, HeadTailProperties
  <2>3. 1 \in 1 .. Len(children[It])
    BY <2>2
  <2>4. QED
    BY <2>2, <2>3 DEF Contains
<1> HIDE DEF c, n
<1>3. parent[c] = It /\ parent \in Parents
  BY <1>1, <1>2 DEF TreeOK, TypeOK, Parents
<1>4. ASSUME NEW k \in 1 .. n, c \in AboveIn(stack[k].object, parent)
      PROVE  FALSE
  <2>1. stack[k].object \in Object
    BY <1>1, OnStack
  <2>2. It \in AboveIn(stack[k].object, parent)
    BY <1>1, <1>3, <1>4, <2>1, AboveClosed, ObjectTreeAssumption
  <2>3. CASE k = n
    BY <1>1, <1>2, <1>3, <1>4, <2>3, ObjectTreeAssumption DEF Acyclic, AcyclicIn
  <2>4. CASE k < n
    BY <1>1, <2>2, <2>4 DEF StackInv, InnerFirst, Above
  <2>5. QED
    BY <1>1, <2>3, <2>4
<1>5. QED
  BY <1>1, <1>2, <1>4 DEF Quiet, Above, c

(* The innermost destructor ends.                                          *)
LEMMA FreeStack ==
    ASSUME TypeOK, StackInv, Free
    PROVE  StackInv'
<1> DEFINE n == Len(stack)
           o == It
<1>1. /\ n \in Nat \ {0} /\ DOMAIN stack = 1 .. n /\ o \in Object /\ stack[n].object = o
      /\ DOMAIN stack' = 1 .. n - 1 /\ \A k \in 1 .. n - 1 : stack'[k] = stack[k]
  BY TopProperties DEF Free
<1>2. /\ status' = [status EXCEPT ![o] = "freed"] /\ parent' = [parent EXCEPT ![o] = Null]
      /\ status \in [Object -> Statuses] /\ parent \in Parents
  BY DEF Free, TypeOK, Statuses, Parents
<1> HIDE DEF n, o
<1>3. /\ \A k \in 1 .. n : status[stack[k].object] = "dying"
      /\ \A j, k \in 1 .. n : stack[j].object = stack[k].object => j = k
  BY <1>1 DEF StackInv, DyingOnce
<1>4. \A k \in 1 .. n : stack[k].object \in Object
  BY <1>1, OnStack
<1>5. \A k \in 1 .. n - 1 : k \in 1 .. n /\ k # n /\ stack[k].object # o
  <2>1. ASSUME NEW k \in 1 .. n - 1
        PROVE  k \in 1 .. n /\ k # n /\ n \in 1 .. n
    BY <1>1
  <2>2. QED
    BY <1>1, <1>3, <2>1
<1>6. DyingOnce'
  <2>1. ASSUME NEW j \in 1 .. n - 1, NEW k \in 1 .. n - 1
        PROVE  /\ status'[stack'[k].object] = "dying"
               /\ stack'[j].object = stack'[k].object => j = k
    <3>1. stack'[k] = stack[k] /\ stack'[j] = stack[j] /\ j \in 1 .. n /\ k \in 1 .. n
      BY <1>1, <1>5
    <3>2. stack[k].object \in Object /\ stack[k].object # o /\ status[stack[k].object] = "dying"
      BY <1>3, <1>4, <1>5, <3>1
    <3>3. QED
      BY <1>2, <1>3, <3>1, <3>2
  <2>2. QED
    BY <1>1, <2>1 DEF DyingOnce
<1>7. DyingAreUnderWay'
  <2>1. ASSUME NEW x \in Object, status'[x] = "dying"
        PROVE  \E k \in 1 .. n - 1 : stack'[k].object = x
    <3>1. x # o /\ status[x] = "dying"
      BY <1>1, <1>2, <2>1
    <3>2. PICK k \in 1 .. n : stack[k].object = x
      BY <1>1, <3>1 DEF StackInv, DyingAreUnderWay
    <3>3. k \in 1 .. n - 1
      BY <1>1, <3>1, <3>2
    <3>4. QED
      BY <1>1, <3>2, <3>3
  <2>2. QED
    BY <1>1, <2>1 DEF DyingAreUnderWay
<1>8. InnerFirst'
  <2>1. \A x \in Object : AboveIn(x, parent') \subseteq AboveIn(x, parent)
    <3>1. ASSUME NEW x \in Object
          PROVE  \A y \in AboveIn(x, parent) : parent'[y] = parent[y] \/ parent'[y] = Null
      BY <1>2, AboveClosed DEF Parents
    <3>2. QED
      BY <1>2, <3>1, AboveKept
  <2>2. ASSUME NEW j \in 1 .. n - 1, NEW k \in 1 .. n - 1, j < k
        PROVE  stack'[k].object \notin AboveIn(stack'[j].object, parent')
    BY <1>1, <1>4, <1>5, <2>1, <2>2 DEF StackInv, InnerFirst, Above
  <2>3. QED
    BY <1>1, <2>2 DEF InnerFirst, Above
<1>9. QED
  BY <1>6, <1>7, <1>8 DEF StackInv

(* Moving an object that has a dying one below it.                         *)
LEMMA LinkStack ==
    ASSUME TypeOK, StackInv, NEW o \in Object, NEW p \in Object, Link(p, o)
    PROVE  StackInv'
<1>1. /\ UNCHANGED <<stack, status>> /\ parent' = [parent EXCEPT ![o] = p]
      /\ parent \in Parents /\ o \notin AboveIn(p, parent)
      /\ \A j, k \in DOMAIN stack :
            j < k /\ o \in Above(stack[j].object) => stack[k].object \notin Above(p)
  BY DEF Link, TypeOK, Parents, Above
<1>2. DyingOnce' /\ DyingAreUnderWay'
  BY <1>1 DEF StackInv, DyingOnce, DyingAreUnderWay
<1>3. ASSUME NEW j \in DOMAIN stack, NEW k \in DOMAIN stack, j < k
      PROVE  stack[k].object \notin AboveIn(stack[j].object, parent')
  <2>1. stack[j].object \in Object
    BY OnStack
  <2>2. stack[k].object \notin AboveIn(stack[j].object, parent)
    BY <1>3 DEF StackInv, InnerFirst, Above
  <2>3. CASE o \notin AboveIn(stack[j].object, parent)
    BY <1>1, <2>1, <2>2, <2>3, AboveLinked
  <2>4. CASE o \in AboveIn(stack[j].object, parent)
    <3>1. stack[k].object \notin AboveIn(p, parent)
      BY <1>1, <1>3, <2>4 DEF Above
    <3>2. AboveIn(stack[j].object, parent')
             \subseteq AboveIn(stack[j].object, parent) \cup AboveIn(p, parent)
      BY <1>1, <2>1, AboveLinked
    <3>3. QED
      BY <2>2, <3>1, <3>2
  <2>5. QED
    BY <2>3, <2>4
<1>4. InnerFirst'
  BY <1>1, <1>3 DEF InnerFirst, Above
<1>5. QED
  BY <1>2, <1>4 DEF StackInv

LEMMA StackStep ==
    ASSUME TypeOK, TreeOK, Acyclic, StackInv, [Next]_vars
    PROVE  StackInv'
<1>1. status \in [Object -> Statuses] /\ parent \in Parents
  BY DEF TypeOK, Statuses, Parents
<1>2. \A k \in DOMAIN stack : stack[k].object \in Object /\ status[stack[k].object] = "dying"
  BY OnStack DEF StackInv, DyingOnce
<1>3. ASSUME UNCHANGED <<stack, parent, status>>
      PROVE  StackInv'
  BY <1>3 DEF StackInv, DyingOnce, DyingAreUnderWay, InnerFirst, Above
<1>4. ASSUME NEW o \in Object, NewUnnamedObject(o)
      PROVE  StackInv'
  <2>1. UNCHANGED <<stack, parent>> /\ status' = [status EXCEPT ![o] = "alive"] /\ status[o] = "fresh"
    BY <1>4 DEF NewUnnamedObject, tree
  <2>2. \A x \in Object : status'[x] = "dying" <=> status[x] = "dying"
    BY <1>1, <2>1
  <2>3. QED
    BY <1>2, <2>1, <2>2, SameStack
<1>5. ASSUME NEW o \in Object, NEW p \in Object, New(p, o)
      PROVE  StackInv'
  <2>1. /\ UNCHANGED stack /\ status' = [status EXCEPT ![o] = "alive"] /\ status[o] = "fresh"
        /\ parent' = [parent EXCEPT ![o] = p]
    BY <1>5 DEF New
  <2>2. \A x \in Object : status'[x] = "dying" <=> status[x] = "dying"
    BY <1>1, <2>1
  <2>3. ASSUME NEW k \in DOMAIN stack
        PROVE  AboveIn(stack[k].object, parent') \subseteq AboveIn(stack[k].object, parent)
    <3>1. o \notin AboveIn(stack[k].object, parent)
      BY <1>1, <1>2, <2>1, FreshIsAlone, AboveUnused
    <3>2. \A x \in AboveIn(stack[k].object, parent) : parent'[x] = parent[x]
      BY <1>1, <1>2, <2>1, <3>1, AboveClosed DEF Parents
    <3>3. QED
      BY <1>1, <1>2, <3>2, AboveKept
  <2>4. QED
    BY <1>2, <2>1, <2>2, <2>3, SameStack
<1>6. ASSUME NEW o \in Object, NEW p \in Object, NEW d \in Object, NewPath(p, d, o)
      PROVE  StackInv'
  <2>1. /\ UNCHANGED stack /\ status' = [status EXCEPT ![d] = "alive", ![o] = "alive"]
        /\ status[o] = "fresh" /\ status[d] = "fresh"
        /\ parent' = [parent EXCEPT ![d] = p, ![o] = d]
    BY <1>6 DEF NewPath
  <2>2. \A x \in Object : status'[x] = "dying" <=> status[x] = "dying"
    BY <1>1, <2>1
  <2>3. ASSUME NEW k \in DOMAIN stack
        PROVE  AboveIn(stack[k].object, parent') \subseteq AboveIn(stack[k].object, parent)
    <3>1. /\ o \notin AboveIn(stack[k].object, parent)
          /\ d \notin AboveIn(stack[k].object, parent)
      BY <1>1, <1>2, <2>1, FreshIsAlone, AboveUnused
    <3>2. \A x \in AboveIn(stack[k].object, parent) : parent'[x] = parent[x]
      BY <1>1, <1>2, <2>1, <3>1, AboveClosed DEF Parents
    <3>3. QED
      BY <1>1, <1>2, <3>2, AboveKept
  <2>4. QED
    BY <1>2, <2>1, <2>2, <2>3, SameStack
<1>7. ASSUME NEW o \in Object, Unlink(o)
      PROVE  StackInv'
  <2>1. UNCHANGED <<stack, status>> /\ parent' = [parent EXCEPT ![o] = Null]
    BY <1>7 DEF Unlink
  <2>2. ASSUME NEW k \in DOMAIN stack
        PROVE  AboveIn(stack[k].object, parent') \subseteq AboveIn(stack[k].object, parent)
    <3>1. \A x \in AboveIn(stack[k].object, parent) : parent'[x] = parent[x] \/ parent'[x] = Null
      BY <1>1, <1>2, <2>1, AboveClosed DEF Parents
    <3>2. QED
      BY <1>1, <1>2, <3>1, AboveKept
  <2>3. QED
    BY <1>2, <2>1, <2>2, SameStack
<1>8. ASSUME NEW o \in Object, Release(o)
      PROVE  StackInv'
  <2>1. CASE refCount[o] = 1
    <3>1. /\ Quiet(o) /\ stack' = Append(stack, Derived(o))
          /\ status' = [status EXCEPT ![o] = "dying"] /\ UNCHANGED parent
      BY <1>8, <2>1 DEF Release, tree
    <3>2. QED
      BY <3>1, OneMore
  <2>2. CASE refCount[o] # 1
    BY <1>3, <1>8, <2>2 DEF Release, tree
  <2>3. QED
    BY <2>1, <2>2
<1>9. ASSUME ReleaseChild
      PROVE  StackInv'
  <2> DEFINE c == Head(children[It])
  <2>1. /\ c \in Object /\ Quiet(c) /\ stack' = Append(stack, Derived(c))
        /\ status' = [status EXCEPT ![c] = "dying"] /\ UNCHANGED parent
    BY <1>9, ChildIsQuiet DEF ReleaseChild, tree
  <2>2. QED
    BY <2>1, OneMore
<1>10. ASSUME DerivedEnd
       PROVE  StackInv'
  <2> DEFINE n == Len(stack)
  <2>1. /\ UNCHANGED <<status, parent>> /\ It \in Object /\ stack' = Append(Below, Children(It))
        /\ Top("derived")
    BY <1>10, TopProperties DEF DerivedEnd, tree
  <2>2. DOMAIN stack = 1 .. n /\ stack[n].object = It /\ n \in Nat
    BY <2>1, TopProperties
  <2>3. Children(It) \in Destructors /\ Children(It).object = It
    BY <2>1 DEF Children, Destructors
  <2>4. /\ DOMAIN stack' = DOMAIN stack /\ \A k \in 1 .. n - 1 : stack'[k] = stack[k]
        /\ stack'[n] = Children(It)
    BY <2>1, <2>3, TopReplaced
  <2> HIDE DEF n
  <2>5. \A k \in DOMAIN stack : stack'[k].object = stack[k].object
    BY <2>2, <2>3, <2>4
  <2>6. QED
    BY <1>2, <2>1, <2>4, <2>5, SameStack
<1>11. ASSUME NEW o \in Object,
             \/ AddRef(o) \/ SetCwd(o) \/ PushCwd(o) \/ PopCwd
             \/ \E r \in Ref, x \in Object \cup {Null} : SetRef(r, x)
             \/ UNCHANGED vars
       PROVE  UNCHANGED <<stack, parent, status>>
  BY <1>11 DEF AddRef, SetCwd, PushCwd, PopCwd, SetRef, vars, tree
<1>12. QED
  BY <1>3, <1>4, <1>5, <1>6, <1>7, <1>8, <1>9, <1>10, <1>11, LinkStack, FreeStack, ObjectTreeAssumption
     DEF Next, Application, Destructor

-----------------------------------------------------------------------------
(* The theorems.                                                           *)

LEMMA InvInit == Init => IInv
<1> SUFFICES ASSUME Init
             PROVE  IInv
  OBVIOUS
<1> USE ObjectTreeAssumption
<1>1. TypeOK /\ Counted
  BY TypeInit
<1>2. TreeOK
  BY DEF Init, TreeOK, Contains, IsInjective
<1>3. RefsExist /\ DyingOnce /\ DyingAreUnderWay /\ InnerFirst /\ Acyclic
  BY DEF Init, RefsExist, DyingOnce, DyingAreUnderWay, InnerFirst, Acyclic, AcyclicIn
<1>4. QED
  BY <1>1, <1>2, <1>3 DEF IInv, NothingDangles

LEMMA InvStep == IInv /\ [Next]_vars => IInv'
BY TypeStep, TreeStep, RefsStep, AcyclicStep, StackStep DEF IInv, NothingDangles, StackInv

(* The inductive invariant holds in every reachable state.                 *)
LEMMA Invariance == Spec => []IInv
BY InvInit, InvStep, PTL DEF Spec

(* An object has a reference exactly as long as it lives, and no counter   *)
(* leaves its range.                                                       *)
THEOREM TypeCorrect == Spec => []TypeOK
<1>1. IInv => TypeOK
  BY DEF IInv
<1>2. QED
  BY <1>1, Invariance, PTL

(* Whatever destructors do below, above and beside one another, no pointer *)
(* of the tree and no safe pointer leads to a freed object, and none is    *)
(* destroyed twice.                                                        *)
THEOREM TreeIsSafe == Spec => []NothingDangles
<1>1. IInv => NothingDangles
  BY DEF IInv
<1>2. QED
  BY <1>1, Invariance, PTL

(* Each destructor starts because the application gave up its last         *)
(* reference, or because the parent's destructor is under way.             *)
THEOREM NoneDiesUnreleased == Spec => OnlyReleasedDie
<1> DEFINE Step == \A o \in Object :
                       status[o] = "alive" /\ status'[o] = "dying" /\ claims'[o] > 0 =>
                           parent[o] # Null /\ status[parent[o]] = "dying"
<1>1. ASSUME IInv, [Next]_vars
      PROVE  Step
  <2>1. SUFFICES ASSUME NEW o \in Object,
                        status[o] = "alive", status'[o] = "dying", claims'[o] > 0
                 PROVE  parent[o] # Null /\ status[parent[o]] = "dying"
    OBVIOUS
  <2>2. status \in [Object -> Statuses] /\ TypeOK
    BY <1>1 DEF IInv, TypeOK, Statuses
  <2>3. ASSUME NEW x \in Object, Release(x)
        PROVE  FALSE
    <3>1. /\ refCount \in [Object -> 0 .. MaxClaims + 1] /\ claims \in [Object -> 0 .. MaxClaims]
          /\ MaxClaims \in Nat
      BY <2>2, ObjectTreeAssumption DEF TypeOK
    <3>2. refCount[x] = 1 /\ x = o
      BY <2>1, <2>2, <2>3 DEF Release
    <3>3. refCount[x] \in {claims[x], claims[x] + 1} /\ claims'[x] = claims[x] - 1
      BY <1>1, <2>3, <3>1 DEF Release, IInv, Counted
    <3>4. QED
      BY <2>1, <3>1, <3>2, <3>3
  <2>4. ASSUME ReleaseChild
        PROVE  parent[o] = It /\ It \in Object /\ status[It] = "dying"
    <3>1. /\ It \in Object /\ stack[Len(stack)].object = It
          /\ Len(stack) \in DOMAIN stack /\ children[It] # <<>>
      BY <2>2, <2>4, TopProperties DEF ReleaseChild
    <3>2. status[It] = "dying"
      BY <1>1, <3>1 DEF IInv, NothingDangles, DyingOnce
    <3>3. o = Head(children[It])
      BY <2>1, <2>2, <2>4 DEF ReleaseChild
    <3>4. Contains(children[It], o)
      <4>1. children[It] \in Seq(Object)
        BY <2>2, <3>1 DEF TypeOK
      <4>2. o = children[It][1] /\ 1 \in 1 .. Len(children[It])
        BY <3>1, <3>3, <4>1, EmptySeq
      <4>3. QED
        BY <4>2 DEF Contains
    <3>5. QED
      BY <1>1, <3>1, <3>2, <3>4 DEF IInv, NothingDangles, TreeOK
  <2>5. ASSUME NEW x \in Object,
               NewUnnamedObject(x) \/ \E p \in Object : New(p, x) \/ \E d \in Object : NewPath(p, d, x)
        PROVE  FALSE
    BY <2>1, <2>2, <2>5 DEF NewUnnamedObject, New, NewPath
  <2>6. ASSUME Free
        PROVE  FALSE
    BY <2>1, <2>2, <2>6 DEF Free
  <2>7. ASSUME UNCHANGED status
        PROVE  FALSE
    BY <2>1, <2>7
  <2>8. QED
    BY <1>1, <2>3, <2>4, <2>5, <2>6, <2>7, ObjectTreeAssumption
       DEF Next, Application, Destructor, AddRef, Unlink, Link, SetRef, SetCwd, PushCwd, PopCwd,
           DerivedEnd, vars
<1>2. IInv /\ [Next]_vars => [Step]_vars
  BY <1>1
<1>3. QED
  BY <1>2, Invariance, PTL DEF Spec, OnlyReleasedDie

(* "Prevent an invalid cwd in the kernel": a destructor that makes the     *)
(* current object invalid makes the root the current one.  What destructor *)
(* code makes current, and what PopCwd brings back, nobody looks at again. *)
THEOREM CwdIsValid == Spec => CwdStaysValid
<1> DEFINE Within == \E k \in 1 .. Len(stack) - 1 : stack[k] = Children(cwd')
           Step == ~Past(cwd) /\ Past(cwd)' =>
                      cwd' = Root \/ Len(cwdStack') < Len(cwdStack) \/ Within
<1>1. ASSUME IInv, [Next]_vars, ~Past(cwd), Past(cwd)', cwd' # Root
      PROVE  Len(cwdStack') < Len(cwdStack) \/ Within
  <2>1. /\ status \in [Object -> Statuses] /\ TypeOK /\ cwd \in Object /\ cwdStack \in Seq(Object)
        /\ DyingOnce
    BY <1>1 DEF IInv, TypeOK, Statuses, NothingDangles
  <2>2. status[cwd] # "freed" /\ \A k \in DOMAIN stack : stack[k] # Children(cwd)
    BY <1>1 DEF Past
  <2>3. ASSUME UNCHANGED <<cwd, stack>>, status'[cwd] # "freed"
        PROVE  FALSE
    BY <1>1, <2>2, <2>3 DEF Past
  <2>4. ASSUME NEW o \in Object, SetCwd(o) \/ PushCwd(o)
        PROVE  Within
    <3>1. /\ UNCHANGED <<stack, status>> /\ cwd' = o /\ status[o] # "freed"
          /\ stack # <<>> => Last(stack).part = "derived"
      BY <2>4 DEF SetCwd, PushCwd, AppRuns, Exists
    <3>2. PICK k \in DOMAIN stack : stack[k] = Children(o)
      BY <1>1, <3>1 DEF Past
    <3>3. stack \in Seq(Destructors) /\ DOMAIN stack = 1 .. Len(stack) /\ Len(stack) \in Nat
      BY <2>1 DEF TypeOK, Destructors
    <3>4. k # Len(stack)
      <4>1. stack # <<>>
        BY <3>2, <3>3
      <4>2. Last(stack) = stack[Len(stack)] /\ Last(stack).part = "derived"
        BY <3>1, <3>3, <4>1, TopOfStack
      <4>3. stack[k].part = "children"
        BY <3>2 DEF Children
      <4>4. QED
        BY <4>2, <4>3
    <3>5. k \in 1 .. Len(stack) - 1
      BY <3>2, <3>3, <3>4
    <3>6. QED
      BY <3>1, <3>2, <3>5
  <2>5. ASSUME NEW o \in Object, stack' = Append(stack, Derived(o)),
               status' = [status EXCEPT ![o] = "dying"], UNCHANGED cwd
        PROVE  FALSE
    <3>1. /\ DOMAIN stack' = 1 .. Len(stack) + 1 /\ DOMAIN stack = 1 .. Len(stack) /\ Len(stack) \in Nat
          /\ \A k \in 1 .. Len(stack) : stack'[k] = stack[k]
          /\ stack'[Len(stack) + 1] = Derived(o)
      BY <2>1, <2>5, StackGrows DEF Derived, Destructors
    <3>2. Derived(o) # Children(cwd)
      BY DEF Derived, Children
    <3>3. \A k \in DOMAIN stack' : stack'[k] # Children(cwd)
      BY <2>2, <3>1, <3>2
    <3>4. status'[cwd] # "freed"
      BY <2>1, <2>2, <2>5
    <3>5. QED
      BY <1>1, <2>5, <3>3, <3>4 DEF Past
  <2>6. ASSUME NEW o \in Object, Release(o)
        PROVE  FALSE
    BY <2>1, <2>2, <2>3, <2>5, <2>6 DEF Release, cwds
  <2>7. ASSUME ReleaseChild
        PROVE  FALSE
    <3>1. Head(children[It]) \in Object
      BY <1>1, <2>7, ChildIsQuiet DEF IInv, NothingDangles, StackInv
    <3>2. QED
      BY <2>5, <2>7, <3>1 DEF ReleaseChild, cwds
  <2>8. ASSUME DerivedEnd
        PROVE  FALSE
    <3>1. /\ cwd' = (IF cwd = It THEN Root ELSE cwd) /\ stack' = Append(Below, Children(It))
          /\ status' = status /\ Top("derived")
      BY <2>8 DEF DerivedEnd
    <3>2. cwd' = cwd /\ cwd # It /\ It \in Object
      BY <1>1, <2>1, <3>1, TopProperties
    <3>3. Children(It) \in Destructors /\ Children(It) # Children(cwd)
      BY <3>2 DEF Children, Destructors
    <3>4. /\ DOMAIN stack' = DOMAIN stack /\ DOMAIN stack = 1 .. Len(stack) /\ Len(stack) \in Nat
          /\ \A k \in 1 .. Len(stack) - 1 : stack'[k] = stack[k]
          /\ stack'[Len(stack)] = Children(It)
      BY <2>1, <3>1, <3>3, TopReplaced, TopProperties
    <3>5. \A k \in DOMAIN stack' : stack'[k] # Children(cwd)
      BY <2>2, <3>3, <3>4
    <3>6. QED
      BY <1>1, <2>2, <3>1, <3>2, <3>5 DEF Past
  <2>9. ASSUME Free
        PROVE  FALSE
    <3>1. /\ UNCHANGED cwd /\ status' = [status EXCEPT ![It] = "freed"]
          /\ stack' = Below /\ Top("children")
      BY <2>9 DEF Free, cwds
    <3>2. /\ It \in Object /\ stack[Len(stack)].object = It /\ stack[Len(stack)].part = "children"
          /\ Len(stack) \in Nat \ {0} /\ DOMAIN stack = 1 .. Len(stack) /\ stack \in Seq(Destructors)
          /\ DOMAIN stack' = 1 .. Len(stack) - 1
          /\ \A k \in 1 .. Len(stack) - 1 : stack'[k] = stack[k]
      BY <2>1, <3>1, TopProperties
    <3>3. Len(stack) \in DOMAIN stack /\ stack[Len(stack)] = Children(It)
      <4>1. Len(stack) \in DOMAIN stack /\ stack[Len(stack)] \in Destructors
        BY <3>2
      <4>2. QED
        BY <3>2, <4>1 DEF Children, Destructors
    <3>4. cwd # It
      BY <2>2, <3>3
    <3>5. status'[cwd] # "freed"
      BY <2>1, <2>2, <3>1, <3>4
    <3>6. \A k \in DOMAIN stack' : stack'[k] # Children(cwd)
      BY <2>2, <3>2
    <3>7. QED
      BY <1>1, <3>1, <3>5, <3>6 DEF Past
  <2>10. ASSUME NEW o \in Object,
                \/ NewUnnamedObject(o) \/ AddRef(o) \/ Unlink(o)
                \/ \E p \in Object : New(p, o) \/ Link(p, o) \/ \E d \in Object : NewPath(p, d, o)
                \/ \E r \in Ref, x \in Object \cup {Null} : SetRef(r, x)
                \/ UNCHANGED vars
         PROVE  FALSE
    <3>1. UNCHANGED <<cwd, stack>>
      BY <2>10 DEF NewUnnamedObject, AddRef, Unlink, New, Link, NewPath, SetRef, vars, cwds
    <3>2. status'[cwd] # "freed"
      BY <2>1, <2>2, <2>10 DEF NewUnnamedObject, AddRef, Unlink, New, Link, NewPath, SetRef, vars
    <3>3. QED
      BY <2>3, <3>1, <3>2
  <2>11. ASSUME PopCwd
         PROVE  Len(cwdStack') < Len(cwdStack)
    BY <2>1, <2>11, TopOfStack DEF PopCwd
  <2>12. QED
    BY <1>1, <2>4, <2>6, <2>7, <2>8, <2>9, <2>10, <2>11, ObjectTreeAssumption
       DEF Next, Application, Destructor
<1>2. IInv /\ [Next]_vars => [Step]_vars
  BY <1>1
<1>3. QED
  BY <1>2, Invariance, PTL DEF Spec, CwdStaysValid
=============================================================================
