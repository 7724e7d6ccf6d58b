------------------------ MODULE EntityManagerProofs ------------------------
(***************************************************************************)
(* Theorems about EntityManager, for every set of entities and of rows,    *)
(* every number of properties, and every depth of nested calls.            *)
(***************************************************************************)
EXTENDS EntityManager, ListLemmas

-----------------------------------------------------------------------------
(* The inductive invariant.                                                *)

(* No entity is in the array twice.                                        *)
Unique(s) == \A i, j \in DOMAIN s : s[i] = s[j] /\ s[i] # Null => i = j

Objects ==
    /\ isInOnFrame \in BOOLEAN /\ isStarted \in BOOLEAN
    /\ status \in [Entity -> Status]
    /\ guid \in [Entity -> Guid \cup {NewGuid}]
    /\ sleeping \subseteq Entity /\ db \subseteq Guid /\ missed \subseteq Entity

(* The arrays and the registry agree with each other and with the state of *)
(* every entity.                                                           *)
Arrays(ent, reg, new, rem, inFrame, st) ==
    /\ ent \in Seq(Entity \cup {Null}) /\ Len(ent) <= Cardinality(Entity) /\ Unique(ent)
    /\ new \in Seq(Entity) /\ IsInjective(new) /\ rem \in Seq(Entity)
    /\ reg \in [Entity -> {"none", "set", "zero"}]
    /\ \A e \in Entity :
          /\ reg[e] = "set" <=> Contains(ent, e)
          /\ reg[e] = "zero" => st[e] = "gone"
          /\ st[e] \in {"active", "deactivating"} <=> Contains(ent, e) \/ Contains(new, e)
          /\ ~(Contains(ent, e) /\ Contains(new, e))
    /\ ~inFrame => /\ ~Contains(ent, Null) /\ \A e \in Entity : reg[e] # "zero"
                   /\ new = <<>> /\ rem = <<>>

ArraysInv == Arrays(entities, registry, newEntities, removedEntities, isInOnFrame, status)

OfFrame(b) == b.kind = "loop" /\ b.method \in Phase
OfWorld(f) == f.kind = "loop" /\ f.method \in World
PhaseCall(f) == f.kind = "call" /\ f.method \in Phase
WorldCall(f) == f.kind = "call" /\ f.method \in World
Activates(f) == f.kind = "activate"
Deactivates(f) == f.kind = "deactivate"

(* Where f, number k of a stack whose lowest frame is b, may be: the loops *)
(* are at the bottom, in a frame they have called what is above them, and  *)
(* the entity that is called, activated or deactivated is in the state for *)
(* it.                                                                     *)
Placed(f, k, b, ent, rem, st, begun) ==
    /\ f.kind = "removeAll" => k = 1 /\ ~begun
    /\ f.kind = "loop" =>
          /\ k = 1 \/ (k = 2 /\ b.kind = "removeAll" /\ f.method = "OnSave")
          /\ f.method = "OnStart" => ~begun
          /\ f.num <= Len(ent) /\ f.i <= f.num + 1
    /\ PhaseCall(f) =>
          /\ k = 2 /\ OfFrame(b) /\ f.method = b.method /\ b.i >= 2
          /\ ent[b.i - 1] \in {Null, f.entity}
          /\ \A j \in DOMAIN ent : ent[j] = f.entity => j = b.i - 1
          /\ Contains(ent, f.entity) \/ Contains(rem, f.entity)
    /\ WorldCall(f) => st[f.entity] = "active"
    /\ Activates(f) => st[f.entity] = "activating"
    /\ Deactivates(f) => st[f.entity] = "deactivating"
    /\ OfFrame(b) /\ k = 2 => PhaseCall(f)

AllPlaced(s, ent, rem, st, begun) ==
    \A k \in DOMAIN s : Placed(s[k], k, s[1], ent, rem, st, begun)

(* An entity is activated or deactivated by one frame of the stack, and    *)
(* none is deactivated while the world is loaded, started or saved.        *)
Handled(s, st) ==
    /\ \A j, k \in DOMAIN s :
          /\ Activates(s[j]) /\ Activates(s[k]) /\ s[j].entity = s[k].entity => j = k
          /\ Deactivates(s[j]) /\ Deactivates(s[k]) /\ s[j].entity = s[k].entity => j = k
          /\ ~(Deactivates(s[j]) /\ OfWorld(s[k]))
    /\ \A e \in Entity : st[e] = "deactivating" =>
          \E k \in DOMAIN s : Deactivates(s[k]) /\ s[k].entity = e

StackInv ==
    /\ stack \in Seq(Frame) /\ Len(stack) <= MaxDepth
    /\ AllPlaced(stack, entities, removedEntities, status, isStarted)
    /\ Handled(stack, status)
    /\ isInOnFrame <=> stack # <<>> /\ OfFrame(stack[1])

(* What the earlier phases of a frame have called, and the present one, of *)
(* element k of the array.                                                 *)
Base(m) ==
    CASE m = "OnBeginFrame" -> 0
      [] m = "OnMoveBefore" -> NumProps
      [] m = "OnMoveAfter"  -> 2 * NumProps
      [] OTHER              -> 3 * NumProps

Had(s, k) ==
    IF k >= s[1].i THEN 0
    ELSE IF k = s[1].i - 1 /\ Len(s) >= 2 THEN s[2].i
    ELSE NumProps

Counted(s, ent, new, cl, st, sl) ==
    LET b == s[1] IN
    /\ b.num = Len(ent)
    /\ b.live \cap sl = {}
    /\ \A e \in b.live : st[e] \in {"active", "deactivating", "gone"} /\ ~Contains(new, e)
    /\ \A k \in DOMAIN ent : ent[k] # Null /\ ent[k] \notin sl => ent[k] \in b.live
    /\ \A e \in Entity : cl[e] <= Base(b.method) + NumProps /\ (e \notin b.live => cl[e] = 0)
    /\ \A k \in DOMAIN ent : ent[k] \in b.live => cl[ent[k]] = Base(b.method) + Had(s, k)
    /\ Len(s) >= 2 => s[2].entity \in b.live /\ cl[s[2].entity] = Base(b.method) + s[2].i

CalledInv ==
    /\ called \in [Entity -> 0 .. 4 * NumProps]
    /\ isInOnFrame => Counted(stack, entities, newEntities, called, status, sleeping)

Starting(s) == s # <<>> /\ s[1].kind = "loop" /\ s[1].method = "OnStart"
Ending(s) == s # <<>> /\ s[1].kind = "removeAll"

StartedInv ==
    /\ started \in [Entity -> 0 .. 1]
    /\ \A e \in Entity : status[e] \in {"fresh", "activating"} => started[e] = 0
    /\ isStarted => \A e \in InWorld : started[e] = 1 \/ e \in missed
    /\ Starting(stack) =>
          \A k \in DOMAIN entities :
             /\ started[entities[k]] = IF k < stack[1].i THEN 1 ELSE 0
             /\ k > stack[1].num => entities[k] \in missed
    /\ ~isStarted /\ ~Starting(stack) /\ ~Ending(stack) => \A e \in InWorld : started[e] = 0

IInv == Objects /\ ArraysInv /\ StackInv /\ CalledInv /\ StartedInv

-----------------------------------------------------------------------------
(* The arrays.                                                             *)

(* What the assumption gives.                                              *)
LEMMA Constants ==
    /\ IsFiniteSet(Entity) /\ Cardinality(Entity) \in Nat
    /\ IsFiniteSet(Entity \cup {Null}) /\ Null \notin Entity
    /\ NumProps \in Nat /\ NumProps >= 1 /\ MaxDepth \in Nat /\ MaxDepth >= 3
    /\ NewGuid \notin Guid
<1>1. IsFiniteSet({Null})
  BY FS_Singleton
<1>2. IsFiniteSet(Entity) /\ Cardinality(Entity) \in Nat
  BY EntityManagerAssumption, FS_CardinalityType
<1>3. IsFiniteSet(Entity \cup {Null})
  BY <1>1, <1>2, FS_Union
<1>4. NumProps \in Nat /\ NumProps >= 1 /\ MaxDepth \in Nat /\ MaxDepth >= 3
  BY EntityManagerAssumption
<1>5. QED
  BY <1>2, <1>3, <1>4, EntityManagerAssumption

(* With no null element an array is no longer than there are entities.     *)
LEMMA Fits ==
    ASSUME NEW s \in Seq(Entity)
    PROVE  /\ IsInjective(s) => Unique(s) /\ Len(s) <= Cardinality(Entity)
           /\ Unique(s) => IsInjective(s)
           /\ s \in Seq(Entity \cup {Null}) /\ ~Contains(s, Null)
<1>1. \A i \in 1 .. Len(s) : s[i] \in Entity /\ s[i] # Null
  BY Constants
<1>2. DOMAIN s = 1 .. Len(s) /\ s \in Seq(Entity \cup {Null})
  OBVIOUS
<1>3. IsInjective(s) => Len(s) <= Cardinality(Entity)
  BY Constants, InjectiveIsShort
<1>4. (IsInjective(s) => Unique(s)) /\ (Unique(s) => IsInjective(s))
  BY <1>1, <1>2 DEF IsInjective, Unique
<1>5. ~Contains(s, Null)
  BY <1>1 DEF Contains
<1>6. QED
  BY <1>2, <1>3, <1>4, <1>5

(* An array without null elements is an array of entities.                 *)
LEMMA WithoutNull ==
    ASSUME NEW s \in Seq(Entity \cup {Null}), ~Contains(s, Null)
    PROVE  s \in Seq(Entity)
<1>1. \A i \in 1 .. Len(s) : s[i] \in Entity
  BY DEF Contains
<1>2. QED
  BY <1>1

(* An entity that comes into the arrays.                                   *)
LEMMA AddKeeps ==
    ASSUME ArraysInv, Objects, NEW e \in Entity, status[e] = "activating",
           AddEntityToReqistry(e), status' = [status EXCEPT ![e] = "active"],
           UNCHANGED <<removedEntities, isInOnFrame>>
    PROVE  /\ ArraysInv'
           /\ isInOnFrame =>
                 /\ entities' = entities
                 /\ \A x : Contains(newEntities', x) <=> Contains(newEntities, x) \/ x = e
           /\ ~isInOnFrame => entities' = Append(entities, e) /\ entities \in Seq(Entity)
           /\ Len(entities) <= Len(entities')
           /\ \A k \in DOMAIN entities : k \in DOMAIN entities' /\ entities'[k] = entities[k]
<1>1. /\ ~Contains(entities, e) /\ ~Contains(newEntities, e)
      /\ entities \in Seq(Entity \cup {Null}) /\ newEntities \in Seq(Entity)
      /\ removedEntities \in Seq(Entity)
      /\ Len(entities) <= Cardinality(Entity) /\ Unique(entities) /\ IsInjective(newEntities)
      /\ registry \in [Entity -> {"none", "set", "zero"}]
      /\ status \in [Entity -> Status]
  BY DEF ArraysInv, Arrays, Objects
<1>2. status' \in [Entity -> Status] /\ status'[e] = "active"
      /\ \A f \in Entity : f # e => status'[f] = status[f]
  BY <1>1 DEF Status
<1>3. CASE isInOnFrame
  <2>1. newEntities' = Append(newEntities, e) /\ UNCHANGED <<entities, registry>>
    BY <1>3 DEF AddEntityToReqistry
  <2>2. /\ newEntities' \in Seq(Entity) /\ IsInjective(newEntities')
        /\ \A x : Contains(newEntities', x) <=> Contains(newEntities, x) \/ x = e
    BY <1>1, <2>1, AppendedElement
  <2>3. ASSUME NEW f \in Entity
        PROVE  /\ registry'[f] = "set" <=> Contains(entities', f)
               /\ registry'[f] = "zero" => status'[f] = "gone"
               /\ status'[f] \in {"active", "deactivating"} <=>
                     Contains(entities', f) \/ Contains(newEntities', f)
               /\ ~(Contains(entities', f) /\ Contains(newEntities', f))
    BY <1>1, <1>2, <2>1, <2>2 DEF ArraysInv, Arrays
  <2>4. ArraysInv'
    BY <1>1, <1>3, <2>1, <2>2, <2>3 DEF ArraysInv, Arrays
  <2>5. QED
    BY <1>1, <1>3, <2>1, <2>2, <2>4
<1>4. CASE ~isInOnFrame
  <2>1. /\ entities' = Append(entities, e) /\ registry' = [registry EXCEPT ![e] = "set"]
        /\ UNCHANGED newEntities
    BY <1>4 DEF AddEntityToReqistry
  <2>2. /\ ~Contains(entities, Null) /\ newEntities = <<>> /\ removedEntities = <<>>
        /\ \A f \in Entity : registry[f] # "zero"
    BY <1>4 DEF ArraysInv, Arrays
  <2>3. entities \in Seq(Entity) /\ IsInjective(entities)
    BY <1>1, <2>2, WithoutNull, Fits
  <2>4. /\ entities' \in Seq(Entity) /\ IsInjective(entities')
        /\ \A x : Contains(entities', x) <=> Contains(entities, x) \/ x = e
    BY <1>1, <2>1, <2>3, AppendedElement
  <2>5. /\ Unique(entities') /\ Len(entities') <= Cardinality(Entity)
        /\ entities' \in Seq(Entity \cup {Null}) /\ ~Contains(entities', Null)
    BY <2>4, Fits
  <2>6. /\ registry' \in [Entity -> {"none", "set", "zero"}] /\ registry'[e] = "set"
        /\ \A f \in Entity : f # e => registry'[f] = registry[f]
    BY <1>1, <2>1
  <2>7. ASSUME NEW f \in Entity
        PROVE  /\ registry'[f] = "set" <=> Contains(entities', f)
               /\ registry'[f] # "zero"
               /\ status'[f] \in {"active", "deactivating"} <=>
                     Contains(entities', f) \/ Contains(newEntities', f)
               /\ ~(Contains(entities', f) /\ Contains(newEntities', f))
    BY <1>1, <1>2, <2>1, <2>2, <2>4, <2>6 DEF ArraysInv, Arrays
  <2>8. ArraysInv'
    <3>1. newEntities' = newEntities /\ removedEntities' = removedEntities
      BY <2>1
    <3>2. QED
      BY <1>1, <1>4, <2>2, <2>5, <2>6, <2>7, <3>1 DEF ArraysInv, Arrays
  <2>9. /\ Len(entities) <= Len(entities')
        /\ \A k \in DOMAIN entities : k \in DOMAIN entities' /\ entities'[k] = entities[k]
    BY <2>1, <2>3
  <2>10. QED
    BY <1>4, <2>1, <2>3, <2>8, <2>9
<1>5. QED
  BY <1>3, <1>4 DEF Objects

(* An entity that leaves the arrays: in a frame the array keeps its length *)
(* and its order, and no entity leaves both it and the removed ones.       *)
LEMMA RemoveKeeps ==
    ASSUME ArraysInv, Objects, NEW e \in Entity, status[e] = "deactivating",
           RemoveEntityFromRegistry(e), status' = [status EXCEPT ![e] = "gone"],
           UNCHANGED isInOnFrame
    PROVE  /\ ArraysInv'
           /\ isInOnFrame =>
                /\ Len(entities') = Len(entities)
                /\ \A k \in DOMAIN entities : entities'[k] = entities[k] \/ entities'[k] = Null
                /\ \A x : Contains(entities, x) \/ Contains(removedEntities, x) =>
                             Contains(entities', x) \/ Contains(removedEntities', x)
                /\ \A x : Contains(newEntities', x) => Contains(newEntities, x)
<1>1. /\ entities \in Seq(Entity \cup {Null}) /\ newEntities \in Seq(Entity)
      /\ removedEntities \in Seq(Entity)
      /\ Len(entities) <= Cardinality(Entity) /\ Unique(entities) /\ IsInjective(newEntities)
      /\ registry \in [Entity -> {"none", "set", "zero"}]
      /\ status \in [Entity -> Status]
      /\ DOMAIN entities = 1 .. Len(entities)
  BY DEF ArraysInv, Arrays, Objects
<1>2. status' \in [Entity -> Status] /\ status'[e] = "gone"
      /\ \A f \in Entity : f # e => status'[f] = status[f]
  BY <1>1 DEF Status
<1>3. Contains(entities, e) \/ Contains(newEntities, e)
  BY DEF ArraysInv, Arrays
<1>4. CASE /\ isInOnFrame /\ Contains(newEntities, e)
           /\ newEntities' = LeaveOut(newEntities, {e})
           /\ UNCHANGED <<entities, registry, removedEntities>>
  <2>1. /\ newEntities' \in Seq(Entity) /\ IsInjective(newEntities')
        /\ \A x : Contains(newEntities', x) <=> Contains(newEntities, x) /\ x # e
    BY <1>1, <1>4, LeaveOutOrder
  <2>2. ASSUME NEW f \in Entity
        PROVE  /\ registry'[f] = "set" <=> Contains(entities', f)
               /\ registry'[f] = "zero" => status'[f] = "gone"
               /\ status'[f] \in {"active", "deactivating"} <=>
                     Contains(entities', f) \/ Contains(newEntities', f)
               /\ ~(Contains(entities', f) /\ Contains(newEntities', f))
    BY <1>1, <1>2, <1>4, <2>1 DEF ArraysInv, Arrays
  <2>3. ArraysInv'
    BY <1>1, <1>4, <2>1, <2>2 DEF ArraysInv, Arrays
  <2>4. QED
    BY <1>1, <1>4, <2>1, <2>3
<1>5. CASE /\ isInOnFrame /\ ~Contains(newEntities, e)
           /\ removedEntities' = Append(removedEntities, e)
           /\ entities' = [k \in DOMAIN entities |-> IF entities[k] = e THEN Null ELSE entities[k]]
           /\ registry' = [registry EXCEPT ![e] = "zero"]
           /\ UNCHANGED newEntities
  <2>1. /\ removedEntities' \in Seq(Entity)
        /\ \A x : Contains(removedEntities', x) <=> Contains(removedEntities, x) \/ x = e
    BY <1>1, <1>5, AppendedElement
  <2>2. /\ entities' \in Seq(Entity \cup {Null}) /\ Len(entities') = Len(entities)
        /\ DOMAIN entities' = 1 .. Len(entities)
        /\ \A k \in 1 .. Len(entities) :
              entities'[k] = IF entities[k] = e THEN Null ELSE entities[k]
    BY <1>1, <1>5
  <2>3. \A x : x # Null => (Contains(entities', x) <=> Contains(entities, x) /\ x # e)
    BY <2>2 DEF Contains
  <2>4. Unique(entities')
    BY <1>1, <2>2 DEF Unique
  <2>5. /\ registry' \in [Entity -> {"none", "set", "zero"}] /\ registry'[e] = "zero"
        /\ \A f \in Entity : f # e => registry'[f] = registry[f]
    BY <1>1, <1>5
  <2>6. ASSUME NEW f \in Entity
        PROVE  /\ registry'[f] = "set" <=> Contains(entities', f)
               /\ registry'[f] = "zero" => status'[f] = "gone"
               /\ status'[f] \in {"active", "deactivating"} <=>
                     Contains(entities', f) \/ Contains(newEntities', f)
               /\ ~(Contains(entities', f) /\ Contains(newEntities', f))
    BY <1>1, <1>2, <1>5, <2>3, <2>5, Constants DEF ArraysInv, Arrays
  <2>7. ArraysInv'
    BY <1>1, <1>5, <2>1, <2>2, <2>4, <2>5, <2>6 DEF ArraysInv, Arrays
  <2>8. \A x : Contains(entities, x) \/ Contains(removedEntities, x) =>
                  Contains(entities', x) \/ Contains(removedEntities', x)
    <3>1. Contains(entities, Null) => Contains(entities', Null)
      BY <2>2 DEF Contains
    <3>2. QED
      BY <2>1, <2>3, <3>1
  <2>9. QED
    BY <1>1, <1>5, <2>2, <2>7, <2>8
<1>6. CASE /\ ~isInOnFrame
           /\ entities' = LeaveOut(entities, {e})
           /\ registry' = [registry EXCEPT ![e] = "none"]
           /\ UNCHANGED <<newEntities, removedEntities>>
  <2>1. /\ ~Contains(entities, Null) /\ newEntities = <<>> /\ removedEntities = <<>>
        /\ \A f \in Entity : registry[f] # "zero"
    BY <1>6 DEF ArraysInv, Arrays
  <2>2. entities \in Seq(Entity) /\ IsInjective(entities)
    BY <1>1, <2>1, WithoutNull, Fits
  <2>3. /\ entities' \in Seq(Entity) /\ IsInjective(entities')
        /\ \A x : Contains(entities', x) <=> Contains(entities, x) /\ x # e
    BY <1>6, <2>2, LeaveOutOrder
  <2>4. /\ Unique(entities') /\ Len(entities') <= Cardinality(Entity)
        /\ entities' \in Seq(Entity \cup {Null}) /\ ~Contains(entities', Null)
    BY <2>3, Fits
  <2>5. /\ registry' \in [Entity -> {"none", "set", "zero"}] /\ registry'[e] = "none"
        /\ \A f \in Entity : f # e => registry'[f] = registry[f]
    BY <1>1, <1>6
  <2>6. ASSUME NEW f \in Entity
        PROVE  /\ registry'[f] = "set" <=> Contains(entities', f)
               /\ registry'[f] # "zero"
               /\ status'[f] \in {"active", "deactivating"} <=>
                     Contains(entities', f) \/ Contains(newEntities', f)
               /\ ~(Contains(entities', f) /\ Contains(newEntities', f))
    <3>1. /\ registry[f] = "set" <=> Contains(entities, f)
          /\ status[f] \in {"active", "deactivating"} <=>
                Contains(entities, f) \/ Contains(newEntities, f)
          /\ registry[f] # "zero" /\ newEntities' = newEntities
      BY <1>6, <2>1 DEF ArraysInv, Arrays
    <3>2. ~Contains(newEntities, f)
      BY <2>1 DEF Contains
    <3>3. QED
      BY <1>2, <2>3, <2>5, <3>1, <3>2
  <2>7. ArraysInv'
    <3>1. newEntities' = newEntities /\ removedEntities' = removedEntities
      BY <1>6
    <3>2. QED
      BY <1>1, <1>6, <2>1, <2>4, <2>5, <2>6, <3>1 DEF ArraysInv, Arrays
  <2>8. QED
    BY <1>6, <2>7
<1>7. QED
  BY <1>4, <1>5, <1>6 DEF RemoveEntityFromRegistry

(* UpdateRegistry puts every new entity somewhere, and loses none.         *)
LEMMA MergedElements ==
    ASSUME entities \in Seq(Entity \cup {Null}), Unique(entities),
           newEntities \in Seq(Entity), IsInjective(newEntities),
           \A x \in Entity : ~(Contains(entities, x) /\ Contains(newEntities, x))
    PROVE  /\ Merged \in Seq(Entity) /\ IsInjective(Merged)
           /\ \A x \in Entity : Contains(Merged, x) <=>
                 Contains(entities, x) \/ Contains(newEntities, x)
<1> DEFINE n == Cardinality(Gaps)
           w == Waiting
           rest == SubSeq(Waiting, Cardinality(Gaps) + 1, Len(Waiting))
<1>1. DOMAIN entities = 1 .. Len(entities) /\ Len(entities) \in Nat
  OBVIOUS
<1>2. Gaps \in SUBSET (1 .. Len(entities)) /\ \A k : k \in Gaps <=>
         k \in 1 .. Len(entities) /\ entities[k] = Null
  BY <1>1 DEF Gaps
<1>3. /\ n \in Nat
      /\ \A i \in Gaps : GapsUpTo(i) \in 1 .. n
      /\ \A i, j \in Gaps : i < j => GapsUpTo(i) < GapsUpTo(j)
      /\ \A k \in 1 .. n : \E i \in Gaps : GapsUpTo(i) = k
  BY <1>1, <1>2, Ranks DEF GapsUpTo
<1>4. /\ w \in Seq(Entity) /\ Len(w) = Len(newEntities) /\ IsInjective(w)
      /\ \A x : Contains(w, x) <=> Contains(newEntities, x)
  BY ReversedElements DEF Waiting
<1>5. /\ rest \in Seq(Entity) /\ IsInjective(rest)
      /\ \A x : Contains(rest, x) <=> \E k \in 1 .. Len(w) : k > n /\ w[k] = x
  BY <1>3, <1>4, RestElements
<1>6. Len(w) \in Nat /\ DOMAIN w = 1 .. Len(w) /\ \A k \in 1 .. Len(w) :
         w[k] \in Entity /\ w[k] # Null
  BY <1>4, Constants
<1>7. \A k \in 1 .. Len(entities) :
          Filled[k] = IF k \notin Gaps THEN entities[k]
                      ELSE IF GapsUpTo(k) <= Len(w) THEN w[GapsUpTo(k)] ELSE Null
  BY <1>1 DEF Filled
<1>8. Filled \in Seq(Entity \cup {Null}) /\ Len(Filled) = Len(entities)
  <2>1. \A k \in Gaps : GapsUpTo(k) <= Len(w) => w[GapsUpTo(k)] \in Entity
    BY <1>3, <1>6
  <2>2. \A k \in 1 .. Len(entities) : Filled[k] \in Entity \cup {Null}
    BY <1>7, <2>1
  <2>3. Filled = [k \in 1 .. Len(entities) |-> Filled[k]]
    BY <1>1 DEF Filled
  <2>4. QED
    BY <1>1, <2>2, <2>3
<1>9. \A i, j \in Gaps : GapsUpTo(i) = GapsUpTo(j) => i = j
  BY <1>1, <1>2, <1>3
<1> HIDE DEF n, w, rest
<1>10. ASSUME NEW x \in Entity
       PROVE  Contains(Filled, x) <=> \/ Contains(entities, x)
                                      \/ \E k \in 1 .. Len(w) : k <= n /\ w[k] = x
  <2>1. ASSUME NEW i \in 1 .. Len(entities), Filled[i] = x
        PROVE  Contains(entities, x) \/ \E k \in 1 .. Len(w) : k <= n /\ w[k] = x
    <3>1. CASE i \notin Gaps
      BY <1>7, <2>1, <3>1 DEF Contains
    <3>2. CASE i \in Gaps
      <4>1. GapsUpTo(i) <= Len(w) /\ w[GapsUpTo(i)] = x
        BY <1>7, <2>1, <3>2, Constants
      <4>2. GapsUpTo(i) \in 1 .. Len(w) /\ GapsUpTo(i) <= n
        BY <1>3, <1>6, <3>2, <4>1
      <4>3. QED
        BY <4>1, <4>2
    <3>3. QED
      BY <3>1, <3>2
  <2>2. ASSUME NEW i \in 1 .. Len(entities), entities[i] = x
        PROVE  Filled[i] = x
    BY <1>2, <1>7, <2>2, Constants
  <2>3. ASSUME NEW k \in 1 .. Len(w), k <= n, w[k] = x
        PROVE  \E i \in 1 .. Len(entities) : Filled[i] = x
    <3>1. k \in 1 .. n
      BY <1>3, <1>6, <2>3
    <3>2. PICK i \in Gaps : GapsUpTo(i) = k
      BY <1>3, <3>1
    <3>3. i \in 1 .. Len(entities) /\ k <= Len(w)
      BY <1>2, <1>6
    <3>4. Filled[i] = x
      BY <1>7, <2>3, <3>2, <3>3
    <3>5. QED
      BY <3>3, <3>4
  <2>4. Contains(Filled, x) <=> \E i \in 1 .. Len(entities) : Filled[i] = x
    BY <1>8 DEF Contains
  <2>5. Contains(entities, x) <=> \E i \in 1 .. Len(entities) : entities[i] = x
    BY DEF Contains
  <2>6. QED
    BY <2>1, <2>2, <2>3, <2>4, <2>5
<1>11. \A x \in Entity : Contains(newEntities, x) <=> \E k \in 1 .. Len(w) : w[k] = x
  BY <1>4 DEF Contains
<1>12. ASSUME NEW i \in 1 .. Len(entities), NEW j \in 1 .. Len(entities),
              Filled[i] = Filled[j], Filled[i] # Null
       PROVE  i = j
  <2>1. \A k \in 1 .. Len(entities) \ Gaps :
           entities[k] \in Entity /\ Contains(entities, entities[k])
    BY <1>2 DEF Contains
  <2>2. ASSUME NEW k \in Gaps, Filled[k] # Null
        PROVE  GapsUpTo(k) \in 1 .. Len(w) /\ Filled[k] = w[GapsUpTo(k)]
    <3>1. k \in 1 .. Len(entities)
      BY <1>2
    <3>2. GapsUpTo(k) <= Len(w) /\ Filled[k] = w[GapsUpTo(k)]
      BY <1>7, <2>2, <3>1
    <3>3. QED
      BY <1>3, <1>6, <3>2
  <2>3. \A k \in Gaps : Filled[k] # Null => Filled[k] \in Entity /\ Contains(newEntities, Filled[k])
    BY <1>6, <1>11, <2>2
  <2>4. \A k \in 1 .. Len(entities) \ Gaps : Filled[k] = entities[k]
    BY <1>7
  <2>5. CASE i \notin Gaps /\ j \notin Gaps
    BY <1>1, <1>12, <2>4, <2>5 DEF Unique
  <2>6. CASE i \in Gaps /\ j \in Gaps
    <3>1. GapsUpTo(i) = GapsUpTo(j)
      BY <1>4, <1>6, <1>12, <2>2, <2>6 DEF IsInjective
    <3>2. QED
      BY <1>9, <2>6, <3>1
  <2>7. CASE i \in Gaps /\ j \notin Gaps
    BY <1>12, <2>1, <2>3, <2>4, <2>7
  <2>8. CASE i \notin Gaps /\ j \in Gaps
    BY <1>12, <2>1, <2>3, <2>4, <2>8
  <2>9. QED
    BY <2>5, <2>6, <2>7, <2>8
<1> DEFINE c == Compact(Filled)
<1>13. /\ c \in Seq(Entity) /\ IsInjective(c)
       /\ \A x : Contains(c, x) <=> Contains(Filled, x) /\ x # Null
  <2>1. /\ c \in Seq((Entity \cup {Null}) \ {Null})
        /\ \A x : Contains(c, x) <=> Contains(Filled, x) /\ x \notin {Null}
        /\ (\A i, j \in 1 .. Len(Filled) :
                 Filled[i] = Filled[j] /\ Filled[i] \notin {Null} => i = j)
             => IsInjective(c)
    BY <1>8, LeaveOutElements DEF Compact
  <2>2. (Entity \cup {Null}) \ {Null} = Entity
    BY Constants
  <2>3. QED
    BY <1>8, <1>12, <2>1, <2>2
<1> HIDE DEF c
<1>14. ASSUME NEW x, Contains(c, x), Contains(rest, x)
       PROVE  FALSE
  <2>1. PICK k \in 1 .. Len(w) : k > n /\ w[k] = x
    BY <1>5, <1>14
  <2>2. x \in Entity /\ Contains(newEntities, x)
    BY <1>6, <1>11, <2>1
  <2>3. PICK m \in 1 .. Len(w) : m <= n /\ w[m] = x
    BY <1>10, <1>13, <1>14, <2>2
  <2>4. m = k
    BY <1>4, <1>6, <2>1, <2>3 DEF IsInjective
  <2>5. QED
    BY <1>3, <1>6, <2>1, <2>3, <2>4
<1>15. /\ Merged = c \o rest
       /\ c \o rest \in Seq(Entity) /\ IsInjective(c \o rest)
       /\ \A x : Contains(c \o rest, x) <=> Contains(c, x) \/ Contains(rest, x)
  <2>1. Merged = c \o rest
    BY DEF Merged, c, rest
  <2>2. QED
    BY <1>5, <1>13, <1>14, <2>1, JoinedElements
<1>16. ASSUME NEW x \in Entity
       PROVE  Contains(Merged, x) <=> Contains(entities, x) \/ Contains(newEntities, x)
  <2>1. \A k \in 1 .. Len(w) : k <= n \/ k > n
    BY <1>3, <1>6
  <2>2. x # Null
    BY Constants
  <2>3. QED
    BY <1>5, <1>10, <1>11, <1>13, <1>15, <2>1, <2>2
<1>17. QED
  BY <1>15, <1>16

(* The end of a frame.                                                     *)
LEMMA UpdateKeeps ==
    ASSUME ArraysInv, Objects, UpdateRegistry, UNCHANGED status, isInOnFrame' = FALSE
    PROVE  ArraysInv' /\ newEntities' = <<>> /\ InWorld' = InWorld
<1>1. /\ entities \in Seq(Entity \cup {Null}) /\ newEntities \in Seq(Entity)
      /\ Unique(entities) /\ IsInjective(newEntities)
      /\ registry \in [Entity -> {"none", "set", "zero"}]
      /\ \A f \in Entity :
          /\ registry[f] = "set" <=> Contains(entities, f)
          /\ registry[f] = "zero" => status[f] = "gone"
          /\ status[f] \in {"active", "deactivating"} <=>
                Contains(entities, f) \/ Contains(newEntities, f)
          /\ ~(Contains(entities, f) /\ Contains(newEntities, f))
  BY DEF ArraysInv, Arrays
<1>2. /\ removedEntities' = <<>> /\ newEntities' = <<>> /\ entities' = Merged
      /\ registry' = [e \in Entity |-> CASE registry[e] = "zero" -> "none"
                                         [] Contains(newEntities, e) -> "set"
                                         [] OTHER -> registry[e]]
  BY DEF UpdateRegistry
<1>3. /\ entities' \in Seq(Entity) /\ IsInjective(entities')
      /\ \A x \in Entity : Contains(entities', x) <=>
            Contains(entities, x) \/ Contains(newEntities, x)
  BY <1>1, <1>2, MergedElements
<1>4. /\ Unique(entities') /\ Len(entities') <= Cardinality(Entity)
      /\ entities' \in Seq(Entity \cup {Null}) /\ ~Contains(entities', Null)
  BY <1>3, Fits
<1>5. \A x : ~Contains(<<>>, x)
  BY DEF Contains
<1>6. ASSUME NEW f \in Entity
      PROVE  /\ registry'[f] = "set" <=> Contains(entities', f)
             /\ registry'[f] # "zero" /\ registry'[f] \in {"none", "set", "zero"}
             /\ status[f] \in {"active", "deactivating"} <=> Contains(entities', f)
  <2>1. registry'[f] = CASE registry[f] = "zero" -> "none"
                         [] Contains(newEntities, f) -> "set"
                         [] OTHER -> registry[f]
    BY <1>2
  <2>2. CASE registry[f] = "zero"
    BY <1>1, <1>3, <2>1, <2>2
  <2>3. CASE registry[f] # "zero" /\ Contains(newEntities, f)
    BY <1>1, <1>3, <2>1, <2>3
  <2>4. CASE registry[f] # "zero" /\ ~Contains(newEntities, f)
    BY <1>1, <1>3, <2>1, <2>4
  <2>5. QED
    BY <2>2, <2>3, <2>4
<1>7. registry' \in [Entity -> {"none", "set", "zero"}]
  BY <1>2, <1>6
<1>8. <<>> \in Seq(Entity) /\ IsInjective(<<>>)
  BY DEF IsInjective
<1>9. ArraysInv'
  BY <1>2, <1>4, <1>5, <1>6, <1>7, <1>8 DEF ArraysInv, Arrays
<1>10. QED
  BY <1>2, <1>9 DEF InWorld

-----------------------------------------------------------------------------
(* The stack.                                                              *)

(* The kinds of frames.                                                    *)
LEMMA FrameKinds ==
    ASSUME NEW f \in Frame
    PROVE  /\ f.kind \in {"loop", "call", "activate", "deactivate", "removeAll"}
           /\ f.kind = "loop" => f \in LoopFrame
           /\ f.kind = "call" => f \in CallFrame
           /\ f.kind \in {"activate", "deactivate"} => f.entity \in Entity
           /\ f.kind = "deactivate" => f.delete \in BOOLEAN
  BY DEF Frame, LoopFrame, CallFrame, RemovingAll

(* The top of a stack and what is below it.                                *)
LEMMA TopAndBelow ==
    ASSUME NEW n \in Nat \ {0}
    PROVE  /\ n \in 1 .. n /\ 1 \in 1 .. n
           /\ \A k \in 1 .. n : k = n \/ k \in 1 .. n - 1
           /\ \A k \in 1 .. n - 1 : k \in 1 .. n /\ k # n /\ n # 1 /\ k \in Nat
           /\ n # 1 => 1 \in 1 .. n - 1
           /\ n # 1 /\ n # 2 => 1 \in 1 .. n - 1 /\ 2 \in 1 .. n - 1 /\ n >= 3
  OBVIOUS

(* The frames the actions make.                                            *)
LEMMA NewFrames ==
    ASSUME NEW e \in Entity
    PROVE  /\ Activating(e) \in Frame
           /\ \A d \in BOOLEAN : Deactivating(e, d) \in Frame
           /\ \A m \in Phase \cup World : Call(e, m) \in Frame /\ Call(e, m) \in CallFrame
           /\ RemovingAll \in Frame
<1>1. 1 \in 1 .. NumProps
  BY Constants
<1>2. QED
  BY <1>1 DEF Activating, Deactivating, Call, Frame, CallFrame

LEMMA NewLoop ==
    ASSUME ArraysInv, NEW m \in Phase \cup World
    PROVE  Loop(m) \in Frame /\ Loop(m) \in LoopFrame
<1>1. Len(entities) \in 0 .. Cardinality(Entity) /\ 1 \in 1 .. Cardinality(Entity) + 1
  BY Constants DEF ArraysInv, Arrays
<1>2. Range(entities) \subseteq Entity \cup {Null}
  BY DEF ArraysInv, Arrays, Range
<1>3. QED
  BY <1>1, <1>2 DEF Loop, Frame, LoopFrame

(* The stack with a frame more, with another frame on top, and with a      *)
(* frame less.                                                             *)
LEMMA PushedOn ==
    ASSUME NEW s \in Seq(Frame), NEW c \in Frame, NEW t, t = Append(s, c)
    PROVE  /\ t \in Seq(Frame) /\ t # <<>> /\ Len(s) \in Nat /\ Len(t) = Len(s) + 1
           /\ DOMAIN s = 1 .. Len(s) /\ DOMAIN t = 1 .. Len(s) + 1
           /\ t[Len(s) + 1] = c /\ \A k \in 1 .. Len(s) : t[k] = s[k]
           /\ s # <<>> => t[1] = s[1]
           /\ s = <<>> => t[1] = c
<1>1. /\ t \in Seq(Frame) /\ Len(s) \in Nat /\ Len(t) = Len(s) + 1
      /\ DOMAIN s = 1 .. Len(s) /\ DOMAIN t = 1 .. Len(s) + 1
      /\ t[Len(s) + 1] = c /\ \A k \in 1 .. Len(s) : t[k] = s[k]
  OBVIOUS
<1>2. s # <<>> => 1 \in 1 .. Len(s)
  BY <1>1, EmptySeq
<1>3. s = <<>> => Len(s) = 0
  OBVIOUS
<1>4. t # <<>>
  BY <1>1
<1>5. QED
  BY <1>1, <1>2, <1>3, <1>4

LEMMA Replaced ==
    ASSUME NEW s \in Seq(Frame), s # <<>>, NEW c \in Frame, NEW t, t = Append(Front(s), c)
    PROVE  /\ t \in Seq(Frame) /\ t # <<>> /\ Len(s) \in Nat \ {0} /\ Len(t) = Len(s)
           /\ DOMAIN s = 1 .. Len(s) /\ DOMAIN t = 1 .. Len(s)
           /\ t[Len(s)] = c /\ \A k \in 1 .. Len(s) - 1 : t[k] = s[k]
           /\ Len(s) # 1 => t[1] = s[1] /\ 1 \in 1 .. Len(s) - 1
<1> DEFINE u == Front(s)
<1>1. /\ u \in Seq(Frame) /\ Len(s) \in Nat \ {0} /\ Len(u) = Len(s) - 1
      /\ DOMAIN s = 1 .. Len(s) /\ \A k \in 1 .. Len(s) - 1 : u[k] = s[k]
  BY TopOfStack
<1> HIDE DEF u
<1>2. t = Append(u, c)
  BY DEF u
<1>3. /\ t \in Seq(Frame) /\ t # <<>> /\ Len(t) = Len(u) + 1
      /\ DOMAIN t = 1 .. Len(u) + 1
      /\ t[Len(u) + 1] = c /\ \A k \in 1 .. Len(u) : t[k] = u[k]
  BY <1>1, <1>2, PushedOn
<1>4. Len(u) + 1 = Len(s)
  BY <1>1
<1>5. QED
  BY <1>1, <1>3, <1>4

LEMMA PoppedOff ==
    ASSUME NEW s \in Seq(Frame), s # <<>>, NEW t, t = Front(s)
    PROVE  /\ t \in Seq(Frame) /\ Len(s) \in Nat \ {0} /\ Len(t) = Len(s) - 1
           /\ DOMAIN s = 1 .. Len(s) /\ DOMAIN t = 1 .. Len(s) - 1
           /\ \A k \in 1 .. Len(s) - 1 : t[k] = s[k]
           /\ Len(s) # 1 => t # <<>> /\ t[1] = s[1] /\ 1 \in 1 .. Len(s) - 1
           /\ Len(s) = 1 => t = <<>>
<1>1. /\ t \in Seq(Frame) /\ Len(s) \in Nat \ {0} /\ Len(t) = Len(s) - 1
      /\ DOMAIN s = 1 .. Len(s) /\ DOMAIN t = 1 .. Len(s) - 1
      /\ \A k \in 1 .. Len(s) - 1 : t[k] = s[k]
  BY TopOfStack
<1>2. Len(s) # 1 => t # <<>> /\ 1 \in 1 .. Len(s) - 1
  BY <1>1
<1>3. Len(s) = 1 => t = <<>>
  BY <1>1, EmptySeq
<1>4. QED
  BY <1>1, <1>2, <1>3

(* A frame stays where it may be when the arrays do not change, or change  *)
(* only as a frame allows.                                                 *)
LEMMA PlacedKept ==
    ASSUME NEW f, NEW k, NEW b, NEW ent, NEW rem, NEW st, NEW begun,
           Placed(f, k, b, ent, rem, st, begun),
           NEW st2, NEW begun2,
           begun2 => begun,
           WorldCall(f) \/ Activates(f) \/ Deactivates(f) => st2[f.entity] = st[f.entity]
    PROVE  Placed(f, k, b, ent, rem, st2, begun2)
  BY DEF Placed

LEMMA PlacedStill ==
    ASSUME NEW f, NEW k, NEW b, NEW ent, NEW rem, NEW st, NEW begun,
           Placed(f, k, b, ent, rem, st, begun),
           NEW ent2, NEW rem2, NEW st2,
           f.kind = "loop" /\ f.num <= Len(ent) => f.num <= Len(ent2),
           PhaseCall(f) => /\ f.entity # Null
                           /\ ent2[b.i - 1] \in {ent[b.i - 1], Null}
                           /\ \A j \in DOMAIN ent2 : j \in DOMAIN ent /\ ent2[j] \in {ent[j], Null}
                           /\ Contains(ent, f.entity) \/ Contains(rem, f.entity) =>
                                 Contains(ent2, f.entity) \/ Contains(rem2, f.entity),
           WorldCall(f) \/ Activates(f) \/ Deactivates(f) => st2[f.entity] = st[f.entity]
    PROVE  Placed(f, k, b, ent2, rem2, st2, begun)
<1>1. CASE PhaseCall(f)
  <2>1. ~WorldCall(f)
    BY <1>1 DEF PhaseCall, WorldCall, Phase, World
  <2>2. QED
    BY <1>1, <2>1 DEF Placed, PhaseCall, Activates, Deactivates
<1>2. CASE ~PhaseCall(f)
  BY <1>2 DEF Placed
<1>3. QED
  BY <1>1, <1>2

(* The lowest frame is placed whatever is above it.                        *)
LEMMA PlacedAlone ==
    ASSUME NEW f, NEW b, NEW ent, NEW rem, NEW st, NEW begun,
           Placed(f, 1, b, ent, rem, st, begun)
    PROVE  \A c : Placed(f, 1, c, ent, rem, st, begun)
  BY DEF Placed

(* What the invariant says of the top of the stack.                        *)
LEMMA TopFrame ==
    ASSUME StackInv, stack # <<>>
    PROVE  /\ Last(stack) = stack[Len(stack)] /\ Last(stack) \in Frame
           /\ Len(stack) \in Nat \ {0} /\ Len(stack) <= MaxDepth
           /\ DOMAIN stack = 1 .. Len(stack) /\ Len(stack) \in DOMAIN stack /\ 1 \in DOMAIN stack
           /\ Placed(Last(stack), Len(stack), stack[1], entities, removedEntities, status, isStarted)
           /\ Placed(stack[1], 1, stack[1], entities, removedEntities, status, isStarted)
           /\ stack[1] \in Frame
           /\ OfFrame(Last(stack)) => Len(stack) = 1 /\ isInOnFrame
           /\ OfWorld(Last(stack)) => ~isInOnFrame
<1>1. /\ Last(stack) = stack[Len(stack)] /\ Last(stack) \in Frame
      /\ Len(stack) \in Nat \ {0} /\ Len(stack) <= MaxDepth
      /\ DOMAIN stack = 1 .. Len(stack) /\ Len(stack) \in DOMAIN stack /\ 1 \in DOMAIN stack
  <2>1. stack \in Seq(Frame) /\ Len(stack) <= MaxDepth
    BY DEF StackInv
  <2>2. QED
    BY <2>1, TopOfStack
<1>2. /\ Placed(Last(stack), Len(stack), stack[1], entities, removedEntities, status, isStarted)
      /\ Placed(stack[1], 1, stack[1], entities, removedEntities, status, isStarted)
  BY <1>1 DEF StackInv, AllPlaced
<1>3. OfFrame(Last(stack)) => Len(stack) = 1 /\ isInOnFrame
  BY <1>1, <1>2 DEF Placed, OfFrame, Phase, StackInv
<1>4. OfWorld(Last(stack)) => ~isInOnFrame
  BY <1>1, <1>2 DEF Placed, OfFrame, OfWorld, Phase, World, StackInv
<1>5. stack[1] \in Frame
  BY <1>1 DEF StackInv
<1>6. QED
  BY <1>1, <1>2, <1>3, <1>4, <1>5

(* In a frame there is a call above the loop, unless the loop is on top.   *)
LEMMA InFrame ==
    ASSUME StackInv, isInOnFrame
    PROVE  /\ stack # <<>> /\ OfFrame(stack[1])
           /\ OfFrame(Last(stack)) \/ Len(stack) >= 2
           /\ Len(stack) >= 2 => 2 \in DOMAIN stack /\ PhaseCall(stack[2])
<1>1. stack # <<>> /\ OfFrame(stack[1])
  BY DEF StackInv
<1>2. OfFrame(Last(stack)) \/ Len(stack) >= 2
  BY <1>1, TopFrame
<1>3. Len(stack) >= 2 => 2 \in DOMAIN stack
  BY <1>1, TopFrame
<1>4. 2 \in DOMAIN stack =>
         Placed(stack[2], 2, stack[1], entities, removedEntities, status, isStarted)
  BY DEF StackInv, AllPlaced
<1>5. QED
  BY <1>1, <1>2, <1>3, <1>4 DEF Placed

(* The application begins to attach or remove an entity.                   *)
LEMMA BeginsKeeps ==
    ASSUME IInv, NEW e \in Entity, NEW c \in Frame, c.entity = e,
           Len(stack) < MaxDepth, stack' = Append(stack, c),
           stack # <<>> => ~OfFrame(Last(stack)),
           \/ /\ Activates(c) /\ status[e] = "fresh"
              /\ status' = [status EXCEPT ![e] = "activating"]
              /\ sleeping' \in {sleeping, sleeping \cup {e}}
           \/ /\ Deactivates(c) /\ status[e] = "active"
              /\ status' = [status EXCEPT ![e] = "deactivating"]
              /\ sleeping' = sleeping
              /\ \A k \in DOMAIN stack :
                    ~OfWorld(stack[k]) /\ (WorldCall(stack[k]) => stack[k].entity # e),
           UNCHANGED <<entities, registry, newEntities, removedEntities, isInOnFrame, isStarted,
                       called, started, missed>>
    PROVE  ArraysInv' /\ StackInv' /\ CalledInv' /\ StartedInv'
<1>1. status \in [Entity -> Status] /\ sleeping \subseteq Entity
  BY DEF IInv, Objects
<1>2. /\ status' \in [Entity -> Status] /\ \A f \in Entity : f # e => status'[f] = status[f]
      /\ \/ Activates(c) /\ status[e] = "fresh" /\ status'[e] = "activating"
         \/ Deactivates(c) /\ status[e] = "active" /\ status'[e] = "deactivating"
      /\ sleeping \subseteq sleeping' /\ sleeping' \subseteq sleeping \cup {e}
      /\ Deactivates(c) => sleeping' = sleeping
  BY <1>1 DEF Status, Activates, Deactivates
<1>3. \A f \in Entity :
         /\ status'[f] \in {"active", "deactivating"} <=> status[f] \in {"active", "deactivating"}
         /\ status[f] = "gone" <=> status'[f] = "gone"
  BY <1>2
<1>4. ArraysInv'
  BY <1>3 DEF IInv, ArraysInv, Arrays
<1>5. /\ stack \in Seq(Frame) /\ stack' \in Seq(Frame) /\ stack' # <<>> /\ Len(stack) \in Nat
      /\ Len(stack') = Len(stack) + 1
      /\ DOMAIN stack = 1 .. Len(stack) /\ DOMAIN stack' = 1 .. Len(stack) + 1
      /\ stack'[Len(stack) + 1] = c /\ \A k \in 1 .. Len(stack) : stack'[k] = stack[k]
      /\ stack # <<>> => stack'[1] = stack[1]
      /\ stack = <<>> => stack'[1] = c
  <2>1. stack \in Seq(Frame)
    BY DEF IInv, StackInv
  <2>2. QED
    BY <2>1, PushedOn
<1>6. ~OfFrame(c) /\ ~OfWorld(c) /\ ~PhaseCall(c) /\ ~WorldCall(c) /\ c.kind # "loop" /\ c.kind # "removeAll"
      /\ (Activates(c) => ~Deactivates(c))
  BY <1>2 DEF OfFrame, OfWorld, PhaseCall, WorldCall, Activates, Deactivates
<1>7. \A k \in DOMAIN stack :
         /\ Placed(stack[k], k, stack[1], entities, removedEntities, status, isStarted)
         /\ stack[k] \in Frame
  BY <1>5 DEF IInv, StackInv, AllPlaced
<1>8. ASSUME NEW k \in DOMAIN stack
      PROVE  Placed(stack'[k], k, stack'[1], entities, removedEntities, status', isStarted)
  <2>1. stack # <<>> /\ stack'[k] = stack[k]
    BY <1>5
  <2>2. ASSUME WorldCall(stack[k]) \/ Activates(stack[k]) \/ Deactivates(stack[k])
        PROVE  status'[stack[k].entity] = status[stack[k].entity]
    <3>1. stack[k].entity # e
      BY <1>2, <1>7, <2>2 DEF Placed, Activates, Deactivates, WorldCall
    <3>2. stack[k].entity \in Entity
      BY <1>7, <2>2, FrameKinds DEF CallFrame, WorldCall, Activates, Deactivates
    <3>3. QED
      BY <1>2, <3>1, <3>2
  <2>3. QED
    BY <1>5, <1>7, <2>1, <2>2, PlacedKept
<1>9. Placed(c, Len(stack) + 1, stack'[1], entities, removedEntities, status', isStarted)
  <2>1. ~(OfFrame(stack'[1]) /\ Len(stack) + 1 = 2)
    <3>1. ASSUME OfFrame(stack'[1]), Len(stack) + 1 = 2
          PROVE  FALSE
      <4>1. Len(stack) = 1 /\ stack # <<>>
        BY <1>5, <3>1
      <4>2. OfFrame(Last(stack))
        BY <1>5, <3>1, <4>1 DEF Last
      <4>3. QED
        BY <4>1, <4>2
    <3>2. QED
      BY <3>1
  <2>2. QED
    BY <1>2, <1>6, <2>1 DEF Placed
<1>10. AllPlaced(stack', entities, removedEntities, status', isStarted)
  <2>1. \A k \in DOMAIN stack' : k \in DOMAIN stack \/ k = Len(stack) + 1
    BY <1>5
  <2>2. QED
    BY <1>5, <1>8, <1>9, <2>1 DEF AllPlaced
<1>11. Handled(stack', status')
  <2>1. Handled(stack, status)
    BY DEF IInv, StackInv
  <2>2. \A k \in DOMAIN stack' : \/ k \in DOMAIN stack /\ stack'[k] = stack[k]
                                 \/ k = Len(stack) + 1 /\ stack'[k] = c
    BY <1>5
  <2>3. \A k \in DOMAIN stack : /\ Activates(stack[k]) /\ Activates(c) => stack[k].entity # e
                                /\ Deactivates(stack[k]) /\ Deactivates(c) => stack[k].entity # e
    BY <1>2, <1>6, <1>7 DEF Placed
  <2>4. \A k \in DOMAIN stack : Deactivates(c) => ~OfWorld(stack[k])
    BY <1>2, <1>6
  <2>5. ASSUME NEW j \in DOMAIN stack', NEW k \in DOMAIN stack'
        PROVE  /\ Activates(stack'[j]) /\ Activates(stack'[k]) /\ stack'[j].entity = stack'[k].entity => j = k
               /\ Deactivates(stack'[j]) /\ Deactivates(stack'[k]) /\ stack'[j].entity = stack'[k].entity => j = k
               /\ ~(Deactivates(stack'[j]) /\ OfWorld(stack'[k]))
    BY <1>6, <2>1, <2>2, <2>3, <2>4 DEF Handled
  <2>6. ASSUME NEW f \in Entity, status'[f] = "deactivating"
        PROVE  \E k \in DOMAIN stack' : Deactivates(stack'[k]) /\ stack'[k].entity = f
    <3>1. CASE f = e
      BY <1>2, <1>5, <2>6, <3>1
    <3>2. CASE f # e
      <4>1. status[f] = "deactivating"
        BY <1>2, <2>6, <3>2
      <4>2. PICK k \in DOMAIN stack : Deactivates(stack[k]) /\ stack[k].entity = f
        BY <2>1, <4>1 DEF Handled
      <4>3. QED
        BY <1>5, <4>2
    <3>3. QED
      BY <3>1, <3>2
  <2>7. QED
    BY <2>5, <2>6 DEF Handled
<1>12. isInOnFrame <=> stack' # <<>> /\ OfFrame(stack'[1])
  BY <1>5, <1>6 DEF IInv, StackInv
<1>13. StackInv'
  <2>1. Len(stack') <= MaxDepth
    BY <1>5, Constants
  <2>2. QED
    BY <1>5, <1>10, <1>11, <1>12, <2>1 DEF StackInv
<1>14. CalledInv'
  <2>1. CASE isInOnFrame
    <3>1. /\ Len(stack) >= 2 /\ Len(stack') >= 2 /\ stack'[1] = stack[1] /\ stack'[2] = stack[2]
      <4>1. stack # <<>> /\ Len(stack) >= 2
        BY <2>1, InFrame DEF IInv
      <4>2. QED
        BY <1>5, <4>1
    <3>2. Counted(stack, entities, newEntities, called, status, sleeping)
      BY <2>1 DEF IInv, CalledInv
    <3>3. e \in stack[1].live => ~Activates(c)
      BY <1>2, <1>6, <3>2 DEF Counted
    <3>4. stack[1].live \cap sleeping' = {}
      <4>1. stack[1].live \cap sleeping = {}
        BY <3>2 DEF Counted
      <4>2. QED
        BY <1>2, <3>3, <4>1
    <3>5. \A f \in stack[1].live :
             status'[f] \in {"active", "deactivating", "gone"} /\ ~Contains(newEntities, f)
      <4>1. stack[1].live \subseteq Entity
        BY <2>1, <1>7, <1>5, <3>1, InFrame, FrameKinds DEF IInv, LoopFrame, OfFrame
      <4>2. \A f \in stack[1].live :
               status[f] \in {"active", "deactivating", "gone"} /\ ~Contains(newEntities, f)
        BY <3>2 DEF Counted
      <4>3. QED
        BY <1>3, <4>1, <4>2
    <3>6. \A k \in DOMAIN entities : entities[k] # Null /\ entities[k] \notin sleeping' =>
             entities[k] \in stack[1].live
      BY <1>2, <3>2 DEF Counted
    <3>7. \A k : Had(stack', k) = Had(stack, k)
      BY <3>1 DEF Had
    <3>8. Counted(stack', entities, newEntities, called, status', sleeping')
      BY <3>1, <3>2, <3>4, <3>5, <3>6, <3>7 DEF Counted
    <3>9. QED
      BY <2>1, <3>8 DEF IInv, CalledInv
  <2>2. CASE ~isInOnFrame
    BY <2>2 DEF IInv, CalledInv
  <2>3. QED
    BY <2>1, <2>2
<1>15. StartedInv'
  <2>1. InWorld' = InWorld
    BY <1>3 DEF InWorld
  <2>2. \A f \in Entity : status'[f] \in {"fresh", "activating"} =>
           status[f] \in {"fresh", "activating"}
    BY <1>2
  <2>3. /\ Starting(stack') => Starting(stack) /\ stack'[1] = stack[1]
        /\ ~Starting(stack') => ~Starting(stack)
        /\ ~Ending(stack') => ~Ending(stack)
    BY <1>5, <1>6 DEF Starting, Ending
  <2>4. QED
    BY <2>1, <2>2, <2>3 DEF IInv, StartedInv
<1>16. QED
  BY <1>4, <1>13, <1>14, <1>15

(* The counters of calls stay in their range.                              *)
LEMMA BaseBounds ==
    \A m : Base(m) \in Nat /\ Base(m) + NumProps <= 4 * NumProps
<1>1. NumProps \in Nat
  BY Constants
<1>2. 0 \in Nat /\ NumProps \in Nat /\ 2 * NumProps \in Nat /\ 3 * NumProps \in Nat
      /\ 0 + NumProps <= 4 * NumProps /\ NumProps + NumProps <= 4 * NumProps
      /\ 2 * NumProps + NumProps <= 4 * NumProps /\ 3 * NumProps + NumProps <= 4 * NumProps
  BY <1>1
<1>3. \A m : Base(m) \in {0, NumProps, 2 * NumProps, 3 * NumProps}
  BY DEF Base
<1>4. QED
  BY <1>2, <1>3

(* The frame on top is left.                                               *)
LEMMA PopKeeps ==
    ASSUME StackInv, stack # <<>>, stack' = Front(stack),
           ~Deactivates(Last(stack)), ~OfFrame(Last(stack)),
           Len(stack) # 1 => (isStarted' => isStarted),
           UNCHANGED <<entities, removedEntities, status, isInOnFrame>>
    PROVE  StackInv'
<1>1. /\ stack \in Seq(Frame) /\ stack' \in Seq(Frame) /\ Len(stack) \in Nat \ {0}
      /\ Len(stack') = Len(stack) - 1 /\ Len(stack) <= MaxDepth
      /\ DOMAIN stack = 1 .. Len(stack) /\ DOMAIN stack' = 1 .. Len(stack) - 1
      /\ \A k \in 1 .. Len(stack) - 1 : stack'[k] = stack[k]
      /\ Len(stack) # 1 => stack' # <<>> /\ stack'[1] = stack[1] /\ 1 \in 1 .. Len(stack) - 1
      /\ Len(stack) = 1 => stack' = <<>>
      /\ Last(stack) = stack[Len(stack)]
  <2>1. stack \in Seq(Frame) /\ Len(stack) <= MaxDepth
    BY DEF StackInv
  <2>2. QED
    BY <2>1, PoppedOff, TopOfStack
<1>2. \A k \in DOMAIN stack' :
         k \in DOMAIN stack /\ stack'[k] = stack[k] /\ stack'[1] = stack[1] /\ Len(stack) # 1
  BY <1>1
<1>3. AllPlaced(stack', entities, removedEntities, status, isStarted')
  <2>1. ASSUME NEW k \in DOMAIN stack'
        PROVE  Placed(stack[k], k, stack[1], entities, removedEntities, status, isStarted')
    <3>1. Placed(stack[k], k, stack[1], entities, removedEntities, status, isStarted)
      BY <1>2 DEF StackInv, AllPlaced
    <3>2. isStarted' => isStarted
      BY <1>2
    <3>3. QED
      BY <3>1, <3>2, PlacedKept
  <2>2. QED
    BY <1>2, <2>1 DEF AllPlaced
<1>4. Handled(stack', status)
  <2>1. Handled(stack, status)
    BY DEF StackInv
  <2>2. \A k \in DOMAIN stack : Deactivates(stack[k]) => k \in DOMAIN stack'
    BY <1>1
  <2>3. QED
    BY <1>2, <2>1, <2>2 DEF Handled
<1>5. isInOnFrame <=> stack' # <<>> /\ OfFrame(stack'[1])
  BY <1>1 DEF StackInv
<1>6. Len(stack') <= MaxDepth
  BY <1>1, Constants
<1>7. QED
  BY <1>1, <1>3, <1>4, <1>5, <1>6 DEF StackInv

(* A call goes on to the next property.                                    *)
LEMMA GoOnKeeps ==
    ASSUME StackInv, stack # <<>>, NEW c \in Frame, stack' = Append(Front(stack), c),
           Last(stack).kind = "call", c.kind = "call",
           c.method = Last(stack).method, c.entity = Last(stack).entity,
           UNCHANGED <<entities, removedEntities, status, isInOnFrame, isStarted>>
    PROVE  StackInv'
<1>1. /\ stack \in Seq(Frame) /\ stack' \in Seq(Frame) /\ stack' # <<>> /\ Len(stack) \in Nat \ {0}
      /\ Len(stack') = Len(stack) /\ Len(stack) <= MaxDepth
      /\ DOMAIN stack = 1 .. Len(stack) /\ DOMAIN stack' = 1 .. Len(stack)
      /\ stack'[Len(stack)] = c /\ \A k \in 1 .. Len(stack) - 1 : stack'[k] = stack[k]
      /\ Len(stack) # 1 => stack'[1] = stack[1]
      /\ Last(stack) = stack[Len(stack)]
  <2>1. stack \in Seq(Frame) /\ Len(stack) <= MaxDepth
    BY DEF StackInv
  <2>2. QED
    BY <2>1, Replaced, TopOfStack
<1>2. \A k \in DOMAIN stack' :
         \/ k \in DOMAIN stack /\ stack'[k] = stack[k] /\ k # Len(stack) /\ Len(stack) # 1
         \/ k = Len(stack)
  BY <1>1
<1>3. /\ ~OfFrame(c) /\ ~OfWorld(c) /\ ~Activates(c) /\ ~Deactivates(c)
      /\ ~OfFrame(Last(stack)) /\ ~OfWorld(Last(stack)) /\ ~Activates(Last(stack))
      /\ ~Deactivates(Last(stack))
      /\ (PhaseCall(c) <=> PhaseCall(Last(stack))) /\ (WorldCall(c) <=> WorldCall(Last(stack)))
      /\ c.kind # "removeAll" /\ c.kind # "loop"
  BY DEF OfFrame, OfWorld, Activates, Deactivates, PhaseCall, WorldCall
<1>4. Placed(Last(stack), Len(stack), stack[1], entities, removedEntities, status, isStarted)
  BY TopFrame
<1>5. Placed(c, Len(stack), stack[1], entities, removedEntities, status, isStarted)
  BY <1>3, <1>4 DEF Placed
<1>6. Placed(c, Len(stack), stack'[1], entities, removedEntities, status, isStarted)
  <2>1. CASE Len(stack) = 1
    BY <1>5, <2>1, PlacedAlone
  <2>2. QED
    BY <1>1, <1>5, <2>1
<1>7. AllPlaced(stack', entities, removedEntities, status, isStarted)
  BY <1>1, <1>2, <1>6 DEF AllPlaced, StackInv
<1>8. Handled(stack', status)
  <2>1. Handled(stack, status)
    BY DEF StackInv
  <2>2. /\ \A k \in DOMAIN stack :
              Deactivates(stack[k]) => k \in DOMAIN stack' /\ stack'[k] = stack[k]
        /\ \A k \in DOMAIN stack' :
              Deactivates(stack'[k]) \/ Activates(stack'[k]) \/ OfWorld(stack'[k]) =>
              k \in DOMAIN stack /\ stack'[k] = stack[k]
    BY <1>1, <1>3
  <2>3. QED
    BY <2>1, <2>2 DEF Handled
<1>9. isInOnFrame <=> stack' # <<>> /\ OfFrame(stack'[1])
  BY <1>1, <1>3 DEF StackInv
<1>10. QED
  BY <1>1, <1>7, <1>8, <1>9 DEF StackInv

(* What is said of the started entities stays true of the same loop.       *)
LEMMA StartedKept ==
    ASSUME StartedInv, UNCHANGED <<started, missed, isStarted, status, entities>>,
           Starting(stack') =>
              Starting(stack) /\ stack'[1].i = stack[1].i /\ stack'[1].num = stack[1].num,
           Starting(stack) => Starting(stack'),
           Ending(stack) => Ending(stack')
    PROVE  StartedInv'
<1>1. InWorld' = InWorld
  BY DEF InWorld
<1>2. QED
  BY <1>1 DEF StartedInv

(* A property's method returns.                                            *)
LEMMA CallNextKeeps ==
    ASSUME IInv, CallNext
    PROVE  IInv'
<1> DEFINE f == Last(stack)
           c == [Last(stack) EXCEPT !.i = @ + 1]
           n == Len(stack)
           goesOn == /\ c.i <= NumProps
                     /\ c.method \in Phase => status[c.entity] \in {"active", "deactivating"}
<1>1. /\ stack # <<>> /\ f.kind = "call"
      /\ IF goesOn THEN stack' = Append(Front(stack), c) /\ Count(c)
                   ELSE stack' = Front(stack) /\ UNCHANGED <<called, started>>
      /\ UNCHANGED <<entities, registry, newEntities, removedEntities, isInOnFrame, isStarted,
                     status, guid, sleeping, db, missed>>
  BY DEF CallNext, Top, Below, arrays, objects
<1>2. Objects /\ ArraysInv /\ StackInv /\ CalledInv /\ StartedInv
  BY DEF IInv
<1>3. /\ f = stack[n] /\ f \in Frame /\ n \in Nat \ {0} /\ DOMAIN stack = 1 .. n
      /\ Placed(f, n, stack[1], entities, removedEntities, status, isStarted)
  BY <1>1, <1>2, TopFrame
<1>4. f \in CallFrame /\ f.entity \in Entity /\ f.method \in Phase \cup World /\ f.i \in 1 .. NumProps
  BY <1>1, <1>3, FrameKinds DEF CallFrame
<1>5. c.kind = "call" /\ c.entity = f.entity /\ c.method = f.method /\ c.i = f.i + 1 /\ f.i \in Nat
  BY <1>4 DEF CallFrame
<1>6. goesOn => c \in Frame
  <2>1. goesOn => c.i \in 1 .. NumProps
    BY <1>4, <1>5, Constants
  <2>2. goesOn => c \in CallFrame
    BY <1>4, <2>1 DEF CallFrame
  <2>3. QED
    BY <2>2 DEF Frame
<1>7. ~Deactivates(f) /\ ~OfFrame(f) /\ ~Starting(<<>>) /\ ~Ending(<<>>)
  BY <1>1 DEF Deactivates, OfFrame, Starting, Ending
<1> HIDE DEF f, c
<1>8. ASSUME goesOn
      PROVE  /\ stack' # <<>> /\ Len(stack') = n
             /\ stack'[n] = c /\ \A k \in 1 .. n - 1 : stack'[k] = stack[k]
             /\ n # 1 => stack'[1] = stack[1]
             /\ Count(c)
  <2>1. stack \in Seq(Frame) /\ stack' = Append(Front(stack), c) /\ c \in Frame
    BY <1>1, <1>2, <1>6, <1>8 DEF StackInv
  <2>2. QED
    BY <1>1, <1>8, <2>1, Replaced
<1>9. ASSUME ~goesOn
      PROVE  /\ Len(stack') = n - 1 /\ \A k \in 1 .. n - 1 : stack'[k] = stack[k]
             /\ n = 1 => stack' = <<>>
             /\ n # 1 => stack' # <<>> /\ stack'[1] = stack[1]
             /\ UNCHANGED <<called, started>>
  <2>1. stack \in Seq(Frame) /\ stack' = Front(stack)
    BY <1>1, <1>2, <1>9 DEF StackInv
  <2>2. QED
    BY <1>1, <1>9, <2>1, PoppedOff
<1>10. StackInv'
  <2>1. CASE goesOn
    <3>1. stack' = Append(Front(stack), c) /\ c \in Frame
      BY <1>1, <1>6, <2>1
    <3>2. /\ Last(stack).kind = "call" /\ c.kind = "call"
          /\ c.method = Last(stack).method /\ c.entity = Last(stack).entity
      BY <1>1, <1>5 DEF f
    <3>3. UNCHANGED <<entities, removedEntities, status, isInOnFrame, isStarted>>
      BY <1>1
    <3>4. QED
      BY <1>1, <1>2, <3>1, <3>2, <3>3, GoOnKeeps
  <2>2. CASE ~goesOn
    <3>1. stack' = Front(stack) /\ UNCHANGED <<entities, removedEntities, status, isInOnFrame, isStarted>>
      BY <1>1, <2>2
    <3>2. ~Deactivates(Last(stack)) /\ ~OfFrame(Last(stack))
      BY <1>7 DEF f
    <3>3. QED
      BY <1>1, <1>2, <3>1, <3>2, PopKeeps
  <2>3. QED
    BY <2>1, <2>2
<1>11. started' = started
  BY <1>4, <1>5, <1>8, <1>9 DEF Count
<1>12. called' = IF goesOn /\ f.method \in Phase THEN [called EXCEPT ![f.entity] = @ + 1] ELSE called
  BY <1>5, <1>8, <1>9 DEF Count
<1>13. StartedInv'
  <2>1. n = 1 => ~Starting(stack) /\ ~Ending(stack) /\ ~Starting(stack') /\ ~Ending(stack')
    <3>1. CASE n = 1 /\ goesOn
      BY <1>1, <1>3, <1>5, <1>8, <3>1 DEF Starting, Ending
    <3>2. CASE n = 1 /\ ~goesOn
      BY <1>1, <1>3, <1>7, <1>9, <3>2 DEF Starting, Ending
    <3>3. QED
      BY <3>1, <3>2
  <2>2. n # 1 => stack' # <<>> /\ stack'[1] = stack[1]
    BY <1>8, <1>9
  <2>3. /\ Starting(stack') =>
              Starting(stack) /\ stack'[1].i = stack[1].i /\ stack'[1].num = stack[1].num
        /\ Starting(stack) => Starting(stack')
        /\ Ending(stack) => Ending(stack')
    BY <1>1, <2>1, <2>2 DEF Starting, Ending
  <2>4. UNCHANGED <<started, missed, isStarted, status, entities>>
    BY <1>1, <1>11
  <2>5. QED
    BY <1>2, <2>3, <2>4, StartedKept
<1>14. CalledInv'
  <2>1. CASE ~isInOnFrame
    <3>1. ~PhaseCall(f)
      <4>1. ~PhaseCall(f) \/ OfFrame(stack[1])
        BY <1>3 DEF Placed
      <4>2. QED
        BY <1>1, <1>2, <2>1, <4>1 DEF StackInv
    <3>2. called' = called
      BY <1>1, <1>12, <3>1 DEF PhaseCall
    <3>3. QED
      BY <1>1, <1>2, <2>1, <3>2 DEF CalledInv
  <2>2. CASE isInOnFrame /\ f.method \notin Phase
    <3>1. n >= 2 /\ PhaseCall(stack[2])
      <4>1. n >= 2
        BY <1>2, <1>7, <2>2, InFrame DEF f
      <4>2. QED
        BY <1>2, <2>2, <4>1, InFrame
    <3>2. n # 2
      BY <1>3, <2>2, <3>1 DEF PhaseCall
    <3>3. n > 2
      BY <1>3, <3>1, <3>2
    <3>4. Len(stack') >= 2 /\ stack'[1] = stack[1] /\ stack'[2] = stack[2]
      <4>1. 1 \in 1 .. n - 1 /\ 2 \in 1 .. n - 1 /\ n >= 2 /\ n - 1 >= 2
        BY <1>3, <3>3
      <4>2. QED
        BY <1>8, <1>9, <4>1
    <3>5. called' = called
      BY <1>12, <2>2
    <3>6. Counted(stack, entities, newEntities, called, status, sleeping)
      BY <1>2, <2>2 DEF CalledInv
    <3>7. \A k : Had(stack', k) = Had(stack, k)
      BY <3>1, <3>4 DEF Had
    <3>8. Counted(stack', entities, newEntities, called, status, sleeping)
      BY <3>1, <3>4, <3>6, <3>7 DEF Counted
    <3>9. QED
      BY <1>1, <1>2, <3>5, <3>8 DEF CalledInv
  <2>3. CASE isInOnFrame /\ f.method \in Phase
    <3>1. PhaseCall(f)
      BY <1>1, <2>3 DEF PhaseCall
    <3> DEFINE b == stack[1]
               e == f.entity
    <3>2. /\ n = 2 /\ b.i >= 2
          /\ entities[b.i - 1] \in {Null, e}
          /\ \A j \in DOMAIN entities : entities[j] = e => j = b.i - 1
      BY <1>3, <3>1 DEF Placed
    <3>3. Counted(stack, entities, newEntities, called, status, sleeping)
      BY <1>2, <2>3 DEF CalledInv
    <3>4. b \in LoopFrame
      <4>1. stack[1] \in Frame /\ OfFrame(stack[1])
        BY <1>2, <1>1, <2>3, TopFrame, InFrame
      <4>2. QED
        BY <4>1, FrameKinds DEF OfFrame
    <3>5. b.live \subseteq Entity /\ b.i \in Nat /\ Null \notin b.live
      BY <3>4, Constants DEF LoopFrame
    <3>6. stack[2] = f
      BY <1>3, <3>2
    <3> DEFINE base == Base(b.method)
    <3> HIDE DEF b, e, goesOn
    <3>7. /\ e \in b.live /\ called[e] = base + f.i
          /\ \A g \in Entity : called[g] <= base + NumProps /\ (g \notin b.live => called[g] = 0)
          /\ \A k \in DOMAIN entities : entities[k] \in b.live =>
                called[entities[k]] = base + Had(stack, k)
          /\ b.num = Len(entities) /\ b.live \cap sleeping = {}
          /\ \A g \in b.live :
                status[g] \in {"active", "deactivating", "gone"} /\ ~Contains(newEntities, g)
          /\ \A k \in DOMAIN entities : entities[k] # Null /\ entities[k] \notin sleeping =>
                entities[k] \in b.live
      BY <3>2, <3>3, <3>6 DEF Counted, b, e, n
    <3> HIDE DEF base
    <3>8. \A k \in DOMAIN entities : entities[k] \in b.live /\ k = b.i - 1 => entities[k] = e
      BY <3>2, <3>5
    <3>9. \A k : Had(stack, k) = IF k >= b.i THEN 0 ELSE IF k = b.i - 1 THEN f.i ELSE NumProps
      BY <3>2, <3>6 DEF Had, b, n
    <3>10. base \in Nat /\ base + NumProps <= 4 * NumProps
      BY BaseBounds DEF base
    <3>11. e \in Entity /\ called \in [Entity -> 0 .. 4 * NumProps]
      BY <1>2, <1>4 DEF CalledInv, e
    <3>12. CASE goesOn
      <4>1. stack'[1] = b /\ stack'[2] = c /\ Len(stack') = 2
        BY <1>8, <3>2, <3>12 DEF b
      <4>2. called' = [called EXCEPT ![e] = @ + 1]
        BY <1>12, <2>3, <3>12 DEF e
      <4>3. c.i <= NumProps /\ c.i = f.i + 1 /\ f.i \in Nat /\ c.entity = e
        BY <1>5, <3>12 DEF goesOn, e
      <4>4. called'[e] = base + c.i /\ \A g \in Entity : g # e => called'[g] = called[g]
        <5>1. called'[e] = called[e] + 1
          BY <3>11, <4>2
        <5>2. base + f.i + 1 = base + (f.i + 1)
          BY <3>10, <4>3
        <5>3. QED
          BY <3>7, <3>11, <4>2, <4>3, <5>1, <5>2
      <4>5. called'[e] <= base + NumProps /\ called'[e] \in 0 .. 4 * NumProps
        BY <3>10, <4>3, <4>4, Constants
      <4>6. called' \in [Entity -> 0 .. 4 * NumProps]
        BY <3>11, <4>2, <4>5
      <4>7. \A k : Had(stack', k) = IF k >= b.i THEN 0 ELSE IF k = b.i - 1 THEN c.i ELSE NumProps
        BY <4>1 DEF Had
      <4>8. \A g \in Entity : called'[g] <= base + NumProps /\ (g \notin b.live => called'[g] = 0)
        BY <3>7, <4>4, <4>5
      <4>9. ASSUME NEW k \in DOMAIN entities, entities[k] \in b.live
            PROVE  called'[entities[k]] = base + Had(stack', k)
        <5>1. CASE k = b.i - 1
          <6>1. entities[k] = e
            BY <3>8, <4>9, <5>1
          <6>2. ~(k >= b.i)
            BY <3>5, <5>1
          <6>3. QED
            BY <4>4, <4>7, <5>1, <6>1, <6>2
        <5>2. CASE k # b.i - 1
          <6>1. entities[k] # e /\ entities[k] \in Entity
            BY <3>2, <3>5, <4>9, <5>2
          <6>2. Had(stack', k) = Had(stack, k)
            BY <3>9, <4>7, <5>2
          <6>3. QED
            BY <3>7, <4>4, <4>9, <6>1, <6>2
        <5>3. QED
          BY <5>1, <5>2
      <4>10. Counted(stack', entities, newEntities, called', status, sleeping)
        BY <3>7, <4>1, <4>3, <4>4, <4>8, <4>9 DEF Counted, base
      <4>11. QED
        BY <1>1, <4>6, <4>10 DEF CalledInv
    <3>13. CASE ~goesOn
      <4>1. stack'[1] = b /\ Len(stack') = 1 /\ called' = called
        BY <1>9, <3>2, <3>13 DEF b
      <4>2. \A k : Had(stack', k) = IF k >= b.i THEN 0 ELSE NumProps
        BY <4>1 DEF Had
      <4>3. ASSUME NEW k \in DOMAIN entities, entities[k] \in b.live
            PROVE  called[entities[k]] = base + Had(stack', k)
        <5>1. CASE k = b.i - 1
          <6>1. entities[k] = e /\ ~(k >= b.i)
            BY <3>5, <3>8, <4>3, <5>1
          <6>2. Contains(entities, e)
            <7>1. DOMAIN entities = 1 .. Len(entities)
              BY <1>2 DEF ArraysInv, Arrays
            <7>2. QED
              BY <6>1, <7>1 DEF Contains
          <6>3. status[e] \in {"active", "deactivating"}
            BY <1>2, <3>11, <6>2 DEF ArraysInv, Arrays
          <6>4. f.i = NumProps
            BY <1>4, <1>5, <3>13, <6>3, Constants DEF goesOn, e
          <6>5. QED
            BY <3>7, <4>2, <5>1, <6>1, <6>4
        <5>2. CASE k # b.i - 1
          <6>1. Had(stack', k) = Had(stack, k)
            BY <3>9, <4>2, <5>2
          <6>2. QED
            BY <3>7, <4>3, <6>1
        <5>3. QED
          BY <5>1, <5>2
      <4>4. Counted(stack', entities, newEntities, called, status, sleeping)
        BY <3>7, <4>1, <4>3 DEF Counted, base
      <4>5. QED
        BY <1>1, <1>2, <4>1, <4>4 DEF CalledInv
    <3>14. QED
      BY <3>12, <3>13
  <2>4. QED
    BY <2>1, <2>2, <2>3
<1>15. Objects' /\ ArraysInv'
  BY <1>1, <1>2 DEF Objects, ArraysInv, Arrays
<1>16. QED
  BY <1>10, <1>13, <1>14, <1>15 DEF IInv

(* What a loop that goes on finds.                                         *)
LEMMA LoopTop ==
    ASSUME IInv, LoopNext
    PROVE  LET f == Last(stack)
               e == entities[f.i]
               g == [f EXCEPT !.i = @ + 1]
           IN  /\ stack # <<>> /\ f.kind = "loop" /\ f \in LoopFrame /\ f = stack[Len(stack)]
               /\ Len(stack) \in {1, 2} /\ f.i \in Nat /\ f.i >= 1 /\ f.i <= f.num /\ f.num \in Nat
               /\ f.i \in DOMAIN entities /\ e \in Entity \cup {Null}
               /\ g \in LoopFrame /\ g \in Frame /\ g.kind = "loop" /\ g.method = f.method
               /\ g.num = f.num /\ g.live = f.live /\ g.i = f.i + 1
               /\ f.method \in Phase \cup World
               /\ f.method \in Phase => Len(stack) = 1 /\ isInOnFrame
               /\ f.method \in World =>
                     /\ ~isInOnFrame /\ e \in Entity /\ status[e] = "active"
                     /\ \A j \in DOMAIN stack : ~Deactivates(stack[j])
                     /\ Len(stack) = 2 => f.method = "OnSave" /\ stack[1].kind = "removeAll"
<1> DEFINE f == Last(stack)
           e == entities[f.i]
           g == [f EXCEPT !.i = @ + 1]
<1>1. stack # <<>> /\ f.kind = "loop" /\ f.i <= f.num
  BY DEF LoopNext, Top
<1>2. Objects /\ ArraysInv /\ StackInv
  BY DEF IInv
<1>3. /\ f = stack[Len(stack)] /\ f \in Frame /\ Len(stack) \in Nat \ {0}
      /\ DOMAIN stack = 1 .. Len(stack) /\ Len(stack) \in DOMAIN stack
      /\ Placed(f, Len(stack), stack[1], entities, removedEntities, status, isStarted)
      /\ OfFrame(f) => Len(stack) = 1 /\ isInOnFrame
      /\ OfWorld(f) => ~isInOnFrame
  BY <1>1, <1>2, TopFrame
<1>4. f \in LoopFrame
  BY <1>1, <1>3, FrameKinds
<1>5. f.num \in Nat /\ f.i \in Nat /\ f.i >= 1 /\ f.method \in Phase \cup World
  BY <1>4, Constants DEF LoopFrame
<1>6. /\ f.num <= Len(entities) /\ Len(stack) \in {1, 2}
      /\ Len(stack) = 2 => f.method = "OnSave" /\ stack[1].kind = "removeAll"
  <2> HIDE DEF f
  <2>1. /\ Len(stack) = 1 \/ (Len(stack) = 2 /\ stack[1].kind = "removeAll" /\ f.method = "OnSave")
        /\ f.num <= Len(entities)
    BY <1>1, <1>3 DEF Placed
  <2>2. QED
    BY <2>1
<1>7. /\ DOMAIN entities = 1 .. Len(entities) /\ Len(entities) \in Nat
      /\ Len(entities) <= Cardinality(Entity)
      /\ \A k \in DOMAIN entities : entities[k] \in Entity \cup {Null}
  BY <1>2 DEF ArraysInv, Arrays
<1>8. f.i \in DOMAIN entities /\ e \in Entity \cup {Null}
  BY <1>1, <1>5, <1>6, <1>7
<1>9. f.i + 1 \in 1 .. Cardinality(Entity) + 1
  BY <1>1, <1>5, <1>6, <1>7, Constants
<1>10. g \in LoopFrame /\ g.kind = "loop" /\ g.method = f.method /\ g.num = f.num /\ g.live = f.live
       /\ g.i = f.i + 1
  BY <1>1, <1>4, <1>9 DEF LoopFrame
<1>11. g \in Frame
  BY <1>10 DEF Frame
<1> HIDE DEF f, e, g
<1>12. ASSUME f.method \in World
       PROVE  /\ ~isInOnFrame /\ e \in Entity /\ status[e] = "active"
              /\ \A j \in DOMAIN stack : ~Deactivates(stack[j])
  <2>1. OfWorld(f)
    BY <1>1, <1>12 DEF OfWorld
  <2>2. Handled(stack, status) /\ ~isInOnFrame
    BY <1>2, <1>3, <2>1 DEF StackInv
  <2>3. \A j \in DOMAIN stack : ~Deactivates(stack[j])
    BY <1>3, <2>1, <2>2 DEF Handled
  <2>4. ~Contains(entities, Null) /\ Contains(entities, e)
    BY <1>2, <1>7, <1>8, <2>2 DEF ArraysInv, Arrays, Contains, e
  <2>5. e \in Entity
    BY <1>8, <2>4
  <2>6. status[e] \in {"active", "deactivating"}
    BY <1>2, <2>4, <2>5 DEF ArraysInv, Arrays
  <2>7. status[e] # "deactivating"
    BY <2>2, <2>3, <2>5 DEF Handled
  <2>8. QED
    BY <2>2, <2>3, <2>5, <2>6, <2>7
<1>13. f.method \in Phase => Len(stack) = 1 /\ isInOnFrame
  BY <1>1, <1>3 DEF OfFrame
<1>14. QED
  BY <1>1, <1>3, <1>4, <1>5, <1>6, <1>8, <1>10, <1>11, <1>12, <1>13 DEF f, e, g

(* Load, Start and Save go on to the next entity.                          *)
LEMMA WorldLoopKeeps ==
    ASSUME IInv, LoopNext, Last(stack).method \in World
    PROVE  StackInv' /\ CalledInv' /\ StartedInv'
<1> DEFINE f == Last(stack)
           e == entities[f.i]
           g == [f EXCEPT !.i = @ + 1]
           c == Call(e, f.method)
           n == Len(stack)
<1>1. Objects /\ ArraysInv /\ StackInv /\ CalledInv /\ StartedInv
  BY DEF IInv
<1>2. /\ stack # <<>> /\ f.kind = "loop" /\ f = stack[n] /\ n \in {1, 2}
      /\ f.i \in Nat /\ f.i >= 1 /\ f.i <= f.num /\ f.num \in Nat /\ f.i \in DOMAIN entities
      /\ g \in Frame /\ g.kind = "loop" /\ g.method = f.method /\ g.num = f.num /\ g.i = f.i + 1
      /\ ~isInOnFrame /\ e \in Entity /\ status[e] = "active"
      /\ \A j \in DOMAIN stack : ~Deactivates(stack[j])
      /\ n = 2 => f.method = "OnSave" /\ stack[1].kind = "removeAll"
      /\ f.method \in World
  BY LoopTop
<1>3. /\ c \in Frame /\ c.kind = "call" /\ c.entity = e /\ c.method = f.method /\ c.i = 1
  BY <1>2, NewFrames DEF Call
<1>4. /\ stack' = Append(Append(Front(stack), g), c) /\ Count(c)
      /\ UNCHANGED <<entities, registry, newEntities, removedEntities, isInOnFrame, isStarted,
                     status, sleeping, missed>>
  <2>1. ~(f.method \in Phase)
    BY <1>2 DEF Phase, World
  <2>2. QED
    BY <2>1 DEF LoopNext, Below, arrays, objects
<1> HIDE DEF f, g, c
<1>5. /\ stack \in Seq(Frame) /\ stack' \in Seq(Frame) /\ stack' # <<>> /\ n \in Nat \ {0}
      /\ Len(stack') = n + 1 /\ DOMAIN stack = 1 .. n /\ DOMAIN stack' = 1 .. n + 1
      /\ stack'[n + 1] = c /\ stack'[n] = g /\ \A k \in 1 .. n - 1 : stack'[k] = stack[k]
      /\ n # 1 => stack'[1] = stack[1]
  <2>1. stack \in Seq(Frame)
    BY <1>1 DEF StackInv
  <2>2. stack # <<>> /\ g \in Frame /\ c \in Frame /\ stack' = Append(Append(Front(stack), g), c)
    BY <1>2, <1>3, <1>4
  <2> DEFINE u == Append(Front(stack), g)
  <2>3. /\ u \in Seq(Frame) /\ u # <<>> /\ n \in Nat \ {0} /\ Len(u) = n
        /\ DOMAIN stack = 1 .. n /\ DOMAIN u = 1 .. n
        /\ u[n] = g /\ \A k \in 1 .. n - 1 : u[k] = stack[k]
        /\ n # 1 => u[1] = stack[1] /\ 1 \in 1 .. n - 1
    BY <2>1, <2>2, Replaced, ZenonT(60)
  <2>4. stack' = Append(u, c)
    BY <2>2
  <2> HIDE DEF u
  <2>5. /\ stack' \in Seq(Frame) /\ stack' # <<>> /\ Len(stack') = n + 1
        /\ DOMAIN stack' = 1 .. n + 1 /\ stack'[n + 1] = c
        /\ \A k \in 1 .. n : stack'[k] = u[k]
        /\ stack'[1] = u[1]
    BY <2>2, <2>3, <2>4, PushedOn
  <2>6. n \in 1 .. n /\ \A k \in 1 .. n - 1 : k \in 1 .. n
    BY <2>3
  <2>7. QED
    BY <2>1, <2>3, <2>5, <2>6
<1>6. /\ Placed(f, n, stack[1], entities, removedEntities, status, isStarted)
      /\ \A k \in 1 .. n - 1 :
            Placed(stack[k], k, stack[1], entities, removedEntities, status, isStarted)
  <2>1. n \in DOMAIN stack /\ \A k \in 1 .. n - 1 : k \in DOMAIN stack
    BY <1>5
  <2>2. QED
    BY <1>1, <1>2, <2>1 DEF StackInv, AllPlaced
<1>7. /\ ~OfFrame(f) /\ ~OfFrame(g) /\ ~OfFrame(c) /\ ~OfFrame(stack[1]) /\ ~OfFrame(stack'[1])
      /\ ~PhaseCall(c) /\ WorldCall(c) /\ ~Activates(c) /\ ~Deactivates(c) /\ ~Activates(g)
      /\ ~Deactivates(g)
      /\ ~PhaseCall(g) /\ ~WorldCall(g) /\ ~OfWorld(c)
  <2>1. f.method \notin Phase
    BY <1>2 DEF Phase, World
  <2>2. n = 1 => stack[1] = f /\ stack'[1] = g
    BY <1>2, <1>5
  <2>3. n # 1 => stack'[1] = stack[1] /\ stack[1].kind = "removeAll"
    BY <1>2, <1>5
  <2>4. /\ ~OfFrame(f) /\ ~OfFrame(g) /\ ~OfFrame(c)
        /\ ~PhaseCall(c) /\ WorldCall(c) /\ ~Activates(c) /\ ~Deactivates(c) /\ ~Activates(g)
        /\ ~Deactivates(g)
        /\ ~PhaseCall(g) /\ ~WorldCall(g) /\ ~OfWorld(c)
    BY <1>2, <1>3, <2>1 DEF OfFrame, OfWorld, PhaseCall, WorldCall, Activates, Deactivates
  <2>5. ~OfFrame(stack[1]) /\ ~OfFrame(stack'[1])
    BY <2>2, <2>3, <2>4 DEF OfFrame
  <2>6. QED
    BY <2>4, <2>5
<1>8. Placed(g, n, stack'[1], entities, removedEntities, status, isStarted)
  <2>1. f.i + 1 <= f.num + 1
    BY <1>2
  <2>2. Placed(g, n, stack[1], entities, removedEntities, status, isStarted)
    BY <1>2, <1>6, <1>7, <2>1 DEF Placed
  <2>3. CASE n = 1
    BY <2>2, <2>3, PlacedAlone
  <2>4. QED
    BY <1>5, <2>2, <2>3
<1>9. Placed(c, n + 1, stack'[1], entities, removedEntities, status, isStarted)
  BY <1>2, <1>3, <1>7 DEF Placed
<1>10. AllPlaced(stack', entities, removedEntities, status, isStarted)
  <2>1. \A k \in DOMAIN stack' : k = n + 1 \/ k = n \/ (k \in 1 .. n - 1 /\ n # 1)
    BY <1>5
  <2>2. QED
    BY <1>5, <1>6, <1>8, <1>9, <2>1 DEF AllPlaced
<1>11. Handled(stack', status)
  <2>1. Handled(stack, status)
    BY <1>1 DEF StackInv
  <2>2. \A k \in DOMAIN stack' : \/ k \in DOMAIN stack /\ stack'[k] = stack[k]
                                 \/ ~Activates(stack'[k]) /\ ~Deactivates(stack'[k])
    BY <1>5, <1>7, SMTT(30)
  <2>3. QED
    BY <1>2, <2>1, <2>2 DEF Handled
<1>12. StackInv'
  <2>1. n + 1 <= MaxDepth
    BY <1>2, Constants
  <2>2. QED
    BY <1>1, <1>2, <1>4, <1>5, <1>7, <1>10, <1>11, <2>1 DEF StackInv
<1>13. CalledInv'
  <2>1. called' = called
    BY <1>3, <1>4, <1>7 DEF Count, WorldCall, PhaseCall
  <2>2. QED
    BY <1>1, <1>2, <1>4, <2>1 DEF CalledInv
<1>14. CASE f.method # "OnStart"
  <2>1. started' = started
    BY <1>3, <1>4, <1>14 DEF Count
  <2>2. n = 1 => stack[1] = f /\ stack'[1] = g
    BY <1>2, <1>5
  <2>3. n # 1 => stack'[1] = stack[1]
    BY <1>5
  <2>4. /\ Starting(stack') =>
              Starting(stack) /\ stack'[1].i = stack[1].i /\ stack'[1].num = stack[1].num
        /\ Starting(stack) => Starting(stack')
        /\ Ending(stack) => Ending(stack')
    BY <1>2, <1>5, <1>14, <2>2, <2>3 DEF Starting, Ending
  <2>5. UNCHANGED <<started, missed, isStarted, status, entities>>
    BY <1>4, <2>1
  <2>6. StartedInv'
    BY <1>1, <2>4, <2>5, StartedKept
  <2>7. QED
    BY <1>12, <1>13, <2>6
<1>15. CASE f.method = "OnStart"
  <2>1. n = 1 /\ stack[1] = f /\ stack'[1] = g /\ Starting(stack) /\ Starting(stack')
    BY <1>2, <1>5, <1>15 DEF Starting
  <2>2. ~isStarted /\ ~isStarted'
    BY <1>2, <1>4, <1>6, <1>15 DEF Placed
  <2>3. started' = [started EXCEPT ![e] = @ + 1]
    BY <1>3, <1>4, <1>15 DEF Count
  <2>4. \A k \in DOMAIN entities :
             /\ started[entities[k]] = IF k < f.i THEN 1 ELSE 0
             /\ k > f.num => entities[k] \in missed
    BY <1>1, <2>1 DEF StartedInv
  <2>5. started \in [Entity -> 0 .. 1] /\ started[e] = 0
    <3>1. ~(f.i < f.i)
      BY <1>2
    <3>2. QED
      BY <1>1, <1>2, <2>4, <3>1 DEF StartedInv
  <2>6. /\ started' \in [Entity -> 0 .. 1] /\ started'[e] = 1
        /\ \A x : x # e => started'[x] = started[x]
    BY <1>2, <2>3, <2>5
  <2>7. ASSUME NEW k \in DOMAIN entities
        PROVE  started'[entities[k]] = IF k < g.i THEN 1 ELSE 0
    <3>1. k \in Nat
      BY <1>1 DEF ArraysInv, Arrays
    <3>2. CASE k = f.i
      <4>1. k < g.i
        BY <1>2, <3>1, <3>2
      <4>2. QED
        BY <2>6, <3>2, <4>1
    <3>3. CASE k # f.i
      <4>1. entities[k] # e
        BY <1>1, <1>2, <3>3, Constants DEF ArraysInv, Arrays, Unique
      <4>2. k < g.i <=> k < f.i
        BY <1>2, <3>1, <3>3
      <4>3. QED
        BY <2>4, <2>6, <4>1, <4>2
    <3>4. QED
      BY <3>2, <3>3
  <2>8. \A x \in Entity : status[x] \in {"fresh", "activating"} => started'[x] = 0
    BY <1>1, <1>2, <2>6 DEF StartedInv
  <2>9. StartedInv'
    BY <1>2, <1>4, <2>1, <2>2, <2>4, <2>6, <2>7, <2>8 DEF StartedInv
  <2>10. QED
    BY <1>12, <1>13, <2>9
<1>16. QED
  BY <1>14, <1>15

(* A frame's loop goes on to the next entity, or leaves it out.            *)
LEMMA PhaseLoopKeeps ==
    ASSUME IInv, LoopNext, Last(stack).method \in Phase
    PROVE  StackInv' /\ CalledInv' /\ StartedInv'
<1> DEFINE f == Last(stack)
           e == entities[f.i]
           g == [f EXCEPT !.i = @ + 1]
           c == Call(e, f.method)
           skips == e = Null \/ e \in sleeping
           base == Base(f.method)
<1>1. Objects /\ ArraysInv /\ StackInv /\ CalledInv /\ StartedInv
  BY DEF IInv
<1>2. /\ stack # <<>> /\ f.kind = "loop" /\ f \in LoopFrame /\ f = stack[1] /\ Len(stack) = 1
      /\ f.i \in Nat /\ f.i >= 1 /\ f.i <= f.num /\ f.num \in Nat /\ f.i \in DOMAIN entities
      /\ g \in Frame /\ g.kind = "loop" /\ g.method = f.method /\ g.num = f.num /\ g.i = f.i + 1
      /\ g.live = f.live
      /\ isInOnFrame /\ e \in Entity \cup {Null} /\ f.method \in Phase
  BY LoopTop
<1>3. ~skips => /\ c \in Frame /\ c.kind = "call" /\ c.entity = e /\ c.method = f.method /\ c.i = 1
                /\ e \in Entity /\ e \notin sleeping
  BY <1>2, NewFrames DEF Call
<1>4. /\ IF skips THEN stack' = Append(Front(stack), g) /\ UNCHANGED <<called, started>>
         ELSE stack' = Append(Append(Front(stack), g), c) /\ Count(c)
      /\ UNCHANGED <<entities, registry, newEntities, removedEntities, isInOnFrame, isStarted,
                     status, sleeping, missed>>
  BY <1>2 DEF LoopNext, Below, arrays, objects
<1> HIDE DEF f, e, g, c, skips
<1>5. /\ stack' \in Seq(Frame) /\ stack' # <<>> /\ stack'[1] = g
      /\ DOMAIN stack = {1}
      /\ skips  => Len(stack') = 1 /\ DOMAIN stack' = {1}
      /\ ~skips => Len(stack') = 2 /\ DOMAIN stack' = {1, 2} /\ stack'[2] = c
  <2> DEFINE u == Append(Front(stack), g)
  <2>1. stack \in Seq(Frame)
    BY <1>1 DEF StackInv
  <2>2. /\ u \in Seq(Frame) /\ u # <<>> /\ Len(u) = 1
        /\ DOMAIN stack = 1 .. 1 /\ DOMAIN u = 1 .. 1 /\ u[1] = g
    <3>1. stack # <<>> /\ g \in Frame
      BY <1>2
    <3>2. /\ u \in Seq(Frame) /\ u # <<>> /\ Len(u) = Len(stack)
          /\ DOMAIN stack = 1 .. Len(stack) /\ DOMAIN u = 1 .. Len(stack) /\ u[Len(stack)] = g
      BY <2>1, <3>1, Replaced, ZenonT(60)
    <3>3. QED
      BY <1>2, <3>2
  <2>3. 1 .. 1 = {1} /\ 1 .. 2 = {1, 2}
    OBVIOUS
  <2>4. skips => stack' = u
    BY <1>4
  <2>5. ~skips => stack' = Append(u, c)
    BY <1>4
  <2> HIDE DEF u
  <2>6. ~skips => /\ stack' \in Seq(Frame) /\ stack' # <<>> /\ Len(stack') = 1 + 1
                  /\ DOMAIN stack' = 1 .. 1 + 1 /\ stack'[1 + 1] = c /\ stack'[1] = u[1]
    BY <1>3, <2>2, <2>5, PushedOn
  <2>7. QED
    BY <2>2, <2>3, <2>4, <2>6
<1>6. Placed(f, 1, f, entities, removedEntities, status, isStarted)
  BY <1>1, <1>2, <1>5 DEF StackInv, AllPlaced
<1>7. /\ OfFrame(g) /\ ~PhaseCall(g) /\ ~WorldCall(g) /\ ~Activates(g) /\ ~Deactivates(g)
      /\ g.method # "OnStart" /\ f.method # "OnStart" /\ g.kind # "removeAll"
      /\ ~skips => /\ PhaseCall(c) /\ ~WorldCall(c) /\ ~Activates(c) /\ ~Deactivates(c)
                   /\ c.kind # "loop" /\ c.kind # "removeAll"
  BY <1>2, <1>3 DEF OfFrame, PhaseCall, WorldCall, Activates, Deactivates, Phase, World
<1>8. Placed(g, 1, g, entities, removedEntities, status, isStarted)
  <2>1. f.i + 1 <= f.num + 1
    BY <1>2
  <2>2. QED
    BY <1>2, <1>6, <1>7, <2>1 DEF Placed
<1>9. ~skips => /\ entities[g.i - 1] = e /\ Contains(entities, e)
                /\ \A j \in DOMAIN entities : entities[j] = e => j = g.i - 1
  <2>1. g.i - 1 = f.i
    BY <1>2
  <2>2. Unique(entities) /\ DOMAIN entities = 1 .. Len(entities)
    BY <1>1 DEF ArraysInv, Arrays
  <2>3. entities[f.i] = e
    BY DEF e
  <2>4. QED
    BY <1>2, <1>3, <2>1, <2>2, <2>3, Constants DEF Unique, Contains
<1>10. ~skips => Placed(c, 2, g, entities, removedEntities, status, isStarted)
  <2>1. g.i >= 2
    BY <1>2
  <2>2. QED
    BY <1>2, <1>3, <1>7, <1>9, <2>1 DEF Placed
<1>11. AllPlaced(stack', entities, removedEntities, status, isStarted)
  BY <1>5, <1>8, <1>10 DEF AllPlaced
<1>12. Handled(stack', status)
  <2>1. Handled(stack, status)
    BY <1>1 DEF StackInv
  <2>2. \A k \in DOMAIN stack' : ~Activates(stack'[k]) /\ ~Deactivates(stack'[k])
    BY <1>5, <1>7
  <2>3. \A k \in DOMAIN stack : ~Deactivates(stack[k])
    BY <1>2, <1>5 DEF Deactivates
  <2>4. \A x \in Entity : status[x] # "deactivating"
    BY <2>1, <2>3 DEF Handled
  <2>5. \A j, k \in DOMAIN stack' :
          /\ Activates(stack'[j]) /\ Activates(stack'[k]) /\ stack'[j].entity = stack'[k].entity => j = k
          /\ Deactivates(stack'[j]) /\ Deactivates(stack'[k]) /\ stack'[j].entity = stack'[k].entity => j = k
          /\ ~(Deactivates(stack'[j]) /\ OfWorld(stack'[k]))
    BY <2>2
  <2>6. \A x \in Entity : status[x] = "deactivating" =>
          \E k \in DOMAIN stack' : Deactivates(stack'[k]) /\ stack'[k].entity = x
    BY <2>4
  <2>7. QED
    BY <2>5, <2>6 DEF Handled
<1>13. StackInv'
  <2>1. Len(stack') <= MaxDepth
    <3>1. /\ 1 <= MaxDepth /\ 2 <= MaxDepth
          /\ skips => Len(stack') = 1
          /\ ~skips => Len(stack') = 2
      BY <1>5, Constants
    <3>2. CASE skips
      BY <3>1, <3>2
    <3>3. CASE ~skips
      BY <3>1, <3>3
    <3>4. QED
      BY <3>2, <3>3
  <2>2. QED
    BY <1>2, <1>4, <1>5, <1>7, <1>11, <1>12, <2>1 DEF StackInv
<1>14. started' = started
  BY <1>3, <1>4, <1>7 DEF Count
<1>15. StartedInv'
  <2>1. /\ ~Starting(stack) /\ ~Ending(stack) /\ ~Starting(stack') /\ ~Ending(stack')
    BY <1>2, <1>5, <1>7 DEF Starting, Ending
  <2>2. UNCHANGED <<started, missed, isStarted, status, entities>>
    BY <1>4, <1>14
  <2>3. QED
    BY <1>1, <2>1, <2>2, StartedKept
<1>16. /\ f.num = Len(entities) /\ f.live \cap sleeping = {}
       /\ \A x \in f.live :
             status[x] \in {"active", "deactivating", "gone"} /\ ~Contains(newEntities, x)
       /\ \A k \in DOMAIN entities : entities[k] # Null /\ entities[k] \notin sleeping =>
             entities[k] \in f.live
       /\ \A x \in Entity : called[x] <= base + NumProps /\ (x \notin f.live => called[x] = 0)
       /\ \A k \in DOMAIN entities : entities[k] \in f.live =>
             called[entities[k]] = base + Had(stack, k)
  <2>1. Counted(stack, entities, newEntities, called, status, sleeping)
    BY <1>1, <1>2 DEF CalledInv
  <2>2. QED
    BY <1>2, <2>1 DEF Counted
<1>17. \A k : Had(stack, k) = IF k >= f.i THEN 0 ELSE NumProps
  BY <1>2 DEF Had
<1>18. f.live \subseteq Entity /\ Null \notin f.live
  BY <1>2, Constants DEF LoopFrame
<1>19. base \in Nat /\ base + NumProps <= 4 * NumProps
  BY BaseBounds
<1>20. called \in [Entity -> 0 .. 4 * NumProps] /\ \A k \in DOMAIN entities : k \in Nat
  BY <1>1 DEF CalledInv, ArraysInv, Arrays
<1> HIDE DEF base
<1>21. CASE skips
  <2> USE <1>21
  <2>1. \A k : Had(stack', k) = IF k >= g.i THEN 0 ELSE NumProps
    <3>1. Len(stack') = 1 /\ stack'[1] = g
      BY <1>5
    <3>2. QED
      BY <3>1 DEF Had
  <2>2. e \notin f.live /\ entities[f.i] = e
    BY <1>16, <1>18, <1>21 DEF skips, e
  <2>3. ASSUME NEW k \in DOMAIN entities, entities[k] \in f.live
        PROVE  called[entities[k]] = base + Had(stack', k)
    <3>1. k # f.i /\ k \in Nat
      BY <1>20, <2>2, <2>3
    <3>2. k >= g.i <=> k >= f.i
      BY <1>2, <3>1
    <3>3. Had(stack', k) = Had(stack, k)
      BY <1>17, <2>1, <3>2
    <3>4. QED
      BY <1>16, <2>3, <3>3
  <2>4. Counted(stack', entities, newEntities, called, status, sleeping)
    <3>1. Len(stack') = 1 /\ stack'[1] = g /\ g.method = f.method /\ g.num = f.num /\ g.live = f.live
      BY <1>2, <1>5
    <3>2. QED
      BY <1>16, <2>3, <3>1 DEF Counted, base
  <2>5. CalledInv'
    <3>1. called' = called /\ UNCHANGED <<entities, newEntities, status, sleeping>>
      BY <1>4
    <3>2. QED
      BY <1>20, <2>4, <3>1 DEF CalledInv
  <2>6. QED
    BY <1>13, <1>15, <2>5
<1>22. CASE ~skips
  <2>1. \A k : Had(stack', k) = IF k >= g.i THEN 0 ELSE IF k = g.i - 1 THEN 1 ELSE NumProps
    <3>1. Len(stack') = 2 /\ stack'[1] = g /\ stack'[2].i = 1
      BY <1>3, <1>5, <1>22
    <3>2. QED
      BY <3>1 DEF Had
  <2>2. e \in f.live /\ e \in Entity /\ entities[f.i] = e
    BY <1>2, <1>3, <1>16, <1>22, Constants DEF e
  <2>3. called[e] = base
    <3>1. Had(stack, f.i) = 0
      BY <1>2, <1>17
    <3>2. called[e] = base + 0
      BY <1>2, <1>16, <2>2, <3>1
    <3>3. QED
      BY <1>19, <3>2
  <2>4. called' = [called EXCEPT ![e] = @ + 1]
    BY <1>2, <1>3, <1>4, <1>22 DEF Count
  <2>5. called'[e] = base + 1 /\ \A x \in Entity : x # e => called'[x] = called[x]
    BY <1>20, <2>2, <2>3, <2>4
  <2>6. base + 1 <= base + NumProps /\ base + 1 \in 0 .. 4 * NumProps
    BY <1>19, Constants
  <2>7. called' \in [Entity -> 0 .. 4 * NumProps]
    BY <1>20, <2>4, <2>5, <2>6
  <2>8. \A x \in Entity : called'[x] <= base + NumProps /\ (x \notin f.live => called'[x] = 0)
    BY <1>16, <2>2, <2>5, <2>6
  <2>9. ASSUME NEW k \in DOMAIN entities, entities[k] \in f.live
        PROVE  called'[entities[k]] = base + Had(stack', k)
    <3>1. k \in Nat /\ entities[k] \in Entity
      BY <1>18, <1>20, <2>9
    <3>2. CASE k = f.i
      <4>1. ~(k >= g.i) /\ k = g.i - 1
        BY <1>2, <3>1, <3>2
      <4>2. Had(stack', k) = 1 /\ entities[k] = e
        BY <2>1, <2>2, <3>2, <4>1
      <4>3. QED
        BY <2>5, <4>2
    <3>3. CASE k # f.i
      <4>1. entities[k] # e
        <5>1. g.i - 1 = f.i
          BY <1>2
        <5>2. QED
          BY <1>9, <1>22, <2>9, <3>3, <5>1
      <4>2. (k >= g.i <=> k >= f.i) /\ k # g.i - 1
        BY <1>2, <3>1, <3>3
      <4>3. Had(stack', k) = Had(stack, k)
        BY <1>17, <2>1, <4>2
      <4>4. QED
        BY <1>16, <2>5, <2>9, <3>1, <4>1, <4>3
    <3>4. QED
      BY <3>2, <3>3
  <2>10. Counted(stack', entities, newEntities, called', status, sleeping)
    BY <1>2, <1>3, <1>5, <1>16, <1>22, <2>2, <2>5, <2>8, <2>9 DEF Counted, base
  <2>11. CalledInv'
    BY <1>4, <2>7, <2>10 DEF CalledInv
  <2>12. QED
    BY <1>13, <1>15, <2>11
<1>23. QED
  BY <1>21, <1>22

LEMMA LoopNextKeeps ==
    ASSUME IInv, LoopNext
    PROVE  IInv'
<1>1. Last(stack).method \in Phase \cup World
  BY LoopTop
<1>2. StackInv' /\ CalledInv' /\ StartedInv'
  BY <1>1, WorldLoopKeeps, PhaseLoopKeeps
<1>3. UNCHANGED <<entities, registry, newEntities, removedEntities, isInOnFrame, isStarted,
                  status, guid, sleeping, db, missed>>
  BY DEF LoopNext, arrays, objects
<1>4. Objects' /\ ArraysInv'
  BY <1>3 DEF IInv, Objects, ArraysInv, Arrays
<1>5. QED
  BY <1>2, <1>4 DEF IInv

(* The next of a frame's loops begins.                                     *)
LEMMA PhaseEndKeeps ==
    ASSUME IInv, PhaseEnd
    PROVE  IInv'
<1> DEFINE f == Last(stack)
           g == [f EXCEPT !.method = NextPhase[@], !.i = 1]
<1>1. Objects /\ ArraysInv /\ StackInv /\ CalledInv /\ StartedInv
  BY DEF IInv
<1>2. /\ stack # <<>> /\ f.kind = "loop" /\ f.i > f.num
      /\ f.method \in {"OnBeginFrame", "OnMoveBefore", "OnMoveAfter"}
      /\ stack' = Append(Front(stack), g)
      /\ UNCHANGED <<entities, registry, newEntities, removedEntities, isInOnFrame, isStarted,
                     status, guid, sleeping, db, called, started, missed>>
  BY DEF PhaseEnd, Top, Phase, Below, arrays, objects, history
<1>3. OfFrame(f) /\ ~Deactivates(f)
  BY <1>2 DEF OfFrame, Deactivates, Phase
<1>4. /\ f = stack[1] /\ Len(stack) = 1 /\ isInOnFrame /\ DOMAIN stack = 1 .. Len(stack)
      /\ f \in Frame
      /\ Placed(f, 1, f, entities, removedEntities, status, isStarted)
  BY <1>1, <1>2, <1>3, TopFrame
<1>5. f \in LoopFrame
  BY <1>2, <1>4, FrameKinds
<1>6. f.num \in Nat /\ f.i \in Nat /\ f.live \subseteq Entity
  BY <1>5, Constants DEF LoopFrame
<1>7. /\ g \in LoopFrame /\ g.kind = "loop" /\ g.i = 1 /\ g.num = f.num /\ g.live = f.live
      /\ g.method = NextPhase[f.method] /\ g.method \in Phase
  <2>1. NextPhase[f.method] \in Phase
    BY <1>2 DEF NextPhase, Phase
  <2>2. 1 \in 1 .. Cardinality(Entity) + 1
    BY Constants
  <2>3. QED
    BY <1>5, <2>1, <2>2 DEF LoopFrame
<1>8. Base(g.method) = Base(f.method) + NumProps
  <2>1. NumProps \in Nat
    BY Constants
  <2>2. \/ f.method = "OnBeginFrame" /\ g.method = "OnMoveBefore"
        \/ f.method = "OnMoveBefore" /\ g.method = "OnMoveAfter"
        \/ f.method = "OnMoveAfter" /\ g.method = "OnRender"
    BY <1>2, <1>7 DEF NextPhase
  <2>3. QED
    BY <2>1, <2>2 DEF Base
<1>9. /\ OfFrame(g) /\ ~PhaseCall(g) /\ ~WorldCall(g) /\ ~Activates(g) /\ ~Deactivates(g)
      /\ g.method # "OnStart" /\ f.method # "OnStart" /\ g.kind # "removeAll"
  BY <1>2, <1>7 DEF OfFrame, PhaseCall, WorldCall, Activates, Deactivates, Phase
<1> HIDE DEF f, g
<1>10. stack' \in Seq(Frame) /\ stack' # <<>> /\ Len(stack') = 1 /\ stack'[1] = g /\ DOMAIN stack' = {1}
  <2>1. stack \in Seq(Frame) /\ g \in Frame
    BY <1>1, <1>7 DEF StackInv, Frame
  <2>2. 1 .. 1 = {1}
    OBVIOUS
  <2>3. /\ stack' \in Seq(Frame) /\ stack' # <<>> /\ Len(stack') = Len(stack)
        /\ stack'[Len(stack)] = g /\ DOMAIN stack' = 1 .. Len(stack)
    <3> DEFINE u == Append(Front(stack), g)
    <3>1. stack # <<>> /\ stack' = u
      BY <1>2
    <3>2. /\ u \in Seq(Frame) /\ u # <<>> /\ Len(u) = Len(stack)
          /\ u[Len(stack)] = g /\ DOMAIN u = 1 .. Len(stack)
      BY <2>1, <3>1, Replaced, ZenonT(60)
    <3> HIDE DEF u
    <3>3. QED
      BY <3>1, <3>2
  <2>4. QED
    BY <1>4, <2>2, <2>3
<1>11. AllPlaced(stack', entities, removedEntities, status, isStarted)
  <2>1. g.i <= g.num + 1
    BY <1>6, <1>7
  <2>2. Placed(g, 1, g, entities, removedEntities, status, isStarted)
    BY <1>2, <1>4, <1>7, <1>9, <2>1 DEF Placed
  <2>3. QED
    BY <1>10, <2>2 DEF AllPlaced
<1>12. Handled(stack', status)
  <2>1. Handled(stack, status)
    BY <1>1 DEF StackInv
  <2>2. \A k \in DOMAIN stack' : ~Activates(stack'[k]) /\ ~Deactivates(stack'[k])
    BY <1>9, <1>10
  <2>3. \A k \in DOMAIN stack : ~Deactivates(stack[k])
    BY <1>3, <1>4
  <2>4. QED
    BY <2>1, <2>2, <2>3 DEF Handled
<1>13. StackInv'
  <2>1. Len(stack') <= MaxDepth
    BY <1>10, Constants
  <2>2. QED
    BY <1>2, <1>4, <1>9, <1>10, <1>11, <1>12, <2>1 DEF StackInv
<1>14. StartedInv'
  <2>1. ~Starting(stack) /\ ~Ending(stack) /\ ~Starting(stack') /\ ~Ending(stack')
    BY <1>2, <1>4, <1>9, <1>10 DEF Starting, Ending
  <2>2. QED
    BY <1>1, <1>2, <2>1, StartedKept
<1>15. CalledInv'
  <2>1. Counted(stack, entities, newEntities, called, status, sleeping)
    BY <1>1, <1>4 DEF CalledInv
  <2>2. /\ f.num = Len(entities) /\ f.live \cap sleeping = {}
        /\ \A x \in f.live :
              status[x] \in {"active", "deactivating", "gone"} /\ ~Contains(newEntities, x)
        /\ \A k \in DOMAIN entities : entities[k] # Null /\ entities[k] \notin sleeping =>
              entities[k] \in f.live
        /\ \A x \in Entity :
              called[x] <= Base(f.method) + NumProps /\ (x \notin f.live => called[x] = 0)
        /\ \A k \in DOMAIN entities : entities[k] \in f.live =>
              called[entities[k]] = Base(f.method) + Had(stack, k)
    BY <1>4, <2>1 DEF Counted
  <2>3. called \in [Entity -> 0 .. 4 * NumProps] /\ DOMAIN entities = 1 .. Len(entities)
    BY <1>1 DEF CalledInv, ArraysInv, Arrays
  <2>4. ASSUME NEW k \in DOMAIN entities, entities[k] \in f.live
        PROVE  called[entities[k]] = Base(g.method) + Had(stack', k)
    <3>1. k \in Nat /\ k >= 1 /\ k <= f.num
      BY <1>6, <2>2, <2>3
    <3>2. ~(k >= f.i) /\ k >= g.i
      BY <1>2, <1>6, <1>7, <3>1
    <3>3. Had(stack, k) = NumProps
      BY <1>4, <3>2 DEF Had
    <3>4. Had(stack', k) = 0
      BY <1>10, <3>2 DEF Had
    <3>5. Base(g.method) + 0 = Base(g.method)
      BY BaseBounds
    <3>6. QED
      BY <1>8, <2>2, <2>4, <3>3, <3>4, <3>5
  <2>5. \A x \in Entity : called[x] <= Base(g.method) + NumProps
    <3>1. Base(f.method) \in Nat /\ NumProps \in Nat
      BY BaseBounds, Constants
    <3>2. \A x \in Entity : called[x] \in Nat
      BY <2>3, Constants
    <3>3. QED
      BY <1>8, <2>2, <3>1, <3>2
  <2>6. Counted(stack', entities, newEntities, called, status, sleeping)
    BY <1>7, <1>10, <2>2, <2>4, <2>5 DEF Counted
  <2>7. QED
    BY <1>2, <1>4, <2>3, <2>6 DEF CalledInv
<1>16. Objects' /\ ArraysInv'
  BY <1>1, <1>2 DEF Objects, ArraysInv, Arrays
<1>17. QED
  BY <1>13, <1>14, <1>15, <1>16 DEF IInv

-----------------------------------------------------------------------------
(* The end of attaching and of removing.                                   *)

(* OnActivate has returned.                                                *)
LEMMA ActivatedKeeps ==
    ASSUME IInv, Activated
    PROVE  IInv'
<1> DEFINE f == Last(stack)
           e == f.entity
           n == Len(stack)
           c == Call(e, "OnStart")
<1>1. Objects /\ ArraysInv /\ StackInv /\ CalledInv /\ StartedInv
  BY DEF IInv
<1>2. /\ stack # <<>> /\ f.kind = "activate"
      /\ status' = [status EXCEPT ![e] = "active"]
      /\ AddEntityToReqistry(e)
      /\ missed' = IF Looping({"OnStart"}) THEN missed \cup {e} ELSE missed
      /\ IF isStarted THEN stack' = Append(Front(stack), c) /\ Count(c)
                      ELSE stack' = Front(stack) /\ UNCHANGED <<called, started>>
      /\ UNCHANGED <<removedEntities, isInOnFrame, isStarted, guid, sleeping, db>>
  BY DEF Activated, Top, Below
<1>3. /\ f = stack[n] /\ f \in Frame /\ n \in Nat \ {0} /\ n <= MaxDepth /\ DOMAIN stack = 1 .. n
      /\ Placed(f, n, stack[1], entities, removedEntities, status, isStarted)
  BY <1>1, <1>2, TopFrame
<1>4. e \in Entity /\ status[e] = "activating" /\ Activates(f)
  BY <1>2, <1>3, FrameKinds DEF Placed, Activates
<1>5. /\ c \in Frame /\ c.kind = "call" /\ c.entity = e /\ c.method = "OnStart" /\ c.i = 1
  BY <1>4, NewFrames DEF Call, World
<1>6. /\ called' = called
      /\ started' = IF isStarted THEN [started EXCEPT ![e] = @ + 1] ELSE started
  BY <1>2, <1>5 DEF Count, Phase
<1> HIDE DEF f, e, c
<1>7. /\ ArraysInv'
      /\ isInOnFrame =>
            /\ entities' = entities
            /\ \A x : Contains(newEntities', x) <=> Contains(newEntities, x) \/ x = e
      /\ ~isInOnFrame => entities' = Append(entities, e) /\ entities \in Seq(Entity)
      /\ Len(entities) <= Len(entities')
      /\ \A k \in DOMAIN entities : k \in DOMAIN entities' /\ entities'[k] = entities[k]
  BY <1>1, <1>2, <1>4, AddKeeps
<1>8. /\ status \in [Entity -> Status] /\ status' \in [Entity -> Status] /\ status'[e] = "active"
      /\ \A x \in Entity : x # e => status'[x] = status[x]
  BY <1>1, <1>2, <1>4 DEF Objects, Status
<1>9. Objects'
  BY <1>1, <1>2, <1>4, <1>8 DEF Objects
<1>10. stack \in Seq(Frame)
  BY <1>1 DEF StackInv
<1>11. /\ stack' \in Seq(Frame) /\ Len(stack') <= n
       /\ \A k \in 1 .. n - 1 : k \in DOMAIN stack' /\ stack'[k] = stack[k]
       /\ \A k \in DOMAIN stack' : k \in 1 .. n - 1 \/ (k = n /\ isStarted /\ stack'[k] = c)
       /\ n # 1 => stack' # <<>> /\ stack'[1] = stack[1]
       /\ n = 1 => stack' = <<>> \/ (stack' # <<>> /\ stack'[1] = c)
       /\ n = 1 /\ ~isStarted => stack' = <<>>
       /\ n > 2 => Len(stack') >= 2
  <2>1. CASE isStarted
    <3> DEFINE u == Append(Front(stack), c)
    <3>1. stack' = u
      BY <1>2, <2>1
    <3>2. stack # <<>> /\ c \in Frame
      BY <1>2, <1>5
    <3>3. /\ u \in Seq(Frame) /\ u # <<>> /\ n \in Nat \ {0} /\ Len(u) = n
          /\ DOMAIN stack = 1 .. n /\ DOMAIN u = 1 .. n
          /\ u[n] = c /\ \A k \in 1 .. n - 1 : u[k] = stack[k]
          /\ n # 1 => u[1] = stack[1] /\ 1 \in 1 .. n - 1
      BY <1>10, <3>2, Replaced
    <3> HIDE DEF u
    <3>4. /\ \A k \in 1 .. n : k \in 1 .. n - 1 \/ k = n
          /\ \A k \in 1 .. n - 1 : k \in 1 .. n
      BY <1>3, TopAndBelow
    <3>5. /\ stack' \in Seq(Frame) /\ stack' # <<>> /\ Len(stack') = n
          /\ DOMAIN stack' = 1 .. n /\ stack'[n] = c /\ \A k \in 1 .. n - 1 : stack'[k] = stack[k]
          /\ n # 1 => stack'[1] = stack[1]
      BY <3>1, <3>3
    <3>6. n <= n /\ (n > 2 => n >= 2)
      BY <1>3
    <3>7. QED
      BY <2>1, <3>4, <3>5, <3>6
  <2>2. CASE ~isStarted
    <3>1. stack' = Front(stack)
      BY <1>2, <2>2
    <3>2. /\ stack' \in Seq(Frame) /\ Len(stack') = n - 1
          /\ DOMAIN stack' = 1 .. n - 1
          /\ \A k \in 1 .. n - 1 : stack'[k] = stack[k]
          /\ n # 1 => stack' # <<>> /\ stack'[1] = stack[1]
          /\ n = 1 => stack' = <<>>
      BY <1>2, <1>10, <3>1, PoppedOff
    <3>3. QED
      BY <1>3, <2>2, <3>2
  <2>3. QED
    BY <2>1, <2>2
<1>12. /\ ~OfFrame(f) /\ ~OfWorld(f) /\ ~Deactivates(f) /\ ~PhaseCall(f) /\ ~WorldCall(f)
       /\ ~OfFrame(c) /\ ~OfWorld(c) /\ ~Deactivates(c) /\ ~Activates(c) /\ ~PhaseCall(c)
       /\ WorldCall(c)
       /\ c.kind # "loop" /\ c.kind # "removeAll" /\ f.kind # "loop" /\ f.kind # "removeAll"
  BY <1>2, <1>5 DEF OfFrame, OfWorld, Deactivates, Activates, PhaseCall, WorldCall, Phase, World
<1>13. Handled(stack, status)
  BY <1>1 DEF StackInv
<1>14. \A k \in 1 .. n - 1 :
          /\ Placed(stack[k], k, stack[1], entities, removedEntities, status, isStarted)
          /\ stack[k] \in Frame
  <2>1. \A k \in 1 .. n - 1 : k \in DOMAIN stack
    BY <1>3
  <2>2. QED
    BY <1>1, <1>10, <2>1 DEF StackInv, AllPlaced
<1>15. ASSUME NEW k \in 1 .. n - 1
       PROVE  Placed(stack'[k], k, stack'[1], entities', removedEntities', status', isStarted')
  <2>1. k \in DOMAIN stack /\ n \in DOMAIN stack /\ k # n /\ n # 1
    BY <1>3, TopAndBelow
  <2>2. ASSUME WorldCall(stack[k]) \/ Activates(stack[k]) \/ Deactivates(stack[k])
        PROVE  status'[stack[k].entity] = status[stack[k].entity]
    <3>1. stack[k].entity \in Entity
      BY <1>14, <2>2, FrameKinds DEF CallFrame, WorldCall, Activates, Deactivates
    <3>2. Activates(stack[k]) => stack[k].entity # e
      BY <1>3, <1>4, <1>13, <2>1 DEF Handled, e
    <3>3. ~Activates(stack[k]) => stack[k].entity # e
      BY <1>4, <1>14, <2>2 DEF Placed
    <3>4. QED
      BY <1>8, <3>1, <3>2, <3>3
  <2>3. ASSUME PhaseCall(stack[k])
        PROVE  isInOnFrame /\ stack[k].entity # Null
    <3>1. OfFrame(stack[1])
      BY <1>14, <2>3 DEF Placed
    <3>2. isInOnFrame
      BY <1>1, <1>2, <3>1 DEF StackInv
    <3>3. stack[k].entity \in Entity
      BY <1>14, <2>3, FrameKinds DEF CallFrame, PhaseCall
    <3>4. QED
      BY <3>2, <3>3, Constants
  <2>4. stack[k].kind = "loop" /\ stack[k].num <= Len(entities) => stack[k].num <= Len(entities')
    <3>1. ASSUME stack[k].kind = "loop", stack[k].num <= Len(entities)
          PROVE  stack[k].num <= Len(entities')
      <4>1. stack[k].num \in Nat
        BY <1>14, <3>1, FrameKinds, Constants DEF LoopFrame
      <4>2. Len(entities) \in Nat /\ Len(entities') \in Nat
        BY <1>1, <1>7 DEF ArraysInv, Arrays
      <4>3. QED
        BY <1>7, <3>1, <4>1, <4>2
    <3>2. QED
      BY <3>1
  <2>5. PhaseCall(stack[k]) =>
           /\ stack[k].entity # Null
           /\ entities'[stack[1].i - 1] \in {entities[stack[1].i - 1], Null}
           /\ \A j \in DOMAIN entities' :
                 j \in DOMAIN entities /\ entities'[j] \in {entities[j], Null}
           /\ Contains(entities, stack[k].entity) \/ Contains(removedEntities, stack[k].entity) =>
                 Contains(entities', stack[k].entity) \/ Contains(removedEntities', stack[k].entity)
    BY <1>2, <1>7, <2>3
  <2>6. Placed(stack[k], k, stack[1], entities', removedEntities', status', isStarted)
    BY <1>14, <2>2, <2>4, <2>5, PlacedStill
  <2>7. QED
    BY <1>2, <1>11, <2>1, <2>6
<1>16. Placed(c, n, stack'[1], entities', removedEntities', status', isStarted')
  <2>1. ~(OfFrame(stack'[1]) /\ n = 2)
    <3>1. n = 2 => stack'[1] = stack[1]
      BY <1>11
    <3>2. ~(OfFrame(stack[1]) /\ n = 2)
      BY <1>3, <1>12 DEF Placed
    <3>3. QED
      BY <3>1, <3>2
  <2>2. QED
    BY <1>5, <1>8, <1>12, <2>1 DEF Placed
<1>17. AllPlaced(stack', entities', removedEntities', status', isStarted')
  BY <1>11, <1>15, <1>16 DEF AllPlaced
<1>18. Handled(stack', status')
  <2>1. \A k \in DOMAIN stack' : \/ k \in DOMAIN stack /\ stack'[k] = stack[k]
                                 \/ ~Activates(stack'[k]) /\ ~Deactivates(stack'[k]) /\ ~OfWorld(stack'[k])
    <3>1. \A k \in 1 .. n - 1 : k \in DOMAIN stack
      BY <1>3
    <3>2. QED
      BY <1>11, <1>12, <3>1
  <2>2. ASSUME NEW x \in Entity, status'[x] = "deactivating"
        PROVE  \E k \in DOMAIN stack' : Deactivates(stack'[k]) /\ stack'[k].entity = x
    <3>1. status[x] = "deactivating"
      BY <1>8, <2>2
    <3>2. PICK k \in DOMAIN stack : Deactivates(stack[k]) /\ stack[k].entity = x
      BY <1>13, <3>1 DEF Handled
    <3>3. k # n
      BY <1>3, <1>12, <3>2
    <3>4. k \in 1 .. n - 1
      BY <1>3, <3>3
    <3>5. QED
      BY <1>11, <3>2, <3>4
  <2>3. QED
    BY <1>13, <2>1, <2>2 DEF Handled
<1>19. isInOnFrame <=> stack' # <<>> /\ OfFrame(stack'[1])
  <2>1. n = 1 => ~isInOnFrame
    BY <1>1, <1>2, <1>3, <1>12 DEF StackInv
  <2>2. n # 1 => (isInOnFrame <=> OfFrame(stack[1]))
    BY <1>1, <1>2 DEF StackInv
  <2>3. QED
    BY <1>11, <1>12, <2>1, <2>2
<1>20. StackInv'
  <2>1. Len(stack') <= MaxDepth
    <3>1. Len(stack') \in Nat
      BY <1>11
    <3>2. QED
      BY <1>3, <1>11, <3>1, Constants
  <2>2. QED
    BY <1>2, <1>11, <1>17, <1>18, <1>19, <2>1 DEF StackInv
<1>21. CalledInv'
  <2>1. CASE ~isInOnFrame
    BY <1>1, <1>2, <1>6, <2>1 DEF CalledInv
  <2>2. CASE isInOnFrame
    <3>1. n >= 2 /\ PhaseCall(stack[2])
      <4>1. n >= 2
        BY <1>1, <1>12, <2>2, InFrame DEF f
      <4>2. QED
        BY <1>1, <2>2, <4>1, InFrame
    <3>2. n # 2
      BY <1>3, <1>12, <3>1
    <3>3. 1 \in 1 .. n - 1 /\ 2 \in 1 .. n - 1 /\ n > 2
      BY <1>3, <3>1, <3>2
    <3>4. Len(stack') >= 2 /\ stack'[1] = stack[1] /\ stack'[2] = stack[2]
      BY <1>11, <3>3
    <3>5. Counted(stack, entities, newEntities, called, status, sleeping)
      BY <1>1, <2>2 DEF CalledInv
    <3>6. \A k : Had(stack', k) = Had(stack, k)
      BY <3>1, <3>4 DEF Had
    <3>7. stack[1].live \subseteq Entity
      <4>1. stack[1] \in Frame /\ OfFrame(stack[1])
        BY <1>1, <1>2, <2>2, TopFrame, InFrame
      <4>2. stack[1] \in LoopFrame
        BY <4>1, FrameKinds DEF OfFrame
      <4>3. QED
        BY <4>2 DEF LoopFrame
    <3>8. e \notin stack[1].live
      BY <1>4, <3>5 DEF Counted
    <3>9. \A x \in stack[1].live :
             status'[x] \in {"active", "deactivating", "gone"} /\ ~Contains(newEntities', x)
      <4>1. \A x \in stack[1].live :
               status[x] \in {"active", "deactivating", "gone"} /\ ~Contains(newEntities, x)
        BY <3>5 DEF Counted
      <4>2. \A x \in stack[1].live : x # e /\ x \in Entity
        BY <3>7, <3>8
      <4>3. QED
        BY <1>7, <1>8, <2>2, <4>1, <4>2
    <3>10. Counted(stack', entities, newEntities', called, status', sleeping)
      BY <3>1, <3>4, <3>5, <3>6, <3>9 DEF Counted
    <3>11. entities' = entities /\ sleeping' = sleeping /\ called' = called
      BY <1>2, <1>6, <1>7, <2>2
    <3>12. QED
      BY <1>1, <3>10, <3>11 DEF CalledInv
  <2>3. QED
    BY <2>1, <2>2
<1>22. StartedInv'
  <2>1. /\ started \in [Entity -> 0 .. 1] /\ started[e] = 0
        /\ \A x \in Entity : status[x] \in {"fresh", "activating"} => started[x] = 0
    BY <1>1, <1>4 DEF StartedInv
  <2>2. /\ started' \in [Entity -> 0 .. 1]
        /\ started'[e] = IF isStarted THEN 1 ELSE 0
        /\ \A x \in Entity : x # e => started'[x] = started[x]
    BY <1>4, <1>6, <2>1
  <2>3. \A x \in Entity : status'[x] \in {"fresh", "activating"} => started'[x] = 0
    BY <1>8, <2>1, <2>2
  <2>4. InWorld' = InWorld \cup {e}
    BY <1>4, <1>8 DEF InWorld
  <2>5. missed \subseteq missed'
    BY <1>2
  <2>6. isStarted' => \A x \in InWorld' : started'[x] = 1 \/ x \in missed'
    <3>1. InWorld \subseteq Entity
      BY DEF InWorld
    <3>2. isStarted => \A x \in InWorld : started[x] = 1 \/ x \in missed
      BY <1>1 DEF StartedInv
    <3>3. QED
      BY <1>2, <2>2, <2>4, <2>5, <3>1, <3>2
  <2>7. /\ Starting(stack') => n # 1 /\ Starting(stack) /\ stack'[1] = stack[1]
        /\ Starting(stack) => Starting(stack')
        /\ Ending(stack) => Ending(stack')
    <3>1. n = 1 => ~Starting(stack) /\ ~Ending(stack) /\ ~Starting(stack')
      BY <1>3, <1>11, <1>12 DEF Starting, Ending
    <3>2. n # 1 => stack' # <<>> /\ stack'[1] = stack[1]
      BY <1>11
    <3>3. QED
      BY <1>2, <3>1, <3>2 DEF Starting, Ending
  <2>8. ~isStarted' /\ ~Starting(stack') /\ ~Ending(stack') => \A x \in InWorld' : started'[x] = 0
    <3>1. InWorld \subseteq Entity
      BY DEF InWorld
    <3>2. ~isStarted /\ ~Starting(stack) /\ ~Ending(stack) => \A x \in InWorld : started[x] = 0
      BY <1>1 DEF StartedInv
    <3>3. QED
      BY <1>2, <2>2, <2>4, <2>7, <3>1, <3>2
  <2>9. ASSUME Starting(stack'), NEW k \in DOMAIN entities'
        PROVE  /\ started'[entities'[k]] = IF k < stack'[1].i THEN 1 ELSE 0
               /\ k > stack'[1].num => entities'[k] \in missed'
    <3>1. n # 1 /\ Starting(stack) /\ stack'[1] = stack[1]
      BY <2>7, <2>9
    <3>2. 1 \in 1 .. n - 1
      BY <1>3, <3>1
    <3>3. /\ stack[1].i \in Nat /\ stack[1].num \in Nat /\ stack[1].num <= Len(entities)
          /\ stack[1].i <= stack[1].num + 1 /\ ~isStarted
      <4>1. stack[1] \in LoopFrame
        BY <1>14, <3>1, <3>2, FrameKinds DEF Starting
      <4>2. stack[1].i \in Nat /\ stack[1].num \in Nat
        BY <4>1, Constants DEF LoopFrame
      <4>3. Placed(stack[1], 1, stack[1], entities, removedEntities, status, isStarted)
        BY <1>14, <3>2
      <4>4. QED
        BY <3>1, <4>2, <4>3 DEF Placed, Starting
    <3>4. ~isInOnFrame
      BY <1>1, <3>1 DEF StackInv, Starting, OfFrame, Phase
    <3>5. entities' = Append(entities, e) /\ entities \in Seq(Entity)
      BY <1>7, <3>4
    <3>6. Looping({"OnStart"})
      <4>1. 1 \in DOMAIN stack
        BY <1>3, <3>2
      <4>2. QED
        BY <3>1, <4>1 DEF Looping, Starting
    <3>7. started' = started
      BY <1>6, <3>3
    <3>8. CASE k \in DOMAIN entities
      <4>1. entities'[k] = entities[k]
        BY <1>7, <3>8
      <4>2. /\ started[entities[k]] = IF k < stack[1].i THEN 1 ELSE 0
            /\ k > stack[1].num => entities[k] \in missed
        BY <1>1, <3>1, <3>8 DEF StartedInv
      <4>3. QED
        BY <2>5, <3>1, <3>7, <4>1, <4>2
    <3>9. CASE k \notin DOMAIN entities
      <4>1. k = Len(entities) + 1 /\ entities'[k] = e /\ Len(entities) \in Nat
        BY <3>5, <3>9
      <4>2. ~(k < stack[1].i)
        BY <3>3, <4>1
      <4>3. e \in missed'
        BY <1>2, <3>6
      <4>4. QED
        BY <2>1, <3>1, <3>7, <4>1, <4>2, <4>3
    <3>10. QED
      BY <3>8, <3>9
  <2>10. QED
    BY <2>2, <2>3, <2>6, <2>8, <2>9 DEF StartedInv
<1>23. QED
  BY <1>7, <1>9, <1>20, <1>21, <1>22 DEF IInv

(* OnDeactivate has returned.                                              *)
LEMMA DeactivatedKeeps ==
    ASSUME IInv, Deactivated
    PROVE  IInv'
<1> DEFINE f == Last(stack)
           e == f.entity
           n == Len(stack)
<1>1. Objects /\ ArraysInv /\ StackInv /\ CalledInv /\ StartedInv
  BY DEF IInv
<1>2. /\ stack # <<>> /\ f.kind = "deactivate"
      /\ status' = [status EXCEPT ![e] = "gone"]
      /\ RemoveEntityFromRegistry(e)
      /\ db' = IF f.delete THEN db \ {guid[e]} ELSE db
      /\ stack' = Front(stack)
      /\ UNCHANGED <<isInOnFrame, isStarted, guid, sleeping, called, started, missed>>
  BY DEF Deactivated, Top, Below, history
<1>3. /\ f = stack[n] /\ f \in Frame /\ n \in Nat \ {0} /\ n <= MaxDepth /\ DOMAIN stack = 1 .. n
      /\ Placed(f, n, stack[1], entities, removedEntities, status, isStarted)
      /\ Placed(stack[1], 1, stack[1], entities, removedEntities, status, isStarted)
  BY <1>1, <1>2, TopFrame
<1>4. e \in Entity /\ status[e] = "deactivating" /\ Deactivates(f)
  BY <1>2, <1>3, FrameKinds DEF Placed, Deactivates
<1> HIDE DEF f, e
<1>5. /\ ArraysInv'
      /\ isInOnFrame =>
           /\ Len(entities') = Len(entities)
           /\ \A k \in DOMAIN entities : entities'[k] = entities[k] \/ entities'[k] = Null
           /\ \A x : Contains(entities, x) \/ Contains(removedEntities, x) =>
                        Contains(entities', x) \/ Contains(removedEntities', x)
           /\ \A x : Contains(newEntities', x) => Contains(newEntities, x)
  BY <1>1, <1>2, <1>4, RemoveKeeps
<1>6. /\ status \in [Entity -> Status] /\ status' \in [Entity -> Status] /\ status'[e] = "gone"
      /\ \A x \in Entity : x # e => status'[x] = status[x]
  BY <1>1, <1>2, <1>4 DEF Objects, Status
<1>7. Objects'
  BY <1>1, <1>2, <1>6 DEF Objects
<1>8. /\ stack \in Seq(Frame) /\ stack' \in Seq(Frame) /\ Len(stack') = n - 1
      /\ DOMAIN stack' = 1 .. n - 1
      /\ \A k \in 1 .. n - 1 : stack'[k] = stack[k]
      /\ n # 1 => stack' # <<>> /\ stack'[1] = stack[1]
      /\ n = 1 => stack' = <<>>
  <2>1. stack \in Seq(Frame)
    BY <1>1 DEF StackInv
  <2>2. QED
    BY <1>2, <2>1, PoppedOff
<1>9. /\ ~OfFrame(f) /\ ~OfWorld(f) /\ ~Activates(f) /\ ~PhaseCall(f) /\ ~WorldCall(f)
      /\ f.kind # "loop" /\ f.kind # "removeAll"
  BY <1>2 DEF OfFrame, OfWorld, Activates, PhaseCall, WorldCall
<1>10. Handled(stack, status) /\ \A k \in DOMAIN stack : ~OfWorld(stack[k])
  <2>1. Handled(stack, status)
    BY <1>1 DEF StackInv
  <2>2. n \in DOMAIN stack
    BY <1>3, TopAndBelow
  <2>3. QED
    BY <1>3, <1>4, <2>1, <2>2 DEF Handled
<1>11. \A k \in 1 .. n - 1 :
          /\ k \in DOMAIN stack /\ k # n /\ n # 1 /\ stack[k] \in Frame
          /\ Placed(stack[k], k, stack[1], entities, removedEntities, status, isStarted)
          /\ Deactivates(stack[k]) => stack[k].entity # e
  <2>1. n \in DOMAIN stack /\ \A k \in 1 .. n - 1 : k \in DOMAIN stack /\ k # n /\ n # 1
    BY <1>3, TopAndBelow
  <2>2. \A k \in 1 .. n - 1 :
          /\ stack[k] \in Frame
          /\ Placed(stack[k], k, stack[1], entities, removedEntities, status, isStarted)
    BY <1>1, <1>8, <2>1 DEF StackInv, AllPlaced
  <2>3. \A k \in 1 .. n - 1 : Deactivates(stack[k]) => stack[k].entity # e
    BY <1>3, <1>4, <1>10, <2>1 DEF Handled, e
  <2>4. QED
    BY <2>1, <2>2, <2>3
<1>12. OfFrame(stack[1]) => isInOnFrame
  BY <1>1, <1>2 DEF StackInv
<1>13. OfFrame(stack[1]) /\ stack[1].i >= 2 => stack[1].i - 1 \in DOMAIN entities
  <2>1. ASSUME OfFrame(stack[1]), stack[1].i >= 2
        PROVE  stack[1].i - 1 \in DOMAIN entities
    <3>1. stack[1] \in LoopFrame
      <4>1. stack[1] \in Frame
        BY <1>3, <1>8, TopAndBelow
      <4>2. QED
        BY <2>1, <4>1, FrameKinds DEF OfFrame
    <3>2. stack[1].i \in Nat /\ stack[1].num \in Nat
      BY <3>1, Constants DEF LoopFrame
    <3>3. stack[1].num <= Len(entities) /\ stack[1].i <= stack[1].num + 1
      BY <1>3, <2>1 DEF Placed, OfFrame
    <3>4. Len(entities) \in Nat /\ DOMAIN entities = 1 .. Len(entities)
      BY <1>1 DEF ArraysInv, Arrays
    <3>5. QED
      BY <2>1, <3>2, <3>3, <3>4
  <2>2. QED
    BY <2>1
<1>14. ASSUME NEW k \in 1 .. n - 1
       PROVE  Placed(stack[k], k, stack[1], entities', removedEntities', status', isStarted)
  <2>1. /\ k \in DOMAIN stack /\ stack[k] \in Frame
        /\ Placed(stack[k], k, stack[1], entities, removedEntities, status, isStarted)
        /\ Deactivates(stack[k]) => stack[k].entity # e
    BY <1>11
  <2>2. ASSUME WorldCall(stack[k]) \/ Activates(stack[k]) \/ Deactivates(stack[k])
        PROVE  status'[stack[k].entity] = status[stack[k].entity]
    <3>1. stack[k].entity \in Entity
      BY <2>1, <2>2, FrameKinds DEF CallFrame, WorldCall, Activates, Deactivates
    <3>2. ~Deactivates(stack[k]) => stack[k].entity # e
      BY <1>4, <2>1, <2>2 DEF Placed
    <3>3. QED
      BY <1>6, <2>1, <3>1, <3>2
  <2>3. stack[k].kind = "loop" /\ stack[k].num <= Len(entities) => stack[k].num <= Len(entities')
    <3>1. ASSUME stack[k].kind = "loop"
          PROVE  isInOnFrame
      <4>1. stack[k] \in LoopFrame
        BY <2>1, <3>1, FrameKinds
      <4>2. stack[k].method \in Phase \cup World
        BY <4>1 DEF LoopFrame
      <4>3. OfFrame(stack[k])
        BY <1>10, <2>1, <3>1, <4>2 DEF OfFrame, OfWorld
      <4>4. k = 1
        BY <2>1, <4>3 DEF Placed, OfFrame, Phase
      <4>5. QED
        BY <1>12, <4>3, <4>4
    <3>2. QED
      BY <1>5, <3>1
  <2>4. ASSUME PhaseCall(stack[k])
        PROVE  /\ stack[k].entity # Null
               /\ entities'[stack[1].i - 1] \in {entities[stack[1].i - 1], Null}
               /\ \A j \in DOMAIN entities' :
                     j \in DOMAIN entities /\ entities'[j] \in {entities[j], Null}
               /\ Contains(entities, stack[k].entity) \/ Contains(removedEntities, stack[k].entity) =>
                     Contains(entities', stack[k].entity) \/ Contains(removedEntities', stack[k].entity)
    <3>1. OfFrame(stack[1]) /\ stack[1].i >= 2
      BY <2>1, <2>4 DEF Placed
    <3>2. stack[k].entity \in Entity
      BY <2>1, <2>4, FrameKinds DEF CallFrame, PhaseCall
    <3>3. isInOnFrame /\ stack[1].i - 1 \in DOMAIN entities
      BY <1>12, <1>13, <3>1
    <3>4. DOMAIN entities' = DOMAIN entities
      BY <1>1, <1>5, <3>3 DEF ArraysInv, Arrays
    <3>5. QED
      BY <1>5, <3>2, <3>3, <3>4, Constants
  <2>5. QED
    BY <2>1, <2>2, <2>3, <2>4, PlacedStill
<1>15. AllPlaced(stack', entities', removedEntities', status', isStarted)
  BY <1>8, <1>11, <1>14 DEF AllPlaced
<1>16. Handled(stack', status')
  <2>1. \A k \in DOMAIN stack' : k \in DOMAIN stack /\ stack'[k] = stack[k]
    BY <1>8, <1>11
  <2>2. ASSUME NEW x \in Entity, status'[x] = "deactivating"
        PROVE  \E k \in DOMAIN stack' : Deactivates(stack'[k]) /\ stack'[k].entity = x
    <3>1. x # e /\ status[x] = "deactivating"
      BY <1>6, <2>2
    <3>2. PICK k \in DOMAIN stack : Deactivates(stack[k]) /\ stack[k].entity = x
      BY <1>10, <3>1 DEF Handled
    <3>3. k # n
      BY <1>3, <3>1, <3>2 DEF e
    <3>4. k \in 1 .. n - 1
      BY <1>3, <3>3, TopAndBelow
    <3>5. QED
      BY <1>8, <3>2, <3>4
  <2>3. QED
    BY <1>10, <2>1, <2>2 DEF Handled
<1>17. isInOnFrame <=> stack' # <<>> /\ OfFrame(stack'[1])
  <2>1. n = 1 => ~isInOnFrame
    BY <1>1, <1>2, <1>3, <1>9 DEF StackInv
  <2>2. n # 1 => (isInOnFrame <=> OfFrame(stack[1]))
    BY <1>1, <1>2 DEF StackInv
  <2>3. QED
    BY <1>8, <2>1, <2>2
<1>18. StackInv'
  <2>1. Len(stack') <= MaxDepth
    BY <1>3, <1>8, Constants
  <2>2. QED
    BY <1>2, <1>8, <1>15, <1>16, <1>17, <2>1 DEF StackInv
<1>19. CalledInv'
  <2>1. CASE ~isInOnFrame
    BY <1>1, <1>2, <2>1 DEF CalledInv
  <2>2. CASE isInOnFrame
    <3>1. n >= 2 /\ PhaseCall(stack[2])
      <4>1. n >= 2
        BY <1>1, <1>9, <2>2, InFrame DEF f
      <4>2. QED
        BY <1>1, <2>2, <4>1, InFrame
    <3>2. n # 2 /\ n # 1
      BY <1>3, <1>9, <3>1
    <3>3. 1 \in 1 .. n - 1 /\ 2 \in 1 .. n - 1 /\ n >= 3
      BY <1>3, <3>2, TopAndBelow
    <3>4. Len(stack') >= 2 /\ stack'[1] = stack[1] /\ stack'[2] = stack[2]
      BY <1>3, <1>8, <3>3
    <3>5. Counted(stack, entities, newEntities, called, status, sleeping)
      BY <1>1, <2>2 DEF CalledInv
    <3>6. \A k : Had(stack', k) = Had(stack, k)
      BY <3>1, <3>4 DEF Had
    <3>7. stack[1].live \subseteq Entity
      <4>1. stack[1] \in Frame /\ OfFrame(stack[1])
        BY <1>1, <1>2, <2>2, TopFrame, InFrame
      <4>2. stack[1] \in LoopFrame
        BY <4>1, FrameKinds DEF OfFrame
      <4>3. QED
        BY <4>2 DEF LoopFrame
    <3>8. \A x \in stack[1].live :
             status'[x] \in {"active", "deactivating", "gone"} /\ ~Contains(newEntities', x)
      <4>1. \A x \in stack[1].live :
               status[x] \in {"active", "deactivating", "gone"} /\ ~Contains(newEntities, x)
        BY <3>5 DEF Counted
      <4>2. \A x \in stack[1].live : x = e \/ status'[x] = status[x]
        BY <1>6, <3>7
      <4>3. QED
        BY <1>5, <1>6, <2>2, <4>1, <4>2
    <3>9. DOMAIN entities' = DOMAIN entities /\ Len(entities') = Len(entities)
      BY <1>1, <1>5, <2>2 DEF ArraysInv, Arrays
    <3>10. \A k \in DOMAIN entities' :
              k \in DOMAIN entities /\ (entities'[k] = entities[k] \/ entities'[k] = Null)
      BY <1>5, <2>2, <3>9
    <3>11. Null \notin stack[1].live
      BY <3>7, Constants
    <3>12. Counted(stack', entities', newEntities', called, status', sleeping)
      BY <3>1, <3>4, <3>5, <3>6, <3>8, <3>9, <3>10, <3>11 DEF Counted
    <3>13. QED
      BY <1>1, <1>2, <3>12 DEF CalledInv
  <2>3. QED
    BY <2>1, <2>2
<1>20. StartedInv'
  <2>1. InWorld' \subseteq InWorld /\ InWorld \subseteq Entity
    BY <1>6 DEF InWorld
  <2>2. \A x \in Entity : status'[x] \in {"fresh", "activating"} =>
           status[x] \in {"fresh", "activating"}
    BY <1>6
  <2>3. ~Starting(stack)
    <3>1. 1 \in DOMAIN stack
      BY <1>3, TopAndBelow
    <3>2. QED
      BY <1>10, <3>1 DEF Starting, OfWorld, World
  <2>4. /\ ~Starting(stack')
        /\ Ending(stack) => Ending(stack')
    <3>1. n = 1 => ~Ending(stack) /\ ~Starting(stack')
      BY <1>3, <1>8, <1>9 DEF Starting, Ending
    <3>2. QED
      BY <1>2, <1>8, <2>3, <3>1 DEF Starting, Ending
  <2>5. QED
    BY <1>1, <1>2, <2>1, <2>2, <2>3, <2>4 DEF StartedInv
<1>21. QED
  BY <1>5, <1>7, <1>18, <1>19, <1>20 DEF IInv

-----------------------------------------------------------------------------
(* The main loop and the application.                                      *)

(* A loop begins where nothing is under way.                               *)
LEMMA LoopAlone ==
    ASSUME ArraysInv, StackInv, stack = <<>>, NEW m \in Phase \cup World,
           stack' = Append(stack, Loop(m)), m = "OnStart" => ~isStarted,
           UNCHANGED <<entities, removedEntities, status, isStarted>>,
           isInOnFrame' <=> m \in Phase
    PROVE  /\ StackInv' /\ ~isInOnFrame
           /\ stack' # <<>> /\ Len(stack') = 1 /\ DOMAIN stack' = {1}
           /\ stack'[1] = Loop(m) /\ stack'[1] \in LoopFrame
           /\ \A x \in Entity : status[x] # "deactivating"
<1> DEFINE c == Loop(m)
<1>1. c \in Frame /\ c \in LoopFrame
  BY NewLoop
<1>2. c.kind = "loop" /\ c.method = m /\ c.i = 1 /\ c.num = Len(entities)
  BY DEF Loop
<1>3. stack' = Append(stack, c)
  OBVIOUS
<1>4. ~isInOnFrame /\ Handled(stack, status)
  BY DEF StackInv
<1> HIDE DEF c
<1>5. stack' \in Seq(Frame) /\ stack' # <<>> /\ Len(stack') = 1 /\ DOMAIN stack' = {1} /\ stack'[1] = c
  <2>1. stack \in Seq(Frame) /\ Len(stack) = 0
    OBVIOUS
  <2>2. /\ stack' \in Seq(Frame) /\ stack' # <<>> /\ Len(stack') = Len(stack) + 1
        /\ DOMAIN stack' = 1 .. Len(stack) + 1 /\ stack'[Len(stack) + 1] = c
    BY <1>1, <1>3, <2>1, PushedOn
  <2>3. 0 + 1 = 1 /\ 1 .. 1 = {1}
    OBVIOUS
  <2>4. QED
    BY <2>1, <2>2, <2>3
<1>6. /\ ~PhaseCall(c) /\ ~WorldCall(c) /\ ~Activates(c) /\ ~Deactivates(c) /\ c.kind # "removeAll"
  BY <1>2 DEF PhaseCall, WorldCall, Activates, Deactivates
<1>7. Placed(c, 1, c, entities, removedEntities, status, isStarted)
  <2>1. Len(entities) <= Len(entities) /\ 1 <= Len(entities) + 1
    BY DEF ArraysInv, Arrays
  <2>2. QED
    BY <1>2, <1>6, <2>1 DEF Placed
<1>8. AllPlaced(stack', entities, removedEntities, status, isStarted)
  BY <1>5, <1>7 DEF AllPlaced
<1>9. \A x \in Entity : status[x] # "deactivating"
  <2>1. DOMAIN stack = {}
    OBVIOUS
  <2>2. QED
    BY <1>4, <2>1 DEF Handled
<1>10. Handled(stack', status)
  BY <1>5, <1>6, <1>9 DEF Handled
<1>11. isInOnFrame' <=> OfFrame(c)
  BY <1>2 DEF OfFrame
<1>12. StackInv'
  <2>1. Len(stack') <= MaxDepth
    BY <1>5, Constants
  <2>2. QED
    BY <1>5, <1>8, <1>10, <1>11, <2>1 DEF StackInv
<1>13. QED
  BY <1>1, <1>4, <1>5, <1>9, <1>12 DEF c

(* A frame begins.                                                         *)
LEMMA OnFrameKeeps ==
    ASSUME IInv, OnFrame
    PROVE  IInv'
<1> DEFINE b == Loop("OnBeginFrame")
<1>1. Objects /\ ArraysInv /\ StackInv /\ CalledInv /\ StartedInv
  BY DEF IInv
<1>2. /\ stack = <<>> /\ isInOnFrame' = TRUE /\ stack' = Append(stack, b)
      /\ called' = [e \in Entity |-> 0]
      /\ UNCHANGED <<entities, registry, newEntities, removedEntities, isStarted, status, guid, sleeping,
                     db, started, missed>>
  BY DEF OnFrame, Push, arrays, objects
<1>3. /\ StackInv' /\ ~isInOnFrame /\ stack' # <<>> /\ Len(stack') = 1 /\ stack'[1] = b
      /\ stack'[1] \in LoopFrame
  <2>1. "OnBeginFrame" \in Phase /\ "OnBeginFrame" \in Phase \cup World
    BY DEF Phase
  <2>2. isInOnFrame' <=> "OnBeginFrame" \in Phase
    BY <1>2, <2>1
  <2>3. UNCHANGED <<entities, removedEntities, status, isStarted>>
    BY <1>2
  <2>4. stack = <<>> /\ stack' = Append(stack, Loop("OnBeginFrame"))
    BY <1>2
  <2>5. QED
    BY <1>1, <2>1, <2>2, <2>3, <2>4, LoopAlone
<1>4. /\ b.kind = "loop" /\ b.method = "OnBeginFrame" /\ b.num = Len(entities) /\ b.i = 1
      /\ b.live = (Range(entities) \ {Null}) \ sleeping
  BY DEF Loop
<1> HIDE DEF b
<1>5. Objects'
  BY <1>1, <1>2 DEF Objects
<1>6. ArraysInv'
  BY <1>1, <1>2 DEF ArraysInv, Arrays
<1>7. /\ entities \in Seq(Entity \cup {Null}) /\ DOMAIN entities = 1 .. Len(entities)
      /\ newEntities = <<>>
      /\ \A x \in Entity : Contains(entities, x) => status[x] \in {"active", "deactivating"}
  BY <1>1, <1>3 DEF ArraysInv, Arrays
<1>8. b.live \subseteq Entity /\ \A x \in b.live : Contains(entities, x)
  BY <1>4, <1>7 DEF Range, Contains
<1>9. CalledInv'
  <2>1. NumProps \in Nat
    BY Constants
  <2>2. called' \in [Entity -> 0 .. 4 * NumProps] /\ \A x \in Entity : called'[x] = 0
    BY <1>2, <2>1
  <2>3. Base(b.method) = 0 /\ 0 <= 0 + NumProps
    BY <1>4, <2>1 DEF Base
  <2>4. \A k \in DOMAIN entities : Had(stack', k) = 0
    BY <1>3, <1>4, <1>7 DEF Had
  <2>5. \A k \in DOMAIN entities : entities[k] \in b.live =>
           called'[entities[k]] = 0 + Had(stack', k)
    <3>1. 0 + 0 = 0
      OBVIOUS
    <3>2. QED
      BY <1>8, <2>2, <2>4, <3>1
  <2>6. b.live \cap sleeping = {}
    BY <1>4
  <2>7. \A x \in b.live :
           status[x] \in {"active", "deactivating", "gone"} /\ ~Contains(newEntities, x)
    BY <1>7, <1>8 DEF Contains
  <2>8. \A k \in DOMAIN entities : entities[k] # Null /\ entities[k] \notin sleeping =>
           entities[k] \in b.live
    BY <1>4 DEF Range
  <2>9. Counted(stack', entities, newEntities, called', status, sleeping)
    BY <1>3, <1>4, <2>2, <2>3, <2>5, <2>6, <2>7, <2>8 DEF Counted
  <2>10. QED
    BY <1>2, <2>2, <2>9 DEF CalledInv
<1>10. StartedInv'
  <2>1. ~Starting(stack) /\ ~Ending(stack) /\ ~Starting(stack')
    BY <1>2, <1>3, <1>4 DEF Starting, Ending
  <2>2. QED
    BY <1>1, <1>2, <2>1, StartedKept
<1>11. QED
  BY <1>3, <1>5, <1>6, <1>9, <1>10 DEF IInv

(* Load, Start and Save.                                                   *)
LEMMA WorldKeeps ==
    ASSUME IInv, Load \/ Start \/ Save
    PROVE  IInv'
<1>1. Objects /\ ArraysInv /\ StackInv /\ CalledInv /\ StartedInv
  BY DEF IInv
<1>2. /\ stack = <<>>
      /\ UNCHANGED <<entities, registry, newEntities, removedEntities, isInOnFrame, isStarted, status, guid,
                     sleeping, db, called, started, missed>>
      /\ \E m \in World : stack' = Append(stack, Loop(m)) /\ (m = "OnStart" => ~isStarted)
  BY DEF Load, Start, Save, World, Push, arrays, objects, history
<1>3. PICK m \in World : stack' = Append(stack, Loop(m)) /\ (m = "OnStart" => ~isStarted)
  BY <1>2
<1> DEFINE b == Loop(m)
<1>4. m \in Phase \cup World /\ m \notin Phase /\ ~isInOnFrame
  BY <1>1, <1>2 DEF Phase, World, StackInv
<1>5. StackInv' /\ stack' # <<>> /\ stack'[1] = b
  <2>1. isInOnFrame' <=> m \in Phase
    BY <1>2, <1>4
  <2>2. UNCHANGED <<entities, removedEntities, status, isStarted>>
    BY <1>2
  <2>3. QED
    BY <1>1, <1>2, <1>3, <1>4, <2>1, <2>2, LoopAlone
<1>6. b.kind = "loop" /\ b.method = m /\ b.i = 1 /\ b.num = Len(entities)
  BY DEF Loop
<1> HIDE DEF b
<1>7. Objects' /\ ArraysInv'
  BY <1>1, <1>2 DEF Objects, ArraysInv, Arrays
<1>8. CalledInv'
  BY <1>1, <1>2, <1>4 DEF CalledInv
<1>9. ~Starting(stack) /\ ~Ending(stack) /\ ~Ending(stack')
  BY <1>2, <1>5, <1>6 DEF Starting, Ending
<1>10. StartedInv'
  <2>1. CASE m # "OnStart"
    <3>1. ~Starting(stack')
      BY <1>5, <1>6, <2>1 DEF Starting
    <3>2. QED
      BY <1>1, <1>2, <1>9, <3>1, StartedKept
  <2>2. CASE m = "OnStart"
    <3>1. Starting(stack') /\ ~isStarted
      BY <1>3, <1>5, <1>6, <2>2 DEF Starting
    <3>2. \A x \in Entity : status[x] \in {"active", "deactivating"} => started[x] = 0
      BY <1>1, <1>9, <3>1 DEF StartedInv, InWorld
    <3>3. ASSUME NEW k \in DOMAIN entities
          PROVE  started[entities[k]] = 0 /\ ~(k < b.i) /\ ~(k > b.num)
      <4>1. /\ DOMAIN entities = 1 .. Len(entities) /\ Len(entities) \in Nat
            /\ entities \in Seq(Entity \cup {Null}) /\ ~Contains(entities, Null)
        BY <1>1, <1>4 DEF ArraysInv, Arrays
      <4>2. Contains(entities, entities[k]) /\ entities[k] \in Entity
        BY <4>1 DEF Contains
      <4>3. status[entities[k]] \in {"active", "deactivating"}
        BY <1>1, <4>2 DEF ArraysInv, Arrays
      <4>4. ~(k < b.i) /\ ~(k > b.num)
        BY <1>6, <4>1
      <4>5. QED
        BY <3>2, <4>2, <4>3, <4>4
    <3>4. InWorld' = InWorld
      BY <1>2 DEF InWorld
    <3>5. QED
      BY <1>1, <1>2, <1>5, <3>1, <3>3, <3>4 DEF StartedInv
  <2>3. QED
    BY <2>1, <2>2
<1>11. QED
  BY <1>5, <1>7, <1>8, <1>10 DEF IInv

(* CleanupWorld begins.                                                    *)
LEMMA CleanupKeeps ==
    ASSUME IInv, CleanupWorld
    PROVE  IInv'
<1> DEFINE b == Loop("OnSave")
           r == RemovingAll
<1>1. Objects /\ ArraysInv /\ StackInv /\ CalledInv /\ StartedInv
  BY DEF IInv
<1>2. /\ stack = <<>> /\ isStarted' = FALSE /\ stack' = <<r, b>>
      /\ UNCHANGED <<entities, registry, newEntities, removedEntities, isInOnFrame, status, guid,
                     sleeping, db, called, started, missed>>
  BY DEF CleanupWorld, arrays, objects, history
<1>3. /\ b \in Frame /\ r \in Frame /\ b.kind = "loop" /\ b.method = "OnSave" /\ b.i = 1
      /\ b.num = Len(entities) /\ r.kind = "removeAll"
  <2>1. "OnSave" \in Phase \cup World
    BY DEF World
  <2>2. b \in Frame
    BY <1>1, <2>1, NewLoop
  <2>3. r \in Frame
    BY DEF Frame
  <2>4. QED
    BY <2>2, <2>3 DEF Loop, RemovingAll
<1>4. ~isInOnFrame /\ Handled(stack, status)
  BY <1>1, <1>2 DEF StackInv
<1> HIDE DEF b, r
<1>5. /\ stack' \in Seq(Frame) /\ stack' # <<>> /\ Len(stack') = 2 /\ DOMAIN stack' = {1, 2}
      /\ stack'[1] = r /\ stack'[2] = b
  BY <1>2, <1>3
<1>6. /\ ~PhaseCall(b) /\ ~WorldCall(b) /\ ~Activates(b) /\ ~Deactivates(b) /\ ~OfFrame(b)
      /\ ~PhaseCall(r) /\ ~WorldCall(r) /\ ~Activates(r) /\ ~Deactivates(r) /\ ~OfFrame(r)
  BY <1>3 DEF PhaseCall, WorldCall, Activates, Deactivates, OfFrame, Phase
<1>7. /\ Placed(r, 1, r, entities, removedEntities, status, FALSE)
      /\ Placed(b, 2, r, entities, removedEntities, status, FALSE)
  <2>1. Len(entities) <= Len(entities) /\ 1 <= Len(entities) + 1
    BY <1>1 DEF ArraysInv, Arrays
  <2>2. QED
    BY <1>3, <1>6, <2>1 DEF Placed
<1>8. AllPlaced(stack', entities, removedEntities, status, FALSE)
  BY <1>5, <1>7 DEF AllPlaced
<1>9. Handled(stack', status)
  <2>1. DOMAIN stack = {}
    BY <1>2
  <2>2. \A x \in Entity : status[x] # "deactivating"
    BY <1>4, <2>1 DEF Handled
  <2>3. QED
    BY <1>5, <1>6, <2>2 DEF Handled
<1>10. StackInv'
  <2>1. Len(stack') <= MaxDepth
    BY <1>5, Constants
  <2>2. QED
    BY <1>2, <1>4, <1>5, <1>6, <1>8, <1>9, <2>1 DEF StackInv
<1>11. Objects' /\ ArraysInv' /\ CalledInv'
  BY <1>1, <1>2, <1>4 DEF Objects, ArraysInv, Arrays, CalledInv
<1>12. StartedInv'
  <2>1. Ending(stack') /\ ~Starting(stack')
    BY <1>3, <1>5 DEF Starting, Ending
  <2>2. QED
    BY <1>1, <1>2, <2>1 DEF StartedInv
<1>13. QED
  BY <1>10, <1>11, <1>12 DEF IInv

(* The application attaches an entity.                                     *)
LEMMA AttachKeeps ==
    ASSUME IInv, NEW e \in Entity, NEW g \in Guid \cup {NewGuid}, NEW asleep \in BOOLEAN,
           AttachEntity(e, g, asleep), AppRuns
    PROVE  IInv'
<1> DEFINE c == Activating(e)
<1>1. /\ status[e] = "fresh" /\ Len(stack) < MaxDepth /\ stack' = Append(stack, c)
      /\ status' = [status EXCEPT ![e] = "activating"]
      /\ guid' = [guid EXCEPT ![e] = g]
      /\ sleeping' \in {sleeping, sleeping \cup {e}}
      /\ UNCHANGED <<entities, registry, newEntities, removedEntities, isInOnFrame, isStarted, db,
                     called, started, missed>>
  BY DEF AttachEntity, Push, arrays, history
<1>2. c \in Frame /\ c.entity = e /\ Activates(c)
  <2>1. c \in Frame
    BY NewFrames
  <2>2. QED
    BY <2>1 DEF Activating, Activates
<1>3. stack # <<>> => ~OfFrame(Last(stack))
  BY DEF AppRuns, OfFrame
<1> HIDE DEF c
<1>4. ArraysInv' /\ StackInv' /\ CalledInv' /\ StartedInv'
  BY <1>1, <1>2, <1>3, BeginsKeeps
<1>5. Objects'
  BY <1>1 DEF IInv, Objects, Status
<1>6. QED
  BY <1>4, <1>5 DEF IInv

(* The application removes an entity.                                      *)
LEMMA RemoveEntityKeeps ==
    ASSUME IInv, NEW e \in Entity, NEW delete \in BOOLEAN, RemoveEntity(e, delete)
    PROVE  IInv'
<1> DEFINE c == Deactivating(e, delete)
<1>1. /\ status[e] = "active" /\ Len(stack) < MaxDepth /\ stack' = Append(stack, c)
      /\ status' = [status EXCEPT ![e] = "deactivating"]
      /\ UNCHANGED <<entities, registry, newEntities, removedEntities, isInOnFrame, isStarted, guid,
                     sleeping, db, called, started, missed>>
  BY DEF RemoveEntity, Push, arrays, history
<1>2. c \in Frame /\ c.entity = e /\ Deactivates(c)
  <2>1. c \in Frame
    BY NewFrames
  <2>2. QED
    BY <2>1 DEF Deactivating, Deactivates
<1>3. stack # <<>> => ~OfFrame(Last(stack))
  BY DEF RemoveEntity, AppRuns, OfFrame
<1>4. \A k \in DOMAIN stack : ~OfWorld(stack[k]) /\ (WorldCall(stack[k]) => stack[k].entity # e)
  BY DEF RemoveEntity, Running, Looping, OfWorld, WorldCall
<1> HIDE DEF c
<1>5. sleeping' = sleeping
  BY <1>1
<1>6. UNCHANGED <<entities, registry, newEntities, removedEntities, isInOnFrame, isStarted,
                  called, started, missed>>
  BY <1>1
<1>7. ArraysInv' /\ StackInv' /\ CalledInv' /\ StartedInv'
  BY <1>1, <1>2, <1>3, <1>4, <1>5, <1>6, BeginsKeeps
<1>8. Objects'
  BY <1>1 DEF IInv, Objects, Status
<1>9. QED
  BY <1>7, <1>8 DEF IInv

-----------------------------------------------------------------------------
(* The ends of the loops.                                                  *)

(* RemoveAllEntities runs outside the frames, on its own.                  *)
LEMMA RemovingAllTop ==
    ASSUME IInv, Top("removeAll")
    PROVE  /\ stack # <<>> /\ Len(stack) = 1 /\ DOMAIN stack = {1} /\ stack[1] = Last(stack)
           /\ Last(stack).kind = "removeAll"
           /\ ~isInOnFrame /\ ~isStarted
           /\ entities \in Seq(Entity) /\ newEntities = <<>>
           /\ \A x \in Entity : status[x] # "deactivating"
           /\ \A x \in Entity : status[x] = "active" <=> Contains(entities, x)
<1>1. stack # <<>> /\ Last(stack).kind = "removeAll"
  BY DEF Top
<1>2. ArraysInv /\ StackInv
  BY DEF IInv
<1>3. /\ Last(stack) = stack[Len(stack)] /\ DOMAIN stack = 1 .. Len(stack)
      /\ Placed(Last(stack), Len(stack), stack[1], entities, removedEntities, status, isStarted)
  BY <1>1, <1>2, TopFrame
<1>4. Len(stack) = 1 /\ ~isStarted
  BY <1>1, <1>3 DEF Placed
<1>5. DOMAIN stack = {1}
  BY <1>3, <1>4
<1>6. stack[1] = Last(stack)
  BY <1>3, <1>4
<1>7. ~isInOnFrame /\ Handled(stack, status)
  BY <1>1, <1>2, <1>6 DEF StackInv, OfFrame
<1>8. \A x \in Entity : status[x] # "deactivating"
  BY <1>1, <1>5, <1>6, <1>7 DEF Handled, Deactivates
<1>9. /\ entities \in Seq(Entity \cup {Null}) /\ ~Contains(entities, Null) /\ newEntities = <<>>
      /\ \A x \in Entity : status[x] \in {"active", "deactivating"} <=>
            Contains(entities, x) \/ Contains(newEntities, x)
  BY <1>2, <1>7 DEF ArraysInv, Arrays
<1>10. entities \in Seq(Entity)
  BY <1>9, WithoutNull
<1>11. \A x : ~Contains(newEntities, x)
  BY <1>9 DEF Contains
<1>12. \A x \in Entity : status[x] = "active" <=> Contains(entities, x)
  BY <1>8, <1>9, <1>11
<1>13. QED
  BY <1>1, <1>4, <1>5, <1>6, <1>7, <1>8, <1>9, <1>10, <1>12

(* RemoveAllEntities goes on to the last entity, and ends.                 *)
LEMMA RemoveAllNextKeeps ==
    ASSUME IInv, RemoveAllNext
    PROVE  IInv'
<1> DEFINE e == Last(entities)
           c == Deactivating(e, FALSE)
<1>1. /\ entities # <<>> /\ Len(stack) < MaxDepth /\ stack' = Append(stack, c)
      /\ status' = [status EXCEPT ![e] = "deactivating"]
      /\ Top("removeAll")
  BY DEF RemoveAllNext, Push
<1>2. UNCHANGED <<entities, registry, newEntities, removedEntities, isInOnFrame, isStarted, guid,
                  sleeping, db, called, started, missed>>
  BY DEF RemoveAllNext, arrays, history
<1>3. /\ DOMAIN stack = {1} /\ stack[1] = Last(stack) /\ Last(stack).kind = "removeAll"
      /\ entities \in Seq(Entity)
      /\ \A x \in Entity : status[x] = "active" <=> Contains(entities, x)
  BY <1>1, RemovingAllTop
<1>4. e \in Entity /\ Contains(entities, e)
  <2>1. Len(entities) \in DOMAIN entities /\ e = entities[Len(entities)]
    BY <1>1, <1>3, TopOfStack
  <2>2. DOMAIN entities = 1 .. Len(entities) /\ Len(entities) \in 1 .. Len(entities)
    BY <1>3, <2>1
  <2>3. QED
    BY <1>3, <2>1, <2>2 DEF Contains
<1> HIDE DEF e
<1>5. status[e] = "active"
  BY <1>3, <1>4
<1>6. c \in Frame /\ c.entity = e /\ Deactivates(c)
  <2>1. c \in Frame
    BY <1>4, NewFrames
  <2>2. QED
    BY <2>1 DEF Deactivating, Deactivates
<1> HIDE DEF c
<1>7. stack # <<>> => ~OfFrame(Last(stack))
  BY <1>3 DEF OfFrame
<1>8. \A k \in DOMAIN stack : ~OfWorld(stack[k]) /\ (WorldCall(stack[k]) => stack[k].entity # e)
  BY <1>3 DEF OfWorld, WorldCall
<1>9. ArraysInv' /\ StackInv' /\ CalledInv' /\ StartedInv'
  <2>1. sleeping' = sleeping
    BY <1>2
  <2>2. UNCHANGED <<entities, registry, newEntities, removedEntities, isInOnFrame, isStarted,
                    called, started, missed>>
    BY <1>2
  <2>3. QED
    BY <1>1, <1>4, <1>5, <1>6, <1>7, <1>8, <2>1, <2>2, BeginsKeeps
<1>10. Objects'
  BY <1>1, <1>2 DEF IInv, Objects, Status
<1>11. QED
  BY <1>9, <1>10 DEF IInv

LEMMA RemoveAllEndKeeps ==
    ASSUME IInv, RemoveAllEnd
    PROVE  IInv'
<1>1. Objects /\ ArraysInv /\ StackInv /\ CalledInv /\ StartedInv
  BY DEF IInv
<1>2. /\ Top("removeAll") /\ entities = <<>> /\ stack' = Front(stack)
      /\ UNCHANGED <<entities, registry, newEntities, removedEntities, isInOnFrame, isStarted, status,
                     guid, sleeping, db, called, started, missed>>
  BY DEF RemoveAllEnd, Below, arrays, objects, history
<1>3. /\ stack # <<>> /\ Len(stack) = 1 /\ Last(stack).kind = "removeAll" /\ stack[1] = Last(stack)
      /\ ~isInOnFrame /\ ~isStarted
      /\ \A x \in Entity : status[x] # "deactivating"
      /\ \A x \in Entity : status[x] = "active" <=> Contains(entities, x)
  BY <1>2, RemovingAllTop
<1>4. stack' = <<>>
  <2>1. stack \in Seq(Frame)
    BY <1>1 DEF StackInv
  <2>2. QED
    BY <1>2, <1>3, <2>1, PoppedOff
<1>5. StackInv'
  <2>1. ~Deactivates(Last(stack)) /\ ~OfFrame(Last(stack))
    BY <1>3 DEF Deactivates, OfFrame
  <2>2. stack' = Front(stack) /\ UNCHANGED <<entities, removedEntities, status, isInOnFrame>>
    BY <1>2
  <2>3. QED
    BY <1>1, <1>3, <2>1, <2>2, PopKeeps
<1>6. Objects' /\ ArraysInv' /\ CalledInv'
  BY <1>1, <1>2, <1>3 DEF Objects, ArraysInv, Arrays, CalledInv
<1>7. StartedInv'
  <2>1. ~Starting(stack') /\ ~Ending(stack')
    BY <1>4 DEF Starting, Ending
  <2>2. InWorld' = {}
    <3>1. \A x : ~Contains(entities, x)
      BY <1>2 DEF Contains
    <3>2. QED
      BY <1>2, <1>3, <3>1 DEF InWorld
  <2>3. QED
    BY <1>1, <1>2, <2>1, <2>2 DEF StartedInv
<1>8. QED
  BY <1>5, <1>6, <1>7 DEF IInv

(* Load, Start and Save return.                                            *)
LEMMA WorldEndKeeps ==
    ASSUME IInv, WorldEnd
    PROVE  IInv'
<1> DEFINE f == Last(stack)
           n == Len(stack)
<1>1. Objects /\ ArraysInv /\ StackInv /\ CalledInv /\ StartedInv
  BY DEF IInv
<1>2. /\ stack # <<>> /\ f.kind = "loop" /\ f.i > f.num /\ f.method \in World
      /\ isStarted' = (isStarted \/ f.method = "OnStart")
      /\ db' = IF f.method = "OnSave"
               THEN db \cup ({guid[entities[k]] : k \in 1 .. f.num} \ {NewGuid})
               ELSE db
      /\ stack' = Front(stack)
      /\ UNCHANGED <<entities, registry, newEntities, removedEntities, isInOnFrame, status, guid, sleeping,
                     called, started, missed>>
  BY DEF WorldEnd, Top, Below, arrays, history
<1>3. /\ f = stack[n] /\ f \in Frame /\ n \in Nat \ {0} /\ DOMAIN stack = 1 .. n
      /\ Placed(f, n, stack[1], entities, removedEntities, status, isStarted)
      /\ OfWorld(f) => ~isInOnFrame
  BY <1>1, <1>2, TopFrame
<1>4. OfWorld(f) /\ ~isInOnFrame /\ f \in LoopFrame
  <2>1. OfWorld(f)
    BY <1>2 DEF OfWorld
  <2>2. f \in LoopFrame
    BY <1>2, <1>3, FrameKinds
  <2>3. QED
    BY <1>3, <2>1, <2>2
<1>5. f.num \in Nat /\ f.i \in Nat
  BY <1>4, Constants DEF LoopFrame
<1> HIDE DEF f
<1>6. n = 1 \/ f.method = "OnSave"
  BY <1>2, <1>3 DEF Placed
<1>7. f.num <= Len(entities)
  BY <1>2, <1>3 DEF Placed
<1>8. /\ entities \in Seq(Entity \cup {Null}) /\ ~Contains(entities, Null) /\ newEntities = <<>>
      /\ \A x \in Entity : status[x] \in {"active", "deactivating"} <=>
            Contains(entities, x) \/ Contains(newEntities, x)
  BY <1>1, <1>4 DEF ArraysInv, Arrays
<1>9. entities \in Seq(Entity)
  BY <1>8, WithoutNull
<1>10. stack \in Seq(Frame)
  BY <1>1 DEF StackInv
<1>11. /\ n # 1 => stack' # <<>> /\ stack'[1] = stack[1]
       /\ n = 1 => stack' = <<>>
  BY <1>2, <1>10, PoppedOff
<1>12. StackInv'
  <2>1. ~Deactivates(Last(stack)) /\ ~OfFrame(Last(stack))
    BY <1>2, <1>4 DEF Deactivates, OfFrame, OfWorld, Phase, World, f
  <2>2. stack' = Front(stack) /\ UNCHANGED <<entities, removedEntities, status, isInOnFrame>>
    BY <1>2
  <2>3. n # 1 => (isStarted' => isStarted)
    BY <1>2, <1>6
  <2>4. QED
    BY <1>1, <1>2, <2>1, <2>2, <2>3, PopKeeps
<1>13. Objects'
  <2>1. ASSUME NEW k \in 1 .. f.num
        PROVE  guid[entities[k]] \in Guid \cup {NewGuid}
    <3>1. k \in 1 .. Len(entities)
      BY <1>5, <1>7, <1>9
    <3>2. entities[k] \in Entity
      BY <1>9, <3>1
    <3>3. QED
      BY <1>1, <3>2 DEF Objects
  <2>2. {guid[entities[k]] : k \in 1 .. f.num} \ {NewGuid} \subseteq Guid
    BY <2>1
  <2> DEFINE rows == {guid[entities[k]] : k \in 1 .. f.num} \ {NewGuid}
  <2>3. db' = (IF f.method = "OnSave" THEN db \cup rows ELSE db) /\ rows \subseteq Guid
    BY <1>2, <2>2
  <2> HIDE DEF rows
  <2>4. db' \subseteq Guid
    BY <1>1, <2>3 DEF Objects
  <2>5. isStarted' \in BOOLEAN
    BY <1>2
  <2>6. UNCHANGED <<isInOnFrame, status, guid, sleeping, missed>>
    BY <1>2
  <2>7. QED
    BY <1>1, <2>4, <2>5, <2>6 DEF Objects
<1>14. ArraysInv' /\ CalledInv'
  <2>1. UNCHANGED <<entities, registry, newEntities, removedEntities, isInOnFrame, status, called>>
    BY <1>2
  <2>2. QED
    BY <1>1, <1>4, <2>1 DEF ArraysInv, Arrays, CalledInv
<1>15. UNCHANGED <<entities, status, started, missed>> /\ InWorld' = InWorld
  BY <1>2 DEF InWorld
<1>16. CASE f.method = "OnStart"
  <2>1. n = 1 /\ stack' = <<>> /\ stack[1] = f /\ Starting(stack) /\ isStarted'
    BY <1>2, <1>3, <1>6, <1>11, <1>16 DEF Starting
  <2>2. \A k \in DOMAIN entities :
           /\ started[entities[k]] = IF k < f.i THEN 1 ELSE 0
           /\ k > f.num => entities[k] \in missed
    BY <1>1, <2>1 DEF StartedInv
  <2>3. ASSUME NEW x \in InWorld
        PROVE  started[x] = 1 \/ x \in missed
    <3>1. Contains(entities, x)
      BY <1>8, <2>3 DEF InWorld, Contains
    <3>2. PICK k \in DOMAIN entities : entities[k] = x
      BY <1>9, <3>1 DEF Contains
    <3>3. k \in Nat
      BY <1>9
    <3>4. k < f.i \/ k > f.num
      BY <1>2, <1>5, <3>3
    <3>5. QED
      BY <2>2, <3>2, <3>4
  <2>4. ~Starting(stack')
    BY <2>1 DEF Starting
  <2>5. StartedInv'
    BY <1>1, <1>15, <2>1, <2>3, <2>4 DEF StartedInv
  <2>6. QED
    BY <1>12, <1>13, <1>14, <2>5 DEF IInv
<1>17. CASE f.method # "OnStart"
  <2>1. isStarted' = isStarted
    BY <1>1, <1>2, <1>17 DEF Objects
  <2>2. n = 1 => ~Starting(stack) /\ ~Ending(stack) /\ ~Starting(stack')
    BY <1>2, <1>3, <1>11, <1>17 DEF Starting, Ending
  <2>3. /\ Starting(stack') =>
              Starting(stack) /\ stack'[1].i = stack[1].i /\ stack'[1].num = stack[1].num
        /\ Starting(stack) => Starting(stack')
        /\ Ending(stack) => Ending(stack')
    BY <1>2, <1>11, <2>2 DEF Starting, Ending
  <2>4. UNCHANGED <<started, missed, isStarted, status, entities>>
    BY <1>15, <2>1
  <2>5. StartedInv'
    BY <1>1, <2>3, <2>4, StartedKept
  <2>6. QED
    BY <1>12, <1>13, <1>14, <2>5 DEF IInv
<1>18. QED
  BY <1>16, <1>17

(* The last loop of a frame returns.                                       *)
LEMMA FrameEndKeeps ==
    ASSUME IInv, FrameEnd
    PROVE  IInv'
<1> DEFINE f == Last(stack)
<1>1. Objects /\ ArraysInv /\ StackInv /\ CalledInv /\ StartedInv
  BY DEF IInv
<1>2. /\ stack # <<>> /\ f.kind = "loop" /\ f.method = "OnRender"
      /\ isInOnFrame' = FALSE /\ UpdateRegistry /\ stack' = Front(stack)
      /\ UNCHANGED <<isStarted, status, guid, sleeping, db, called, started, missed>>
  BY DEF FrameEnd, Top, Below, objects, history
<1>3. OfFrame(f) /\ ~Deactivates(f)
  BY <1>2 DEF OfFrame, Phase, Deactivates
<1>4. Len(stack) = 1 /\ DOMAIN stack = 1 .. Len(stack) /\ f = stack[Len(stack)]
  BY <1>1, <1>2, <1>3, TopFrame
<1>5. stack' = <<>>
  <2>1. stack \in Seq(Frame)
    BY <1>1 DEF StackInv
  <2>2. QED
    BY <1>2, <1>4, <2>1, PoppedOff
<1>6. ArraysInv' /\ InWorld' = InWorld
  <2>1. UpdateRegistry /\ UNCHANGED status /\ isInOnFrame' = FALSE
    BY <1>2
  <2>2. QED
    BY <1>1, <2>1, UpdateKeeps
<1>7. Objects'
  BY <1>1, <1>2 DEF Objects
<1>8. StackInv'
  <2>1. \A k \in DOMAIN stack : ~Deactivates(stack[k])
    BY <1>3, <1>4
  <2>2. Handled(stack, status)
    BY <1>1 DEF StackInv
  <2>3. \A x \in Entity : status[x] # "deactivating"
    BY <2>1, <2>2 DEF Handled
  <2>4. stack' \in Seq(Frame) /\ Len(stack') <= MaxDepth /\ DOMAIN stack' = {}
    BY <1>5, Constants
  <2>5. AllPlaced(stack', entities', removedEntities', status', isStarted') /\ Handled(stack', status')
    BY <1>2, <2>3, <2>4 DEF AllPlaced, Handled
  <2>6. QED
    BY <1>2, <1>5, <2>4, <2>5 DEF StackInv
<1>9. CalledInv'
  BY <1>1, <1>2 DEF CalledInv
<1>10. StartedInv'
  <2>1. ~Starting(stack) /\ ~Ending(stack) /\ ~Starting(stack')
    BY <1>2, <1>4, <1>5 DEF Starting, Ending
  <2>2. QED
    BY <1>1, <1>2, <1>6, <2>1 DEF StartedInv
<1>11. QED
  BY <1>6, <1>7, <1>8, <1>9, <1>10 DEF IInv

-----------------------------------------------------------------------------
(* Every step keeps the invariant.                                         *)

LEMMA InitInv == Init => IInv
<1> SUFFICES ASSUME Init PROVE IInv
  OBVIOUS
<1>1. /\ entities = <<>> /\ newEntities = <<>> /\ removedEntities = <<>> /\ stack = <<>>
      /\ registry = [e \in Entity |-> "none"] /\ isInOnFrame = FALSE /\ isStarted = FALSE
      /\ status = [e \in Entity |-> "fresh"] /\ guid = [e \in Entity |-> NewGuid]
      /\ sleeping = {} /\ db = Guid /\ missed = {}
      /\ called = [e \in Entity |-> 0] /\ started = [e \in Entity |-> 0]
  BY DEF Init
<1>2. Objects
  BY <1>1 DEF Objects, Status
<1>3. \A x : ~Contains(<<>>, x)
  BY DEF Contains
<1>4. ArraysInv
  <2>1. entities \in Seq(Entity \cup {Null}) /\ Len(entities) <= Cardinality(Entity) /\ DOMAIN entities = {}
    BY <1>1, Constants
  <2>2. Unique(entities) /\ IsInjective(newEntities)
    BY <1>1 DEF Unique, IsInjective
  <2>3. \A e \in Entity : registry[e] = "none" /\ status[e] = "fresh"
    BY <1>1
  <2>4. registry \in [Entity -> {"none", "set", "zero"}]
    BY <1>1
  <2>5. newEntities \in Seq(Entity) /\ removedEntities \in Seq(Entity)
    BY <1>1
  <2>6. QED
    BY <1>1, <1>3, <2>1, <2>2, <2>3, <2>4, <2>5 DEF ArraysInv, Arrays
<1>5. StackInv
  <2>1. stack \in Seq(Frame) /\ Len(stack) <= MaxDepth /\ DOMAIN stack = {}
    BY <1>1, Constants
  <2>2. \A e \in Entity : status[e] # "deactivating"
    BY <1>1
  <2>3. QED
    BY <1>1, <2>1, <2>2 DEF StackInv, AllPlaced, Handled
<1>6. CalledInv
  <2>1. 0 \in 0 .. 4 * NumProps
    BY Constants
  <2>2. QED
    BY <1>1, <2>1 DEF CalledInv
<1>7. StartedInv
  BY <1>1 DEF StartedInv, InWorld, Starting, Ending
<1>8. QED
  BY <1>2, <1>4, <1>5, <1>6, <1>7 DEF IInv

LEMMA ApplicationKeeps ==
    ASSUME IInv, Application
    PROVE  IInv'
<1>1. PICK e \in Entity :
          \/ AttachNew(e)
          \/ \E g \in Guid : LoadLevel(e, g) \/ CreateSleepingEntities(e, g)
          \/ \E delete \in BOOLEAN : RemoveEntity(e, delete)
  BY DEF Application
<1>2. CASE AttachNew(e)
  <2>1. AttachEntity(e, NewGuid, FALSE) /\ AppRuns /\ NewGuid \in Guid \cup {NewGuid} /\ FALSE \in BOOLEAN
    BY <1>2 DEF AttachNew
  <2>2. QED
    BY <2>1, AttachKeeps
<1>3. CASE \E g \in Guid : LoadLevel(e, g)
  <2>1. PICK g \in Guid : LoadLevel(e, g)
    BY <1>3
  <2>2. AttachEntity(e, g, FALSE) /\ AppRuns /\ g \in Guid \cup {NewGuid} /\ FALSE \in BOOLEAN
    BY <2>1 DEF LoadLevel, AppRuns
  <2>3. QED
    BY <2>2, AttachKeeps
<1>4. CASE \E g \in Guid : CreateSleepingEntities(e, g)
  <2>1. PICK g \in Guid : CreateSleepingEntities(e, g)
    BY <1>4
  <2>2. AttachEntity(e, g, TRUE) /\ AppRuns /\ g \in Guid \cup {NewGuid} /\ TRUE \in BOOLEAN
    BY <2>1 DEF CreateSleepingEntities
  <2>3. QED
    BY <2>2, AttachKeeps
<1>5. CASE \E delete \in BOOLEAN : RemoveEntity(e, delete)
  BY <1>5, RemoveEntityKeeps
<1>6. QED
  BY <1>1, <1>2, <1>3, <1>4, <1>5

LEMMA StutterKeeps ==
    ASSUME IInv, UNCHANGED vars
    PROVE  IInv'
<1>1. UNCHANGED <<entities, registry, newEntities, removedEntities, isInOnFrame, isStarted, status,
                  guid, sleeping, db, stack, called, started, missed>>
  BY DEF vars
<1>2. Objects' /\ ArraysInv'
  BY <1>1 DEF IInv, Objects, ArraysInv
<1>3. StackInv' /\ CalledInv'
  BY <1>1 DEF IInv, StackInv, CalledInv
<1>4. StartedInv'
  <2>1. InWorld' = InWorld
    BY <1>1 DEF InWorld
  <2>2. QED
    BY <1>1, <2>1 DEF IInv, StartedInv
<1>5. QED
  BY <1>2, <1>3, <1>4 DEF IInv

LEMMA StepInv == IInv /\ [Next]_vars => IInv'
<1> SUFFICES ASSUME IInv, [Next]_vars PROVE IInv'
  OBVIOUS
<1>1. CASE Application
  BY <1>1, ApplicationKeeps
<1>2. CASE OnFrame
  BY <1>2, OnFrameKeeps
<1>3. CASE Load \/ Start \/ Save
  BY <1>3, WorldKeeps
<1>4. CASE CleanupWorld
  BY <1>4, CleanupKeeps
<1>5. CASE Activated
  BY <1>5, ActivatedKeeps
<1>6. CASE Deactivated
  BY <1>6, DeactivatedKeeps
<1>7. CASE RemoveAllNext
  BY <1>7, RemoveAllNextKeeps
<1>8. CASE RemoveAllEnd
  BY <1>8, RemoveAllEndKeeps
<1>9. CASE LoopNext
  BY <1>9, LoopNextKeeps
<1>10. CASE CallNext
  BY <1>10, CallNextKeeps
<1>11. CASE PhaseEnd
  BY <1>11, PhaseEndKeeps
<1>12. CASE WorldEnd
  BY <1>12, WorldEndKeeps
<1>13. CASE FrameEnd
  BY <1>13, FrameEndKeeps
<1>14. CASE UNCHANGED vars
  BY <1>14, StutterKeeps
<1>15. QED
  BY <1>1, <1>2, <1>3, <1>4, <1>5, <1>6, <1>7, <1>8, <1>9, <1>10, <1>11, <1>12, <1>13, <1>14
     DEF Next, MainLoop, Return

-----------------------------------------------------------------------------
(* What the invariant says.                                                *)

LEMMA InvType == IInv => TypeOK
<1> SUFFICES ASSUME IInv PROVE TypeOK
  OBVIOUS
<1>1. QED
  BY DEF IInv, Objects, ArraysInv, Arrays, StackInv, CalledInv, StartedInv, TypeOK

LEMMA InvRegistry == IInv => RegistryAgrees
<1> SUFFICES ASSUME IInv PROVE RegistryAgrees
  OBVIOUS
<1>1. /\ entities \in Seq(Entity \cup {Null}) /\ newEntities \in Seq(Entity)
      /\ Unique(entities) /\ IsInjective(newEntities)
      /\ registry \in [Entity -> {"none", "set", "zero"}]
      /\ \A e \in Entity :
            /\ registry[e] = "set" <=> Contains(entities, e)
            /\ status[e] \in {"active", "deactivating"} <=>
                  Contains(entities, e) \/ Contains(newEntities, e)
            /\ ~(Contains(entities, e) /\ Contains(newEntities, e))
  BY DEF IInv, ArraysInv, Arrays
<1>2. ~isInOnFrame => /\ ~Contains(entities, Null) /\ \A e \in Entity : registry[e] # "zero"
                      /\ newEntities = <<>> /\ removedEntities = <<>>
  BY DEF IInv, ArraysInv, Arrays
<1>3. /\ \A x : x \in Range(entities) <=> Contains(entities, x)
      /\ \A x : x \in Range(newEntities) <=> Contains(newEntities, x)
  BY <1>1 DEF Range, Contains
<1>4. /\ \A x : Contains(entities, x) => x \in Entity \/ x = Null
      /\ \A x : Contains(newEntities, x) => x \in Entity
  BY <1>1 DEF Contains
<1>5. \A x : x \in Attached <=> x \in Entity /\ Contains(entities, x)
  BY <1>3, <1>4, Constants DEF Attached
<1>6. {e \in Entity : registry[e] = "set"} = Attached
  BY <1>1, <1>5
<1>7. InWorld = Attached \cup Range(newEntities)
  BY <1>1, <1>3, <1>4, <1>5 DEF InWorld
<1>8. IsInjective(Compact(entities) \o newEntities)
  <2> DEFINE c == Compact(entities)
             S == Entity \cup {Null}
             T == {Null}
  <2>1. entities \in Seq(S) /\ c = LeaveOut(entities, T)
    BY <1>1 DEF Compact
  <2>2. \A i, j \in 1 .. Len(entities) : entities[i] = entities[j] /\ entities[i] \notin T => i = j
    BY <1>1 DEF Unique
  <2>3. S \ T = Entity /\ Null \in T
    BY Constants
  <2> HIDE DEF c, S, T
  <2>4. /\ c \in Seq(S \ T) /\ IsInjective(c)
        /\ \A x : Contains(c, x) <=> Contains(entities, x) /\ x \notin T
    BY <2>1, <2>2, LeaveOutElements
  <2>5. c \in Seq(Entity)
    BY <2>3, <2>4
  <2>6. \A x : ~(Contains(c, x) /\ Contains(newEntities, x))
    BY <1>1, <1>4, <2>3, <2>4
  <2>7. IsInjective(c \o newEntities)
    BY <1>1, <2>4, <2>5, <2>6, JoinedElements
  <2>8. QED
    BY <2>7 DEF c
<1>9. ~isInOnFrame => Null \notin Range(entities) /\ "zero" \notin Range(registry)
  <2>1. ~isInOnFrame => Null \notin Range(entities)
    BY <1>2, <1>3
  <2>2. DOMAIN registry = Entity
    BY <1>1
  <2>3. Range(registry) = {registry[x] : x \in Entity}
    BY <2>2 DEF Range
  <2>4. ~isInOnFrame => \A x \in Entity : registry[x] # "zero"
    BY <1>2
  <2>5. QED
    BY <2>1, <2>3, <2>4
<1>10. QED
  BY <1>2, <1>6, <1>7, <1>8, <1>9 DEF RegistryAgrees

LEMMA InvLoops == IInv => LoopsAreSafe
<1> SUFFICES ASSUME IInv PROVE LoopsAreSafe
  OBVIOUS
<1>1. /\ stack \in Seq(Frame) /\ DOMAIN stack = 1 .. Len(stack)
      /\ \A k \in DOMAIN stack :
            Placed(stack[k], k, stack[1], entities, removedEntities, status, isStarted)
  BY DEF IInv, StackInv, AllPlaced
<1>2. /\ entities \in Seq(Entity \cup {Null}) /\ newEntities \in Seq(Entity)
      /\ removedEntities \in Seq(Entity)
      /\ \A e \in Entity : status[e] \in {"active", "deactivating"} =>
            Contains(entities, e) \/ Contains(newEntities, e)
  BY DEF IInv, ArraysInv, Arrays
<1>3. \A e \in Entity :
         Contains(entities, e) \/ Contains(newEntities, e) \/ Contains(removedEntities, e) =>
            e \in Kept
  <2>1. \A e \in Entity : Contains(entities, e) => e \in Attached
    BY <1>2, Constants DEF Contains, Range, Attached
  <2>2. \A e \in Entity : /\ Contains(newEntities, e) => e \in Range(newEntities)
                          /\ Contains(removedEntities, e) => e \in Range(removedEntities)
    BY <1>2 DEF Contains, Range
  <2>3. QED
    BY <2>1, <2>2 DEF Kept
<1>4. ASSUME NEW k \in DOMAIN stack
      PROVE  /\ stack[k].kind = "loop" => stack[k].num <= Len(entities)
             /\ stack[k].kind \in {"call", "deactivate"} => stack[k].entity \in Kept
  <2> DEFINE f == stack[k]
  <2>1. f \in Frame /\ Placed(f, k, stack[1], entities, removedEntities, status, isStarted)
    BY <1>1
  <2>2. f.kind = "loop" => f.num <= Len(entities)
    BY <2>1 DEF Placed
  <2>3. ASSUME f.kind = "call"
        PROVE  f.entity \in Kept
    <3>1. f.entity \in Entity /\ f.method \in Phase \cup World
      BY <2>1, <2>3, FrameKinds DEF CallFrame
    <3>2. CASE f.method \in Phase
      <4>1. PhaseCall(f)
        BY <2>3, <3>2 DEF PhaseCall
      <4>2. Contains(entities, f.entity) \/ Contains(removedEntities, f.entity)
        BY <2>1, <4>1 DEF Placed
      <4>3. QED
        BY <1>3, <3>1, <4>2
    <3>3. CASE f.method \in World
      <4>1. WorldCall(f)
        BY <2>3, <3>3 DEF WorldCall
      <4>2. status[f.entity] = "active"
        BY <2>1, <4>1 DEF Placed
      <4>3. QED
        BY <1>2, <1>3, <3>1, <4>2
    <3>4. QED
      BY <3>1, <3>2, <3>3
  <2>4. ASSUME f.kind = "deactivate"
        PROVE  f.entity \in Kept
    <3>1. f.entity \in Entity
      BY <2>1, <2>4, FrameKinds
    <3>2. status[f.entity] = "deactivating"
      BY <2>1, <2>4 DEF Placed, Deactivates
    <3>3. QED
      BY <1>2, <1>3, <3>1, <3>2
  <2>5. QED
    BY <2>2, <2>3, <2>4
<1>5. \A c \in Range(stack) : \E k \in DOMAIN stack : c = stack[k]
  BY DEF Range
<1>6. LoopsInBounds
  BY <1>4, <1>5 DEF LoopsInBounds
<1>7. InUseIsAlive
  BY <1>4, <1>5 DEF InUseIsAlive
<1>8. QED
  BY <1>6, <1>7 DEF LoopsAreSafe

LEMMA InvFrames == IInv => WholeFrames
<1> SUFFICES ASSUME IInv, Top("loop"), Last(stack).method = "OnRender", Last(stack).i > Last(stack).num,
                    NEW e \in Entity
             PROVE  /\ e \notin Last(stack).live => called[e] = 0
                    /\ e \in Last(stack).live /\ status[e] = "active" => called[e] = 4 * NumProps
  BY DEF WholeFrames
<1> DEFINE f == Last(stack)
<1>1. stack # <<>> /\ f.kind = "loop"
  BY DEF Top
<1>2. OfFrame(f)
  BY <1>1 DEF OfFrame, Phase
<1>3. ArraysInv /\ StackInv /\ CalledInv
  BY DEF IInv
<1>4. Len(stack) = 1 /\ isInOnFrame /\ f = stack[Len(stack)] /\ f \in Frame
  BY <1>1, <1>2, <1>3, TopFrame
<1>5. f = stack[1] /\ f \in LoopFrame
  BY <1>1, <1>4, FrameKinds
<1>6. f.num \in Nat /\ f.i \in Nat
  BY <1>5, Constants DEF LoopFrame
<1>7. Counted(stack, entities, newEntities, called, status, sleeping)
  BY <1>3, <1>4 DEF CalledInv
<1>8. e \notin f.live => called[e] = 0
  BY <1>5, <1>7 DEF Counted
<1>9. ASSUME e \in f.live, status[e] = "active"
      PROVE  called[e] = 4 * NumProps
  <2>1. ~Contains(newEntities, e) /\ f.num = Len(entities)
    BY <1>5, <1>7, <1>9 DEF Counted
  <2>2. Contains(entities, e)
    BY <1>3, <1>9, <2>1 DEF ArraysInv, Arrays
  <2>3. DOMAIN entities = 1 .. Len(entities) /\ Len(entities) \in Nat
    BY <1>3 DEF ArraysInv, Arrays
  <2>4. PICK k \in DOMAIN entities : entities[k] = e
    BY <2>2, <2>3 DEF Contains
  <2>5. ~(k >= f.i)
    BY <1>6, <2>1, <2>3
  <2>6. Had(stack, k) = NumProps
    BY <1>4, <1>5, <2>5 DEF Had
  <2>7. called[entities[k]] = Base(f.method) + Had(stack, k)
    BY <1>5, <1>7, <1>9, <2>4 DEF Counted
  <2>8. Base(f.method) = 3 * NumProps
    BY DEF Base
  <2>9. 3 * NumProps + NumProps = 4 * NumProps
    BY Constants
  <2>10. QED
    BY <2>4, <2>6, <2>7, <2>8, <2>9
<1>10. QED
  BY <1>8, <1>9

LEMMA InvStarted == IInv => AllStarted
  BY DEF IInv, StartedInv, AllStarted

(* The step that calls a property's method calls it of a live entity.      *)
LEMMA StepAlone ==
    IInv /\ [Next]_vars => [\A e \in Entity : status[e] = "gone" => called'[e] <= called[e]]_vars
<1> SUFFICES ASSUME IInv, [Next]_vars, NEW e \in Entity, status[e] = "gone"
             PROVE  called'[e] <= called[e]
  OBVIOUS
<1>1. called \in [Entity -> 0 .. 4 * NumProps] /\ called[e] \in Nat /\ called[e] <= called[e]
  <2>1. called \in [Entity -> 0 .. 4 * NumProps]
    BY DEF IInv, CalledInv
  <2>2. QED
    BY <2>1, Constants
<1>2. CASE LoopNext
  <2> DEFINE f == Last(stack)
             x == entities[f.i]
  <2>1. f.i \in DOMAIN entities /\ f.method \in Phase \cup World /\ x \in Entity \cup {Null}
    BY <1>2, LoopTop
  <2> DEFINE c == Call(x, f.method)
             skips == f.method \in Phase /\ (x = Null \/ x \in sleeping)
  <2>2. IF skips THEN UNCHANGED called ELSE Count(c)
    BY <1>2 DEF LoopNext
  <2>3. c.entity = x /\ c.method = f.method
    BY DEF Call
  <2>4. called' = called \/ (x # Null /\ called' = [called EXCEPT ![x] = @ + 1])
    <3> HIDE DEF c, x, f
    <3>1. QED
      BY <2>2, <2>3 DEF Count
  <2>5. x # Null => x # e
    <3>1. DOMAIN entities = 1 .. Len(entities)
      BY DEF IInv, ArraysInv, Arrays
    <3>2. Contains(entities, x)
      BY <2>1, <3>1 DEF Contains
    <3>3. x \in Entity => status[x] \in {"active", "deactivating"}
      BY <3>2 DEF IInv, ArraysInv, Arrays
    <3>4. QED
      BY <2>1, <3>3
  <2>6. QED
    BY <1>1, <2>4, <2>5
<1>3. CASE CallNext
  <2> DEFINE c == [Last(stack) EXCEPT !.i = @ + 1]
  <2>1. \/ UNCHANGED called
        \/ (c.method \in Phase => status[c.entity] \in {"active", "deactivating"}) /\ Count(c)
    BY <1>3 DEF CallNext
  <2> HIDE DEF c
  <2>2. \/ called' = called
        \/ c.entity # e /\ called' = [called EXCEPT ![c.entity] = @ + 1]
    BY <2>1 DEF Count
  <2>3. QED
    BY <1>1, <2>2
<1>4. CASE OnFrame
  <2>1. called'[e] = 0
    BY <1>4 DEF OnFrame
  <2>2. QED
    BY <1>1, <2>1
<1>5. CASE Activated
  <2>1. Count(Call(Last(stack).entity, "OnStart")) \/ UNCHANGED called
    BY <1>5 DEF Activated
  <2>2. called' = called
    BY <2>1 DEF Count, Call, Phase
  <2>3. QED
    BY <1>1, <2>2
<1>6. CASE \/ Application \/ Load \/ Start \/ Save \/ CleanupWorld \/ Deactivated
           \/ RemoveAllNext \/ RemoveAllEnd \/ PhaseEnd \/ WorldEnd \/ FrameEnd \/ UNCHANGED vars
  <2>1. Application => called' = called
    BY DEF Application, AttachNew, LoadLevel, CreateSleepingEntities, AttachEntity, RemoveEntity, history
  <2>2. called' = called
    BY <1>6, <2>1 DEF Load, Start, Save, CleanupWorld, Deactivated, RemoveAllNext, RemoveAllEnd,
                      PhaseEnd, WorldEnd, FrameEnd, history, vars
  <2>3. QED
    BY <1>1, <2>2
<1>7. QED
  BY <1>2, <1>3, <1>4, <1>5, <1>6 DEF Next, MainLoop, Return

-----------------------------------------------------------------------------
(* Every variable has its type; the properties of an entity are called     *)
(* once at most by each of a frame's four phases, and started once.        *)
THEOREM TypeCorrect == Spec => []TypeOK
  BY InitInv, StepInv, InvType, PTL DEF Spec

(* The registry finds exactly the entities in the array, and the entities  *)
(* that were activated are those in the array and those that wait for the  *)
(* end of the frame (entitymanager.cc:149).                                *)
THEOREM RegistryStaysTrue == Spec => []RegistryAgrees
  BY InitInv, StepInv, InvRegistry, PTL DEF Spec

(* No loop indexes beyond the array, and no entity is destroyed while one  *)
(* of its methods runs, whatever the methods attach and remove.            *)
THEOREM LoopsStaySafe == Spec => []LoopsAreSafe
  BY InitInv, StepInv, InvLoops, PTL DEF Spec

(* A frame calls all four phases of each live entity that was there when   *)
(* it began and was not removed, and none of any other.                    *)
THEOREM FramesAreWhole == Spec => []WholeFrames
  BY InitInv, StepInv, InvFrames, PTL DEF Spec

(* In a started world every entity in it has been started, or was attached *)
(* while Start was looping over the others.                                *)
THEOREM AllGetStarted == Spec => []AllStarted
  BY InitInv, StepInv, InvStarted, PTL DEF Spec

(* No property's method of a removed entity is called any more in a frame. *)
THEOREM RemovedStaysAlone == Spec => RemovedIsLeftAlone
  BY InitInv, StepInv, StepAlone, PTL DEF Spec, RemovedIsLeftAlone
=============================================================================
