----------------------------- MODULE ObjectTree -----------------------------
(***************************************************************************)
(* Nebula's object hierarchy: nRoot objects with their parents and         *)
(* children, counted references (AddRef, Release), safe pointers (nRef)    *)
(* that the object invalidates when it goes, and the kernel server's       *)
(* current object and its stack.                                           *)
(*                                                                         *)
(* Releasing the last reference runs the destructors: first that of the    *)
(* object's own class, which is application code, then ~nRoot, which       *)
(* destroys the children, whoever still counts on them, and takes the      *)
(* object out of its parent's list, and last ~nReferenced.  `stack' holds  *)
(* the destructors under way.                                              *)
(*                                                                         *)
(* Paths are abstracted to the object they lead to.  New on the path of an *)
(* object that exists returns it and changes nothing.                      *)
(*                                                                         *)
(* Application code, a destructor included, may use any object that exists,*)
(* even one that is being destroyed, under these rules.  It uses no plain  *)
(* pointer to what has been destroyed.  It adds and releases no reference  *)
(* of an object that is being destroyed (~nRoot asserts that the count is  *)
(* 0), and gives it no new parent.  It releases no object below which a    *)
(* destructor is under way, and puts none below one whose destructor       *)
(* started later: the loop of ~nRoot would find a child whose count is 0,  *)
(* and fail the assertion of Release.                                      *)
(***************************************************************************)
EXTENDS Naturals, Sequences, FiniteSets, SequencesExt

CONSTANTS
    Object,    \* bound: the objects there will ever be
    Root,      \* the kernel server's root object
    Ref,       \* the nRef objects
    Null,      \* the null pointer
    MaxClaims, \* bound: references the application holds to one object
    MaxCwds    \* bound: depth of cwdStack

ASSUME ObjectTreeAssumption ==
    /\ IsFiniteSet(Object) /\ Root \in Object /\ Null \notin Object
    /\ MaxClaims \in Nat \ {0} /\ MaxCwds \in Nat

VARIABLES
    status,    \* fresh, alive, dying (in its destructor), freed
    parent,
    children,  \* childList
    refCount,
    claims,    \* history: the references the application (for the root, the kernel) holds
    target,    \* targetObject of each nRef
    cwd, cwdStack,
    stack      \* the destructors under way, innermost last

vars == <<status, parent, children, refCount, claims, target, cwd, cwdStack, stack>>

tree == <<parent, children>>
counts == <<refCount, claims>>
cwds == <<cwd, cwdStack>>

Exists(o) == o # Null /\ status[o] \in {"alive", "dying"}

(* The two parts of a destructor: the class's own, and ~nRoot.             *)
Derived(o)  == [object |-> o, part |-> "derived"]
Children(o) == [object |-> o, part |-> "children"]
Top(part) == stack # <<>> /\ Last(stack).part = part
It == Last(stack).object
Below == Front(stack)

(* Application code runs: the main loop, or the destructor of a class.     *)
AppRuns ==
    /\ status[Root] # "freed"
    /\ stack # <<>> => Last(stack).part = "derived"

Init ==
    /\ status = [o \in Object |-> IF o = Root THEN "alive" ELSE "fresh"]
    /\ parent = [o \in Object |-> Null]
    /\ children = [o \in Object |-> <<>>]
    /\ refCount = [o \in Object |-> IF o = Root THEN 1 ELSE 0]
    /\ claims = refCount
    /\ target = [r \in Ref |-> Null]
    /\ cwd = Root
    /\ cwdStack = <<>>
    /\ stack = <<>>

(* The objects above o, and o: the least set with o and its parents.       *)
Closed(S, par) == \A x \in S : par[x] # Null => par[x] \in S
AboveIn(o, par) == {x \in Object : \A S \in SUBSET Object : o \in S /\ Closed(S, par) => x \in S}
Above(o) == AboveIn(o, parent)

(* No destructor is under way at o or below it.                            *)
Quiet(o) == \A k \in DOMAIN stack : o \notin Above(stack[k].object)

-----------------------------------------------------------------------------
(* Creating.                                                               *)

(* NewUnnamedObject: the creator gets the first reference.                 *)
NewUnnamedObject(o) ==
    /\ AppRuns
    /\ status[o] = "fresh"
    /\ status' = [status EXCEPT ![o] = "alive"]
    /\ refCount' = [refCount EXCEPT ![o] = 1]
    /\ claims' = [claims EXCEPT ![o] = 1]
    /\ UNCHANGED <<tree, target, cwds, stack>>

(* CheckCreatePath, where all components of the path but the last exist.   *)
New(p, o) ==
    /\ AppRuns
    /\ Exists(p) /\ status[o] = "fresh"
    /\ status' = [status EXCEPT ![o] = "alive"]
    /\ refCount' = [refCount EXCEPT ![o] = 1]
    /\ claims' = [claims EXCEPT ![o] = 1]
    /\ parent' = [parent EXCEPT ![o] = p]
    /\ children' = [children EXCEPT ![p] = Append(@, o)]
    /\ UNCHANGED <<target, cwds, stack>>

(* CheckCreatePath that fills up a missing component: nobody holds the     *)
(* reference to d.                                                         *)
NewPath(p, d, o) ==
    /\ AppRuns
    /\ Exists(p) /\ status[d] = "fresh" /\ status[o] = "fresh" /\ d # o
    /\ status' = [status EXCEPT ![d] = "alive", ![o] = "alive"]
    /\ refCount' = [refCount EXCEPT ![d] = 1, ![o] = 1]
    /\ claims' = [claims EXCEPT ![o] = 1]
    /\ parent' = [parent EXCEPT ![d] = p, ![o] = d]
    /\ children' = [children EXCEPT ![p] = Append(@, d), ![d] = <<o>>]
    /\ UNCHANGED <<target, cwds, stack>>

AddRef(o) ==
    /\ AppRuns
    /\ status[o] = "alive" /\ claims[o] < MaxClaims
    /\ refCount' = [refCount EXCEPT ![o] = @ + 1]
    /\ claims' = [claims EXCEPT ![o] = @ + 1]
    /\ UNCHANGED <<status, tree, target, cwds, stack>>

-----------------------------------------------------------------------------
(* The tree.                                                               *)

Position(o) == CHOOSE i \in DOMAIN children[parent[o]] : children[parent[o]][i] = o

Without(o) ==
    IF parent[o] = Null
    THEN children
    ELSE [children EXCEPT ![parent[o]] = RemoveAt(@, Position(o))]

(* Remove, which leaves the object without a parent.                       *)
Unlink(o) ==
    /\ AppRuns
    /\ Exists(o) /\ parent[o] # Null
    /\ children' = Without(o)
    /\ parent' = [parent EXCEPT ![o] = Null]
    /\ UNCHANGED <<status, counts, target, cwds, stack>>

(* AddTail and AddHead, of an object that is in no list.                   *)
Link(p, o) ==
    /\ AppRuns
    /\ status[o] = "alive" /\ parent[o] = Null /\ o # Root
    /\ Exists(p) /\ o \notin Above(p)
    /\ \A j, k \in DOMAIN stack :
          j < k /\ o \in Above(stack[j].object) => stack[k].object \notin Above(p)
    /\ parent' = [parent EXCEPT ![o] = p]
    /\ \/ children' = [children EXCEPT ![p] = Append(@, o)]
       \/ children' = [children EXCEPT ![p] = <<o>> \o @]
    /\ UNCHANGED <<status, counts, target, cwds, stack>>

(* nRef::set and invalidate.                                               *)
SetRef(r, o) ==
    /\ AppRuns
    /\ o = Null \/ Exists(o)
    /\ target[r] # o
    /\ target' = [target EXCEPT ![r] = o]
    /\ UNCHANGED <<status, tree, counts, cwds, stack>>

(* Any object, also one whose ~nRoot has looked already.                   *)
SetCwd(o) ==
    /\ AppRuns
    /\ Exists(o)
    /\ cwd # o
    /\ cwd' = o
    /\ UNCHANGED <<status, tree, counts, target, cwdStack, stack>>

PushCwd(o) ==
    /\ AppRuns
    /\ Exists(o) /\ Len(cwdStack) < MaxCwds
    /\ cwdStack' = Append(cwdStack, cwd)
    /\ cwd' = o
    /\ UNCHANGED <<status, tree, counts, target, stack>>

PopCwd ==
    /\ AppRuns
    /\ cwdStack # <<>>
    /\ cwd' = Last(cwdStack)
    /\ cwdStack' = Front(cwdStack)
    /\ UNCHANGED <<status, tree, counts, target, stack>>

-----------------------------------------------------------------------------
(* Destroying.                                                             *)

(* Seeded fault: the last reference but one destroys the object.           *)
ReleaseEarly(o) ==
    /\ AppRuns /\ (o = Root => stack = <<>>)
    /\ status[o] = "alive" /\ claims[o] > 0
    /\ Quiet(o)
    /\ refCount' = [refCount EXCEPT ![o] = IF @ <= 2 THEN 0 ELSE @ - 1]
    /\ claims' = [claims EXCEPT ![o] = @ - 1]
    /\ IF refCount[o] <= 2
       THEN status' = [status EXCEPT ![o] = "dying"] /\ stack' = Append(stack, Derived(o))
       ELSE UNCHANGED <<status, stack>>
    /\ UNCHANGED <<tree, target, cwds>>

(* Release by the application; of the root, by the kernel server's         *)
(* destructor, when nothing else runs.                                     *)
Release(o) ==
    /\ AppRuns /\ (o = Root => stack = <<>>)
    /\ status[o] = "alive" /\ claims[o] > 0
    /\ Quiet(o)
    /\ refCount' = [refCount EXCEPT ![o] = @ - 1]
    /\ claims' = [claims EXCEPT ![o] = @ - 1]
    /\ IF refCount[o] = 1
       THEN status' = [status EXCEPT ![o] = "dying"] /\ stack' = Append(stack, Derived(o))
       ELSE UNCHANGED <<status, stack>>
    /\ UNCHANGED <<tree, target, cwds>>

(* Seeded fault: the kernel server keeps the object as the current one.    *)
DerivedEndKeepsCwd ==
    /\ Top("derived")
    /\ stack' = Append(Below, Children(It))
    /\ UNCHANGED <<status, tree, counts, target, cwds>>

(* ~nRoot begins: the object cannot stay the current one.                  *)
DerivedEnd ==
    /\ Top("derived")
    /\ cwd' = IF cwd = It THEN Root ELSE cwd
    /\ stack' = Append(Below, Children(It))
    /\ UNCHANGED <<status, tree, counts, target, cwdStack>>

(* Seeded fault: the first child is deleted instead of released.           *)
DeleteChild ==
    /\ Top("children") /\ children[It] # <<>>
    /\ LET c == Head(children[It])
       IN  /\ status' = [status EXCEPT ![c] = "dying"]
           /\ stack' = Append(stack, Derived(c))
    /\ UNCHANGED <<tree, counts, target, cwds>>

(* The first child is released until its count is 0.                       *)
ReleaseChild ==
    /\ Top("children") /\ children[It] # <<>>
    /\ LET c == Head(children[It])
       IN  /\ refCount' = [refCount EXCEPT ![c] = 0]
           /\ status' = [status EXCEPT ![c] = "dying"]
           /\ stack' = Append(stack, Derived(c))
    /\ UNCHANGED <<tree, claims, target, cwds>>

(* Seeded fault: the safe pointers are not invalidated.                    *)
FreeReferenced ==
    /\ Top("children") /\ children[It] = <<>>
    /\ children' = Without(It)
    /\ parent' = [parent EXCEPT ![It] = Null]
    /\ status' = [status EXCEPT ![It] = "freed"]
    /\ stack' = Below
    /\ UNCHANGED <<target, counts, cwds>>

(* The children are gone: out of the parent's list, and ~nReferenced       *)
(* invalidates every nRef.                                                 *)
Free ==
    /\ Top("children") /\ children[It] = <<>>
    /\ children' = Without(It)
    /\ parent' = [parent EXCEPT ![It] = Null]
    /\ target' = [r \in Ref |-> IF target[r] = It THEN Null ELSE target[r]]
    /\ status' = [status EXCEPT ![It] = "freed"]
    /\ stack' = Below
    /\ UNCHANGED <<counts, cwds>>

-----------------------------------------------------------------------------
Application ==
    \E o \in Object :
        \/ NewUnnamedObject(o) \/ AddRef(o) \/ Unlink(o) \/ Release(o)
        \/ \E p \in Object : New(p, o) \/ Link(p, o) \/ \E d \in Object : NewPath(p, d, o)
        \/ \E r \in Ref : SetRef(r, o)
        \/ SetCwd(o) \/ PushCwd(o)

Destructor == DerivedEnd \/ ReleaseChild \/ Free

Next == Application \/ PopCwd \/ (\E r \in Ref : SetRef(r, Null)) \/ Destructor

Spec == Init /\ [][Next]_vars

-----------------------------------------------------------------------------
(* Properties.                                                             *)

(* The types; an object is referenced as long as it lives.                 *)
TypeOK ==
    /\ status \in [Object -> {"fresh", "alive", "dying", "freed"}]
    /\ parent \in [Object -> Object \cup {Null}]
    /\ children \in [Object -> Seq(Object)]
    /\ refCount \in [Object -> 0 .. MaxClaims + 1]
    /\ \A o \in Object : (refCount[o] > 0) = (status[o] = "alive")
    /\ claims \in [Object -> 0 .. MaxClaims]
    /\ target \in [Ref -> Object \cup {Null}]
    /\ cwd \in Object /\ cwdStack \in Seq(Object) /\ Len(cwdStack) <= MaxCwds
    /\ stack \in Seq([object : Object, part : {"derived", "children"}])

(* Parents and lists of children agree, each child is listed once, and no  *)
(* object outlives its parent: whoever destroys the parent has destroyed   *)
(* all that was below it, also what destructors have added meanwhile.      *)
TreeOK ==
    \A p, o \in Object :
        /\ Contains(children[p], o) <=> parent[o] = p
        /\ IsInjective(children[p])
        /\ parent[o] = p => Exists(p) /\ Exists(o)

(* A safe pointer never outlives its target, although destructors may set  *)
(* it to an object that is being destroyed.                                *)
RefsExist == \A r \in Ref : target[r] # Null => Exists(target[r])

(* No object is destroyed a second time, nor freed, while its destructor   *)
(* is under way.                                                           *)
DyingOnce ==
    \A j, k \in DOMAIN stack :
        /\ status[stack[k].object] = "dying"
        /\ stack[j].object = stack[k].object => j = k

(* Whatever destructors do while the tree above them is being destroyed,   *)
(* no pointer of the tree, no safe pointer and no destructor under way     *)
(* leads to a freed object.                                                *)
NothingDangles == TreeOK /\ RefsExist /\ DyingOnce

(* An object that is destroyed while the application still has references  *)
(* to it is destroyed by its parent's destructor.                          *)
OnlyReleasedDie ==
    [][\A o \in Object :
        status[o] = "alive" /\ status'[o] = "dying" /\ claims'[o] > 0 =>
            parent[o] # Null /\ status[parent[o]] = "dying"]_vars

(* ~nRoot has tested whether o is the current object.                      *)
Past(o) == status[o] = "freed" \/ \E k \in DOMAIN stack : stack[k] = Children(o)

(* "Prevent an invalid cwd in the kernel" (nroot_main.cc): no step of any  *)
(* destructor leaves the kernel with a current object that is gone, or     *)
(* that goes without looking.  Two things can, and nothing else: PopCwd,   *)
(* and application code that makes an object the current one while ~nRoot  *)
(* of this very object, having looked, destroys the children.              *)
CwdStaysValid ==
    [][~Past(cwd) /\ Past(cwd)' =>
          \/ cwd' = Root
          \/ Len(cwdStack') < Len(cwdStack)
          \/ \E k \in 1 .. Len(stack) - 1 : stack[k] = Children(cwd')]_vars

(* What that comment hopes for.  It does not hold, for the two reasons     *)
(* above.                                                                  *)
CwdExists == stack = <<>> => cwd = Root \/ Exists(cwd)
=============================================================================
