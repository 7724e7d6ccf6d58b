------------------------------ MODULE Signals ------------------------------
(***************************************************************************)
(* Nebula's signal system: an emitter keeps the bindings of a signal in    *)
(* the order of their priorities and invokes them one after the other when *)
(* the signal is emitted; the signal server keeps signals that have been   *)
(* posted for a later time.  The signals of an emitter do not share state, *)
(* so each emitter has one here.                                           *)
(*                                                                         *)
(* There is one thread, but every binding invokes a command of the         *)
(* application, which may bind and unbind, emit and post signals and       *)
(* delete objects: `stack' holds the loops that are under way and the      *)
(* commands they invoked.  When the code touches a deleted binding, a null *)
(* pointer, or loops for ever, `fault' says so and nothing moves again.    *)
(***************************************************************************)
EXTENDS Naturals, Sequences, FiniteSets, SequencesExt, Sublists

CONSTANTS
    Object,      \* emitters and receivers
    Binding,     \* the bindings that the application may create
    Emitter, Receiver, Priority,   \* of each binding
    Native,      \* the emitters whose signal is an nSignalNative
    None,        \* the null pointer
    Dangling,    \* a pointer to a binding that has been deleted
    PoolSize,    \* N_SIGNALSERVER_MAX_SIGNALS
    Delays,      \* relative times of posted signals
    MaxTime,     \* bound: the frame time
    MaxPosts,    \* bound: signals posted
    MaxDepth     \* bound: nested loops and commands

ASSUME SignalsAssumption ==
    /\ Emitter \in [Binding -> Object] /\ Receiver \in [Binding -> Object]
    /\ Priority \in [Binding -> Nat]
    /\ Native \subseteq Object
    /\ None \notin Binding \cup {Dangling} /\ Dangling \notin Binding
    /\ PoolSize \in Nat /\ Delays \subseteq Nat
    /\ MaxTime \in Nat /\ MaxPosts \in Nat /\ MaxDepth \in Nat

VARIABLES
    alive,     \* the objects that exist
    hasSets,   \* the emitters that have allocated their bindingSets
    bound,     \* the bindings of each emitter, as the list holds them
    now,       \* nTimeServer's frame time
    posted,    \* postedSignals; `n' numbers the posted signals
    free,      \* length of freeSignals
    posts,     \* the number of signals posted so far
    stack,     \* loops and commands under way, innermost last
    done,      \* history: the posted signals that have been taken up
    fault

lists  == <<alive, hasSets, bound>>
server == <<now, posted, free, posts, done>>
vars   == <<lists, server, stack, fault>>

(* A loop of Dispatch at binding `cur', which has been invoked or not;     *)
(* `va': nSignalNative::Dispatch with a va_list.  History: the bindings    *)
(* invoked, and those bound to a living receiver since the loop began.     *)
Emission(e, va) ==
    [kind |-> "emit", at |-> e, va |-> va, invoked |-> FALSE, calls |-> <<>>,
     cur |-> IF bound[e] = <<>> THEN None ELSE Head(bound[e]),
     stayed |-> {b \in Range(bound[e]) : Receiver[b] \in alive}]

Command == [kind |-> "command"]

(* Trigger(t), executing posted signal number `run', or none.              *)
Triggering == [kind |-> "trigger", t |-> now, run |-> 0]

Init ==
    /\ alive = Object
    /\ hasSets = {}
    /\ bound = [e \in Object |-> <<>>]
    /\ now = 0 /\ posted = <<>> /\ free = PoolSize /\ posts = 0 /\ done = <<>>
    /\ stack = <<>>
    /\ fault = "none"

-----------------------------------------------------------------------------
(* Application code runs: a command, or the main loop.                     *)
AppRuns == fault = "none" /\ (stack # <<>> => Last(stack).kind = "command")

Running(kind) == fault = "none" /\ stack # <<>> /\ Last(stack).kind = kind
Top   == Last(stack)
Below == Front(stack)

Bound(b)   == b \in Range(bound[Emitter[b]])
IsValid(b) == Receiver[b] \in alive

(* Seeded fault: behind the bindings of the same priority.                 *)
InsertBehind(s, b) ==
    InsertBefore(s, {i \in DOMAIN s : Priority[s[i]] > Priority[b]}, b)

(* AddBinding: in front of the first binding that is not more urgent.      *)
Insert(s, b) ==
    InsertBefore(s, {i \in DOMAIN s : Priority[s[i]] >= Priority[b]}, b)

BindSignal(b) ==
    /\ AppRuns
    /\ Emitter[b] \in alive /\ Receiver[b] \in alive /\ ~Bound(b)
    /\ bound' = [bound EXCEPT ![Emitter[b]] = Insert(@, b)]
    /\ hasSets' = hasSets \cup {Emitter[b]}
    /\ UNCHANGED <<alive, server, stack, fault>>

(* The list without the deleted bindings, and the loops that looked at one.*)
Without(S) == [e \in Object |-> LeaveOut(bound[e], S)]
Passed(frames, S, gone) ==
    [k \in DOMAIN frames |->
        IF frames[k].kind = "emit"
        THEN [frames[k] EXCEPT !.cur = IF @ \in S THEN Dangling ELSE @,
                               !.stayed = {b \in @ \ S : Receiver[b] \notin gone}]
        ELSE frames[k]]

Delete(S) ==
    /\ bound' = Without(S)
    /\ stack' = Passed(stack, S, {})

(* UnbindSignal for an object and a command, UnbindTargetObject for a      *)
(* signal and an object.  RemoveBinding compares the receiver of each      *)
(* binding, through an nRef that may be null.  Each binding of the model   *)
(* has a command of its own.                                               *)
UnbindSignal(e, S) ==
    /\ AppRuns /\ e \in alive
    /\ hasSets' = hasSets \cup {e}
    /\ \/ /\ \A b \in Range(bound[e]) : IsValid(b)
          /\ Delete(S)
          /\ UNCHANGED fault
       \/ /\ \E b \in Range(bound[e]) : ~IsValid(b)
          /\ fault' = "nullRef"
          /\ UNCHANGED <<bound, stack>>
    /\ UNCHANGED <<alive, server>>

UnbindCommand(b)         == Bound(b) /\ UnbindSignal(Emitter[b], {b})
UnbindTargetObject(e, o) == UnbindSignal(e, {b \in Range(bound[e]) : Receiver[b] = o})

(* The same for all signals of an emitter that may have no binding sets.   *)
UnbindTargetEverywhere(e, o) ==
    IF e \in hasSets
    THEN UnbindTargetObject(e, o)
    ELSE /\ AppRuns /\ e \in alive
         /\ fault' = "nullSets"
         /\ UNCHANGED <<lists, server, stack>>

(* UnbindSignal for a pointer to a binding: HasBinding steps from the head *)
(* of the list to the successor of that binding, again and again.  It does *)
(* not find the last of several bindings.                                  *)
UnbindBinding(b) ==
    /\ AppRuns /\ Bound(b)
    /\ LET s == bound[Emitter[b]]
       IN  \/ /\ Head(s) = b
              /\ Delete({b})
              /\ UNCHANGED fault
           \/ /\ Head(s) # b /\ Last(s) # b
              /\ fault' = "hang"
              /\ UNCHANGED <<bound, stack>>
    /\ UNCHANGED <<alive, hasSets, server>>

UnbindAllSignals(e) ==
    /\ AppRuns /\ e \in alive
    /\ Delete(Range(bound[e]))
    /\ hasSets' = hasSets \ {e}
    /\ UNCHANGED <<alive, server, fault>>

(* Release of the last reference: ~nSignalEmitter unbinds all signals, and *)
(* every nRef to the object becomes null.                                  *)
Release(o) ==
    /\ AppRuns /\ o \in alive
    /\ alive' = alive \ {o}
    /\ hasSets' = hasSets \ {o}
    /\ bound' = Without(Range(bound[o]))
    /\ stack' = Passed(stack, Range(bound[o]), {o})
    /\ UNCHANGED <<server, fault>>

-----------------------------------------------------------------------------
(* Emission, as nSignalNative does it for a va_list, or as from a script.  *)
EmitSignal(e, va) ==
    /\ AppRuns /\ e \in alive
    /\ va => e \in Native
    /\ Len(stack) + 1 < MaxDepth
    /\ stack' = Append(stack, Emission(e, va))
    /\ hasSets' = hasSets \cup {e}
    /\ UNCHANGED <<alive, bound, server, fault>>

(* GetSucc of a binding in the list.                                       *)
Succ(b) ==
    LET s == bound[Emitter[b]]
        i == Min({j \in DOMAIN s : s[j] = b})
    IN  IF i = Len(s) THEN None ELSE s[i + 1]

Invoke ==
    /\ Running("emit") /\ ~Top.invoked
    /\ Top.cur \in Binding /\ IsValid(Top.cur)
    /\ stack' = Append(Append(Below, [Top EXCEPT !.invoked = TRUE,
                                                 !.calls = Append(@, Top.cur)]), Command)
    /\ UNCHANGED <<lists, server, fault>>

(* Seeded fault: an invalid binding ends the emission.                     *)
DiscardAndStop ==
    /\ Running("emit") /\ ~Top.invoked
    /\ Top.cur \in Binding /\ ~IsValid(Top.cur)
    /\ bound' = Without({Top.cur})
    /\ stack' = Append(Passed(Below, {Top.cur}, {}), [Top EXCEPT !.cur = None])
    /\ UNCHANGED <<alive, hasSets, server, fault>>

(* A binding whose receiver is gone is deleted; the va_list loop of        *)
(* nSignalNative then stays where it is.                                   *)
Discard ==
    /\ Running("emit") /\ ~Top.invoked
    /\ Top.cur \in Binding /\ ~IsValid(Top.cur)
    /\ bound' = Without({Top.cur})
    /\ stack' = Append(Passed(Below, {Top.cur}, {}),
                       [Top EXCEPT !.cur = IF Top.va THEN Dangling ELSE Succ(@)])
    /\ UNCHANGED <<alive, hasSets, server, fault>>

CommandReturn ==
    /\ Running("command")
    /\ stack' = Below
    /\ UNCHANGED <<lists, server, fault>>

(* The successor is read after the command has returned.                  *)
EmitSucc ==
    /\ Running("emit") /\ Top.invoked /\ Top.cur # Dangling
    /\ stack' = Append(Below, [Top EXCEPT !.invoked = FALSE, !.cur = Succ(@)])
    /\ UNCHANGED <<lists, server, fault>>

(* The binding is no longer there.                                         *)
EmitLost ==
    /\ Running("emit") /\ Top.cur = Dangling
    /\ fault' = "deletedBinding"
    /\ UNCHANGED <<lists, server, stack>>

EmitEnd ==
    /\ Running("emit") /\ Top.cur = None
    /\ stack' = Below
    /\ UNCHANGED <<lists, server, fault>>

-----------------------------------------------------------------------------
(* The signal server.  Without a free entry PostCmd fails.                 *)
PostSignal(e, d) ==
    /\ AppRuns /\ e \in alive
    /\ free > 0 /\ posts < MaxPosts
    /\ LET p == [n |-> posts + 1, emitter |-> e, t |-> now + d]
       IN  posted' = InsertBefore(posted, {i \in DOMAIN posted : posted[i].t >= p.t}, p)
    /\ free' = free - 1 /\ posts' = posts + 1
    /\ UNCHANGED <<lists, now, done, stack, fault>>

(* The application's main loop calls Trigger with the frame time.          *)
Trigger ==
    /\ fault = "none" /\ stack = <<>>
    /\ stack' = <<Triggering>>
    /\ UNCHANGED <<lists, server, fault>>

Due == posted # <<>> /\ Head(posted).t <= Top.t

(* The signal stays in the list while its commands run.                    *)
TriggerNext ==
    /\ Running("trigger") /\ Top.run = 0 /\ Due
    /\ LET p    == Head(posted)
           loop == Append(Below, [Top EXCEPT !.run = p.n])
           runs == p.emitter \in alive
       IN  /\ stack' = IF runs THEN Append(loop, Emission(p.emitter, FALSE)) ELSE loop
           /\ hasSets' = IF runs THEN hasSets \cup {p.emitter} ELSE hasSets
           /\ done' = Append(done, [n |-> p.n, t |-> p.t])
    /\ UNCHANGED <<alive, bound, now, posted, free, posts, fault>>

(* The list without posted signal number n. *)
Others(n) == Sublist(posted, {i \in DOMAIN posted : posted[i].n # n})

(* Seeded faults: the entry does not become free; the head is released,    *)
(* whichever signal it is.                                                 *)
ReleaseLost ==
    /\ Running("trigger") /\ Top.run # 0
    /\ posted' = Others(Top.run)
    /\ stack' = Append(Below, [Top EXCEPT !.run = 0])
    /\ UNCHANGED <<lists, now, free, posts, done, fault>>

ReleaseHead ==
    /\ Running("trigger") /\ Top.run # 0
    /\ posted' = Tail(posted)
    /\ free' = free + 1
    /\ stack' = Append(Below, [Top EXCEPT !.run = 0])
    /\ UNCHANGED <<lists, now, posts, done, fault>>

TriggerRelease ==
    /\ Running("trigger") /\ Top.run # 0
    /\ posted' = Others(Top.run)
    /\ free' = free + 1
    /\ stack' = Append(Below, [Top EXCEPT !.run = 0])
    /\ UNCHANGED <<lists, now, posts, done, fault>>

TriggerEnd ==
    /\ Running("trigger") /\ Top.run = 0 /\ ~Due
    /\ stack' = Below
    /\ UNCHANGED <<lists, server, fault>>

(* The time server, between two frames.                                    *)
Tick ==
    /\ fault = "none" /\ stack = <<>> /\ now < MaxTime
    /\ now' = now + 1
    /\ UNCHANGED <<lists, posted, free, posts, done, stack, fault>>

Stopped == fault # "none" /\ UNCHANGED vars

(* The other objects emit no signal that anything is bound to.             *)
Emitters == Range(Emitter)

Application ==
    \/ \E b \in Binding : BindSignal(b) \/ UnbindCommand(b) \/ UnbindBinding(b)
    \/ \E e \in Emitters, o \in Object : UnbindTargetObject(e, o) \/ UnbindTargetEverywhere(e, o)
    \/ \E e \in Emitters : UnbindAllSignals(e)
    \/ \E o \in Object : Release(o)
    \/ \E e \in Emitters, va \in BOOLEAN : EmitSignal(e, va)
    \/ \E e \in Emitters, d \in Delays : PostSignal(e, d)
    \/ Trigger \/ Tick \/ CommandReturn

Next ==
    \/ Application
    \/ Invoke \/ Discard \/ EmitSucc \/ EmitLost \/ EmitEnd
    \/ TriggerNext \/ TriggerRelease \/ TriggerEnd
    \/ Stopped

Spec == Init /\ [][Next]_vars

-----------------------------------------------------------------------------
Faults == {"none", "nullRef", "nullSets", "hang", "deletedBinding"}

EmitFrame ==
    [kind : {"emit"}, at : Object, va : BOOLEAN, invoked : BOOLEAN,
     calls : Seq(Binding), cur : Binding \cup {None, Dangling},
     stayed : SUBSET Binding]

TriggerFrame == [kind : {"trigger"}, t : 0 .. MaxTime, run : 0 .. MaxPosts]

Frame == EmitFrame \cup [kind : {"command"}] \cup TriggerFrame

Posting == [n : 1 .. MaxPosts, emitter : Object, t : Nat]
Taken   == [n : 1 .. MaxPosts, t : Nat]

(* Every variable has its type; the pool of 512 posted signals is never    *)
(* overdrawn and each of its entries is either free or in the list         *)
(* (nsignalserver.cc:49, 66 and 39).                                       *)
TypeOK ==
    /\ alive \subseteq Object /\ hasSets \subseteq alive
    /\ bound \in [Object -> Seq(Binding)]
    /\ now \in 0 .. MaxTime
    /\ posted \in Seq(Posting) /\ done \in Seq(Taken)
    /\ free \in 0 .. PoolSize /\ free + Len(posted) = PoolSize
    /\ posts \in 0 .. MaxPosts
    /\ stack \in Seq(Frame)
    /\ fault \in Faults

Emissions == {stack[k] : k \in {i \in DOMAIN stack : stack[i].kind = "emit"}}

(* An emission invokes bindings in the order of their priorities and none  *)
(* of them twice, whatever the commands bind and unbind meanwhile: a       *)
(* binding that is removed and made again while the loop has passed it     *)
(* does not come up again, because AddBinding puts it in front of those    *)
(* with its priority (nsignalbindingset.h:91).                             *)
CallsInOrder ==
    \A f \in Emissions : \A i, j \in DOMAIN f.calls :
        i < j => /\ Priority[f.calls[i]] <= Priority[f.calls[j]]
                 /\ f.calls[i] # f.calls[j]

(* When the loop of an emission has come to the end of the list it has     *)
(* invoked every binding that stayed bound to a living object since the    *)
(* emission began, in spite of nested emissions of the same signal that    *)
(* delete bindings of receivers that are gone (nsignal.cc:42).             *)
StayedAreCalled ==
    \A f \in Emissions : f.cur = None => f.stayed \subseteq Range(f.calls)

(* The posted signals that Trigger has not taken up.                       *)
Waiting ==
    Sublist(posted, {i \in DOMAIN posted :
                        \A f \in Range(stack) : f.kind = "trigger" => f.run # posted[i].n})

(* Posted signals are taken up in the order of their times, also those     *)
(* that are posted by the commands of others (nsignalserver.cc:57), and    *)
(* none is lost or taken up twice: the one that Trigger releases is the    *)
(* one it has executed, though its commands may have posted others in      *)
(* front of it (nsignalserver.cc:38).                                      *)
PostedInOrderOnce ==
    LET all == Waiting \o done
    IN  /\ \A i, j \in DOMAIN done : i < j => done[i].t <= done[j].t
        /\ Len(all) = posts
        /\ \A i, j \in DOMAIN all : i # j => all[i].n # all[j].n

(* Dispatch shall `call every binding in the list' (nsignalnative.h:167)   *)
(* and so never goes on at a binding that has been deleted, whether by the *)
(* loop itself, because its receiver is gone, or by a command that unbinds *)
(* the binding it was invoked through: GetSucc asserts that the node is    *)
(* still in the list (nnode.h:95).                                         *)
NoDeletedBinding == fault # "deletedBinding"

(* HasBinding `returns true if signal binding found in list'               *)
(* (nsignalbindingset.h:48): in a list of three it does not return.        *)
HasBindingReturns == fault # "hang"

(* A reference is asked for an object only while there is one: "Null       *)
(* pointer access through nRef!" (nref.h:167).  Bindings whose receiver is *)
(* gone stay in the list until the next emission, and meanwhile unbinding  *)
(* anything else compares their null reference.                            *)
NoNullRef == fault # "nullRef"
=============================================================================
