------------------------------- MODULE Event -------------------------------
(***************************************************************************)
(* One eventkit Event with its two sub-events, error_event and done_event, *)
(* and the walk that Slots.__call__ makes over a copy of the slots.  User  *)
(* code runs at the top level or inside a listener; a listener may connect *)
(* and disconnect, clear, emit again, end the event or raise, so that an   *)
(* emit is a frame on a call stack and several may be in progress.         *)
(*                                                                         *)
(* A callback that raises a BaseException (KeyboardInterrupt) is left out: *)
(* it would unwind every frame.                                            *)
(***************************************************************************)
EXTENDS Slots, Sequences, FiniteSets

CONSTANTS
    Who,           \* the argument lists of connect and disconnect in use, each a
                   \* function from the channels named to a listener
    RefCounting,   \* TRUE: refcounts free an object and call the weakref callback
                   \* at once; FALSE: the collector runs when it likes (PyPy)
    MaxEmit,       \* bound: emits begun
    MaxDepth       \* bound: emits in progress at a time

Chan == {"value", "error", "done"}

ASSUME WhoAssumption == Who \subseteq UNION {[D -> Listener] : D \in SUBSET Chan}
ASSUME RefCountingAssumption == RefCounting \in BOOLEAN
ASSUME BoundAssumption == MaxEmit \in Nat /\ MaxDepth \in Nat

\* An emit in progress.  "rest" is what is left of the copied slots and "cur"
\* the slot whose listener runs; "raised" marks an error_event emit made by the
\* except clause of the frame below.  "snap" (the copy) and "called" are history.
Frame == [chan : Chan, snap : SUBSET Slot, rest : SUBSET Slot,
          cur : Slot \cup {None}, called : SUBSET ConnId, raised : BOOLEAN]

VARIABLES
    slots,      \* the connected slots of each channel
    done,       \* Event._done
    hasDone,    \* the done_event has been created
    subDone,    \* done_event._done
    alive,      \* the objects not collected yet
    stack,      \* the emits in progress, innermost last
    conns,      \* connections made so far
    emits,      \* emits begun so far
    doneCalls   \* history: how often the done slot with this number was called

vars == <<slots, done, hasDone, subDone, alive, stack, conns, emits, doneCalls>>
-----------------------------------------------------------------------------
Top == stack[Len(stack)]
Below == SubSeq(stack, 1, Len(stack) - 1)

\* User code has the control: outside every emit, or inside a listener.
InUserCode == stack # <<>> => Top.cur # None

NewFrame(c, r) ==
    [chan |-> c, snap |-> slots[c], rest |-> slots[c], cur |-> None,
     called |-> {}, raised |-> r]
-----------------------------------------------------------------------------
\* _errors_have_listeners: the length of the error_event, if it was created.
ErrorsHaveListeners_Always == TRUE
ErrorsHaveListeners == slots["error"] # {}

\* The done_event property: created on first use, ended if the event has ended.
CreatedSubDone == IF hasDone THEN subDone ELSE done

Init ==
    /\ slots = [c \in Chan |-> {}]
    /\ done = FALSE
    /\ hasDone = FALSE
    /\ subDone = FALSE
    /\ alive = Obj
    /\ stack = <<>>
    /\ conns = 0
    /\ emits = 0
    /\ doneCalls = [a \in ConnId |-> 0]

\* connect(listener, error, done): "who" names a listener for some channels.
\* Only the value listener can be kept alive; connecting on a sub-event itself
\* is the case where only that channel has a listener.
Connect(who, keep) ==
    /\ InUserCode
    /\ conns < MaxConn
    /\ \A c \in DOMAIN who : who[c].obj \in alive \cup {None}
    /\ slots' = [c \in Chan |->
                    IF c \in DOMAIN who
                    THEN slots[c] \cup
                         {NewSlot(conns + 1, who[c], keep /\ (c = "value" \/ DOMAIN who = {c}))}
                    ELSE slots[c]]
    /\ hasDone' = (hasDone \/ "done" \in DOMAIN who)
    /\ subDone' = IF "done" \in DOMAIN who THEN CreatedSubDone ELSE subDone
    /\ conns' = conns + 1
    /\ UNCHANGED <<done, alive, stack, emits, doneCalls>>

\* disconnect and disconnect_all.  The caller of a method holds its object.
Disconnect(who, every) ==
    /\ InUserCode
    /\ \A c \in DOMAIN who : who[c].obj \in alive \cup {None}
    /\ slots' = [c \in Chan |->
                    IF c \notin DOMAIN who THEN slots[c]
                    ELSE IF every THEN RemoveEvery(slots[c], who[c], alive)
                    ELSE RemoveOne(slots[c], who[c], alive)]
    /\ UNCHANGED <<done, hasDone, subDone, alive, stack, conns, emits, doneCalls>>

DisconnectObj(o) ==
    /\ InUserCode
    /\ o \in alive
    /\ slots' = [c \in Chan |-> RemoveObj(slots[c], o, alive)]
    /\ UNCHANGED <<done, hasDone, subDone, alive, stack, conns, emits, doneCalls>>

Clear_InPlace ==
    /\ InUserCode
    /\ slots' = [slots EXCEPT !["value"] = {}]
    /\ stack' = [i \in DOMAIN stack |-> [stack[i] EXCEPT !.rest = {}]]
    /\ UNCHANGED <<done, hasDone, subDone, alive, conns, emits, doneCalls>>
\* clear() leaves the listeners of the sub-events.
Clear ==
    /\ InUserCode
    /\ slots' = [slots EXCEPT !["value"] = {}]
    /\ UNCHANGED <<done, hasDone, subDone, alive, stack, conns, emits, doneCalls>>

\* emit(), also after the end of the event: the code does not look at _done.
\* On the error channel this is an operator passing on an error of its source.
Emit(c) ==
    /\ InUserCode
    /\ c # "done"
    /\ emits < MaxEmit
    /\ Len(stack) < MaxDepth
    /\ stack' = Append(stack, NewFrame(c, FALSE))
    /\ emits' = emits + 1
    /\ UNCHANGED <<slots, done, hasDone, subDone, alive, conns, doneCalls>>

SetDone_NoCheck ==
    /\ InUserCode
    /\ Len(stack) < MaxDepth
    /\ done' = TRUE
    /\ stack' = IF hasDone THEN Append(stack, NewFrame("done", FALSE)) ELSE stack
    /\ UNCHANGED <<slots, hasDone, subDone, alive, conns, emits, doneCalls>>
\* set_done(): the flag goes up before the done_event emits.
SetDone ==
    /\ InUserCode
    /\ ~done
    /\ Len(stack) < MaxDepth
    /\ done' = TRUE
    /\ stack' = IF hasDone THEN Append(stack, NewFrame("done", FALSE)) ELSE stack
    /\ UNCHANGED <<slots, hasDone, subDone, alive, conns, emits, doneCalls>>
-----------------------------------------------------------------------------
\* The loop of Slots.__call__: the next slot of the copy, skipped when its
\* object has been collected.
Skipped_Never(s) == FALSE
Skipped(s) == Dead(s, alive)

Visit(F, s) ==
    IF Skipped(s) THEN [F EXCEPT !.rest = @ \ {s}]
    ELSE [F EXCEPT !.rest = @ \ {s}, !.cur = s, !.called = @ \cup {s.at}]

NextSlot ==
    /\ stack # <<>>
    /\ Top.cur = None
    /\ \E s \in Top.rest :
          /\ IsEarliest(s, Top.rest)
          /\ stack' = [stack EXCEPT ![Len(stack)] = Visit(@, s)]
          /\ doneCalls' = IF Top.chan = "done" /\ ~Skipped(s)
                          THEN [doneCalls EXCEPT ![s.at] = @ + 1]
                          ELSE doneCalls
    /\ UNCHANGED <<slots, done, hasDone, subDone, alive, conns, emits>>

\* The listener returns.
Return ==
    /\ stack # <<>>
    /\ Top.cur # None
    /\ stack' = [stack EXCEPT ![Len(stack)].cur = None]
    /\ UNCHANGED <<slots, done, hasDone, subDone, alive, conns, emits, doneCalls>>

\* The listener raises: a value listener's error goes to the error_event when
\* that has listeners, else to the log (a sub-event has no error_event).
Raise ==
    /\ stack # <<>>
    /\ Top.cur # None
    /\ IF Top.chan = "value" /\ ErrorsHaveListeners
       THEN /\ Len(stack) < MaxDepth
            /\ stack' = Append(stack, NewFrame("error", TRUE))
       ELSE stack' = [stack EXCEPT ![Len(stack)].cur = None]
    /\ UNCHANGED <<slots, done, hasDone, subDone, alive, conns, emits, doneCalls>>

\* Event.set_done ends the done_event after its emit.
SubDoneAfter_Forgotten(c) == subDone
SubDoneAfter(c) == subDone \/ c = "done"

\* The loop is over: back to the listener that emitted, or from the except
\* clause to the next slot.
EndEmit ==
    /\ stack # <<>>
    /\ Top.cur = None
    /\ Top.rest = {}
    /\ stack' = IF Top.raised
                THEN [Below EXCEPT ![Len(Below)].cur = None]
                ELSE Below
    /\ subDone' = SubDoneAfter(Top.chan)
    /\ UNCHANGED <<slots, done, hasDone, alive, conns, emits, doneCalls>>
-----------------------------------------------------------------------------
\* A strong slot keeps its object, also from the copy of an emit in progress,
\* and so does the call that runs on it.
Held(o) ==
    \/ \E c \in Chan : \E s \in slots[c] : s.obj = o
    \/ \E i \in DOMAIN stack :
          \/ \E s \in stack[i].rest : s.obj = o
          \/ stack[i].cur # None /\ o \in {stack[i].cur.obj, stack[i].cur.ref}

WithoutRef(o) == [c \in Chan |-> RemoveRef(slots[c], o)]

\* The last reference to an object goes.  With reference counts this is a step
\* of user code and _onFinalize runs in it.
Collect(o) ==
    /\ o \in alive
    /\ ~Held(o)
    /\ RefCounting => InUserCode
    /\ alive' = alive \ {o}
    /\ slots' = IF RefCounting THEN WithoutRef(o) ELSE slots
    /\ UNCHANGED <<done, hasDone, subDone, stack, conns, emits, doneCalls>>

\* The weakref callback of a collected object.
OnFinalize(o) ==
    /\ o \in Obj \ alive
    /\ slots' = WithoutRef(o)
    /\ UNCHANGED <<done, hasDone, subDone, alive, stack, conns, emits, doneCalls>>

UserStep ==
    \/ \E who \in Who, keep \in BOOLEAN : Connect(who, keep)
    \/ \E who \in Who, every \in BOOLEAN : Disconnect(who, every)
    \/ \E o \in Obj : DisconnectObj(o)
    \/ Clear
    \/ \E c \in Chan : Emit(c)
    \/ SetDone
    \/ Raise

EmitStep == NextSlot \/ Return \/ EndEmit

GCStep == \E o \in Obj : Collect(o) \/ OnFinalize(o)

Next == UserStep \/ EmitStep \/ GCStep

Spec == Init /\ [][Next]_vars

\* Listeners return and the loop of an emit goes on.
FairSpec == Spec /\ WF_vars(EmitStep)
-----------------------------------------------------------------------------
\* Every variable has its type: the emit loop keeps slots, frames and counters
\* within the values the code can hold.
TypeOK ==
    /\ slots \in [Chan -> SUBSET Slot]
    /\ done \in BOOLEAN
    /\ hasDone \in BOOLEAN
    /\ subDone \in BOOLEAN
    /\ alive \subseteq Obj
    /\ stack \in Seq(Frame)
    /\ conns \in 0 .. MaxConn
    /\ emits \in 0 .. MaxEmit
    /\ doneCalls \in [ConnId -> Nat]

\* "emit calls every slot in connection order": in each emit in progress what
\* was called was connected before everything still to come, although the slots
\* are edited by the listeners meanwhile (Slots.__call__ copies them).
ConnectionOrder ==
    \A i \in DOMAIN stack : \A a \in stack[i].called, s \in stack[i].rest : a < s.at

\* An emit reaches every slot of its copy: what it is past was called, or its
\* object is gone; nothing else was called.  No listener that disconnects,
\* clears, raises or emits again takes the call from another one.
SnapshotDelivered ==
    \A i \in DOMAIN stack :
        /\ \A s \in stack[i].snap \ stack[i].rest :
              s.at \in stack[i].called \/ Dead(s, alive)
        /\ \A a \in stack[i].called : \E s \in stack[i].snap : s.at = a

\* A listener never runs on a collected object (the "obj is None" test of
\* Slots.__call__), also when the collector ran between copy and call.
NoDeadListenerRuns ==
    \A i \in DOMAIN stack : stack[i].cur # None => ~Dead(stack[i].cur, alive)

\* A done listener hears of the end at most once, and never of an event that
\* has not ended: set_done may be called again by any listener, also by a done
\* listener, and the lazily created done_event is made ended when it is late.
DoneOnce ==
    \A a \in ConnId : doneCalls[a] <= 1 /\ (doneCalls[a] = 1 => done)

\* The inductive strengthening of the invariants above: numbers are given once,
\* a copy has only slots that were connected, what is left of it is part of it,
\* and at most one emit of the done_event is in progress, of slots that have
\* not heard of the end yet.
Numbered(S) == \A s \in S : s.at <= conns /\ \A t \in S : s.at = t.at => s = t

DoneFrame(i) == stack[i].chan = "done"

SlotsNumbered == \A c \in Chan : Numbered(slots[c])

FramesNumbered ==
    \A i \in DOMAIN stack :
        Numbered(stack[i].snap) /\ stack[i].rest \subseteq stack[i].snap

OneDoneEmit ==
    /\ \A i \in DOMAIN stack :
          DoneFrame(i) => done /\ \A s \in stack[i].rest : doneCalls[s.at] = 0
    /\ \A i, j \in DOMAIN stack : DoneFrame(i) /\ DoneFrame(j) => i = j

EmitInv ==
    /\ TypeOK
    /\ SlotsNumbered
    /\ FramesNumbered
    /\ ConnectionOrder
    /\ SnapshotDelivered
    /\ NoDeadListenerRuns
    /\ OneDoneEmit
    /\ DoneOnce

\* The error of a failing listener that Slots.__call__ hands to the error_event
\* reaches a listener: "whether emitting on error_event would reach anyone" is
\* what _errors_have_listeners answers before it chooses the log instead.
ErrorIsHeard ==
    \A i \in DOMAIN stack :
        stack[i].raised /\ stack[i].rest = {} => stack[i].called # {}

\* The connection that connect(l) has made, whichever way the slot holds it.
IsConnection(s, l) ==
    /\ s.func = l.func
    /\ IF l.obj = None THEN s.obj = None /\ s.ref = None
                       ELSE l.obj \in {s.obj, s.ref}

\* No plain function is also the function of a bound method.
OwnFunctions ==
    \A k, l \in Listener : k.func = l.func => (k.obj = None <=> l.obj = None)

\* What disconnect leaves of the slots S of a channel: all but the connection of
\* l that was made first, or S itself when l has none.
LessTheEarliest(S, l) ==
    LET mine == {s \in S : IsConnection(s, l)}
    IN  IF mine = {} THEN {S}
        ELSE {S \ {s} : s \in {r \in mine : \A t \in mine : r.at <= t.at}}

\* A plain function that is also the function of a method connected weakly: the
\* comparison of Slots.remove takes the slot of the method for its own.
Confused(S, l) == l.obj = None /\ \E s \in S : s.ref # None /\ s.func = l.func

\* "Remove the earliest connection of the listener", "every connection",
\* "everything connected on an object": disconnect takes exactly one connection
\* of the named listener, the earliest, and none of another one; it does nothing
\* for a listener that is not connected; disconnect_all takes all connections of
\* the listener, and disconnect_obj those of the object on every channel, and no
\* others.  A function that the code confuses with a method is left out.
DisconnectIsExact ==
    [][/\ \A who \in Who, every \in BOOLEAN : Disconnect(who, every) =>
             \A c \in Chan :
                IF c \in DOMAIN who
                THEN \/ Confused(slots[c], who[c])
                     \/ every /\ slots'[c] = {s \in slots[c] : ~IsConnection(s, who[c])}
                     \/ ~every /\ slots'[c] \in LessTheEarliest(slots[c], who[c])
                ELSE slots'[c] = slots[c]
       /\ \A o \in Obj : DisconnectObj(o) =>
             \A c \in Chan : slots'[c] = {s \in slots[c] : o \notin {s.obj, s.ref}}]_vars

\* While listeners keep returning, an ended event tells the done_event's
\* listeners and ends the done_event.
EndIsTold == (done /\ hasDone) ~> subDone

\* What a slot calls.
ListenerOf(s) ==
    [obj |-> IF s.ref # None THEN s.ref ELSE s.obj, func |-> s.func]

\* The subscriptions that count: those whose object has not been collected.
Live(S, l, objs) == {s \in S : IsConnection(s, l) /\ ~Dead(s, objs)}
Subscribed(S, objs) == [l \in Listener |-> Cardinality(Live(S, l, objs))]
Owed(F, objs) ==
    [chan |-> F.chan,
     owed |-> Subscribed(F.rest, objs),
     busy |-> IF F.cur = None THEN None ELSE ListenerOf(F.cur)]

Subs == [c \in Chan |-> Subscribed(slots[c], alive)]
Emitting == [i \in DOMAIN stack |-> Owed(stack[i], alive)]

\* The list of slots with its weak references implements the bag of
\* subscribers, and the walk over the copy pays each of them once.
B == INSTANCE Broadcast WITH subs <- Subs, emitting <- Emitting, ended <- done

ImplementsBroadcast == B!BSpec
=============================================================================
