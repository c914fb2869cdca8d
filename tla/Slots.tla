------------------------------- MODULE Slots -------------------------------
(***************************************************************************)
(* The slots of an event: who is connected, how a slot holds it, and what  *)
(* the operations of class Slots take away.  A slot carries the number of  *)
(* its connection ("at"); the list of the code is the set of slots in      *)
(* increasing "at", which SlotList.tla checks.                             *)
(***************************************************************************)
EXTENDS Naturals

CONSTANTS
    Obj,        \* objects whose bound methods are connected
    Func,       \* functions
    None,       \* Python's None
    Listener,   \* the callables in use, each split as [obj, func]
    MaxConn     \* bound: connections made

ASSUME ListenerAssumption ==
    Listener \subseteq [obj : Obj \cup {None}, func : Func \cup {None}]
ASSUME MaxConnAssumption == MaxConn \in Nat

ConnId == 1 .. MaxConn

\* A weak slot has no obj, the object is behind its ref.
Slot == [at : ConnId, obj : Obj \cup {None}, ref : Obj \cup {None},
         func : Func \cup {None}]

ASSUME NoneAssumption == None \notin Obj \cup Func \cup Listener \cup Slot

\* The slot of the n-th connection: a bound object is held weakly unless "keep".
NewSlot_WeakMethod(n, l, keep) ==
    [at |-> n, obj |-> None, ref |-> l, func |-> None]
NewSlot(n, l, keep) ==
    IF keep \/ l.obj = None
    THEN [at |-> n, obj |-> l.obj, ref |-> None, func |-> l.func]
    ELSE [at |-> n, obj |-> None, ref |-> l.obj, func |-> l.func]

\* The weakref of the slot answers None.
Dead(s, alive) == s.ref # None /\ s.ref \notin alive

\* "x.obj is obj or x.weakref and x.weakref() is obj": the obj of a weak slot
\* is None, and so is the obj of a plain function.
Matches_ObjectOnly(s, l, alive) == s.obj = l.obj \/ s.ref = l.obj
SameObj(s, o, alive) == s.obj = o \/ (s.ref # None /\ s.ref \in alive /\ s.ref = o)
Matches(s, l, alive) == SameObj(s, l.obj, alive) /\ s.func = l.func

IsEarliest_Latest(s, S) == \A t \in S : s.at >= t.at
IsEarliest(s, S) == \A t \in S : s.at <= t.at

RemoveOne(S, l, alive) ==
    LET M == {s \in S : Matches(s, l, alive)}
    IN  S \ {s \in M : IsEarliest(s, M)}
RemoveEvery(S, l, alive) == {s \in S : ~Matches(s, l, alive)}
RemoveObj(S, o, alive) == {s \in S : ~SameObj(s, o, alive)}
RemoveRef(S, o) == {s \in S : s.ref # o}

Exists(S, l, alive) == \E s \in S : Matches(s, l, alive)
=============================================================================
