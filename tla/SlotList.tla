----------------------------- MODULE SlotList ------------------------------
(***************************************************************************)
(* The list behind class Slots, edited with the slices and filters of the  *)
(* code, in step with an Event: the list of its value listeners and the    *)
(* set slots["value"] of Event.tla say the same at all times.              *)
(***************************************************************************)
EXTENDS Event, SequencesExt, Filter

VARIABLE list    \* Slots.slots of the event

\* remove: the first index that matches, cut out with two slices.
Cut_SwapsLast(i) == SubSeq([list EXCEPT ![i] = list[Len(list)]], 1, Len(list) - 1)
Cut(i) == SubSeq(list, 1, i - 1) \o SubSeq(list, i + 1, Len(list))

RemoveFound(l) ==
    LET hit == {i \in DOMAIN list : Matches(list[i], l, alive)}
    IN  IF hit = {} THEN list ELSE Cut(CHOOSE i \in hit : \A j \in hit : i <= j)

RemoveEach(l) == Keep(list, {s \in ToSet(list) : ~Matches(s, l, alive)})
RemoveObject(o) == Keep(list, {s \in ToSet(list) : ~SameObj(s, o, alive)})
RemoveWeakref(o) == Keep(list, {s \in ToSet(list) : s.ref # o})

Added(who, keep) ==
    IF "value" \in DOMAIN who
    THEN Append(list, NewSlot(conns + 1, who["value"], keep)) ELSE list

Removed(who, every) ==
    IF "value" \notin DOMAIN who THEN list
    ELSE IF every THEN RemoveEach(who["value"]) ELSE RemoveFound(who["value"])

LInit == Init /\ list = <<>>

LNext ==
    \/ \E who \in Who, keep \in BOOLEAN : Connect(who, keep) /\ list' = Added(who, keep)
    \/ \E who \in Who, every \in BOOLEAN : Disconnect(who, every) /\ list' = Removed(who, every)
    \/ \E o \in Obj : DisconnectObj(o) /\ list' = RemoveObject(o)
    \/ \E o \in Obj : Collect(o) /\ list' = IF RefCounting THEN RemoveWeakref(o) ELSE list
    \/ \E o \in Obj : OnFinalize(o) /\ list' = RemoveWeakref(o)
    \/ Clear /\ list' = <<>>
    \/ ((\E c \in Chan : Emit(c)) \/ SetDone \/ Raise \/ EmitStep) /\ UNCHANGED list

LSpec == LInit /\ [][LNext]_<<vars, list>>
-----------------------------------------------------------------------------
\* The list stays in connection order and holds exactly the slots that the set
\* operations of Slots.tla leave: remove takes the earliest match only, the
\* filters take all of theirs, and none takes a bystander or moves one.
ListIsTheSet ==
    /\ \A i, j \in DOMAIN list : i < j => list[i].at < list[j].at
    /\ ToSet(list) = slots["value"]
=============================================================================
