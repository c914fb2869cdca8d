-------------------------------- MODULE Fork -------------------------------
(***************************************************************************)
(* Fork.join gives the targets of a fork to a join of any class: the joins *)
(* of Join, to which more sources can be added, and those of ZipJoin,      *)
(* which take all their sources at once.                                   *)
(***************************************************************************)
EXTENDS Naturals, Sequences

CONSTANTS Source, Kinds, ZipKinds, Layouts, Behaviours, None,
          MaxValues, MaxAdds, MaxTuples, MaxDepth

ASSUME LayoutAssumption == \A l \in Layouts : l \in Seq(Source) /\ l # <<>>
ASSUME BehaviourAssumption == Behaviours \subseteq SUBSET {"feed"}
ASSUME NoneAssumption == None \notin Source
ASSUME BoundAssumption == {MaxValues, MaxAdds, MaxTuples, MaxDepth} \subseteq Nat

VARIABLES
    kind, listeners, over, ended, sent, outs,                             \* of both
    parent, followed, wire, q, active, draining, emitting, torn, added,   \* of Join
    layout, results, numReady, latest, primed, connected, walks, made     \* of ZipJoin

Addable == INSTANCE Join
Zipping == INSTANCE ZipJoin WITH MaxValues <- MaxTuples

ASSUME KindAssumption == Kinds \subseteq Addable!AllKinds /\ ZipKinds \subseteq Zipping!AllZipKinds

addableVars == <<parent, followed, wire, q, active, draining, emitting, torn, added>>
zippingVars == <<layout, results, numReady, latest, primed, connected, walks, made>>
vars == <<kind, listeners, over, ended, sent, outs, addableVars, zippingVars>>
-----------------------------------------------------------------------------
\* A join of one family has nothing of the other.
NoAddable == /\ parent = FALSE /\ emitting = FALSE /\ torn = FALSE
             /\ followed = <<>> /\ wire = <<>> /\ q = <<>> /\ added = <<>>
             /\ active = None /\ draining = None
NoZipping == /\ primed = FALSE /\ numReady = 0 /\ made = 0
             /\ layout = <<>> /\ results = <<>> /\ latest = <<>> /\ walks = <<>>
             /\ connected = {}

Init == \/ Addable!Init /\ NoZipping
        \/ Zipping!Init /\ NoAddable

AddableNext == kind \in Kinds /\ Addable!Next /\ UNCHANGED zippingVars
ZippingNext == kind \in ZipKinds /\ Zipping!Next /\ UNCHANGED addableVars

Next == AddableNext \/ ZippingNext

\* "for args in q: self.emit(*args)" goes on: nothing else runs in its thread.
Drains == kind \in Kinds /\ Addable!DrainStep /\ UNCHANGED zippingVars
Spec == Init /\ [][Next]_vars /\ WF_vars(Drains)
-----------------------------------------------------------------------------
\* Merge, Concat, Chain and Switch let out the values that their rule names, in
\* its order, a chain until a listener makes the source emit whose queue is being
\* emptied (on_source_s, on_source_done); Zip and Ziplatest give every tuple that
\* theirs names, with the values of its positions, also when listeners feed the
\* sources, Ziplatest when those have one position each (_on_source_i).
ByTheRule ==
    /\ kind \in Kinds => Addable!ByTheRule
    /\ kind \in ZipKinds => Zipping!TupleRule

\* The former end exactly when no source and no parent is left, the latter as soon
\* as no further tuple is possible, and both then let go of their sources
\* (_end_if_exhausted, on_source_done).
EndsRight ==
    /\ kind \in Kinds => Addable!EndsRight
    /\ kind \in ZipKinds => Zipping!EndsInTime

\* Once the parent and all sources have ended the former do end, unless a listener
\* has made the loop of a chain fail (on_source_done).
EndsTooUntorn == kind \in Kinds => Addable!EndsTooUntorn
=============================================================================
