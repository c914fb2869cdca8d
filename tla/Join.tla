-------------------------------- MODULE Join -------------------------------
(***************************************************************************)
(* The joins that sources can be added to: Merge, Concat, Chain, Switch,   *)
(* alone or as the joiner of an Emap, whose source is then their parent    *)
(* and which gives out what they do and ends when they do.                 *)
(* They differ in what they do with a value of a source they follow and    *)
(* with the end of one.  A chain empties the queue of the next source in a *)
(* loop of emits, whose listeners may make any source emit or end and the  *)
(* parent add another one; the other handlers emit last, so that what      *)
(* their listeners do is the same as doing it afterwards.                  *)
(*                                                                         *)
(* Left out: a source added again while it is still followed, errors, and  *)
(* a source whose other listeners end it in the emit that the join hears.  *)
(***************************************************************************)
EXTENDS Naturals, Sequences, SequencesExt, Filter

CONSTANTS
    Source,
    Kinds,        \* the joins to look at, out of AllKinds
    Behaviours,   \* what listeners may do: sets of "feed" (use any event)
    None,
    MaxValues,    \* bound: values of all sources
    MaxAdds       \* bound: sources added

AllKinds == {"merge", "concat", "chain", "switch"}

VARIABLES
    kind,        \* the class of the join
    listeners,   \* what the listeners of a chain do, fixed
    parent,      \* more sources may come: the constructor runs or a parent lives
    over,        \* the sources that have ended
    followed,    \* AddableJoinOp._sources
    wire,        \* what a source is connected to: its value goes "out" or is
                 \* kept for later in a "queue" (Chain, which then does not hear
                 \* of its end)
    q,           \* Chain._qq: what waits of each source
    active,      \* Switch._active_source
    draining,    \* Chain: the source whose queue is being emptied
    emitting,    \* ... and a value of it is being emitted: listeners run
    torn,        \* a queue has grown while it was being emptied: the loop fails
    ended,       \* set_done was called
    added,       \* history: the sources added, and how many values were sent then
    sent,        \* history: who sent the value, and whether it was then the
                 \* earliest added of the sources that lived
    outs         \* history: the numbers of the values that came out

fixed == <<kind, listeners>>
vars == <<fixed, parent, over, followed, wire, q, active, draining, emitting, torn, ended,
          added, sent, outs>>

InUserCode == draining # None => emitting /\ "feed" \in listeners
Without(seq, s) == Keep(seq, Source \ {s})

LivesFirst(s) ==
    \E k \in DOMAIN added :
        added[k].src = s /\ \A i \in 1 .. k - 1 : added[i].src \in over
-----------------------------------------------------------------------------
Init ==
    /\ kind \in Kinds
    /\ listeners \in IF kind = "chain" THEN Behaviours ELSE {{}}
    /\ parent = TRUE
    /\ over = {}
    /\ followed = <<>>
    /\ wire = [s \in Source |-> "none"]
    /\ q = [s \in Source |-> <<>>]
    /\ active = None
    /\ draining = None
    /\ emitting = FALSE
    /\ torn = FALSE
    /\ ended = FALSE
    /\ added = <<>>
    /\ sent = <<>>
    /\ outs = <<>>

\* add_source of a live source, by the constructor or the parent.
NewWire == IF kind = "chain" /\ followed # <<>> THEN "queue" ELSE "out"

AddSource(s) ==
    /\ s \notin over
    /\ s \notin ToSet(followed)
    /\ followed' = Append(followed, s)
    /\ wire' = [wire EXCEPT ![s] = NewWire]
    /\ added' = Append(added, [src |-> s, at |-> Len(sent)])
    /\ UNCHANGED <<fixed, parent, over, q, active, draining, emitting, torn, ended, sent, outs>>

\* Emap.on_source: a value of the parent makes a nested event and adds it; or
\* the constructor of a join takes its next argument.
ParentEmits(s) ==
    /\ InUserCode
    /\ parent
    /\ Len(added) < MaxAdds
    /\ AddSource(s)

\* _end_if_exhausted, with what is left to follow.
Exhausted_Sources(left) == left = <<>>
Exhausted(left) == left = <<>> /\ ~parent

\* set_done, and with it the Emap: _on_joiner_done.
EndsIf(now) == ended' = now

\* The parent ends, or the constructor is through.
ParentDone ==
    /\ InUserCode
    /\ parent
    /\ parent' = FALSE
    /\ EndsIf(followed = <<>>)
    /\ UNCHANGED <<fixed, over, followed, wire, q, active, draining, emitting, torn, added, sent, outs>>
-----------------------------------------------------------------------------
\* Concat lets the first source through, the others all that they hear.
Passes(s) == kind = "concat" => followed[1] = s

\* on_source_s of Switch: the source that was active is dropped.
SwitchTo(s) ==
    /\ active' = s
    /\ followed' = IF active = s THEN followed ELSE Without(followed, active)
    /\ wire' = [t \in Source |-> IF t = active /\ t # s THEN "none" ELSE wire[t]]

\* The callback with which a chain keeps what a later source emits.
Queued(s) == IF wire[s] = "queue" THEN [q EXCEPT ![s] = Append(@, Len(sent) + 1)] ELSE q

SourceEmits(s) ==
    /\ InUserCode
    /\ s \notin over
    /\ Len(sent) < MaxValues
    /\ sent' = Append(sent, [src |-> s, first |-> LivesFirst(s)])
    /\ q' = Queued(s)
    /\ torn' = (torn \/ draining = s)
    /\ outs' = IF wire[s] = "out" /\ Passes(s) THEN Append(outs, Len(sent) + 1) ELSE outs
    /\ IF kind = "switch" /\ wire[s] = "out"
       THEN SwitchTo(s) ELSE UNCHANGED <<active, followed, wire>>
    /\ UNCHANGED <<fixed, parent, over, draining, emitting, ended, added>>

\* Chain.on_source_done goes on with the next source, Switch.on_source_done
\* forgets the last one when it ends.
NextToDrain(left) == IF kind = "chain" /\ left # <<>> THEN left[1] ELSE None
ActiveAfter(left) == IF Exhausted(left) THEN None ELSE active

\* on_source_done: the source is followed no more.
SourceEnds(s) ==
    /\ InUserCode
    /\ s \notin over
    /\ over' = over \cup {s}
    /\ IF wire[s] # "out"
       THEN UNCHANGED <<followed, wire, active, draining, ended>>
       ELSE LET left == Without(followed, s)
            IN  /\ followed' = left
                /\ wire' = [wire EXCEPT ![s] = "none"]
                /\ EndsIf(Exhausted(left))
                /\ active' = ActiveAfter(left)
                /\ draining' = NextToDrain(left)
    /\ UNCHANGED <<fixed, parent, q, emitting, torn, added, sent, outs>>

\* Chain: "for args in q: self.emit(*args)".
Drain ==
    /\ draining # None
    /\ ~torn
    /\ q[draining] # <<>>
    /\ outs' = Append(outs, Head(q[draining]))
    /\ q' = [q EXCEPT ![draining] = Tail(@)]
    /\ emitting' = TRUE
    /\ UNCHANGED <<fixed, parent, over, followed, wire, active, draining, torn, ended, added, sent>>

\* The loop finds that its deque has grown: RuntimeError ends on_source_done.
DrainFails ==
    /\ draining # None
    /\ torn
    /\ draining' = None
    /\ emitting' = FALSE
    /\ UNCHANGED <<fixed, parent, over, followed, wire, q, active, torn, ended, added, sent, outs>>

\* The queue is empty: the source is connected, or skipped if it has ended.
AfterDrain_Connects(s) == "out"
AfterDrain(s) == IF s \in over THEN "none" ELSE "out"

Drained ==
    /\ draining # None
    /\ ~torn
    /\ q[draining] = <<>>
    /\ wire' = [wire EXCEPT ![draining] = AfterDrain(draining)]
    /\ IF AfterDrain(draining) = "out"
       THEN draining' = None /\ UNCHANGED <<followed, ended>>
       ELSE /\ followed' = Tail(followed)
            /\ draining' = IF Len(followed) > 1 THEN followed[2] ELSE None
            /\ EndsIf(Exhausted(Tail(followed)))
    /\ emitting' = FALSE
    /\ UNCHANGED <<fixed, parent, over, q, active, torn, added, sent, outs>>

DrainStep == Drain \/ DrainFails \/ Drained

Next ==
    \/ \E s \in Source : ParentEmits(s) \/ SourceEmits(s) \/ SourceEnds(s)
    \/ ParentDone
    \/ DrainStep

Spec == Init /\ [][Next]_vars
FairSpec == Spec /\ WF_vars(DrainStep)
-----------------------------------------------------------------------------
\* The numbers of the values that a source sent after it was added.
Known == {n \in DOMAIN sent : \E k \in DOMAIN added :
                                  added[k].src = sent[n].src /\ added[k].at < n}

\* Before the n-th value its source came out, another one next, and it has not
\* been added again since.
SwitchedAway(n) ==
    \E i \in 2 .. Len(outs) :
        /\ outs[i] < n
        /\ sent[outs[i - 1]].src = sent[n].src /\ sent[outs[i]].src # sent[n].src
        /\ \A k \in DOMAIN added :
              added[k].src = sent[n].src => added[k].at < outs[i] \/ added[k].at >= n

Turn(n) == CHOOSE k \in DOMAIN added : added[k].src = sent[n].src
ItsTurn(n) == \A k \in 1 .. Turn(n) - 1 : added[k].src \in over

InOrder(Before(_, _)) == \A i, j \in DOMAIN outs : i < j => Before(outs[i], outs[j])

\* merge: "every value of every source, as it arrives".
MergeRule == ToSet(outs) = Known /\ InOrder(LAMBDA m, n : m < n)

\* concat: "follows each source until it ends, then the next.  Values a later
\* source emits before its turn are dropped".
ConcatRule ==
    ToSet(outs) = {n \in Known : sent[n].first} /\ InOrder(LAMBDA m, n : m < n)

\* switch: "follows whichever source emitted last; the source switched away from
\* is disconnected".
SwitchRule ==
    ToSet(outs) = {n \in Known : ~SwitchedAway(n)} /\ InOrder(LAMBDA m, n : m < n)

\* chain: "each source whole, in order; values of later sources are queued until
\* their turn", and come out as soon as it is.
ChainRule ==
    /\ InOrder(LAMBDA m, n : Turn(m) < Turn(n) \/ (Turn(m) = Turn(n) /\ m < n))
    /\ draining = None => ToSet(outs) = {n \in Known : ItsTurn(n)}

\* Also while listeners use the sources and the parent; a chain until they make the
\* source emit whose queue is being emptied.
ByTheRule ==
    /\ kind = "merge" => MergeRule
    /\ kind = "concat" => ConcatRule
    /\ kind = "switch" => SwitchRule
    /\ kind = "chain" /\ ~torn => ChainRule

\* "The join ends once no source is left and no parent can add more": at rest
\* when all sources have ended, but for those a switch has dropped, and then it
\* listens to none of them any more.  A chain whose loop has failed is left out.
EndsRight ==
    draining = None /\ ~torn =>
        /\ ended <=> ~parent /\ \A k \in DOMAIN added :
                         added[k].src \in over \/ (kind = "switch" /\ wire[added[k].src] = "none")
        /\ ended => \A s \in Source : wire[s] = "none"

\* Once the parent and all sources have ended the join ends.
EndsToo == (~parent /\ \A k \in DOMAIN added : added[k].src \in over) ~> ended

\* ... unless a listener has made the loop of a chain fail.
EndsTooUntorn == []~torn => EndsToo
=============================================================================
