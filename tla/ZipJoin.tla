------------------------------ MODULE ZipJoin ------------------------------
(***************************************************************************)
(* The joins that put the values of their sources together by position:    *)
(* Zip (the n-th values) and Ziplatest (the latest ones, from the start or  *)
(* when every position has a value).  A source may stand at several        *)
(* positions; an emit of it then walks over as many callbacks, any of      *)
(* which may emit a tuple, whose listeners may use the sources again.      *)
(*                                                                         *)
(* Left out: errors (passed on), and a source ended by a listener of its   *)
(* own that comes before the join in the same emit.                        *)
(***************************************************************************)
EXTENDS Naturals, Sequences, SequencesExt, FiniteSets, Filter

CONSTANTS
    Source,
    Layouts,      \* the sources by position, sequences
    ZipKinds,     \* out of AllZipKinds
    Behaviours,   \* what listeners may do: sets of "feed" (use the sources)
    MaxValues,    \* bound: values of all sources
    MaxDepth      \* bound: emits of sources in progress

\* Ziplatest with partial=True and partial=False.
AllZipKinds == {"zip", "ziplatest", "ziplatestfull"}

VARIABLES
    kind,        \* the class of the join
    listeners,   \* what its listeners do, fixed
    layout,      \* Zip._inputs: the source of each position, fixed
    over,        \* the sources that have ended
    results,     \* Zip._results: the queue of each position
    numReady,    \* Zip._num_ready
    latest,      \* Ziplatest._values
    primed,      \* Ziplatest._is_primed
    connected,   \* the positions with a callback (_source2cbs)
    walks,       \* emits of sources in progress: the number of the value, the
                 \* positions still to call, and whether a tuple is being emitted
    ended,       \* Event._done
    sent,        \* history: the sources of all values; the first before the join
    made,        \* ... was made, with so many values sent
    outs         \* history: the tuples, with value and position that caused them

fixed == <<kind, listeners, layout, made>>
vars == <<fixed, over, results, numReady, latest, primed, connected, walks, ended, sent, outs>>

NoValue == 0
Position == DOMAIN layout
Top == walks[Len(walks)]
InUserCode == walks # <<>> => Top.busy /\ "feed" \in listeners

\* The numbers of the values of a source, from the join's first on; the latest up to n.
ValuesOf(s) ==
    Keep([i \in DOMAIN sent |-> i], {i \in DOMAIN sent : i > made /\ sent[i] = s})
LatestOf(s, n) ==
    CHOOSE m \in 0 .. n : /\ m = NoValue \/ sent[m] = s
                          /\ \A i \in m + 1 .. n : sent[i] # s
-----------------------------------------------------------------------------
\* _set_sources: with sources that have ended Zip ends at once, Ziplatest when
\* all have; it keeps the last values of all.
Live == {p \in Position : layout[p] \notin over}

Init ==
    /\ kind \in ZipKinds
    /\ listeners \in Behaviours
    /\ layout \in Layouts
    /\ over \in SUBSET Source
    /\ sent \in {<<>>} \cup {<<s>> : s \in Source}
    /\ made = Len(sent)
    /\ ended = IF kind = "zip" THEN Live # Position ELSE Live = {}
    /\ connected = IF ended THEN {} ELSE Live
    /\ results = [p \in Position |-> <<>>]
    /\ numReady = 0
    /\ latest = [p \in Position |-> IF kind = "zip" THEN NoValue ELSE LatestOf(layout[p], made)]
    /\ primed = (kind = "ziplatest")
    /\ walks = <<>>
    /\ outs = <<>>

\* The callbacks of a source are called in the order of their positions.
InTheirOrder(places) == Keep([p \in Position |-> p], places)

SourceEmits(s) ==
    /\ InUserCode
    /\ s \notin over
    /\ Len(sent) < MaxValues
    /\ Len(walks) < MaxDepth
    /\ sent' = Append(sent, s)
    /\ LET called == InTheirOrder({p \in connected : layout[p] = s})
       IN  walks' = IF called = <<>> THEN walks
                    ELSE Append(walks, [n |-> Len(sent) + 1, rest |-> called, busy |-> FALSE])
    /\ UNCHANGED <<fixed, over, results, numReady, latest, primed, connected, ended, outs>>

\* Zip._on_source_i with a count that a tuple sets back to none.
ZipPut_Recounts(p, n) ==
    LET filled == [results EXCEPT ![p] = Append(@, n)]
        ready == results[p] = <<>> /\ numReady + 1 = Len(layout)
    IN  /\ results' = IF ready THEN [i \in Position |-> Tail(filled[i])] ELSE filled
        /\ numReady' = IF ready THEN 0 ELSE IF results[p] = <<>> THEN numReady + 1 ELSE numReady
        /\ outs' = IF ready
                   THEN Append(outs, [n |-> n, at |-> p, tup |-> [i \in Position |-> Head(filled[i])]])
                   ELSE outs
        /\ UNCHANGED <<latest, primed>>

\* Zip._on_source_i
ZipPut(p, n) ==
    LET filled == [results EXCEPT ![p] = Append(@, n)]
        ready == results[p] = <<>> /\ numReady + 1 = Len(layout)
        left == [i \in Position |-> Tail(filled[i])]
    IN  /\ results' = IF ready THEN left ELSE filled
        /\ numReady' = IF ready THEN Cardinality({i \in Position : left[i] # <<>>})
                       ELSE IF results[p] = <<>> THEN numReady + 1 ELSE numReady
        /\ outs' = IF ready
                   THEN Append(outs, [n |-> n, at |-> p, tup |-> [i \in Position |-> Head(filled[i])]])
                   ELSE outs
        /\ UNCHANGED <<latest, primed>>

\* Ziplatest._on_source_i
LatestPut(p, n) ==
    LET now == [latest EXCEPT ![p] = n]
    IN  /\ latest' = now
        /\ primed' = (primed \/ \A i \in Position : now[i] # NoValue)
        /\ outs' = IF primed' THEN Append(outs, [n |-> n, at |-> p, tup |-> now]) ELSE outs
        /\ UNCHANGED <<results, numReady>>

\* The next callback of the emit; a tuple that it emits makes it busy.
Deliver ==
    /\ walks # <<>>
    /\ ~Top.busy
    /\ Top.rest # <<>>
    /\ IF kind = "zip" THEN ZipPut(Head(Top.rest), Top.n) ELSE LatestPut(Head(Top.rest), Top.n)
    /\ walks' = [walks EXCEPT ![Len(walks)] =
                    [Top EXCEPT !.rest = Tail(@), !.busy = (outs' # outs)]]
    /\ UNCHANGED <<fixed, over, connected, ended, sent>>

\* Zip._end_if_exhausted: an ended source has no value left to pair; Ziplatest
\* ends with its last source.
ExhaustedBy(gone) ==
    IF kind = "zip" THEN \E p \in Position : layout[p] \in gone /\ results[p] = <<>>
    ELSE \A p \in Position : layout[p] \in gone

EndIfExhausted(gone) ==
    /\ ended' = (ended \/ ExhaustedBy(gone))
    /\ connected' = IF ended' THEN {} ELSE connected

\* The listeners of a tuple return; Zip looks whether that was the last one.
ReturnToZip == IF kind = "zip" THEN EndIfExhausted(over) ELSE UNCHANGED <<ended, connected>>

Return ==
    /\ walks # <<>>
    /\ Top.busy
    /\ walks' = [walks EXCEPT ![Len(walks)].busy = FALSE]
    /\ ReturnToZip
    /\ UNCHANGED <<fixed, over, results, numReady, latest, primed, sent, outs>>

EndEmit ==
    /\ walks # <<>>
    /\ ~Top.busy
    /\ Top.rest = <<>>
    /\ walks' = Front(walks)
    /\ UNCHANGED <<fixed, over, results, numReady, latest, primed, connected, ended, sent, outs>>

\* on_source_done, called once for each position of the source.
SourceEnds(s) ==
    /\ InUserCode
    /\ s \notin over
    /\ over' = over \cup {s}
    /\ IF \E p \in connected : layout[p] = s
       THEN EndIfExhausted(over \cup {s}) ELSE UNCHANGED <<ended, connected>>
    /\ UNCHANGED <<fixed, results, numReady, latest, primed, walks, sent, outs>>

Next ==
    \/ \E s \in Source : SourceEmits(s) \/ SourceEnds(s)
    \/ Deliver
    \/ Return
    \/ EndEmit

Spec == Init /\ [][Next]_vars
-----------------------------------------------------------------------------
\* Zip: "the n-th tuple has the n-th value of every source", also while listeners
\* make the sources emit; and every tuple that there are values for has come out.
ZipRule ==
    LET vals == [p \in Position |-> ValuesOf(layout[p])]
    IN  /\ \A k \in DOMAIN outs : outs[k].tup = [p \in Position |-> vals[p][k]]
        /\ walks = <<>> => \E p \in Position : Len(vals[p]) = Len(outs)

\* The callback of a position sees its value and those of the positions before it.
TupleAt(n, p) ==
    [i \in Position |-> LatestOf(layout[i], IF layout[i] = layout[p] /\ i > p THEN n - 1 ELSE n)]

TuplesFor(n, ps) ==
    [k \in DOMAIN ps |-> [n |-> n, at |-> ps[k], tup |-> TupleAt(n, ps[k])]]

\* With partial=False only those where each position has a value.
Shown == {o \in [n : Nat, at : Position, tup : [Position -> Nat]] :
             kind = "ziplatest" \/ NoValue \notin Range(o.tup)}

\* What Ziplatest has to give for all the values.
Due ==
    LET calls(n) == InTheirOrder({p \in Position : layout[p] = sent[n]})
    IN  FlattenSeq([n \in DOMAIN sent |->
                      IF n > made THEN Keep(TuplesFor(n, calls(n)), Shown) ELSE <<>>])

\* Ziplatest: each value of a source gives a tuple of the latest values (one for
\* each of its positions), once they are all there or at once.
LatestRule == IsPrefix(outs, Due) /\ (walks = <<>> => outs = Due)

\* With a source at two positions a listener may feed between its callbacks: an
\* older value then overtakes.  That is excluded for Ziplatest.
TupleRule ==
    IF kind = "zip" THEN ZipRule
    ELSE listeners = {} \/ IsInjective(layout) => LatestRule

\* Zip ends as soon as no further tuple is possible, Ziplatest with its last
\* source; neither listens to any source afterwards.
EndsInTime ==
    walks = <<>> =>
        /\ ended <=>
             IF kind = "zip"
             THEN \E p \in Position : layout[p] \in over /\ Len(ValuesOf(layout[p])) = Len(outs)
             ELSE \A p \in Position : layout[p] \in over
        /\ ended => connected = {}
=============================================================================
