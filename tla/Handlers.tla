------------------------------ MODULE Handlers -----------------------------
(***************************************************************************)
(* What the handlers of the synchronous operators do: for each class the   *)
(* attributes it keeps, what on_source does up to its emit, what it emits, *)
(* what it does after the emit, and when it ends the operator.  Code after *)
(* an emit is kept apart because listeners have run in between, and may    *)
(* have entered the same handler again.                                    *)
(*                                                                         *)
(* Left out: operators that keep nothing and emit a function of the value  *)
(* (constant, partial, star, pack, pluck, copy, timestamp), and Ema, whose *)
(* arithmetic is floating point.                                           *)
(***************************************************************************)
EXTENDS Integers, Sequences

CONSTANTS
    Kinds,       \* the classes to look at, out of AllKinds
    Count,       \* the count or size that they are made with
    Infinity     \* a number beyond all values

AllKinds == {"filter", "skip", "take", "takewhile", "dropwhile", "takeuntil", "changes",
             "unique", "last", "iterate", "reduce", "sum", "product", "min", "max",
             "any", "all", "mean", "pairwise", "list",
             "deque", "array", "enumerate", "previous", "chunk", "chunkwith",
             "chunkwithempty", "sample", "endonerror", "errors"}

\* ChunkWith with emit_empty = False and with emit_empty = True.
Batching == {"chunkwith", "chunkwithempty"}

ASSUME KindsAssumption == Kinds \subseteq AllKinds
ASSUME CountAssumption == Count \in Nat \ {0}

\* The default predicate, bool, and its opposite.
Truth(x) == x # 0

\* The attributes of all classes: a counter, the value kept from before, a list,
\* a set, and whether values are dropped.
Fresh == [n |-> 0, prev |-> <<>>, list |-> <<>>, seen |-> {}, drop |-> TRUE]

\* The outcome of a handler up to its emit.
Holds(m) == [mem |-> m, out |-> <<>>]
Emits(m, v) == [mem |-> m, out |-> <<v>>]
EmitsIf(c, m, v) == IF c THEN Emits(m, v) ELSE Holds(m)
-----------------------------------------------------------------------------
FilterOn(m, x) == EmitsIf(Truth(x), m, x)

SkipOn_Late(m, x) == IF m.n <= Count THEN Holds([m EXCEPT !.n = @ + 1]) ELSE Emits(m, x)
SkipOn(m, x) == IF m.n < Count THEN Holds([m EXCEPT !.n = @ + 1]) ELSE Emits(m, x)

TakeOn(m, x) == EmitsIf(m.n < Count, [m EXCEPT !.n = @ + 1], x)

TakeWhileOn(m, x) == EmitsIf(Truth(x), m, x)

DropWhileOn(m, x) ==
    LET drop == m.drop /\ ~Truth(x) IN EmitsIf(~drop, [m EXCEPT !.drop = drop], x)

ChangesOn(m, x) == EmitsIf(m.prev # <<x>>, m, x)

UniqueOn(m, x) == EmitsIf(x \notin m.seen, [m EXCEPT !.seen = @ \cup {x}], x)

LastOn(m, x) == Holds([m EXCEPT !.prev = <<x>>])

\* next(self._it) on an iterator of Count items, the first numbers (Count too).
IterateOn(m, x) == EmitsIf(m.n < Count, [m EXCEPT !.n = @ + 1], m.n)

\* Reduce.on_source; the first value is folded into the initializer.
Folds(F(_, _), init, m, x) ==
    LET now == IF m.prev = <<>> THEN F(init, x) ELSE F(m.prev[1], x)
    IN  Emits([m EXCEPT !.prev = <<now>>], now)

Plus(a, b) == a + b
Times(a, b) == a * b
Lesser(a, b) == IF b < a THEN b ELSE a
Greater(a, b) == IF b > a THEN b ELSE a
Or(a, x) == a \/ Truth(x)
And(a, x) == a /\ Truth(x)

\* Reduce with addition and no initializer: the first value is kept only.
ReduceOn(m, x) ==
    IF m.prev = <<>> THEN Holds([m EXCEPT !.prev = <<x>>]) ELSE Folds(Plus, 0, m, x)

SumOn(m, x) == Folds(Plus, 0, m, x)
ProductOn(m, x) == Folds(Times, 1, m, x)
MinOn(m, x) == Folds(Lesser, Infinity, m, x)
MaxOn(m, x) == Folds(Greater, -Infinity, m, x)
AnyOn(m, x) == Folds(Or, FALSE, m, x)
AllOn(m, x) == Folds(And, TRUE, m, x)

\* The mean as the pair of its terms.
MeanOn(m, x) ==
    LET sum == IF m.prev = <<>> THEN x ELSE m.prev[1] + x
    IN  Emits([m EXCEPT !.n = @ + 1, !.prev = <<sum>>], <<sum, m.n + 1>>)

PairwiseOn(m, x) == EmitsIf(m.prev # <<>>, m, m.prev \o <<x>>)

\* Values that are kept for later: List, ChunkWith.
ListOn(m, x) == Holds([m EXCEPT !.list = Append(@, x)])

Window(l, x) == IF Len(l) = Count THEN Append(Tail(l), x) ELSE Append(l, x)
DequeOn(m, x) == Emits([m EXCEPT !.list = Window(@, x)], Window(m.list, x))
ArrayOn(m, x) == Emits([m EXCEPT !.list = Window(@, x)], Window(m.list, x))

EnumerateOn(m, x) == Emits(m, <<m.n, x>>)

PreviousOn(m, x) ==
    LET q == Append(m.list, x)
    IN  IF Len(q) > Count THEN Emits([m EXCEPT !.list = Tail(q)], Head(q))
        ELSE Holds([m EXCEPT !.list = q])

ChunkOn(m, x) ==
    LET chunk == Append(m.list, x)
    IN  EmitsIf(Len(chunk) = Count, [m EXCEPT !.list = chunk], chunk)

ChunkWithOn(m, x) == ListOn(m, x)

SampleOn(m, x) == Holds([m EXCEPT !.prev = <<x>>])

\* Errors emits what the error_event of its source emits.
Error == "error"
ErrorsOn(m) == Emits(m, Error)

\* on_source = Event.emit
PassOn(m, x) == Emits(m, x)

OnSource(k, m, x) ==
    CASE k = "filter" -> FilterOn(m, x)
      [] k = "skip" -> SkipOn(m, x)
      [] k = "take" -> TakeOn(m, x)
      [] k = "takewhile" -> TakeWhileOn(m, x)
      [] k = "dropwhile" -> DropWhileOn(m, x)
      [] k = "changes" -> ChangesOn(m, x)
      [] k = "unique" -> UniqueOn(m, x)
      [] k = "last" -> LastOn(m, x)
      [] k = "iterate" -> IterateOn(m, x)
      [] k = "reduce" -> ReduceOn(m, x)
      [] k = "sum" -> SumOn(m, x)
      [] k = "product" -> ProductOn(m, x)
      [] k = "min" -> MinOn(m, x)
      [] k = "max" -> MaxOn(m, x)
      [] k = "any" -> AnyOn(m, x)
      [] k = "all" -> AllOn(m, x)
      [] k = "mean" -> MeanOn(m, x)
      [] k = "pairwise" -> PairwiseOn(m, x)
      [] k = "list" -> ListOn(m, x)
      [] k = "deque" -> DequeOn(m, x)
      [] k = "array" -> ArrayOn(m, x)
      [] k = "enumerate" -> EnumerateOn(m, x)
      [] k = "previous" -> PreviousOn(m, x)
      [] k = "chunk" -> ChunkOn(m, x)
      [] k \in Batching -> ChunkWithOn(m, x)
      [] k = "sample" -> SampleOn(m, x)
      [] OTHER -> PassOn(m, x)

\* What on_source still does to the attributes, after its emit if there was one.
AfterOnSource(k, m, x, emitted) ==
    CASE k \in {"changes", "pairwise"} -> [m EXCEPT !.prev = <<x>>]
      [] k = "enumerate" -> [m EXCEPT !.n = @ + 1]
      [] k = "chunk" /\ emitted -> [m EXCEPT !.list = <<>>]
      [] OTHER -> m

\* ... and whether it then ends the operator.
TakeStops_Late(m) == m.n > Count
TakeStops(m) == m.n = Count
StopsAfter(k, m, x, emitted) ==
    CASE k = "take" -> TakeStops(m)
      [] k = "takewhile" -> ~Truth(x)
      [] k = "iterate" -> ~emitted
      [] OTHER -> FALSE
-----------------------------------------------------------------------------
\* _on_timer of Sample and ChunkWith, which then has a new list.
OnTimer(k, m) ==
    IF k = "sample" THEN m.prev
    ELSE IF m.list # <<>> \/ k = "chunkwithempty" THEN <<m.list>> ELSE <<>>

AfterOnTimer(k, m) == IF k \in Batching THEN [m EXCEPT !.list = <<>>] ELSE m

\* What on_source_done emits before the operator ends: the last value, all
\* values, the rest of a chunk.
OnSourceDone(k, m) ==
    CASE k = "last" -> m.prev
      [] k = "list" -> <<m.list>>
      [] k \in {"chunk"} \cup Batching /\ m.list # <<>> -> <<m.list>>
      [] OTHER -> <<>>

\* Which inputs a handler lets go before it calls set_done, and which after.
InputsOf(k) == {"source"} \cup (IF k \in {"takeuntil", "sample"} \cup Batching THEN {"side"} ELSE {})

FirstLeft_None(k) == {}
FirstLeft(k) == IF k \in Batching THEN InputsOf(k) ELSE {"source"}
ThenLeft(k) == InputsOf(k) \ FirstLeft(k)
=============================================================================
