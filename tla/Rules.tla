------------------------------- MODULE Rules -------------------------------
(***************************************************************************)
(* What an operator has to emit for the calls that its handlers have had,  *)
(* in the words of its docstring: "the first count values", "when it       *)
(* differs from the previous one", "chunks of the given size; the last     *)
(* chunk may be smaller", ...  A rule looks at everything that came, and   *)
(* keeps nothing; a handler of Handlers.tla sees one value at a time.      *)
(***************************************************************************)
EXTENDS Handlers, Filter, SequencesExt

CONSTANT Value        \* what a source emits, numbers
ASSUME ValueAssumption == Infinity \in Nat /\ Value \subseteq 0 .. Infinity - 1

\* The values of the calls h, and whether there was a call of another sort.
Values(h) == LET s == Keep(h, {"value"} \X Value) IN [i \in DOMAIN s |-> s[i][2]]
Told(h, what) == \E i \in DOMAIN h : h[i][1] = what
-----------------------------------------------------------------------------
\* Of the values v: those at the places in S, those after the a-th up to the b-th,
\* the set of the first i, their total and their product.
Picked(v, S) == FlattenSeq([i \in DOMAIN v |-> IF i \in S THEN <<v[i]>> ELSE <<>>])
Slice(v, a, b) == [i \in 1 .. b - a |-> v[a + i]]
UpTo(v, i) == {v[j] : j \in 1 .. i}
Folded(step, start, v, i) ==
    LET f[n \in 0 .. i] == IF n = 0 THEN start ELSE step[<<f[n - 1], v[n]>>] IN f[i]
Total(v, i) == Folded([p \in Nat \X Nat |-> p[1] + p[2]], 0, v, i)
Multiplied(v, i) == Folded([p \in Nat \X Nat |-> p[1] * p[2]], 1, v, i)

\* The last Count of the first i, the chunks of Count, and what they leave.
Latest(v, i) == Slice(v, IF i > Count THEN i - Count ELSE 0, i)
Chunks(v) == [i \in 1 .. Len(v) \div Count |-> Slice(v, (i - 1) * Count, i * Count)]
Rest(v) == Slice(v, (Len(v) \div Count) * Count, Len(v))

ByValues(k, v) ==
    CASE k = "filter" -> Picked(v, {i \in DOMAIN v : Truth(v[i])})
      [] k = "skip" -> Picked(v, {i \in DOMAIN v : i > Count})
      [] k = "take" -> Picked(v, {i \in DOMAIN v : i <= Count})
      [] k = "takewhile" -> Picked(v, {i \in DOMAIN v : \A j \in 1 .. i : Truth(v[j])})
      [] k = "dropwhile" -> Picked(v, {i \in DOMAIN v : \E j \in 1 .. i : Truth(v[j])})
      [] k = "changes" -> Picked(v, {i \in DOMAIN v : i = 1 \/ v[i] # v[i - 1]})
      [] k = "unique" -> Picked(v, {i \in DOMAIN v : v[i] \notin UpTo(v, i - 1)})
      [] k = "previous" -> Slice(v, 0, Len(v) - Count)
      [] k = "iterate" -> [i \in 1 .. (IF Len(v) < Count THEN Len(v) ELSE Count) |-> i - 1]
      [] k = "enumerate" -> [i \in DOMAIN v |-> <<i - 1, v[i]>>]
      [] k = "reduce" -> [i \in 1 .. Len(v) - 1 |-> Total(v, i + 1)]
      [] k = "sum" -> [i \in DOMAIN v |-> Total(v, i)]
      [] k = "product" -> [i \in DOMAIN v |-> Multiplied(v, i)]
      [] k = "min" -> [i \in DOMAIN v |-> Min(UpTo(v, i))]
      [] k = "max" -> [i \in DOMAIN v |-> Max(UpTo(v, i))]
      [] k = "any" -> [i \in DOMAIN v |-> UpTo(v, i) # {0}]
      [] k = "all" -> [i \in DOMAIN v |-> 0 \notin UpTo(v, i)]
      [] k = "mean" -> [i \in DOMAIN v |-> <<Total(v, i), i>>]
      [] k = "pairwise" -> [i \in 1 .. Len(v) - 1 |-> <<v[i], v[i + 1]>>]
      [] k \in {"deque", "array"} -> [i \in DOMAIN v |-> Latest(v, i)]
      [] OTHER -> v
-----------------------------------------------------------------------------
\* Of the calls h: the last of a sort before the i-th, or 0; the value of the last
\* value call before it; the values since the last tick or end before it.
Prior(h, i, sorts) == Max({0} \cup {j \in 1 .. i - 1 : h[j][1] \in sorts})
LastBefore(h, i) ==
    LET j == Prior(h, i, {"value"}) IN IF j = 0 THEN <<>> ELSE <<h[j][2]>>
Batch(h, i) == Slice([j \in DOMAIN h |-> h[j][2]], Prior(h, i, {"tick", "end"}), i - 1)

RuleOf(k, h) ==
    LET v == Values(h)
    IN  CASE k = "last" -> IF Told(h, "end") /\ v # <<>> THEN <<v[Len(v)]>> ELSE <<>>
          [] k = "list" -> IF Told(h, "end") THEN <<v>> ELSE <<>>
          [] k = "chunk" ->
               Chunks(v) \o IF Told(h, "end") /\ Rest(v) # <<>> THEN <<Rest(v)>> ELSE <<>>
          [] k = "chunkwith" ->
               FlattenSeq([i \in DOMAIN h |->
                   IF h[i][1] # "value" /\ Batch(h, i) # <<>> THEN <<Batch(h, i)>> ELSE <<>>])
          [] k = "chunkwithempty" ->
               FlattenSeq([i \in DOMAIN h |->
                   IF h[i][1] = "tick" \/ (h[i][1] = "end" /\ Batch(h, i) # <<>>)
                   THEN <<Batch(h, i)>> ELSE <<>>])
          [] k = "sample" ->
               FlattenSeq([i \in DOMAIN h |->
                   IF h[i][1] = "tick" THEN LastBefore(h, i) ELSE <<>>])
          [] k = "errors" ->
               FlattenSeq([i \in DOMAIN h |->
                   IF h[i][1] = "error" THEN <<Error>> ELSE <<>>])
          [] OTHER -> ByValues(k, v)
=============================================================================
