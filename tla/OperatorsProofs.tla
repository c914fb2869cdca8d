-------------------------- MODULE OperatorsProofs --------------------------
(***************************************************************************)
(* Proofs about Operators.tla: an operator ends exactly when it has to and *)
(* lets its inputs go, is silent from then on, and what it emits is what   *)
(* its rule says of everything that came.                                  *)
(*                                                                         *)
(* The first part is about the handlers alone: with one call more, what a  *)
(* handler emits is what the rule adds, and its attributes are again those *)
(* that the rule asks for.  The second is about the end, the third puts    *)
(* both together.                                                          *)
(***************************************************************************)
EXTENDS Operators, SequenceLemmas, SequenceTheorems, TLAPS

(* The function that Folded is defined by: it exists, and what it is made of. *)
Via(step, a, b) == step[<<a, b>>]
FoldsOf(f, step, start, v, m) ==
    f = [n \in 0 .. m |-> IF n = 0 THEN start ELSE Via(step, f[n - 1], v[n])]

(* The function exists, by induction over its length. *)
LEMMA FoldsExist ==
    ASSUME NEW step, NEW start, NEW v, NEW m \in Nat
    PROVE  \E f : FoldsOf(f, step, start, v, m)
<1> DEFINE T == {n \in Nat : \E f : FoldsOf(f, step, start, v, n)}
<1>1. 0 \in T
  <2> DEFINE f0 == [i \in 0 .. 0 |-> start]
  <2>1. FoldsOf(f0, step, start, v, 0)
    BY DEF FoldsOf
  <2> QED BY <2>1
<1>2. ASSUME NEW n \in T PROVE n + 1 \in T
  <2>1. PICK f : FoldsOf(f, step, start, v, n)
    OBVIOUS
  <2> DEFINE last == Via(step, f[n], v[n + 1])
             more == [i \in 0 .. n + 1 |-> IF i = n + 1 THEN last ELSE f[i]]
  <2>2. ASSUME NEW i \in 0 .. n + 1
        PROVE  more[i] = IF i = 0 THEN start ELSE Via(step, more[i - 1], v[i])
    <3>1. CASE i = n + 1
      <4>1. i # 0 /\ i - 1 = n /\ n \in 0 .. n + 1 /\ n # n + 1 /\ n \in Nat
        BY <3>1
      <4>2. more[i] = last /\ more[i - 1] = f[n] /\ v[i] = v[n + 1]
        BY <3>1, <4>1
      <4> QED BY <4>1, <4>2
    <3>2. CASE i # n + 1
      <4>1. i \in 0 .. n /\ (i # 0 => i - 1 \in 0 .. n + 1 /\ i - 1 # n + 1)
        BY <3>2
      <4>2. more[i] = f[i] /\ (i # 0 => more[i - 1] = f[i - 1])
        BY <3>2, <4>1
      <4> QED BY <2>1, <4>1, <4>2 DEF FoldsOf
    <3> QED BY <3>1, <3>2
  <2>3. FoldsOf(more, step, start, v, n + 1)
    BY <2>2 DEF FoldsOf
  <2> QED BY <2>3
<1>3. T = Nat
  <2> HIDE DEF T
  <2>1. T \in SUBSET Nat
    BY DEF T
  <2> QED BY <1>1, <1>2, <2>1, Induct
<1> QED BY <1>3

(* It is the one that CHOOSE takes, and adds one step at a time. *)
LEMMA FoldDef ==
    ASSUME NEW step, NEW start, NEW v, NEW m \in Nat
    PROVE  \E f : FoldsOf(f, step, start, v, m) /\ Folded(step, start, v, m) = f[m]
<1>1. FoldsOf(CHOOSE f : FoldsOf(f, step, start, v, m), step, start, v, m)
  BY FoldsExist
<1>2. Folded(step, start, v, m) = (CHOOSE f : FoldsOf(f, step, start, v, m))[m]
  BY DEF Folded, FoldsOf, Via
<1> QED BY <1>1, <1>2

LEMMA FoldsNext ==
    ASSUME NEW step, NEW start, NEW v, NEW m \in Nat, NEW f, FoldsOf(f, step, start, v, m)
    PROVE  /\ f[0] = start
           /\ \A n \in 1 .. m : f[n] = Via(step, f[n - 1], v[n])
<1> DEFINE F == [n \in 0 .. m |-> IF n = 0 THEN start ELSE Via(step, f[n - 1], v[n])]
<1>1. f = F
  BY DEF FoldsOf
<1>2. F[0] = start /\ \A n \in 1 .. m : F[n] = Via(step, f[n - 1], v[n])
  OBVIOUS
<1> HIDE DEF F
<1> QED BY <1>1, <1>2

(* Two such functions agree as far as the values do. *)
LEMMA FoldsAgree ==
    ASSUME NEW step, NEW start, NEW v, NEW w, NEW m \in Nat, NEW k \in Nat, NEW i \in Nat,
           i <= m, i <= k, \A j \in 1 .. i : v[j] = w[j],
           NEW f, FoldsOf(f, step, start, v, m), NEW g, FoldsOf(g, step, start, w, k)
    PROVE  f[i] = g[i]
<1> DEFINE T == {n \in Nat : n <= i => f[n] = g[n]}
<1>1. /\ f[0] = start
      /\ \A n \in 1 .. m : f[n] = Via(step, f[n - 1], v[n])
      /\ g[0] = start
      /\ \A n \in 1 .. k : g[n] = Via(step, g[n - 1], w[n])
  <2>1. /\ f[0] = start
        /\ \A n \in 1 .. m : f[n] = Via(step, f[n - 1], v[n])
    BY FoldsNext
  <2>2. /\ g[0] = start
        /\ \A n \in 1 .. k : g[n] = Via(step, g[n - 1], w[n])
    BY ONLY FoldsNext, k \in Nat, FoldsOf(g, step, start, w, k)
  <2> QED BY <2>1, <2>2
<1>2. 0 \in T
  BY <1>1
<1>3. ASSUME NEW n \in T PROVE n + 1 \in T
  <2> SUFFICES ASSUME n + 1 <= i PROVE f[n + 1] = g[n + 1]
    OBVIOUS
  <2>1. PICK j \in Nat : j = n + 1
    OBVIOUS
  <2>2. j \in 1 .. i /\ j \in 1 .. m /\ j \in 1 .. k /\ j - 1 = n /\ f[n] = g[n]
    BY <2>1
  <2> HIDE DEF T
  <2>3. f[j] = Via(step, f[j - 1], v[j]) /\ g[j] = Via(step, g[j - 1], w[j]) /\ v[j] = w[j]
    BY <1>1, <2>2
  <2> QED BY <2>1, <2>2, <2>3
<1>4. T = Nat
  <2> HIDE DEF T
  <2>1. T \in SUBSET Nat
    BY DEF T
  <2> QED BY <1>2, <1>3, <2>1, Induct
<1> QED BY <1>4

(* What is folded of none, of one more, and of values that agree. *)
Alike(v, w, i) == \A j \in 1 .. i : v[j] = w[j]

LEMMA FoldedAll ==
    ASSUME NEW step, NEW start, NEW v, NEW w, NEW i \in Nat, Alike(v, w, i)
    PROVE  /\ Folded(step, start, v, 0) = start
           /\ Folded(step, start, v, i) = Folded(step, start, w, i)
           /\ Folded(step, start, w, i + 1) = Via(step, Folded(step, start, v, i), w[i + 1])
<1>1. PICK n \in Nat : n = i + 1
  OBVIOUS
<1>2. PICK f : FoldsOf(f, step, start, v, i) /\ Folded(step, start, v, i) = f[i]
  BY FoldDef
<1>3. PICK g : FoldsOf(g, step, start, w, i) /\ Folded(step, start, w, i) = g[i]
  BY FoldDef
<1>4. PICK h : FoldsOf(h, step, start, w, n) /\ Folded(step, start, w, n) = h[n]
  BY FoldDef
<1>5. PICK z : FoldsOf(z, step, start, v, 0) /\ Folded(step, start, v, 0) = z[0]
  BY FoldDef
<1>6. z[0] = start
  <2>1. FoldsOf(z, step, start, v, 0) /\ 0 \in Nat
    BY <1>5
  <2> QED BY ONLY <2>1, FoldsNext
<1>7. f[i] = g[i]
  BY <1>2, <1>3, FoldsAgree DEF Alike
<1>8. f[i] = h[i]
  <2>1. i <= n /\ i <= i
    BY <1>1
  <2> QED BY <1>2, <1>4, <2>1, FoldsAgree DEF Alike
<1>9. h[n] = Via(step, h[n - 1], w[n])
  <2>1. n \in 1 .. n
    BY <1>1
  <2>2. \A j \in 1 .. n : h[j] = Via(step, h[j - 1], w[j])
    BY ONLY <1>4, FoldsNext, n \in Nat
  <2> QED BY <2>1, <2>2
<1>10. n - 1 = i
  BY <1>1
<1> QED BY <1>1, <1>2, <1>3, <1>4, <1>5, <1>6, <1>7, <1>8, <1>9, <1>10
(* Of no value: the start. *)
LEMMA FoldedNone == ASSUME NEW step, NEW start, NEW v PROVE Folded(step, start, v, 0) = start
<1>1. Alike(v, v, 0) /\ 0 \in Nat
  BY DEF Alike
<1> QED BY <1>1, FoldedAll

(* Of values that agree. *)
LEMMA FoldedAlike ==
    ASSUME NEW step, NEW start, NEW v, NEW w, NEW i \in Nat, Alike(v, w, i)
    PROVE  Folded(step, start, v, i) = Folded(step, start, w, i)
BY FoldedAll

(* Of one value more: one step more. *)
LEMMA FoldedNext ==
    ASSUME NEW step, NEW start, NEW v, NEW w, NEW i \in Nat, Alike(v, w, i)
    PROVE  Folded(step, start, w, i + 1) = Via(step, Folded(step, start, v, i), w[i + 1])
BY FoldedAll
-----------------------------------------------------------------------------
(* A function on 1 .. n, which is a sequence. *)
Numbered(f, n) == f = [i \in 1 .. n |-> f[i]]

LEMMA ASequence ==
    ASSUME NEW n \in Nat, NEW f, Numbered(f, n), NEW A, \A i \in 1 .. n : f[i] \in A
    PROVE  f \in Seq(A) /\ Len(f) = n /\ DOMAIN f = 1 .. n
<1> DEFINE F == [i \in 1 .. n |-> f[i]]
<1>1. F \in [1 .. n -> A]
  OBVIOUS
<1>2. f = F
  BY DEF Numbered
<1> HIDE DEF F
<1>3. f \in [1 .. n -> A]
  BY <1>1, <1>2
<1> QED BY ONLY <1>3, n \in Nat

(* A sequence given by its places, and the same with one place more. *)
LEMMA Longer ==
    ASSUME NEW n \in Nat, NEW f, NEW g, Numbered(f, n), Numbered(g, n + 1),
           \A i \in 1 .. n : g[i] = f[i]
    PROVE  g = f \o <<g[n + 1]>> /\ \E A : f \in Seq(A)
<1> DEFINE A == {g[i] : i \in 1 .. n + 1}
           x == g[n + 1]
<1>1. \A i \in 1 .. n + 1 : g[i] \in A
  OBVIOUS
<1>2. x \in A /\ \A i \in 1 .. n : f[i] \in A
  BY <1>1
<1> HIDE DEF A
<1>3. f \in Seq(A) /\ Len(f) = n
  BY <1>2, ASequence
<1>4. g \in Seq(A) /\ Len(g) = n + 1
  BY <1>1, ASequence
<1>5. g = Append(f, x)
  <2> DEFINE r == Append(f, x)
  <2>1. r \in Seq(A) /\ Len(r) = n + 1 /\ r[n + 1] = x /\ \A i \in 1 .. n : r[i] = f[i]
    BY <1>2, <1>3, Grown
  <2> HIDE DEF r
  <2>2. \A i \in 1 .. n + 1 : g[i] = r[i]
    BY <2>1
  <2> QED BY ONLY <1>4, <2>1, <2>2, n \in Nat, SeqEqual DEF r
<1>6. Append(f, x) = f \o <<x>>
  BY <1>2, <1>3
<1> QED BY <1>3, <1>5, <1>6

(* ... and what they are flattened to. *)
LEMMA FlatLonger ==
    ASSUME NEW n \in Nat, NEW ss, NEW tt, Numbered(ss, n), Numbered(tt, n + 1),
           \A i \in 1 .. n : tt[i] = ss[i],
           \A i \in 1 .. n + 1 : tt[i] = <<>> \/ \E y : tt[i] = <<y>>
    PROVE  /\ FlattenSeq(tt) = FlattenSeq(ss) \o tt[n + 1]
           /\ \E A : FlattenSeq(ss) \in Seq(A)
<1> DEFINE A == {tt[i][1] : i \in 1 .. n + 1}
<1>1. ASSUME NEW i \in 1 .. n + 1 PROVE tt[i] \in Seq(A)
  <2>1. tt[i][1] \in A
    OBVIOUS
  <2> HIDE DEF A
  <2>2. ASSUME NEW y, tt[i] = <<y>> PROVE tt[i] \in Seq(A)
    <3>1. <<y>>[1] = y
      OBVIOUS
    <3>2. y \in A
      BY <2>1, <2>2, <3>1
    <3> QED BY ONLY <2>2, <3>2
  <2>3. <<>> \in Seq(A)
    OBVIOUS
  <2> QED BY <2>2, <2>3
<1> HIDE DEF A
<1>2. \A i \in 1 .. n : ss[i] \in Seq(A)
  BY <1>1
<1>3. ss \in Seq(Seq(A)) /\ Len(ss) = n
  BY <1>2, ASequence
<1>4. tt \in Seq(Seq(A)) /\ Len(tt) = n + 1
  BY <1>1, ASequence
<1>5. PICK x \in Seq(A) : x = tt[n + 1]
  BY <1>1
<1>6. tt = Append(ss, x)
  <2> DEFINE r == Append(ss, x)
  <2>1. r \in Seq(Seq(A)) /\ Len(r) = n + 1 /\ r[n + 1] = x /\ \A i \in 1 .. n : r[i] = ss[i]
    BY <1>3, Grown
  <2> HIDE DEF r
  <2>2. \A i \in 1 .. n + 1 : tt[i] = r[i]
    BY <1>5, <2>1
  <2> QED BY ONLY <1>4, <2>1, <2>2, n \in Nat, SeqEqual DEF r
<1> QED BY <1>3, <1>5, <1>6, FlattenAppend

(* The picked values, of one value more. *)
LEMMA PickedNext ==
    ASSUME NEW B, NEW v \in Seq(B), NEW x \in B, NEW S, NEW T,
           \A i \in 1 .. Len(v) : i \in T <=> i \in S
    PROVE  /\ Picked(Append(v, x), T) =
                Picked(v, S) \o IF Len(v) + 1 \in T THEN <<x>> ELSE <<>>
           /\ \E A : Picked(v, S) \in Seq(A)
<1> DEFINE w == Append(v, x)
           n == Len(v)
           ss == [i \in 1 .. n |-> IF i \in S THEN <<v[i]>> ELSE <<>>]
           tt == [i \in 1 .. n + 1 |-> IF i \in T THEN <<w[i]>> ELSE <<>>]
<1>1. /\ n \in Nat /\ DOMAIN v = 1 .. n /\ DOMAIN w = 1 .. n + 1
      /\ \A i \in 1 .. n : w[i] = v[i]
      /\ w[n + 1] = x
  BY Grown
<1>2. Picked(v, S) = FlattenSeq(ss) /\ Picked(w, T) = FlattenSeq(tt)
  BY <1>1 DEF Picked
<1> HIDE DEF w, n
<1>3. \A i \in 1 .. n : tt[i] = ss[i]
  BY <1>1
<1>4. \A i \in 1 .. n + 1 : tt[i] = <<>> \/ \E y : tt[i] = <<y>>
  OBVIOUS
<1>5. Numbered(ss, n) /\ Numbered(tt, n + 1)
  BY DEF Numbered
<1>6. tt[n + 1] = IF n + 1 \in T THEN <<x>> ELSE <<>>
  BY <1>1
<1> HIDE DEF ss, tt
<1>7. /\ FlattenSeq(tt) = FlattenSeq(ss) \o tt[n + 1]
      /\ \E A : FlattenSeq(ss) \in Seq(A)
  BY <1>1, <1>3, <1>4, <1>5, FlatLonger
<1> QED BY <1>2, <1>6, <1>7 DEF w, n

(* The attributes of an operator, and one of them replaced. *)
IsRecord(m) ==
    m = [n |-> m.n, prev |-> m.prev, list |-> m.list, seen |-> m.seen, drop |-> m.drop]

(* The others stay. *)
LEMMA Replaced ==
    ASSUME NEW m, IsRecord(m), NEW e
    PROVE  /\ IsRecord([m EXCEPT !.n = e]) /\ [m EXCEPT !.n = e].n = e
           /\ IsRecord([m EXCEPT !.prev = e]) /\ [m EXCEPT !.prev = e].prev = e
           /\ IsRecord([m EXCEPT !.list = e]) /\ [m EXCEPT !.list = e].list = e
           /\ IsRecord([m EXCEPT !.seen = e]) /\ [m EXCEPT !.seen = e].seen = e
           /\ IsRecord([m EXCEPT !.drop = e]) /\ [m EXCEPT !.drop = e].drop = e
<1>1. PICK a, b, c, d, f : m = [n |-> a, prev |-> b, list |-> c, seen |-> d, drop |-> f]
  BY DEF IsRecord
<1>2. IsRecord([m EXCEPT !.n = e]) /\ [m EXCEPT !.n = e].n = e
  BY ONLY <1>1 DEF IsRecord
<1>3. IsRecord([m EXCEPT !.prev = e]) /\ [m EXCEPT !.prev = e].prev = e
  BY ONLY <1>1 DEF IsRecord
<1>4. IsRecord([m EXCEPT !.list = e]) /\ [m EXCEPT !.list = e].list = e
  BY ONLY <1>1 DEF IsRecord
<1>5. IsRecord([m EXCEPT !.seen = e]) /\ [m EXCEPT !.seen = e].seen = e
  BY ONLY <1>1 DEF IsRecord
<1>6. IsRecord([m EXCEPT !.drop = e]) /\ [m EXCEPT !.drop = e].drop = e
  BY ONLY <1>1 DEF IsRecord
<1> QED BY <1>2, <1>3, <1>4, <1>5, <1>6

(* ... and two of them. *)
LEMMA ReplacedTwo ==
    ASSUME NEW m, IsRecord(m), NEW e, NEW d
    PROVE  LET w == [m EXCEPT !.n = e, !.prev = d] IN IsRecord(w) /\ w.n = e /\ w.prev = d
<1>1. PICK a, b, c, s, f : m = [n |-> a, prev |-> b, list |-> c, seen |-> s, drop |-> f]
  BY DEF IsRecord
<1> DEFINE once == [m EXCEPT !.n = e]
           w == [once EXCEPT !.prev = d]
<1>2. [m EXCEPT !.n = e, !.prev = d] = w
  BY ONLY <1>1
<1>3. w.n = e
  BY ONLY <1>1
<1>4. IsRecord(once)
  BY Replaced
<1> HIDE DEF once
<1>5. IsRecord(w) /\ w.prev = d
  BY <1>4, Replaced
<1> QED BY <1>2, <1>3, <1>5
-----------------------------------------------------------------------------
(* What is kept of the values: the last one, and what they come to. *)
One(v) == IF v = <<>> THEN <<>> ELSE <<v[Len(v)]>>
Adding == {"reduce", "sum", "mean"}
Folding == Adding \cup {"product", "min", "max", "any", "all"}
ComesTo(k, v, i) ==
    CASE k \in Adding -> Total(v, i)
      [] k = "product" -> Multiplied(v, i)
      [] k = "min" -> Min(UpTo(v, i))
      [] k = "max" -> Max(UpTo(v, i))
      [] k = "any" -> UpTo(v, i) # {0}
      [] k = "all" -> 0 \notin UpTo(v, i)

(* The attributes m are those that an operator has after the values v. *)
Keeps(k, m, v) ==
    /\ IsRecord(m)
    /\ k \in {"take", "iterate", "enumerate", "mean"} => m.n = Len(v)
    /\ k = "skip" => m.n = IF Len(v) < Count THEN Len(v) ELSE Count
    /\ k = "dropwhile" => m.drop = (\A i \in 1 .. Len(v) : ~Truth(v[i]))
    /\ k \in {"changes", "last", "pairwise"} => m.prev = One(v)
    /\ k = "unique" => m.seen = UpTo(v, Len(v))
    /\ k \in Folding => m.prev = IF v = <<>> THEN <<>> ELSE <<ComesTo(k, v, Len(v))>>
    /\ k \in {"previous", "deque", "array"} => m.list = Latest(v, Len(v))
    /\ k = "list" => m.list = v
    /\ k = "chunk" => m.list = Rest(v)

(* What is emitted at a time: nothing or one thing. *)
Small(out) == out = <<>> \/ \E y : out = <<y>>

(* A handler does to the values v and the attributes m what the rule says. *)
Follows(k, v, m, x) ==
    LET r == OnSource(k, m, x)
        w == Append(v, x)
    IN  /\ ByValues(k, w) = ByValues(k, v) \o r.out
        /\ Small(r.out)
        /\ Keeps(k, AfterOnSource(k, r.mem, x, r.out # <<>>), w)

(* What the three outcomes of a handler hold. *)
LEMMA Outcome ==
    ASSUME NEW c, NEW m, NEW y
    PROVE  /\ EmitsIf(c, m, y).mem = m
           /\ EmitsIf(c, m, y).out = IF c THEN <<y>> ELSE <<>>
           /\ Emits(m, y).mem = m /\ Emits(m, y).out = <<y>>
           /\ Holds(m).mem = m /\ Holds(m).out = <<>>
BY DEF EmitsIf, Emits, Holds

(* The values after one more. *)
LEMMA More ==
    ASSUME NEW v \in Seq(Value), NEW x \in Value
    PROVE  LET w == Append(v, x)
           IN  /\ w \in Seq(Value) /\ w # <<>> /\ Len(v) \in Nat /\ Len(w) = Len(v) + 1
               /\ DOMAIN v = 1 .. Len(v) /\ DOMAIN w = 1 .. Len(v) + 1
               /\ \A i \in 1 .. Len(v) : w[i] = v[i]
               /\ w[Len(v) + 1] = x
               /\ One(w) = <<x>>
               /\ v = <<>> <=> Len(v) = 0
<1> DEFINE w == Append(v, x)
<1>1. /\ w \in Seq(Value) /\ Len(v) \in Nat /\ Len(w) = Len(v) + 1
      /\ DOMAIN v = 1 .. Len(v) /\ DOMAIN w = 1 .. Len(v) + 1
      /\ \A i \in 1 .. Len(v) : w[i] = v[i]
      /\ w[Len(v) + 1] = x
  BY Grown
<1>2. w # <<>> /\ (v = <<>> <=> Len(v) = 0)
  <2>1. v = <<>> <=> Len(v) = 0
    OBVIOUS
  <2>2. w # <<>>
    <3> HIDE DEF w
    <3> QED BY <1>1
  <2> QED BY <2>1, <2>2
<1> HIDE DEF w
<1>3. One(w) = <<x>>
  BY <1>1, <1>2 DEF One
<1> QED BY <1>1, <1>2, <1>3 DEF w

(* The handlers that pass a value on or drop it: what they emit is picked if the place of
   the new value is picked, and that of the others is picked as before. *)
LEMMA Picks ==
    ASSUME NEW v \in Seq(Value), NEW x \in Value, NEW k, NEW m, Keeps(k, m, v), NEW S, NEW T,
           NEW c \in BOOLEAN, NEW now, OnSource(k, m, x) = EmitsIf(c, now, x),
           ByValues(k, v) = Picked(v, S), ByValues(k, Append(v, x)) = Picked(Append(v, x), T),
           \A i \in 1 .. Len(v) : i \in T <=> i \in S,
           c <=> Len(v) + 1 \in T,
           Keeps(k, AfterOnSource(k, now, x, c), Append(v, x))
    PROVE  Follows(k, v, m, x)
<1> DEFINE r == OnSource(k, m, x)
<1>1. r.mem = now /\ r.out = IF c THEN <<x>> ELSE <<>>
  BY Outcome
<1>2. (r.out # <<>>) = c
  <2>1. <<x>> # <<>>
    OBVIOUS
  <2> QED BY <1>1, <2>1
<1>3. /\ Picked(Append(v, x), T) = Picked(v, S) \o IF Len(v) + 1 \in T THEN <<x>> ELSE <<>>
      /\ \E A : Picked(v, S) \in Seq(A)
  BY PickedNext
<1> HIDE DEF r
<1>4. Picked(Append(v, x), T) = Picked(v, S) \o r.out
  BY <1>1, <1>3
<1>5. Keeps(k, AfterOnSource(k, r.mem, x, r.out # <<>>), Append(v, x))
  BY <1>1, <1>2
<1>6. Small(r.out)
  BY <1>1 DEF Small
<1> QED BY <1>4, <1>5, <1>6 DEF Follows, r

LEMMA FilterFollows ==
    ASSUME NEW v \in Seq(Value), NEW x \in Value, NEW m, Keeps("filter", m, v)
    PROVE  Follows("filter", v, m, x)
<1> DEFINE w == Append(v, x)
           T(u) == {i \in DOMAIN u : Truth(u[i])}
<1>1. OnSource("filter", m, x) = EmitsIf(Truth(x), m, x) /\ Truth(x) \in BOOLEAN
  BY DEF OnSource, Batching, FilterOn, Truth
<1>2. ByValues("filter", v) = Picked(v, T(v)) /\ ByValues("filter", w) = Picked(w, T(w))
  BY DEF ByValues
<1>3. /\ \A i \in 1 .. Len(v) : i \in T(w) <=> i \in T(v)
      /\ Truth(x) <=> Len(v) + 1 \in T(w)
  BY More
<1>4. Keeps("filter", AfterOnSource("filter", m, x, Truth(x)), w)
  BY DEF Keeps, AfterOnSource, Folding, Adding
<1> HIDE DEF w, T
<1> QED BY <1>1, <1>2, <1>3, <1>4, Picks DEF w

LEMMA SkipFollows ==
    ASSUME NEW v \in Seq(Value), NEW x \in Value, NEW m, Keeps("skip", m, v)
    PROVE  Follows("skip", v, m, x)
<1> DEFINE w == Append(v, x)
           T(u) == {i \in DOMAIN u : i > Count}
           c == ~(m.n < Count)
           now == IF c THEN m ELSE [m EXCEPT !.n = @ + 1]
<1>1. OnSource("skip", m, x) = EmitsIf(c, now, x) /\ c \in BOOLEAN
  BY DEF OnSource, Batching, SkipOn, EmitsIf
<1>2. ByValues("skip", v) = Picked(v, T(v)) /\ ByValues("skip", w) = Picked(w, T(w))
  BY DEF ByValues
<1>3. m.n = (IF Len(v) < Count THEN Len(v) ELSE Count) /\ Count \in Nat /\ IsRecord(m)
  BY CountAssumption DEF Keeps
<1>4. /\ \A i \in 1 .. Len(v) : i \in T(w) <=> i \in T(v)
      /\ c <=> Len(v) + 1 \in T(w)
  BY <1>3, More
<1>5. IsRecord(now) /\ now.n = IF c THEN m.n ELSE m.n + 1
  BY <1>3, Replaced
<1>6. now.n = IF Len(w) < Count THEN Len(w) ELSE Count
  BY <1>3, <1>5, More
<1> HIDE DEF now
<1>7. Keeps("skip", AfterOnSource("skip", now, x, c), w)
  BY <1>5, <1>6 DEF Keeps, AfterOnSource, Folding, Adding
<1> HIDE DEF w, T, c
<1> QED BY <1>1, <1>2, <1>4, <1>7, Picks DEF w

LEMMA TakeFollows ==
    ASSUME NEW v \in Seq(Value), NEW x \in Value, NEW m, Keeps("take", m, v)
    PROVE  Follows("take", v, m, x)
<1> DEFINE w == Append(v, x)
           T(u) == {i \in DOMAIN u : i <= Count}
           c == m.n < Count
           now == [m EXCEPT !.n = @ + 1]
<1>1. OnSource("take", m, x) = EmitsIf(c, now, x) /\ c \in BOOLEAN
  BY DEF OnSource, Batching, TakeOn
<1>2. ByValues("take", v) = Picked(v, T(v)) /\ ByValues("take", w) = Picked(w, T(w))
  BY DEF ByValues
<1>3. m.n = Len(v) /\ Count \in Nat /\ IsRecord(m)
  BY CountAssumption DEF Keeps
<1>4. /\ \A i \in 1 .. Len(v) : i \in T(w) <=> i \in T(v)
      /\ c <=> Len(v) + 1 \in T(w)
  BY <1>3, More
<1>5. IsRecord(now) /\ now.n = m.n + 1
  BY <1>3, Replaced
<1>6. now.n = Len(w)
  BY <1>3, <1>5, More
<1> HIDE DEF now
<1>7. Keeps("take", AfterOnSource("take", now, x, c), w)
  BY <1>5, <1>6 DEF Keeps, AfterOnSource, Folding, Adding
<1> HIDE DEF w, T, c
<1> QED BY <1>1, <1>2, <1>4, <1>7, Picks DEF w

LEMMA TakeWhileFollows ==
    ASSUME NEW v \in Seq(Value), NEW x \in Value, NEW m, Keeps("takewhile", m, v),
           \A i \in 1 .. Len(v) : Truth(v[i])
    PROVE  Follows("takewhile", v, m, x)
<1> DEFINE w == Append(v, x)
           T(u) == {i \in DOMAIN u : \A j \in 1 .. i : Truth(u[j])}
<1>1. OnSource("takewhile", m, x) = EmitsIf(Truth(x), m, x) /\ Truth(x) \in BOOLEAN
  BY DEF OnSource, Batching, TakeWhileOn, Truth
<1>2. ByValues("takewhile", v) = Picked(v, T(v)) /\ ByValues("takewhile", w) = Picked(w, T(w))
  BY DEF ByValues
<1>3. /\ Len(v) \in Nat /\ DOMAIN v = 1 .. Len(v) /\ DOMAIN w = 1 .. Len(v) + 1
      /\ \A i \in 1 .. Len(v) : w[i] = v[i]
      /\ w[Len(v) + 1] = x
  BY More
<1> HIDE DEF w
<1>4. \A i \in 1 .. Len(v) : i \in T(w) <=> i \in T(v)
  BY <1>3
<1>5. Truth(x) <=> Len(v) + 1 \in T(w)
  BY <1>3
<1>6. Keeps("takewhile", AfterOnSource("takewhile", m, x, Truth(x)), w)
  BY DEF Keeps, AfterOnSource, Folding, Adding
<1> HIDE DEF T
<1> QED BY <1>1, <1>2, <1>4, <1>5, <1>6, Picks DEF w

LEMMA DropWhileFollows ==
    ASSUME NEW v \in Seq(Value), NEW x \in Value, NEW m, Keeps("dropwhile", m, v)
    PROVE  Follows("dropwhile", v, m, x)
<1> DEFINE w == Append(v, x)
           T(u) == {i \in DOMAIN u : \E j \in 1 .. i : Truth(u[j])}
           drop == m.drop /\ ~Truth(x)
           now == [m EXCEPT !.drop = drop]
<1>1. OnSource("dropwhile", m, x) = EmitsIf(~drop, now, x) /\ (~drop) \in BOOLEAN
  <2>1. OnSource("dropwhile", m, x) = DropWhileOn(m, x)
    BY DEF OnSource, Batching
  <2>2. DropWhileOn(m, x) = EmitsIf(~drop, now, x)
    BY Zenon DEF DropWhileOn
  <2>3. (~drop) \in BOOLEAN
    OBVIOUS
  <2> HIDE DEF drop, now
  <2> QED BY <2>1, <2>2, <2>3
<1>2. ByValues("dropwhile", v) = Picked(v, T(v)) /\ ByValues("dropwhile", w) = Picked(w, T(w))
  BY DEF ByValues
<1>3. /\ Len(v) \in Nat /\ DOMAIN v = 1 .. Len(v) /\ DOMAIN w = 1 .. Len(v) + 1
      /\ \A i \in 1 .. Len(v) : w[i] = v[i]
      /\ w[Len(v) + 1] = x /\ Len(w) = Len(v) + 1
  BY More
<1>4. m.drop = (\A i \in 1 .. Len(v) : ~Truth(v[i])) /\ IsRecord(m)
  BY DEF Keeps
<1> HIDE DEF w
<1>5. \A i \in 1 .. Len(v) : i \in T(w) <=> i \in T(v)
  BY <1>3
<1>6. drop <=> \A i \in 1 .. Len(v) + 1 : ~Truth(w[i])
  <2>1. m.drop <=> \A i \in 1 .. Len(v) : ~Truth(w[i])
    BY <1>3, <1>4
  <2> QED BY <1>3, <2>1
<1>7. ~drop <=> Len(v) + 1 \in T(w)
  <2>1. Len(v) + 1 \in DOMAIN w
    BY <1>3
  <2> HIDE DEF drop
  <2>2. ~drop <=> \E i \in 1 .. Len(v) + 1 : Truth(w[i])
    BY <1>6
  <2> QED BY <2>1, <2>2
<1>8. IsRecord(now) /\ now.drop = drop
  BY <1>4, Replaced
<1> HIDE DEF now
<1>9. Keeps("dropwhile", AfterOnSource("dropwhile", now, x, ~drop), w)
  <2>1. drop = (\A i \in 1 .. Len(w) : ~Truth(w[i]))
    <3>1. Len(w) = Len(v) + 1
      BY <1>3
    <3>2. drop \in BOOLEAN
      OBVIOUS
    <3> HIDE DEF drop
    <3> QED BY <1>6, <3>1, <3>2
  <2> QED BY <1>8, <2>1 DEF Keeps, AfterOnSource, Folding, Adding
<1> HIDE DEF T, drop
<1> QED BY <1>1, <1>2, <1>5, <1>7, <1>9, Picks DEF w

LEMMA ChangesFollows ==
    ASSUME NEW v \in Seq(Value), NEW x \in Value, NEW m, Keeps("changes", m, v)
    PROVE  Follows("changes", v, m, x)
<1> DEFINE w == Append(v, x)
           T(u) == {i \in DOMAIN u : i = 1 \/ u[i] # u[i - 1]}
           c == m.prev # <<x>>
           now == [m EXCEPT !.prev = <<x>>]
<1>1. OnSource("changes", m, x) = EmitsIf(c, m, x) /\ c \in BOOLEAN
  BY DEF OnSource, Batching, ChangesOn
<1>2. ByValues("changes", v) = Picked(v, T(v)) /\ ByValues("changes", w) = Picked(w, T(w))
  BY DEF ByValues
<1>3. /\ Len(v) \in Nat /\ DOMAIN v = 1 .. Len(v) /\ DOMAIN w = 1 .. Len(v) + 1
      /\ \A i \in 1 .. Len(v) : w[i] = v[i]
      /\ w[Len(v) + 1] = x /\ Len(w) = Len(v) + 1
      /\ One(w) = <<x>> /\ (v = <<>> <=> Len(v) = 0)
  BY More
<1>4. m.prev = One(v) /\ IsRecord(m)
  BY DEF Keeps
<1> HIDE DEF w
<1>5. \A i \in 1 .. Len(v) : i \in T(w) <=> i \in T(v)
  BY <1>3
<1>6. c <=> Len(v) + 1 \in T(w)
  <2>1. CASE v = <<>>
    <3>1. m.prev = <<>> /\ <<x>> # <<>>
      BY <1>4, <2>1 DEF One
    <3> QED BY <1>3, <2>1, <3>1
  <2>2. CASE v # <<>>
    <3>1. m.prev = <<v[Len(v)]>>
      BY <1>4, <2>2 DEF One
    <3>2. c <=> v[Len(v)] # x
      BY <3>1
    <3> HIDE DEF c
    <3>3. w[(Len(v) + 1) - 1] = v[Len(v)] /\ Len(v) # 0
      BY <1>3, <2>2
    <3> QED BY <1>3, <3>2, <3>3
  <2> QED BY <2>1, <2>2
<1>7. IsRecord(now) /\ now.prev = <<x>>
  BY <1>4, Replaced
<1>8. AfterOnSource("changes", m, x, c) = now
  BY DEF AfterOnSource
<1> HIDE DEF now
<1>9. Keeps("changes", AfterOnSource("changes", m, x, c), w)
  BY <1>3, <1>7, <1>8 DEF Keeps, Folding, Adding
<1> HIDE DEF T, c
<1> QED BY <1>1, <1>2, <1>5, <1>6, <1>9, Picks DEF w

LEMMA UniqueFollows ==
    ASSUME NEW v \in Seq(Value), NEW x \in Value, NEW m, Keeps("unique", m, v)
    PROVE  Follows("unique", v, m, x)
<1> DEFINE w == Append(v, x)
           T(u) == {i \in DOMAIN u : u[i] \notin UpTo(u, i - 1)}
           c == x \notin m.seen
           now == [m EXCEPT !.seen = @ \cup {x}]
<1>1. OnSource("unique", m, x) = EmitsIf(c, now, x) /\ c \in BOOLEAN
  BY DEF OnSource, Batching, UniqueOn
<1>2. ByValues("unique", v) = Picked(v, T(v)) /\ ByValues("unique", w) = Picked(w, T(w))
  BY DEF ByValues
<1>3. /\ Len(v) \in Nat /\ DOMAIN v = 1 .. Len(v) /\ DOMAIN w = 1 .. Len(v) + 1
      /\ \A i \in 1 .. Len(v) : w[i] = v[i]
      /\ w[Len(v) + 1] = x /\ Len(w) = Len(v) + 1
  BY More
<1>4. m.seen = UpTo(v, Len(v)) /\ IsRecord(m)
  BY DEF Keeps
<1> HIDE DEF w
<1>5. \A i \in 1 .. Len(v) : UpTo(w, i) = UpTo(v, i) /\ UpTo(w, i - 1) = UpTo(v, i - 1)
  BY <1>3 DEF UpTo
<1>6. UpTo(w, Len(v)) = UpTo(v, Len(v)) /\ UpTo(w, Len(w)) = UpTo(v, Len(v)) \cup {x}
  BY <1>3 DEF UpTo
<1>7. \A i \in 1 .. Len(v) : i \in T(w) <=> i \in T(v)
  BY <1>3, <1>5
<1>8. c <=> Len(v) + 1 \in T(w)
  <2>1. (Len(v) + 1) - 1 = Len(v)
    BY <1>3
  <2> QED BY <1>3, <1>4, <1>6, <2>1
<1>9. IsRecord(now) /\ now.seen = m.seen \cup {x}
  BY <1>4, Replaced
<1> HIDE DEF now
<1>10. Keeps("unique", AfterOnSource("unique", now, x, c), w)
  BY <1>4, <1>6, <1>9 DEF Keeps, AfterOnSource, Folding, Adding
<1> HIDE DEF T, c
<1> QED BY <1>1, <1>2, <1>7, <1>8, <1>10, Picks DEF w
-----------------------------------------------------------------------------
(* The handlers that emit something for every value, and those that do so only later. *)
LEMMA Maps ==
    ASSUME NEW v \in Seq(Value), NEW x \in Value, NEW k, NEW m, NEW now, NEW F, NEW G,
           NEW n \in Nat, Numbered(F, n), Numbered(G, n + 1), \A i \in 1 .. n : G[i] = F[i],
           ByValues(k, v) = F, ByValues(k, Append(v, x)) = G,
           OnSource(k, m, x) = Emits(now, G[n + 1]),
           Keeps(k, AfterOnSource(k, now, x, TRUE), Append(v, x))
    PROVE  Follows(k, v, m, x)
<1> DEFINE r == OnSource(k, m, x)
           y == G[n + 1]
<1> HIDE DEF y
<1>1. r.mem = now /\ r.out = <<y>>
  <2>1. r = Emits(now, y)
    BY DEF y
  <2> HIDE DEF r
  <2> QED BY ONLY <2>1 DEF Emits
<1>2. (r.out # <<>>) = TRUE
  <2>1. <<y>> # <<>>
    OBVIOUS
  <2> QED BY <1>1, <2>1
<1>3. G = F \o <<y>> /\ \E A : F \in Seq(A)
  BY Longer DEF y
<1> HIDE DEF r
<1>4. Keeps(k, AfterOnSource(k, r.mem, x, r.out # <<>>), Append(v, x))
  BY <1>1, <1>2
<1>5. Small(r.out)
  BY <1>1 DEF Small
<1> QED BY <1>1, <1>3, <1>4, <1>5 DEF Follows, r

LEMMA Stays ==
    ASSUME NEW v \in Seq(Value), NEW x \in Value, NEW k, NEW m, NEW now, NEW F,
           NEW n \in Nat, Numbered(F, n),
           ByValues(k, v) = F, ByValues(k, Append(v, x)) = F,
           OnSource(k, m, x) = Holds(now),
           Keeps(k, AfterOnSource(k, now, x, FALSE), Append(v, x))
    PROVE  Follows(k, v, m, x)
<1> DEFINE r == OnSource(k, m, x)
<1>1. r.mem = now /\ r.out = <<>>
  BY Outcome
<1>2. (r.out # <<>>) = FALSE
  BY <1>1
<1>3. F \o <<>> = F /\ \E A : F \in Seq(A)
  <2> DEFINE A == {F[i] : i \in 1 .. n}
  <2>1. F \in Seq(A)
    <3>1. \A i \in 1 .. n : F[i] \in A
      OBVIOUS
    <3> HIDE DEF A
    <3> QED BY <3>1, ASequence
  <2> HIDE DEF A
  <2>2. F \o <<>> = F
    BY ONLY <2>1
  <2> QED BY <2>1, <2>2
<1> HIDE DEF r
<1>4. Keeps(k, AfterOnSource(k, r.mem, x, r.out # <<>>), Append(v, x))
  BY <1>1, <1>2
<1>5. Small(r.out)
  BY <1>1 DEF Small
<1> QED BY <1>1, <1>3, <1>4, <1>5 DEF Follows, r

(* Iterate, Enumerate, Pairwise, and the classes whose on_source is emit. *)
LEMMA IterateFollows ==
    ASSUME NEW v \in Seq(Value), NEW x \in Value, NEW m, Keeps("iterate", m, v)
    PROVE  Follows("iterate", v, m, x)
<1> DEFINE w == Append(v, x)
           F(n) == [i \in 1 .. n |-> i - 1]
           c == m.n < Count
           now == [m EXCEPT !.n = @ + 1]
<1>1. OnSource("iterate", m, x) = EmitsIf(c, now, m.n)
  BY DEF OnSource, Batching, IterateOn
<1>2. /\ ByValues("iterate", v) = F(IF Len(v) < Count THEN Len(v) ELSE Count)
      /\ ByValues("iterate", w) = F(IF Len(w) < Count THEN Len(w) ELSE Count)
  BY DEF ByValues
<1>3. m.n = Len(v) /\ Count \in Nat /\ IsRecord(m)
  BY CountAssumption DEF Keeps
<1>4. Len(v) \in Nat /\ Len(w) = Len(v) + 1
  BY More
<1>5. IsRecord(now) /\ now.n = m.n + 1
  BY <1>3, Replaced
<1> HIDE DEF now, w
<1>6. \A e \in BOOLEAN : Keeps("iterate", AfterOnSource("iterate", now, x, e), w)
  BY <1>3, <1>4, <1>5 DEF Keeps, AfterOnSource, Folding, Adding
<1>7. \A n \in Nat : Numbered(F(n), n) /\ \A i \in 1 .. n : F(n)[i] = i - 1
  BY DEF Numbered
<1> HIDE DEF F
<1>8. CASE c
  <2>1. OnSource("iterate", m, x) = Emits(now, Len(v))
    BY <1>1, <1>3, <1>8 DEF EmitsIf
  <2>2. PICK n \in Nat : n = Len(v)
    BY <1>4
  <2>3. ByValues("iterate", v) = F(n) /\ ByValues("iterate", w) = F(n + 1)
    BY <1>2, <1>3, <1>4, <1>8, <2>2
  <2>4. F(n + 1)[n + 1] = n /\ n + 1 \in Nat
    BY <1>7
  <2>5. Numbered(F(n), n) /\ Numbered(F(n + 1), n + 1) /\ \A i \in 1 .. n : F(n + 1)[i] = F(n)[i]
    BY <1>7
  <2>6. Keeps("iterate", AfterOnSource("iterate", now, x, TRUE), w)
    BY <1>6
  <2> QED BY <2>1, <2>2, <2>3, <2>4, <2>5, <2>6, Maps DEF w
<1>9. CASE ~c
  <2>1. OnSource("iterate", m, x) = Holds(now)
    BY <1>1, <1>9 DEF EmitsIf
  <2>2. ByValues("iterate", v) = F(Count) /\ ByValues("iterate", w) = F(Count)
    BY <1>2, <1>3, <1>4, <1>9
  <2>3. Keeps("iterate", AfterOnSource("iterate", now, x, FALSE), w)
    BY <1>6
  <2>4. Numbered(F(Count), Count)
    BY <1>3, <1>7
  <2> QED BY <1>3, <2>1, <2>2, <2>3, <2>4, Stays DEF w
<1> QED BY <1>8, <1>9

LEMMA EnumerateFollows ==
    ASSUME NEW v \in Seq(Value), NEW x \in Value, NEW m, Keeps("enumerate", m, v)
    PROVE  Follows("enumerate", v, m, x)
<1> DEFINE w == Append(v, x)
           F(u) == [i \in DOMAIN u |-> <<i - 1, u[i]>>]
           now == [m EXCEPT !.n = @ + 1]
<1>1. OnSource("enumerate", m, x) = Emits(m, <<m.n, x>>)
  BY DEF OnSource, Batching, EnumerateOn
<1>2. ByValues("enumerate", v) = F(v) /\ ByValues("enumerate", w) = F(w)
  BY DEF ByValues
<1>3. m.n = Len(v) /\ IsRecord(m)
  BY DEF Keeps
<1>4. /\ Len(v) \in Nat /\ DOMAIN v = 1 .. Len(v) /\ DOMAIN w = 1 .. Len(v) + 1
      /\ \A i \in 1 .. Len(v) : w[i] = v[i]
      /\ w[Len(v) + 1] = x /\ Len(w) = Len(v) + 1
  BY More
<1>5. IsRecord(now) /\ now.n = m.n + 1
  BY <1>3, Replaced
<1>6. AfterOnSource("enumerate", m, x, TRUE) = now
  BY DEF AfterOnSource
<1> HIDE DEF now, w
<1>7. Keeps("enumerate", AfterOnSource("enumerate", m, x, TRUE), w)
  BY <1>3, <1>4, <1>5, <1>6 DEF Keeps, Folding, Adding
<1>8. Numbered(F(v), Len(v)) /\ Numbered(F(w), Len(v) + 1)
  BY <1>4 DEF Numbered
<1>9. /\ \A i \in 1 .. Len(v) : F(w)[i] = F(v)[i]
      /\ F(w)[Len(v) + 1] = <<m.n, x>>
  <2>1. (Len(v) + 1) - 1 = m.n /\ Len(v) + 1 \in DOMAIN w /\ \A i \in 1 .. Len(v) : i \in DOMAIN w
    BY <1>3, <1>4
  <2> QED BY <1>4, <2>1
<1> HIDE DEF F
<1> QED BY <1>1, <1>2, <1>4, <1>7, <1>8, <1>9, Maps DEF w

LEMMA Pair == ASSUME NEW a, NEW b PROVE <<a>> \o <<b>> = <<a, b>>
<1> DEFINE S == {a, b}
           q == <<a>>
           r == <<b>>
           p == <<a, b>>
<1>1. /\ q \in Seq(S) /\ Len(q) = 1 /\ q[1] = a
      /\ r \in Seq(S) /\ Len(r) = 1 /\ r[1] = b
  OBVIOUS
<1>2. p \in Seq(S) /\ Len(p) = 2 /\ p[1] = a /\ p[2] = b
  OBVIOUS
<1> HIDE DEF S, q, r, p
<1>3. /\ q \o r \in Seq(S) /\ Len(q \o r) = Len(q) + Len(r)
      /\ \A i \in 1 .. Len(q) : (q \o r)[i] = q[i]
      /\ \A i \in 1 .. Len(r) : (q \o r)[Len(q) + i] = r[i]
  <2>1. q \in Seq(S) /\ r \in Seq(S)
    BY <1>1
  <2> QED BY ONLY <2>1, Joined
<1>4. PICK t \in Seq(S) : t = q \o r
  BY <1>3
<1>5. Len(t) = 2 /\ t[1] = a /\ t[2] = b
  <2>1. 1 \in 1 .. Len(q) /\ 1 \in 1 .. Len(r) /\ Len(q) + 1 = 2
    BY <1>1
  <2>2. t[1] = q[1] /\ t[Len(q) + 1] = r[1]
    BY ONLY <1>3, <1>4, <2>1
  <2> QED BY <1>1, <1>3, <1>4, <2>1, <2>2
<1>6. \A i \in 1 .. Len(t) : t[i] = p[i]
  BY <1>2, <1>5
<1>7. t = p
  BY ONLY <1>2, <1>5, <1>6, SeqEqual, t \in Seq(S)
<1> QED BY <1>4, <1>7 DEF q, r, p

LEMMA PairwiseFollows ==
    ASSUME NEW v \in Seq(Value), NEW x \in Value, NEW m, Keeps("pairwise", m, v)
    PROVE  Follows("pairwise", v, m, x)
<1> DEFINE w == Append(v, x)
           F(u) == [i \in 1 .. Len(u) - 1 |-> <<u[i], u[i + 1]>>]
           now == [m EXCEPT !.prev = <<x>>]
<1>1. OnSource("pairwise", m, x) = EmitsIf(m.prev # <<>>, m, m.prev \o <<x>>)
  BY DEF OnSource, Batching, PairwiseOn
<1>2. ByValues("pairwise", v) = F(v) /\ ByValues("pairwise", w) = F(w)
  BY DEF ByValues
<1>3. m.prev = One(v) /\ IsRecord(m)
  BY DEF Keeps
<1>4. /\ Len(v) \in Nat /\ DOMAIN v = 1 .. Len(v) /\ DOMAIN w = 1 .. Len(v) + 1
      /\ \A i \in 1 .. Len(v) : w[i] = v[i]
      /\ w[Len(v) + 1] = x /\ Len(w) = Len(v) + 1
      /\ One(w) = <<x>> /\ (v = <<>> <=> Len(v) = 0)
  BY More
<1>5. IsRecord(now) /\ now.prev = <<x>>
  BY <1>3, Replaced
<1>6. \A e : AfterOnSource("pairwise", m, x, e) = now
  BY DEF AfterOnSource
<1> HIDE DEF now, w
<1>7. \A e : Keeps("pairwise", AfterOnSource("pairwise", m, x, e), w)
  BY <1>4, <1>5, <1>6 DEF Keeps, Folding, Adding
<1>8. CASE v = <<>>
  <2>1. m.prev = <<>>
    BY <1>3, <1>8 DEF One
  <2>2. OnSource("pairwise", m, x) = Holds(m)
    BY <1>1, <2>1 DEF EmitsIf
  <2>3. 1 .. Len(v) - 1 = {} /\ 1 .. Len(w) - 1 = {}
    BY <1>4, <1>8
  <2>4. F(v) = F(w) /\ Numbered(F(v), 0)
    <3>1. F(v) = F(w)
      BY <2>3
    <3>2. 1 .. 0 = {}
      OBVIOUS
    <3>3. Numbered(F(v), 0)
      BY <2>3, <3>2 DEF Numbered
    <3> QED BY <3>1, <3>3
  <2> HIDE DEF F
  <2> QED BY <1>2, <1>7, <2>2, <2>4, Stays DEF w
<1>9. CASE v # <<>>
  <2>1. PICK n \in Nat : n + 1 = Len(v)
    <3>1. Len(v) - 1 \in Nat /\ (Len(v) - 1) + 1 = Len(v)
      BY <1>4, <1>9
    <3> QED BY <3>1
  <2>2. m.prev = <<v[n + 1]>>
    BY <1>3, <1>9, <2>1 DEF One
  <2>3. m.prev # <<>>
    BY <2>2
  <2>4. m.prev \o <<x>> = <<v[n + 1], x>>
    BY <2>2, Pair
  <2>5. OnSource("pairwise", m, x) = Emits(m, <<v[n + 1], x>>)
    BY <1>1, <2>3, <2>4 DEF EmitsIf
  <2>6. Len(v) - 1 = n /\ Len(w) - 1 = n + 1
    <3>1. Len(v) = n + 1 /\ Len(w) = Len(v) + 1
      BY <1>4, <2>1
    <3> QED BY ONLY <3>1, n \in Nat
  <2>7. Numbered(F(v), n) /\ Numbered(F(w), n + 1)
    BY <2>6 DEF Numbered
  <2>8. /\ \A i \in 1 .. n : F(w)[i] = F(v)[i]
        /\ F(w)[n + 1] = <<v[n + 1], x>>
    <3>1. \A i \in 1 .. n + 1 : F(w)[i] = <<w[i], w[i + 1]>>
      BY <2>6
    <3>2. \A i \in 1 .. n : F(v)[i] = <<v[i], v[i + 1]>>
      BY <2>6
    <3>3. \A i \in 1 .. n : w[i] = v[i] /\ w[i + 1] = v[i + 1]
      BY <1>4, <2>1
    <3>4. w[n + 1] = v[n + 1] /\ w[(n + 1) + 1] = x /\ n + 1 \in 1 .. n + 1
      BY <1>4, <2>1
    <3> HIDE DEF F
    <3>5. ASSUME NEW i \in 1 .. n PROVE F(w)[i] = F(v)[i]
      <4>1. i \in 1 .. n + 1
        OBVIOUS
      <4>2. F(w)[i] = <<w[i], w[i + 1]>> /\ F(v)[i] = <<v[i], v[i + 1]>>
        BY <3>1, <3>2, <4>1
      <4> QED BY <3>3, <4>2
    <3> QED BY <3>1, <3>4, <3>5
  <2> HIDE DEF F
  <2> QED BY <1>2, <1>7, <2>5, <2>7, <2>8, Maps DEF w
<1> QED BY <1>8, <1>9

LEMMA PassFollows ==
    ASSUME NEW v \in Seq(Value), NEW x \in Value, NEW k \in {"takeuntil", "endonerror"}, NEW m,
           Keeps(k, m, v)
    PROVE  Follows(k, v, m, x)
<1> DEFINE w == Append(v, x)
<1>1. OnSource(k, m, x) = Emits(m, x)
  BY DEF OnSource, Batching, PassOn
<1>2. ByValues(k, v) = v /\ ByValues(k, w) = w
  BY DEF ByValues
<1>3. /\ Len(v) \in Nat /\ DOMAIN v = 1 .. Len(v) /\ DOMAIN w = 1 .. Len(v) + 1
      /\ \A i \in 1 .. Len(v) : w[i] = v[i]
      /\ w[Len(v) + 1] = x /\ Len(w) = Len(v) + 1 /\ w \in Seq(Value)
  BY More
<1> HIDE DEF w
<1>4. Numbered(v, Len(v)) /\ Numbered(w, Len(v) + 1)
  BY <1>3 DEF Numbered
<1>5. Keeps(k, AfterOnSource(k, m, x, TRUE), w)
  BY DEF Keeps, AfterOnSource, Folding, Adding
<1> QED BY <1>1, <1>2, <1>3, <1>4, <1>5, Maps DEF w
-----------------------------------------------------------------------------
Sum == [p \in Nat \X Nat |-> p[1] + p[2]]
Product == [p \in Nat \X Nat |-> p[1] * p[2]]

LEMMA Numbers == Value \subseteq Nat /\ \A y \in Value : y < Infinity /\ -Infinity < y
BY ValueAssumption

LEMMA EachNumber ==
    ASSUME NEW v \in Seq(Value), NEW j \in 1 .. Len(v)
    PROVE  v[j] \in Nat
<1>1. v[j] \in Value
  OBVIOUS
<1> QED BY <1>1, Numbers

(* What is folded stays in a set that the step does not leave. *)
LEMMA FoldedIn ==
    ASSUME NEW step \in [Nat \X Nat -> Nat], NEW start \in Nat, NEW v \in Seq(Value)
    PROVE  \A i \in Nat : i <= Len(v) => Folded(step, start, v, i) \in Nat
<1> DEFINE T == {i \in Nat : i <= Len(v) => Folded(step, start, v, i) \in Nat}
<1>1. 0 \in T
  <2>1. Folded(step, start, v, 0) = start
    BY FoldedNone
  <2> QED BY <2>1
<1>2. ASSUME NEW i \in T PROVE i + 1 \in T
  <2> SUFFICES ASSUME i + 1 <= Len(v) PROVE Folded(step, start, v, i + 1) \in Nat
    OBVIOUS
  <2>1. i \in Nat /\ Folded(step, start, v, i) \in Nat
    OBVIOUS
  <2> HIDE DEF T
  <2>2. Folded(step, start, v, i + 1) = Via(step, Folded(step, start, v, i), v[i + 1])
    <3>1. Alike(v, v, i)
      BY DEF Alike
    <3> QED BY ONLY <2>1, <3>1, FoldedNext
  <2>3. v[i + 1] \in Nat
    <3>1. i + 1 \in 1 .. Len(v)
      BY <2>1
    <3> QED BY <3>1, EachNumber
  <2> QED BY ONLY <2>1, <2>2, <2>3, step \in [Nat \X Nat -> Nat] DEF Via
<1>3. T = Nat
  <2> HIDE DEF T
  <2>1. T \in SUBSET Nat
    BY DEF T
  <2> QED BY <1>1, <1>2, <2>1, Induct
<1> QED BY <1>3

(* The total and the product of one value more. *)
LEMMA TotalNext ==
    ASSUME NEW v \in Seq(Value), NEW x \in Value
    PROVE  LET w == Append(v, x)
               n == Len(v)
           IN  /\ \A i \in 1 .. n : Total(w, i) = Total(v, i) /\ Multiplied(w, i) = Multiplied(v, i)
               /\ Total(w, n + 1) = Total(v, n) + x
               /\ Multiplied(w, n + 1) = Multiplied(v, n) * x
               /\ n = 0 => Total(v, n) = 0 /\ Multiplied(v, n) = 1
               /\ Total(v, n) \in Nat /\ Multiplied(v, n) \in Nat
<1> DEFINE w == Append(v, x)
<1>1. /\ Len(v) \in Nat /\ \A i \in 1 .. Len(v) : v[i] = w[i]
      /\ w[Len(v) + 1] = x /\ x \in Nat
  BY More, Numbers
<1> HIDE DEF w
<1>2. PICK n \in Nat : n = Len(v)
  BY <1>1
<1>3. /\ Sum \in [Nat \X Nat -> Nat] /\ Product \in [Nat \X Nat -> Nat]
      /\ \A a, b \in Nat : Via(Sum, a, b) = a + b /\ Via(Product, a, b) = a * b
  <2>1. Sum \in [Nat \X Nat -> Nat]
    BY DEF Sum
  <2>2. Product \in [Nat \X Nat -> Nat]
    BY DEF Product
  <2>3. \A a, b \in Nat : Via(Sum, a, b) = a + b
    BY DEF Via, Sum
  <2>4. \A a, b \in Nat : Via(Product, a, b) = a * b
    BY DEF Via, Product
  <2> QED BY <2>1, <2>2, <2>3, <2>4
<1>4. \A u, i : Total(u, i) = Folded(Sum, 0, u, i) /\ Multiplied(u, i) = Folded(Product, 1, u, i)
  BY DEF Total, Multiplied, Sum, Product
<1>5. ASSUME NEW i \in 1 .. n
      PROVE  Total(w, i) = Total(v, i) /\ Multiplied(w, i) = Multiplied(v, i)
  <2>1. i \in Nat /\ Alike(v, w, i)
    BY <1>1, <1>2 DEF Alike
  <2>2. Folded(Sum, 0, v, i) = Folded(Sum, 0, w, i)
    BY ONLY <2>1, FoldedAlike
  <2>3. Folded(Product, 1, v, i) = Folded(Product, 1, w, i)
    BY ONLY <2>1, FoldedAlike
  <2> QED BY <1>4, <2>2, <2>3
<1>6. n \in Nat /\ Alike(v, w, n)
  BY <1>1, <1>2 DEF Alike
<1>7. /\ Folded(Sum, 0, v, 0) = 0
      /\ Folded(Sum, 0, w, n + 1) = Via(Sum, Folded(Sum, 0, v, n), w[n + 1])
  <2>1. Folded(Sum, 0, v, 0) = 0
    BY ONLY FoldedNone
  <2>2. Folded(Sum, 0, w, n + 1) = Via(Sum, Folded(Sum, 0, v, n), w[n + 1])
    BY ONLY <1>6, FoldedNext
  <2> QED BY <2>1, <2>2
<1>8. /\ Folded(Product, 1, v, 0) = 1
      /\ Folded(Product, 1, w, n + 1) = Via(Product, Folded(Product, 1, v, n), w[n + 1])
  <2>1. Folded(Product, 1, v, 0) = 1
    BY ONLY FoldedNone
  <2>2. Folded(Product, 1, w, n + 1) = Via(Product, Folded(Product, 1, v, n), w[n + 1])
    BY ONLY <1>6, FoldedNext
  <2> QED BY <2>1, <2>2
<1>9. Folded(Sum, 0, v, n) \in Nat /\ Folded(Product, 1, v, n) \in Nat
  <2>1. n <= Len(v) /\ 0 \in Nat /\ 1 \in Nat
    BY <1>2
  <2> QED BY <1>2, <1>3, <2>1, FoldedIn
<1>10. Total(w, n + 1) = Total(v, n) + x
  BY <1>1, <1>2, <1>3, <1>4, <1>7, <1>9
<1>11. Multiplied(w, n + 1) = Multiplied(v, n) * x
  BY <1>1, <1>2, <1>3, <1>4, <1>8, <1>9
<1>12. n = 0 => Total(v, n) = 0 /\ Multiplied(v, n) = 1
  BY <1>4, <1>7, <1>8
<1> QED BY <1>2, <1>4, <1>5, <1>9, <1>10, <1>11, <1>12 DEF w

(* The set of the first values, of one more. *)
LEMMA UpToNext ==
    ASSUME NEW v \in Seq(Value), NEW x \in Value
    PROVE  LET w == Append(v, x)
               n == Len(v)
           IN  /\ \A i \in 0 .. n : UpTo(w, i) = UpTo(v, i)
               /\ UpTo(w, n + 1) = UpTo(v, n) \cup {x}
               /\ UpTo(v, n) \in SUBSET Nat
               /\ UpTo(v, n) = {} <=> n = 0
<1> DEFINE w == Append(v, x)
<1>1. /\ Len(v) \in Nat /\ \A i \in 1 .. Len(v) : v[i] = w[i] /\ v[i] \in Nat
      /\ w[Len(v) + 1] = x /\ x \in Nat
  BY More, Numbers, EachNumber
<1> HIDE DEF w
<1>2. \A i \in 0 .. Len(v) : UpTo(w, i) = UpTo(v, i)
  BY <1>1 DEF UpTo
<1>3. UpTo(w, Len(v) + 1) = UpTo(v, Len(v)) \cup {x}
  BY <1>1 DEF UpTo
<1>4. UpTo(v, Len(v)) \in SUBSET Nat
  BY <1>1 DEF UpTo
<1>5. UpTo(v, Len(v)) = {} <=> Len(v) = 0
  <2>1. CASE Len(v) = 0
    BY <2>1 DEF UpTo
  <2>2. CASE Len(v) # 0
    <3>1. 1 \in 1 .. Len(v)
      BY <1>1, <2>2
    <3>2. v[1] \in UpTo(v, Len(v))
      BY <3>1 DEF UpTo
    <3> QED BY <2>2, <3>2
  <2> QED BY <2>1, <2>2
<1> QED BY <1>2, <1>3, <1>4, <1>5 DEF w

(* The least and the greatest of a set of numbers with one more. *)
Lowest(a, S) == a \in S /\ \A y \in S : a <= y
Highest(a, S) == a \in S /\ \A y \in S : a >= y

(* Min and Max of a set are its least and its greatest element. *)
LEMMA Extremes ==
    ASSUME NEW S \in SUBSET Nat, NEW a \in Nat
    PROVE  /\ Lowest(a, S) => Min(S) = a
           /\ Highest(a, S) => Max(S) = a
<1>1. ASSUME Lowest(a, S) PROVE Min(S) = a
  <2>1. Lowest(Min(S), S)
    BY <1>1 DEF Lowest, Min
  <2>2. Min(S) \in Nat /\ Min(S) <= a /\ a <= Min(S)
    BY <1>1, <2>1 DEF Lowest
  <2> QED BY <2>2
<1>2. ASSUME Highest(a, S) PROVE Max(S) = a
  <2>1. Highest(Max(S), S)
    BY <1>2 DEF Highest, Max
  <2>2. Max(S) \in Nat /\ Max(S) <= a /\ a <= Max(S)
    BY <1>2, <2>1 DEF Highest
  <2> QED BY <2>2
<1> QED BY <1>1, <1>2

LEMMA ExtremesNext ==
    ASSUME NEW v \in Seq(Value), NEW x \in Value
    PROVE  LET w == Append(v, x)
               n == Len(v)
           IN  /\ n = 0 => Min(UpTo(w, n + 1)) = x /\ Max(UpTo(w, n + 1)) = x
               /\ n # 0 => /\ Min(UpTo(w, n + 1)) = Lesser(Min(UpTo(v, n)), x)
                           /\ Max(UpTo(w, n + 1)) = Greater(Max(UpTo(v, n)), x)
<1> SUFFICES ASSUME NEW n \in Nat, n = Len(v), NEW w, w = Append(v, x)
             PROVE  /\ n = 0 => Min(UpTo(w, n + 1)) = x /\ Max(UpTo(w, n + 1)) = x
                    /\ n # 0 => /\ Min(UpTo(w, n + 1)) = Lesser(Min(UpTo(v, n)), x)
                                /\ Max(UpTo(w, n + 1)) = Greater(Max(UpTo(v, n)), x)
  BY More
<1>1. /\ UpTo(w, n + 1) = UpTo(v, n) \cup {x}
      /\ UpTo(v, n) \in SUBSET Nat /\ x \in Nat
      /\ UpTo(v, n) = {} <=> n = 0
  BY UpToNext, Numbers
<1>2. UpTo(w, n + 1) \in SUBSET Nat
  BY <1>1
<1>3. CASE n = 0
  <2>1. UpTo(w, n + 1) = {x}
    BY <1>1, <1>3
  <2>2. Lowest(x, {x}) /\ Highest(x, {x})
    BY <1>1 DEF Lowest, Highest
  <2> QED BY <1>1, <1>2, <1>3, <2>1, <2>2, Extremes
<1>4. CASE n # 0
  <2> DEFINE T == UpTo(v, n)
  <2>1. T \in SUBSET Nat /\ T # {}
    BY <1>1, <1>4
  <2>2. PICK a \in Nat : Lowest(a, T)
    <3> HIDE DEF T
    <3> QED BY <2>1, Least DEF Lowest
  <2>3. PICK b \in Nat : Highest(b, T)
    <3>1. \A i \in Nat : i <= n => (i # 0 => \E b \in Nat : Highest(b, UpTo(v, i)))
      <4> DEFINE U == {i \in Nat : i <= n => (i # 0 => \E b \in Nat : Highest(b, UpTo(v, i)))}
      <4>1. 0 \in U
        OBVIOUS
      <4>2. ASSUME NEW i \in U PROVE i + 1 \in U
        <5> SUFFICES ASSUME i + 1 <= n PROVE \E b \in Nat : Highest(b, UpTo(v, i + 1))
          OBVIOUS
        <5>1. i \in Nat /\ (i # 0 => \E b \in Nat : Highest(b, UpTo(v, i)))
          OBVIOUS
        <5> HIDE DEF U
        <5>2. v[i + 1] \in Nat
          <6>1. i + 1 \in 1 .. Len(v)
            BY <5>1
          <6> QED BY <6>1, EachNumber
        <5>3. UpTo(v, i + 1) = UpTo(v, i) \cup {v[i + 1]}
          BY <5>1 DEF UpTo
        <5>4. CASE i = 0
          <6>1. UpTo(v, i) = {}
            BY <5>4 DEF UpTo
          <6>2. Highest(v[i + 1], UpTo(v, i + 1))
            BY <5>2, <5>3, <6>1 DEF Highest
          <6> QED BY <5>2, <6>2
        <5>5. CASE i # 0
          <6>1. PICK b \in Nat : Highest(b, UpTo(v, i))
            BY <5>1, <5>5
          <6>2. CASE b >= v[i + 1]
            BY <5>2, <5>3, <6>1, <6>2 DEF Highest
          <6>3. CASE ~(b >= v[i + 1])
            <7>1. \A y \in UpTo(v, i) : y \in Nat
              <8>1. \A j \in 1 .. i : v[j] \in Nat
                <9>1. \A j \in 1 .. i : j \in 1 .. Len(v)
                  BY <5>1
                <9> QED BY <9>1, EachNumber
              <8> QED BY <8>1 DEF UpTo
            <7>2. Highest(v[i + 1], UpTo(v, i + 1))
              BY <5>2, <5>3, <6>1, <6>3, <7>1 DEF Highest
            <7> QED BY <5>2, <7>2
          <6> QED BY <6>2, <6>3
        <5> QED BY <5>4, <5>5
      <4>3. U = Nat
        <5> HIDE DEF U
        <5>1. U \in SUBSET Nat
          BY DEF U
        <5> QED BY <4>1, <4>2, <5>1, Induct
      <4> QED BY <4>3
    <3> QED BY <1>4, <3>1
  <2> HIDE DEF T
  <2>4. Min(T) = a /\ Max(T) = b
    BY <2>1, <2>2, <2>3, Extremes
  <2>5. Lesser(a, x) \in Nat /\ Greater(b, x) \in Nat
    BY <1>1 DEF Lesser, Greater
  <2>6. Lowest(Lesser(a, x), T \cup {x})
    BY <1>1, <2>1, <2>2 DEF Lowest, Lesser
  <2>7. Highest(Greater(b, x), T \cup {x})
    BY <1>1, <2>1, <2>3 DEF Highest, Greater
  <2>8. T \cup {x} \in SUBSET Nat
    BY <1>1, <2>1
  <2>9. Min(T \cup {x}) = Lesser(a, x) /\ Max(T \cup {x}) = Greater(b, x)
    BY <2>5, <2>6, <2>7, <2>8, Extremes
  <2> QED BY <1>1, <1>4, <2>4, <2>9 DEF T
<1> QED BY <1>3, <1>4
-----------------------------------------------------------------------------
(* What one value more makes of what the values come to. *)
StartsAt(k, x) == IF k = "any" \/ k = "all" THEN Truth(x) ELSE x
Steps2(k, a, x) ==
    CASE k \in Adding -> a + x
      [] k = "product" -> a * x
      [] k = "min" -> Lesser(a, x)
      [] k = "max" -> Greater(a, x)
      [] k = "any" -> a \/ Truth(x)
      [] k = "all" -> a /\ Truth(x)

(* What the fold of a class comes to, of one value more. *)
LEMMA ComesToNext ==
    ASSUME NEW v \in Seq(Value), NEW x \in Value, NEW k \in Folding
    PROVE  LET w == Append(v, x)
               n == Len(v)
           IN  /\ \A i \in 1 .. n : ComesTo(k, w, i) = ComesTo(k, v, i)
               /\ n = 0 => ComesTo(k, w, n + 1) = StartsAt(k, x)
               /\ n # 0 => ComesTo(k, w, n + 1) = Steps2(k, ComesTo(k, v, n), x)
               /\ k \in {"any", "all"} => ComesTo(k, v, n) \in BOOLEAN
<1> SUFFICES ASSUME NEW n \in Nat, n = Len(v), NEW w, w = Append(v, x)
             PROVE  /\ \A i \in 1 .. n : ComesTo(k, w, i) = ComesTo(k, v, i)
                    /\ n = 0 => ComesTo(k, w, n + 1) = StartsAt(k, x)
                    /\ n # 0 => ComesTo(k, w, n + 1) = Steps2(k, ComesTo(k, v, n), x)
                    /\ k \in {"any", "all"} => ComesTo(k, v, n) \in BOOLEAN
  BY More
<1>1. x \in Nat
  BY Numbers
<1>2. CASE k \in Adding
  <2>1. \A u, i : ComesTo(k, u, i) = Total(u, i)
    BY <1>2 DEF ComesTo, Adding
  <2>2. /\ StartsAt(k, x) = x /\ \A a : Steps2(k, a, x) = a + x
        /\ k \notin {"any", "all"}
    BY <1>2 DEF StartsAt, Steps2, Adding
  <2>3. /\ \A i \in 1 .. n : Total(w, i) = Total(v, i)
        /\ Total(w, n + 1) = Total(v, n) + x
        /\ n = 0 => Total(v, n) = 0
    BY TotalNext
  <2> QED BY <1>1, <2>1, <2>2, <2>3
<1>3. CASE k = "product"
  <2>1. \A u, i : ComesTo(k, u, i) = Multiplied(u, i)
    BY <1>3 DEF ComesTo, Adding
  <2>2. StartsAt(k, x) = x /\ \A a : Steps2(k, a, x) = a * x
    BY <1>3 DEF StartsAt, Steps2, Adding
  <2>3. /\ \A i \in 1 .. n : Multiplied(w, i) = Multiplied(v, i)
        /\ Multiplied(w, n + 1) = Multiplied(v, n) * x
        /\ n = 0 => Multiplied(v, n) = 1
    BY TotalNext
  <2>4. 1 * x = x
    BY <1>1
  <2> QED BY <1>3, <2>1, <2>2, <2>3, <2>4
<1>4. /\ \A i \in 1 .. n : UpTo(w, i) = UpTo(v, i)
      /\ UpTo(w, n + 1) = UpTo(v, n) \cup {x}
      /\ UpTo(v, n) \in SUBSET Nat
      /\ UpTo(v, n) = {} <=> n = 0
  <2>1. \A i \in 1 .. n : i \in 0 .. n
    OBVIOUS
  <2> QED BY <2>1, UpToNext
<1>5. CASE k = "min"
  <2>1. \A u, i : ComesTo(k, u, i) = Min(UpTo(u, i))
    BY <1>5 DEF ComesTo, Adding
  <2>2. StartsAt(k, x) = x /\ \A a : Steps2(k, a, x) = Lesser(a, x)
    BY <1>5 DEF StartsAt, Steps2, Adding
  <2>3. /\ n = 0 => Min(UpTo(w, n + 1)) = x
        /\ n # 0 => Min(UpTo(w, n + 1)) = Lesser(Min(UpTo(v, n)), x)
    BY ExtremesNext
  <2> QED BY <1>4, <1>5, <2>1, <2>2, <2>3
<1>6. CASE k = "max"
  <2>1. \A u, i : ComesTo(k, u, i) = Max(UpTo(u, i))
    BY <1>6 DEF ComesTo, Adding
  <2>2. StartsAt(k, x) = x /\ \A a : Steps2(k, a, x) = Greater(a, x)
    BY <1>6 DEF StartsAt, Steps2, Adding
  <2>3. /\ n = 0 => Max(UpTo(w, n + 1)) = x
        /\ n # 0 => Max(UpTo(w, n + 1)) = Greater(Max(UpTo(v, n)), x)
    BY ExtremesNext
  <2> QED BY <1>4, <1>6, <2>1, <2>2, <2>3
<1>7. CASE k = "any"
  <2>1. \A u, i : ComesTo(k, u, i) = (UpTo(u, i) # {0})
    BY <1>7 DEF ComesTo, Adding
  <2>2. StartsAt(k, x) = (x # 0) /\ \A a : Steps2(k, a, x) = (a \/ x # 0)
    BY <1>7 DEF StartsAt, Steps2, Adding, Truth
  <2>3. \A i \in 1 .. n : ComesTo(k, w, i) = ComesTo(k, v, i)
    BY <1>4, <2>1
  <2>4. n = 0 => ComesTo(k, w, n + 1) = (x # 0)
    <3>1. n = 0 => UpTo(w, n + 1) = {x}
      BY <1>4
    <3>2. ({x} # {0}) <=> (x # 0)
      OBVIOUS
    <3> QED BY <2>1, <3>1, <3>2
  <2>5. n # 0 => ComesTo(k, w, n + 1) = ((UpTo(v, n) # {0}) \/ x # 0)
    <3> DEFINE S == UpTo(v, n)
    <3>1. n # 0 => S # {}
      BY <1>4
    <3> HIDE DEF S
    <3>2. S # {} => ((S \cup {x} # {0}) <=> (S # {0} \/ x # 0))
      OBVIOUS
    <3>3. ComesTo(k, w, n + 1) = (S \cup {x} # {0})
      BY <1>4, <2>1 DEF S
    <3> QED BY <3>1, <3>2, <3>3 DEF S
  <2>6. ComesTo(k, v, n) = (UpTo(v, n) # {0})
    BY <2>1
  <2> QED BY <1>7, <2>2, <2>3, <2>4, <2>5, <2>6
<1>8. CASE k = "all"
  <2>1. \A u, i : ComesTo(k, u, i) = (0 \notin UpTo(u, i))
    BY <1>8 DEF ComesTo, Adding
  <2>2. StartsAt(k, x) = (x # 0) /\ \A a : Steps2(k, a, x) = (a /\ x # 0)
    BY <1>8 DEF StartsAt, Steps2, Adding, Truth
  <2>3. \A i \in 1 .. n : ComesTo(k, w, i) = ComesTo(k, v, i)
    BY <1>4, <2>1
  <2>4. ComesTo(k, w, n + 1) = ((0 \notin UpTo(v, n)) /\ x # 0)
    <3>1. (0 \notin UpTo(w, n + 1)) <=> ((0 \notin UpTo(v, n)) /\ x # 0)
      BY <1>4
    <3> QED BY <2>1, <3>1
  <2>5. n = 0 => 0 \notin UpTo(v, n)
    BY <1>4
  <2>6. ComesTo(k, v, n) = (0 \notin UpTo(v, n))
    BY <2>1
  <2>7. n = 0 => ComesTo(k, w, n + 1) = (x # 0)
    BY <2>4, <2>5
  <2> QED BY <1>8, <2>2, <2>3, <2>4, <2>6, <2>7
<1> QED BY <1>2, <1>3, <1>5, <1>6, <1>7, <1>8 DEF Folding

(* The handlers that fold start and step in the same way. *)
LEMMA FoldsTo ==
    ASSUME NEW x \in Value, NEW m, NEW k \in (Folding \ Adding) \cup {"sum"}
    PROVE  LET now == IF m.prev = <<>> THEN StartsAt(k, x) ELSE Steps2(k, m.prev[1], x)
           IN  OnSource(k, m, x) = Emits([m EXCEPT !.prev = <<now>>], now)
<1>1. x \in Nat /\ x < Infinity /\ -Infinity < x /\ Infinity \in Nat
  BY Numbers, ValueAssumption
<1>2. CASE k = "sum"
  <2>1. OnSource(k, m, x) = SumOn(m, x)
    BY <1>2 DEF OnSource, Batching
  <2>2. StartsAt(k, x) = 0 + x /\ \A a : Steps2(k, a, x) = a + x
    BY <1>1, <1>2 DEF StartsAt, Steps2, Adding
  <2> QED BY <2>1, <2>2 DEF SumOn, Folds, Plus
<1>3. CASE k = "product"
  <2>1. OnSource(k, m, x) = ProductOn(m, x)
    BY <1>3 DEF OnSource, Batching
  <2>2. StartsAt(k, x) = 1 * x /\ \A a : Steps2(k, a, x) = a * x
    BY <1>1, <1>3 DEF StartsAt, Steps2, Adding
  <2> QED BY <2>1, <2>2 DEF ProductOn, Folds, Times
<1>4. CASE k = "min"
  <2>1. OnSource(k, m, x) = MinOn(m, x)
    BY <1>4 DEF OnSource, Batching
  <2>2. StartsAt(k, x) = Lesser(Infinity, x) /\ \A a : Steps2(k, a, x) = Lesser(a, x)
    <3>1. Lesser(Infinity, x) = x
      BY <1>1 DEF Lesser
    <3> QED BY <1>4, <3>1 DEF StartsAt, Steps2, Adding
  <2> QED BY <2>1, <2>2 DEF MinOn, Folds
<1>5. CASE k = "max"
  <2>1. OnSource(k, m, x) = MaxOn(m, x)
    BY <1>5 DEF OnSource, Batching
  <2>2. StartsAt(k, x) = Greater(-Infinity, x) /\ \A a : Steps2(k, a, x) = Greater(a, x)
    <3>1. Greater(-Infinity, x) = x
      BY <1>1 DEF Greater
    <3> QED BY <1>5, <3>1 DEF StartsAt, Steps2, Adding
  <2> QED BY <2>1, <2>2 DEF MaxOn, Folds
<1>6. CASE k = "any"
  <2>1. OnSource(k, m, x) = AnyOn(m, x)
    BY <1>6 DEF OnSource, Batching
  <2>2. StartsAt(k, x) = Or(FALSE, x) /\ \A a : Steps2(k, a, x) = Or(a, x)
    BY <1>6 DEF StartsAt, Steps2, Adding, Or, Truth
  <2> QED BY <2>1, <2>2 DEF AnyOn, Folds
<1>7. CASE k = "all"
  <2>1. OnSource(k, m, x) = AllOn(m, x)
    BY <1>7 DEF OnSource, Batching
  <2>2. StartsAt(k, x) = And(TRUE, x) /\ \A a : Steps2(k, a, x) = And(a, x)
    BY <1>7 DEF StartsAt, Steps2, Adding, And, Truth
  <2> QED BY <2>1, <2>2 DEF AllOn, Folds
<1> QED BY <1>2, <1>3, <1>4, <1>5, <1>6, <1>7 DEF Folding, Adding

(* What is kept after one value more, and what is emitted. *)
LEMMA FoldsOn ==
    ASSUME NEW v \in Seq(Value), NEW x \in Value, NEW k \in Folding, NEW m, Keeps(k, m, v)
    PROVE  LET w == Append(v, x)
               now == IF m.prev = <<>> THEN StartsAt(k, x) ELSE Steps2(k, m.prev[1], x)
           IN  /\ now = ComesTo(k, w, Len(v) + 1)
               /\ m.prev = <<>> <=> Len(v) = 0
               /\ v # <<>> => m.prev = <<ComesTo(k, v, Len(v))>>
<1>1. m.prev = IF v = <<>> THEN <<>> ELSE <<ComesTo(k, v, Len(v))>>
  BY DEF Keeps
<1>2. v = <<>> <=> Len(v) = 0
  BY More
<1>3. CASE v = <<>>
  <2>1. m.prev = <<>>
    BY <1>1, <1>3
  <2>2. ComesTo(k, Append(v, x), Len(v) + 1) = StartsAt(k, x)
    BY <1>2, <1>3, ComesToNext
  <2> QED BY <1>2, <1>3, <2>1, <2>2
<1>4. CASE v # <<>>
  <2> DEFINE a == ComesTo(k, v, Len(v))
  <2>1. ComesTo(k, Append(v, x), Len(v) + 1) = Steps2(k, a, x)
    BY <1>2, <1>4, ComesToNext
  <2> HIDE DEF a
  <2>2. m.prev = <<a>> /\ <<a>> # <<>> /\ <<a>>[1] = a
    BY <1>1, <1>4 DEF a
  <2> QED BY <1>2, <1>4, <2>1, <2>2 DEF a
<1> QED BY <1>3, <1>4

(* The classes that emit a fold of the values: Sum, Product, Min, Max, Any, All. *)
LEMMA FoldFollows ==
    ASSUME NEW v \in Seq(Value), NEW x \in Value, NEW k \in (Folding \ Adding) \cup {"sum"}, NEW m,
           Keeps(k, m, v)
    PROVE  Follows(k, v, m, x)
<1> DEFINE w == Append(v, x)
           F(u) == [i \in DOMAIN u |-> ComesTo(k, u, i)]
           y == ComesTo(k, w, Len(v) + 1)
           now == [m EXCEPT !.prev = <<y>>]
<1>1. k \in Folding
  BY DEF Folding, Adding
<1>2. OnSource(k, m, x) = Emits(now, y)
  <2>1. (IF m.prev = <<>> THEN StartsAt(k, x) ELSE Steps2(k, m.prev[1], x)) = y
    BY <1>1, FoldsOn
  <2> HIDE DEF y
  <2> QED BY <2>1, FoldsTo
<1>3. \A u : ByValues(k, u) = F(u)
  <2>1. k = "sum" \/ k = "product" \/ k = "min" \/ k = "max" \/ k = "any" \/ k = "all"
    BY DEF Folding, Adding
  <2>2. ASSUME k = "sum", NEW u PROVE ByValues(k, u) = F(u)
    BY <2>2 DEF ByValues, ComesTo, Adding
  <2>3. ASSUME k = "product", NEW u PROVE ByValues(k, u) = F(u)
    BY <2>3 DEF ByValues, ComesTo, Adding
  <2>4. ASSUME k = "min", NEW u PROVE ByValues(k, u) = F(u)
    BY <2>4 DEF ByValues, ComesTo, Adding
  <2>5. ASSUME k = "max", NEW u PROVE ByValues(k, u) = F(u)
    BY <2>5 DEF ByValues, ComesTo, Adding
  <2>6. ASSUME k = "any", NEW u PROVE ByValues(k, u) = F(u)
    BY <2>6 DEF ByValues, ComesTo, Adding
  <2>7. ASSUME k = "all", NEW u PROVE ByValues(k, u) = F(u)
    BY <2>7 DEF ByValues, ComesTo, Adding
  <2> QED BY <2>1, <2>2, <2>3, <2>4, <2>5, <2>6, <2>7
<1>4. /\ Len(v) \in Nat /\ DOMAIN v = 1 .. Len(v) /\ DOMAIN w = 1 .. Len(v) + 1
      /\ Len(w) = Len(v) + 1 /\ w # <<>>
  BY More
<1>5. IsRecord(now) /\ now.prev = <<y>>
  BY Replaced DEF Keeps
<1>6. \A i \in 1 .. Len(v) : ComesTo(k, w, i) = ComesTo(k, v, i)
  BY <1>1, ComesToNext
<1> HIDE DEF now, w
<1>7. Numbered(F(v), Len(v)) /\ Numbered(F(w), Len(v) + 1)
  BY <1>4 DEF Numbered
<1>8. \A i \in 1 .. Len(v) : F(w)[i] = F(v)[i]
  BY <1>4, <1>6
<1>9. F(w)[Len(v) + 1] = y
  BY <1>4
<1>10. AfterOnSource(k, now, x, TRUE) = now
  BY DEF AfterOnSource, Folding, Adding
<1>11. k \notin {"mean", "take", "iterate", "enumerate", "skip", "dropwhile", "changes", "last", "pairwise",
            "unique", "previous", "deque", "array", "list", "chunk"}
  BY DEF Folding, Adding
<1>12. Keeps(k, now, w)
  BY <1>4, <1>5, <1>11 DEF Keeps
<1> HIDE DEF F, y
<1> QED BY <1>2, <1>3, <1>4, <1>7, <1>8, <1>9, <1>10, <1>12, Maps DEF w
-----------------------------------------------------------------------------
(* Mean and Reduce. *)
LEMMA MeanFollows ==
    ASSUME NEW v \in Seq(Value), NEW x \in Value, NEW m, Keeps("mean", m, v)
    PROVE  Follows("mean", v, m, x)
<1> DEFINE w == Append(v, x)
           F(u) == [i \in DOMAIN u |-> <<Total(u, i), i>>]
           y == Total(w, Len(v) + 1)
           now == [m EXCEPT !.n = m.n + 1, !.prev = <<y>>]
<1>1. "mean" \in Folding /\ "mean" \in Adding
  BY DEF Folding, Adding
<1>2. \A u, i : ComesTo("mean", u, i) = Total(u, i)
  BY DEF ComesTo, Adding
<1>3. m.n = Len(v) /\ IsRecord(m)
  BY DEF Keeps
<1>4. (IF m.prev = <<>> THEN x ELSE m.prev[1] + x) = y
  <2>1. StartsAt("mean", x) = x /\ \A a : Steps2("mean", a, x) = a + x
    BY DEF StartsAt, Steps2, Adding
  <2>2. (IF m.prev = <<>> THEN StartsAt("mean", x) ELSE Steps2("mean", m.prev[1], x))
            = ComesTo("mean", w, Len(v) + 1)
    BY <1>1, FoldsOn
  <2> QED BY <1>2, <2>1, <2>2
<1> HIDE DEF y
<1>5. OnSource("mean", m, x) = Emits(now, <<y, m.n + 1>>)
  <2>1. OnSource("mean", m, x) = MeanOn(m, x)
    BY DEF OnSource, Batching
  <2>2. MeanOn(m, x) = Emits(now, <<y, m.n + 1>>)
    BY <1>4 DEF MeanOn
  <2> QED BY <2>1, <2>2
<1>6. \A u : ByValues("mean", u) = F(u)
  BY DEF ByValues
<1>7. /\ Len(v) \in Nat /\ DOMAIN v = 1 .. Len(v) /\ DOMAIN w = 1 .. Len(v) + 1
      /\ Len(w) = Len(v) + 1 /\ w # <<>>
  BY More
<1>8. IsRecord(now) /\ now.prev = <<y>> /\ now.n = m.n + 1
  <2>1. \A e, d : LET z == [m EXCEPT !.n = e, !.prev = d] IN IsRecord(z) /\ z.n = e /\ z.prev = d
    BY <1>3, ReplacedTwo
  <2> QED BY <2>1
<1>9. \A i \in 1 .. Len(v) : Total(w, i) = Total(v, i)
  BY TotalNext
<1>10. ComesTo("mean", w, Len(w)) = y
  BY <1>2, <1>7 DEF y
<1> HIDE DEF now, w
<1>11. Numbered(F(v), Len(v)) /\ Numbered(F(w), Len(v) + 1)
  BY <1>7 DEF Numbered
<1>12. \A i \in 1 .. Len(v) : F(w)[i] = F(v)[i]
  BY <1>7, <1>9
<1>13. F(w)[Len(v) + 1] = <<y, m.n + 1>>
  BY <1>3, <1>7 DEF y
<1>14. AfterOnSource("mean", now, x, TRUE) = now
  BY DEF AfterOnSource
<1>15. Keeps("mean", now, w)
  BY <1>3, <1>7, <1>8, <1>10 DEF Keeps
<1> HIDE DEF F
<1> QED BY <1>5, <1>6, <1>7, <1>11, <1>12, <1>13, <1>14, <1>15, Maps DEF w

LEMMA ReduceFollows ==
    ASSUME NEW v \in Seq(Value), NEW x \in Value, NEW m, Keeps("reduce", m, v)
    PROVE  Follows("reduce", v, m, x)
<1> DEFINE w == Append(v, x)
           F(u) == [i \in 1 .. Len(u) - 1 |-> Total(u, i + 1)]
           y == Total(w, Len(v) + 1)
           now == [m EXCEPT !.prev = <<y>>]
<1>1. "reduce" \in Folding /\ "reduce" \in Adding
  BY DEF Folding, Adding
<1>2. \A u, i : ComesTo("reduce", u, i) = Total(u, i)
  BY DEF ComesTo, Adding
<1>3. IsRecord(m) /\ m.prev = IF v = <<>> THEN <<>> ELSE <<ComesTo("reduce", v, Len(v))>>
  BY <1>1 DEF Keeps
<1>4. (IF m.prev = <<>> THEN x ELSE m.prev[1] + x) = y /\ (m.prev = <<>> <=> Len(v) = 0)
  <2>1. StartsAt("reduce", x) = x /\ \A a : Steps2("reduce", a, x) = a + x
    BY DEF StartsAt, Steps2, Adding
  <2>2. /\ (IF m.prev = <<>> THEN StartsAt("reduce", x) ELSE Steps2("reduce", m.prev[1], x))
            = ComesTo("reduce", w, Len(v) + 1)
        /\ m.prev = <<>> <=> Len(v) = 0
    BY <1>1, FoldsOn
  <2> QED BY <1>2, <2>1, <2>2
<1> HIDE DEF y
<1>5. OnSource("reduce", m, x) = IF m.prev = <<>> THEN Holds(now) ELSE Emits(now, y)
  <2>1. OnSource("reduce", m, x) = ReduceOn(m, x)
    BY DEF OnSource, Batching
  <2>2. CASE m.prev = <<>>
    BY <1>4, <2>1, <2>2 DEF ReduceOn
  <2>3. CASE m.prev # <<>>
    <3>1. ReduceOn(m, x) = Folds(Plus, 0, m, x)
      BY <2>3 DEF ReduceOn
    <3>2. Folds(Plus, 0, m, x) = Emits(now, y)
      BY <1>4, <2>3 DEF Folds, Plus
    <3> QED BY <2>1, <2>3, <3>1, <3>2
  <2> QED BY <2>2, <2>3
<1>6. \A u : ByValues("reduce", u) = F(u)
  BY DEF ByValues
<1>7. /\ Len(v) \in Nat /\ Len(w) = Len(v) + 1 /\ w # <<>>
  BY More
<1>8. IsRecord(now) /\ now.prev = <<y>>
  BY <1>3, Replaced
<1>9. \A i \in 1 .. Len(v) : Total(w, i) = Total(v, i)
  BY TotalNext
<1>10. ComesTo("reduce", w, Len(w)) = y
  BY <1>2, <1>7 DEF y
<1> HIDE DEF now, w
<1>11. \A e : AfterOnSource("reduce", now, x, e) = now
  BY DEF AfterOnSource
<1>12. Keeps("reduce", now, w)
  BY <1>7, <1>8, <1>10 DEF Keeps
<1>13. CASE Len(v) = 0
  <2>1. OnSource("reduce", m, x) = Holds(now)
    BY <1>4, <1>5, <1>13
  <2>2. 1 .. Len(v) - 1 = {} /\ 1 .. Len(w) - 1 = {} /\ 1 .. 0 = {}
    BY <1>7, <1>13
  <2>3. F(v) = F(w)
    BY <2>2
  <2>4. Numbered(F(v), 0)
    BY <2>2 DEF Numbered
  <2> HIDE DEF F
  <2> QED BY <1>6, <1>11, <1>12, <2>1, <2>3, <2>4, Stays DEF w
<1>14. CASE Len(v) # 0
  <2>1. OnSource("reduce", m, x) = Emits(now, y)
    BY <1>4, <1>5, <1>14
  <2>2. PICK n \in Nat : n + 1 = Len(v)
    <3>1. Len(v) - 1 \in Nat /\ (Len(v) - 1) + 1 = Len(v)
      BY <1>7, <1>14
    <3> QED BY <3>1
  <2>3. Len(v) - 1 = n /\ Len(w) - 1 = n + 1
    <3>1. Len(w) = Len(v) + 1
      BY <1>7
    <3> QED BY ONLY <2>2, <3>1, n \in Nat
  <2>4. Numbered(F(v), n) /\ Numbered(F(w), n + 1)
    BY <2>3 DEF Numbered
  <2>5. \A i \in 1 .. n + 1 : F(w)[i] = Total(w, i + 1)
    BY <2>3
  <2>6. \A i \in 1 .. n : F(v)[i] = Total(v, i + 1)
    BY <2>3
  <2> HIDE DEF F
  <2>7. ASSUME NEW i \in 1 .. n PROVE F(w)[i] = F(v)[i]
    <3>1. i \in 1 .. n + 1 /\ i + 1 \in 1 .. Len(v)
      BY <2>2
    <3> QED BY <1>9, <2>5, <2>6, <3>1
  <2>8. F(w)[n + 1] = y
    <3>1. n + 1 \in 1 .. n + 1 /\ (n + 1) + 1 = Len(v) + 1
      BY <2>2
    <3> QED BY <2>5, <3>1 DEF y
  <2> QED BY <1>6, <1>11, <1>12, <2>1, <2>4, <2>7, <2>8, Maps DEF w
<1> QED BY <1>13, <1>14
-----------------------------------------------------------------------------
(* The values after the a-th up to the b-th. *)
IsSlice(B, s, v, a, b) ==
    s \in Seq(B) /\ Len(s) = b - a /\ \A i \in 1 .. b - a : s[i] = v[a + i]

(* A slice is a sequence of values. *)
LEMMA Sliced ==
    ASSUME NEW B, NEW v \in Seq(B), NEW a \in Nat, NEW b \in Nat, a <= b, b <= Len(v)
    PROVE  IsSlice(B, Slice(v, a, b), v, a, b)
<1> DEFINE s == [i \in 1 .. b - a |-> v[a + i]]
<1>1. b - a \in Nat /\ \A i \in 1 .. b - a : v[a + i] \in B
  <2>1. \A i \in 1 .. b - a : a + i \in 1 .. Len(v)
    OBVIOUS
  <2>2. \A j \in 1 .. Len(v) : v[j] \in B
    OBVIOUS
  <2>3. b - a \in Nat
    OBVIOUS
  <2> QED BY ONLY <2>1, <2>2, <2>3
<1>2. s \in [1 .. b - a -> B] /\ \A i \in 1 .. b - a : s[i] = v[a + i]
  BY <1>1
<1>3. Slice(v, a, b) = s
  BY DEF Slice
<1> HIDE DEF s
<1>4. s \in Seq(B) /\ Len(s) = b - a
  BY ONLY <1>1, <1>2
<1> QED BY <1>2, <1>3, <1>4 DEF IsSlice

(* One value more after the slice, or in it. *)
LEMMA SliceSame ==
    ASSUME NEW B, NEW v \in Seq(B), NEW w \in Seq(B), NEW a \in Nat, NEW b \in Nat, a <= b,
           b <= Len(v), b <= Len(w), \A i \in 1 .. b : w[i] = v[i]
    PROVE  Slice(w, a, b) = Slice(v, a, b)
<1>1. PICK s : s = Slice(v, a, b)
  OBVIOUS
<1>2. PICK t : t = Slice(w, a, b)
  OBVIOUS
<1>3. IsSlice(B, s, v, a, b)
  BY <1>1, Sliced
<1>4. IsSlice(B, t, w, a, b)
  BY <1>2, Sliced
<1>5. \A i \in 1 .. b - a : a + i \in 1 .. b
  OBVIOUS
<1>6. \A i \in 1 .. b - a : t[i] = s[i]
  BY ONLY <1>3, <1>4, <1>5, \A i \in 1 .. b : w[i] = v[i] DEF IsSlice
<1>7. t = s
  BY ONLY <1>3, <1>4, <1>6, SeqEqual DEF IsSlice
<1> QED BY <1>1, <1>2, <1>7

LEMMA SliceMore ==
    ASSUME NEW B, NEW v \in Seq(B), NEW w \in Seq(B), NEW a \in Nat, NEW b \in Nat, a <= b,
           b <= Len(v), b + 1 <= Len(w), \A i \in 1 .. b : w[i] = v[i]
    PROVE  Slice(w, a, b + 1) = Append(Slice(v, a, b), w[b + 1])
<1>1. PICK s : s = Slice(v, a, b)
  OBVIOUS
<1>2. PICK t : t = Slice(w, a, b + 1)
  OBVIOUS
<1>3. IsSlice(B, s, v, a, b)
  BY <1>1, Sliced
<1>4. IsSlice(B, t, w, a, b + 1)
  <2>1. b + 1 \in Nat /\ a <= b + 1
    OBVIOUS
  <2> QED BY ONLY <1>2, <2>1, a \in Nat, w \in Seq(B), b + 1 <= Len(w), Sliced
<1>5. PICK c \in Nat : c = b - a
  OBVIOUS
<1>6. (b + 1) - a = c + 1 /\ a + (c + 1) = b + 1 /\ \A i \in 1 .. c : a + i \in 1 .. b
  BY <1>5
<1>7. s \in Seq(B) /\ Len(s) = c /\ \A i \in 1 .. c : s[i] = v[a + i]
  BY ONLY <1>3, <1>5 DEF IsSlice
<1>8. t \in Seq(B) /\ Len(t) = c + 1 /\ \A i \in 1 .. c + 1 : t[i] = w[a + i]
  BY ONLY <1>4, <1>6 DEF IsSlice
<1>9. PICK x : x = w[b + 1]
  OBVIOUS
<1>10. x \in B
  <2>1. b + 1 \in 1 .. Len(w)
    OBVIOUS
  <2> QED BY <1>9, <2>1
<1>11. PICK q : q = Append(s, x)
  OBVIOUS
<1>12. q \in Seq(B) /\ Len(q) = c + 1 /\ (\A i \in 1 .. c : q[i] = s[i]) /\ q[c + 1] = x
  BY ONLY <1>7, <1>10, <1>11, Grown
<1>13. ASSUME NEW i \in 1 .. c + 1 PROVE t[i] = q[i]
  <2>1. CASE i = c + 1
    BY ONLY <1>6, <1>8, <1>9, <1>12, <2>1, i \in 1 .. c + 1
  <2>2. CASE i # c + 1
    <3>1. i \in 1 .. c
      BY <2>2
    <3>2. a + i \in 1 .. b
      BY <1>6, <3>1
    <3> QED BY ONLY <1>7, <1>8, <1>12, <3>1, <3>2, i \in 1 .. c + 1, \A j \in 1 .. b : w[j] = v[j]
  <2> QED BY <2>1, <2>2
<1>14. t = q
  BY ONLY <1>8, <1>12, <1>13, SeqEqual
<1> QED BY <1>1, <1>2, <1>9, <1>11, <1>14
-----------------------------------------------------------------------------
(* A slice without its first value. *)
LEMMA SliceTail ==
    ASSUME NEW B, NEW v \in Seq(B), NEW a \in Nat, NEW b \in Nat, a < b, b <= Len(v)
    PROVE  /\ Tail(Slice(v, a, b)) = Slice(v, a + 1, b)
           /\ Head(Slice(v, a, b)) = v[a + 1]
           /\ Len(Slice(v, a, b)) = b - a
<1>1. PICK s : s = Slice(v, a, b)
  OBVIOUS
<1>2. PICK t : t = Slice(v, a + 1, b)
  OBVIOUS
<1>3. IsSlice(B, s, v, a, b)
  BY <1>1, Sliced
<1>4. IsSlice(B, t, v, a + 1, b)
  <2>1. a + 1 \in Nat /\ a + 1 <= b
    OBVIOUS
  <2> QED BY ONLY <1>2, <2>1, b \in Nat, v \in Seq(B), b <= Len(v), Sliced
<1>5. PICK c \in Nat : c + 1 = b - a
  <2>1. b - a - 1 \in Nat /\ (b - a - 1) + 1 = b - a
    OBVIOUS
  <2> QED BY <2>1
<1>6. b - (a + 1) = c /\ \A i \in 1 .. c : a + (i + 1) = (a + 1) + i /\ i + 1 \in 1 .. c + 1
  BY <1>5
<1>7. s \in Seq(B) /\ Len(s) = c + 1 /\ \A i \in 1 .. c + 1 : s[i] = v[a + i]
  BY ONLY <1>3, <1>5 DEF IsSlice
<1>8. t \in Seq(B) /\ Len(t) = c /\ \A i \in 1 .. c : t[i] = v[(a + 1) + i]
  BY ONLY <1>4, <1>6 DEF IsSlice
<1>9. PICK u : u = Tail(s)
  OBVIOUS
<1>10. u \in Seq(B) /\ Len(u) = c /\ \A i \in 1 .. c : u[i] = s[i + 1]
  <2>1. s # <<>>
    BY <1>7
  <2> QED BY ONLY <1>7, <1>9, <2>1, c \in Nat
<1>11. ASSUME NEW i \in 1 .. c PROVE u[i] = t[i]
  <2>1. i + 1 \in 1 .. c + 1 /\ a + (i + 1) = (a + 1) + i
    BY <1>6
  <2> QED BY ONLY <1>7, <1>8, <1>10, <2>1, i \in 1 .. c
<1>12. u = t
  BY ONLY <1>8, <1>10, <1>11, SeqEqual
<1>13. Head(s) = v[a + 1]
  <2>1. s # <<>> /\ 1 \in 1 .. c + 1
    BY <1>7
  <2> QED BY ONLY <1>7, <2>1
<1> QED BY <1>1, <1>2, <1>5, <1>7, <1>9, <1>12, <1>13

(* The last Count values, of one more. *)
Shifts(v, w, n, x) ==
    /\ \A i \in 1 .. n : Latest(w, i) = Latest(v, i)
    /\ Len(Latest(v, n)) = IF n < Count THEN n ELSE Count
    /\ n < Count => Latest(w, n + 1) = Append(Latest(v, n), x)
    /\ n >= Count => /\ Latest(w, n + 1) = Tail(Append(Latest(v, n), x))
                     /\ Latest(w, n + 1) = Append(Tail(Latest(v, n)), x)
                     /\ Head(Append(Latest(v, n), x)) = v[(n - Count) + 1]

(* The last Count values, of one value more. *)
LEMMA LatestNext ==
    ASSUME NEW v \in Seq(Value), NEW x \in Value, NEW n \in Nat, n = Len(v),
           NEW w, w = Append(v, x)
    PROVE  Shifts(v, w, n, x)
<1>1. /\ w \in Seq(Value) /\ Len(w) = n + 1 /\ w[n + 1] = x
      /\ \A i \in 1 .. n : w[i] = v[i]
  BY More
<1>2. Count \in Nat /\ Count >= 1
  BY CountAssumption
<1> DEFINE From(i) == IF i > Count THEN i - Count ELSE 0
<1>3. \A i \in Nat : From(i) \in Nat /\ From(i) <= i /\ \A u : Latest(u, i) = Slice(u, From(i), i)
  BY <1>2 DEF Latest
<1>4. ASSUME NEW i \in 1 .. n PROVE Latest(w, i) = Latest(v, i)
  <2>1. PICK a \in Nat : a = From(i) /\ a <= i
    BY <1>3
  <2>2. i \in Nat /\ i <= Len(v) /\ i <= Len(w) /\ \A j \in 1 .. i : w[j] = v[j]
    BY <1>1
  <2>3. Slice(w, a, i) = Slice(v, a, i)
    BY ONLY <1>1, <2>1, <2>2, v \in Seq(Value), SliceSame
  <2> QED BY <1>3, <2>1, <2>2, <2>3
<1>5. PICK a \in Nat : a = From(n) /\ a <= n
  BY <1>3
<1>6. PICK s : s = Slice(v, a, n)
  OBVIOUS
<1>7. Latest(v, n) = s
  BY <1>3, <1>5, <1>6
<1>8. s \in Seq(Value) /\ Len(s) = n - a
  <2>1. n <= Len(v)
    OBVIOUS
  <2>2. IsSlice(Value, s, v, a, n)
    BY ONLY <1>5, <1>6, <2>1, v \in Seq(Value), n \in Nat, Sliced
  <2> QED BY <2>2 DEF IsSlice
<1>9. Len(Latest(v, n)) = IF n < Count THEN n ELSE Count
  <2>1. a = IF n > Count THEN n - Count ELSE 0
    BY <1>5
  <2>2. n - a = IF n < Count THEN n ELSE Count
    BY ONLY <1>2, <2>1, n \in Nat
  <2> QED BY ONLY <1>7, <1>8, <2>2
<1>10. Slice(w, a, n + 1) = Append(s, x)
  <2>1. n <= Len(v) /\ n + 1 <= Len(w)
    BY <1>1
  <2>2. Slice(w, a, n + 1) = Append(Slice(v, a, n), w[n + 1])
    <3>1. a \in Nat /\ a <= n
      BY <1>5
    <3> QED BY ONLY <1>1, <2>1, <3>1, v \in Seq(Value), n \in Nat, SliceMore
  <2> QED BY <1>1, <1>6, <2>2
<1>11. ASSUME n < Count PROVE Latest(w, n + 1) = Append(Latest(v, n), x)
  <2>1. From(n + 1) = a /\ n + 1 \in Nat
    BY <1>2, <1>5, <1>11
  <2> HIDE DEF From
  <2>2. Latest(w, n + 1) = Slice(w, a, n + 1)
    BY <1>3, <2>1
  <2> QED BY <1>7, <1>10, <2>2
<1>12. ASSUME n >= Count
       PROVE  /\ Latest(w, n + 1) = Tail(Append(Latest(v, n), x))
              /\ Latest(w, n + 1) = Append(Tail(Latest(v, n)), x)
              /\ Head(Append(Latest(v, n), x)) = v[(n - Count) + 1]
  <2>1. a = n - Count /\ From(n + 1) = a + 1 /\ n + 1 \in Nat /\ a < n /\ a + 1 \in 1 .. n
    BY <1>2, <1>5, <1>12
  <2>2. Latest(w, n + 1) = Slice(w, a + 1, n + 1)
    BY <1>3, <2>1
  <2> HIDE DEF From
  <2>3. /\ Tail(Slice(w, a, n + 1)) = Slice(w, a + 1, n + 1)
        /\ Head(Slice(w, a, n + 1)) = w[a + 1]
    <3>1. a < n + 1 /\ n + 1 <= Len(w)
      BY <1>1, <2>1
    <3> QED BY ONLY <1>1, <2>1, <3>1, a \in Nat, SliceTail
  <2>4. Tail(s) = Slice(v, a + 1, n)
    <3>1. n <= Len(v)
      OBVIOUS
    <3> QED BY ONLY <1>6, <2>1, <3>1, a \in Nat, n \in Nat, v \in Seq(Value), SliceTail
  <2>5. Slice(w, a + 1, n + 1) = Append(Slice(v, a + 1, n), w[n + 1])
    <3>1. n <= Len(v) /\ n + 1 <= Len(w) /\ a + 1 \in Nat /\ a + 1 <= n
      BY <1>1, <2>1
    <3> QED BY ONLY <1>1, <3>1, v \in Seq(Value), n \in Nat, SliceMore
  <2>6. w[a + 1] = v[a + 1]
    BY <1>1, <2>1
  <2> QED BY <1>1, <1>7, <1>10, <2>1, <2>2, <2>3, <2>4, <2>5, <2>6
<1> QED BY <1>4, <1>9, <1>11, <1>12 DEF Shifts
-----------------------------------------------------------------------------
(* Deque and the arrays, and Previous. *)
LEMMA WindowFollows ==
    ASSUME NEW v \in Seq(Value), NEW x \in Value, NEW k \in {"deque", "array"}, NEW m, Keeps(k, m, v)
    PROVE  Follows(k, v, m, x)
<1> DEFINE F(u) == [i \in DOMAIN u |-> Latest(u, i)]
<1>1. PICK w : w = Append(v, x)
  OBVIOUS
<1>2. PICK n \in Nat : n = Len(v)
  BY More
<1>3. DOMAIN v = 1 .. n /\ DOMAIN w = 1 .. n + 1 /\ Len(w) = n + 1
  BY <1>1, <1>2, More
<1>4. PICK y : y = Latest(w, n + 1)
  OBVIOUS
<1>5. m.list = Latest(v, n) /\ IsRecord(m) /\ Shifts(v, w, n, x)
  BY <1>1, <1>2, LatestNext DEF Keeps
<1>6. Window(m.list, x) = y
  <2>1. Count \in Nat
    BY CountAssumption
  <2>2. CASE n < Count
    <3>1. Len(m.list) # Count /\ y = Append(m.list, x)
      BY ONLY <1>4, <1>5, <2>1, <2>2, n \in Nat DEF Shifts
    <3> QED BY <3>1 DEF Window
  <2>3. CASE n >= Count
    <3>1. Len(m.list) = Count /\ y = Append(Tail(m.list), x)
      BY ONLY <1>4, <1>5, <2>1, <2>3, n \in Nat DEF Shifts
    <3> QED BY <3>1 DEF Window
  <2> QED BY <2>1, <2>2, <2>3
<1> DEFINE now == [m EXCEPT !.list = y]
<1>7. OnSource(k, m, x) = Emits(now, y)
  <2>1. OnSource(k, m, x) = Emits([m EXCEPT !.list = Window(m.list, x)], Window(m.list, x))
    BY DEF OnSource, Batching, DequeOn, ArrayOn
  <2> QED BY <1>6, <2>1
<1>8. IsRecord(now) /\ now.list = y
  BY <1>5, Replaced
<1> HIDE DEF now
<1>9. AfterOnSource(k, now, x, TRUE) = now
  BY DEF AfterOnSource
<1>10. Keeps(k, now, w)
  BY <1>3, <1>4, <1>8 DEF Keeps, Folding, Adding
<1>11. ByValues(k, v) = F(v) /\ ByValues(k, w) = F(w)
  BY DEF ByValues
<1>12. Numbered(F(v), n) /\ Numbered(F(w), n + 1)
  BY <1>3 DEF Numbered
<1>13. F(w)[n + 1] = y /\ \A i \in 1 .. n : F(w)[i] = Latest(w, i) /\ F(v)[i] = Latest(v, i)
  BY <1>3, <1>4
<1>14. \A i \in 1 .. n : F(w)[i] = F(v)[i]
  <2> HIDE DEF F
  <2>1. \A i \in 1 .. n : Latest(w, i) = Latest(v, i)
    BY <1>5 DEF Shifts
  <2> QED BY <1>13, <2>1
<1> HIDE DEF F
<1> QED BY <1>1, <1>7, <1>9, <1>10, <1>11, <1>12, <1>13, <1>14, Maps

LEMMA PreviousFollows ==
    ASSUME NEW v \in Seq(Value), NEW x \in Value, NEW m, Keeps("previous", m, v)
    PROVE  Follows("previous", v, m, x)
<1> DEFINE F(u) == Slice(u, 0, Len(u) - Count)
<1>1. PICK w : w = Append(v, x)
  OBVIOUS
<1>2. PICK n \in Nat : n = Len(v)
  BY More
<1>3. Len(w) = n + 1 /\ w \in Seq(Value) /\ (\A i \in 1 .. n : w[i] = v[i]) /\ Count \in Nat
  BY <1>1, <1>2, More, CountAssumption
<1>4. m.list = Latest(v, n) /\ IsRecord(m) /\ Shifts(v, w, n, x)
  BY <1>1, <1>2, LatestNext DEF Keeps
<1>5. PICK q : q = Append(m.list, x)
  OBVIOUS
<1>6. OnSource("previous", m, x) =
          IF Len(q) > Count THEN Emits([m EXCEPT !.list = Tail(q)], Head(q))
          ELSE Holds([m EXCEPT !.list = q])
  BY <1>5 DEF OnSource, Batching, PreviousOn
<1>7. Len(q) = Len(m.list) + 1
  <2>1. \E A : m.list \in Seq(A)
    <3>1. PICK a \in Nat : a = (IF n > Count THEN n - Count ELSE 0) /\ a <= n
      BY <1>3
    <3>2. n <= Len(v) /\ Latest(v, n) = Slice(v, a, n)
      BY <1>2, <3>1 DEF Latest
    <3>3. IsSlice(Value, Slice(v, a, n), v, a, n)
      BY ONLY <3>1, <3>2, n \in Nat, v \in Seq(Value), Sliced
    <3> QED BY <1>4, <3>2, <3>3 DEF IsSlice
  <2>2. PICK A : m.list \in Seq(A)
    BY <2>1
  <2>3. m.list \in Seq(A \cup {x}) /\ x \in A \cup {x}
    BY <2>2
  <2> QED BY <1>5, <2>3
<1>8. ByValues("previous", v) = F(v) /\ ByValues("previous", w) = F(w)
  BY DEF ByValues
<1>9. ASSUME NEW l, l = Latest(w, n + 1), NEW e
      PROVE  Keeps("previous", AfterOnSource("previous", [m EXCEPT !.list = l], x, e), w)
  <2>1. PICK now : now = [m EXCEPT !.list = l]
    OBVIOUS
  <2>2. IsRecord(now) /\ now.list = l
    BY <1>4, <2>1, Replaced
  <2>3. AfterOnSource("previous", now, x, e) = now
    BY DEF AfterOnSource
  <2>4. Keeps("previous", now, w)
    BY <1>3, <1>9, <2>2 DEF Keeps, Folding, Adding
  <2> QED BY <2>1, <2>3, <2>4
<1>10. CASE n < Count
  <2>1. Len(q) <= Count /\ Latest(w, n + 1) = q
    BY ONLY <1>3, <1>4, <1>5, <1>7, <1>10, n \in Nat DEF Shifts
  <2>2. OnSource("previous", m, x) = Holds([m EXCEPT !.list = q])
    <3>1. ~(Len(q) > Count)
      BY ONLY <1>3, <1>4, <1>7, <1>10, n \in Nat DEF Shifts
    <3> QED BY <1>6, <3>1
  <2>3. F(v) = <<>> /\ F(w) = <<>>
    <3>1. 1 .. (Len(v) - Count) - 0 = {} /\ 1 .. (Len(w) - Count) - 0 = {}
      BY <1>2, <1>3, <1>10
    <3>2. \A u, b : 1 .. b - 0 = {} => Slice(u, 0, b) = <<>>
      BY DEF Slice
    <3> QED BY <3>1, <3>2
  <2>4. Numbered(<<>>, 0)
    BY DEF Numbered
  <2> HIDE DEF F
  <2>5. Keeps("previous", AfterOnSource("previous", [m EXCEPT !.list = q], x, FALSE), w)
    BY <1>9, <2>1
  <2> QED BY <1>1, <1>8, <2>2, <2>3, <2>4, <2>5, Stays
<1>11. CASE n >= Count
  <2>1. PICK c \in Nat : c = n - Count
    BY <1>3, <1>11
  <2>2. Len(q) > Count /\ Latest(w, n + 1) = Tail(q) /\ Head(q) = v[c + 1]
    BY ONLY <1>3, <1>4, <1>5, <1>7, <1>11, <2>1, n \in Nat DEF Shifts
  <2>3. OnSource("previous", m, x) = Emits([m EXCEPT !.list = Tail(q)], Head(q))
    BY <1>6, <2>2
  <2>4. F(v) = Slice(v, 0, c) /\ F(w) = Slice(w, 0, c + 1)
    <3>1. Len(v) - Count = c /\ Len(w) - Count = c + 1
      BY <1>2, <1>3, <2>1
    <3> QED BY <3>1
  <2>5. \A u, b : Slice(u, 0, b) = [i \in 1 .. b - 0 |-> u[0 + i]]
    BY DEF Slice
  <2>6. /\ Numbered(Slice(v, 0, c), c) /\ Numbered(Slice(w, 0, c + 1), c + 1)
        /\ \A i \in 1 .. c : Slice(v, 0, c)[i] = v[i]
        /\ \A i \in 1 .. c + 1 : Slice(w, 0, c + 1)[i] = w[i]
    <3>1. c - 0 = c /\ (c + 1) - 0 = c + 1
      OBVIOUS
    <3>2. \A i \in 1 .. c + 1 : 0 + i = i
      OBVIOUS
    <3>3. \A i \in 1 .. c : 0 + i = i
      OBVIOUS
    <3> QED BY <2>5, <3>1, <3>2, <3>3 DEF Numbered
  <2>7. /\ \A i \in 1 .. c : Slice(w, 0, c + 1)[i] = Slice(v, 0, c)[i]
        /\ Slice(w, 0, c + 1)[c + 1] = Head(q)
    <3>1. \A i \in 1 .. c : i \in 1 .. c + 1 /\ i \in 1 .. n
      BY <1>3, <2>1
    <3>2. c + 1 \in 1 .. c + 1 /\ c + 1 \in 1 .. n
      BY <2>1, CountAssumption
    <3> QED BY <1>3, <2>2, <2>6, <3>1, <3>2
  <2> HIDE DEF F
  <2>8. Keeps("previous", AfterOnSource("previous", [m EXCEPT !.list = Tail(q)], x, TRUE), w)
    BY <1>9, <2>2
  <2>9. PICK E : E = Slice(v, 0, c)
    OBVIOUS
  <2>10. PICK G : G = Slice(w, 0, c + 1)
    OBVIOUS
  <2>11. PICK y : y = Head(q)
    OBVIOUS
  <2>12. PICK now : now = [m EXCEPT !.list = Tail(q)]
    OBVIOUS
  <2>13. Numbered(E, c) /\ Numbered(G, c + 1) /\ (\A i \in 1 .. c : G[i] = E[i]) /\ G[c + 1] = y
    BY ONLY <2>6, <2>7, <2>9, <2>10, <2>11
  <2>14. /\ ByValues("previous", v) = E /\ ByValues("previous", w) = G
         /\ OnSource("previous", m, x) = Emits(now, G[c + 1])
         /\ Keeps("previous", AfterOnSource("previous", now, x, TRUE), w)
    BY ONLY <1>8, <2>3, <2>4, <2>8, <2>9, <2>10, <2>11, <2>12, <2>13
  <2> QED BY ONLY <1>1, <2>13, <2>14, c \in Nat, v \in Seq(Value), x \in Value, Maps
<1> QED BY <1>3, <1>10, <1>11
-----------------------------------------------------------------------------
(* Quotients, by the definition of division. *)
LEMMA Divided ==
    ASSUME NEW n \in Nat, NEW c \in Nat \ {0}
    PROVE  n \div c \in Nat /\ (n \div c) * c <= n /\ n < (n \div c) * c + c
OBVIOUS

LEMMA Multiples ==
    ASSUME NEW c \in Nat \ {0}, NEW q \in Nat, NEW p \in Nat, p < q
    PROVE  p * c + c <= q * c
<1>1. PICK d \in Nat : q = p + 1 + d
  <2>1. q - p - 1 \in Nat /\ q = p + 1 + (q - p - 1)
    OBVIOUS
  <2> QED BY <2>1
<1>2. q * c = p * c + c + d * c /\ d * c >= 0
  BY <1>1
<1> QED BY <1>2

LEMMA OnlyQuotient ==
    ASSUME NEW c \in Nat \ {0}, NEW n \in Nat, NEW q \in Nat, q * c <= n, n < q * c + c
    PROVE  n \div c = q
<1>1. PICK p \in Nat : p = n \div c
  BY Divided
<1>2. p * c <= n /\ n < p * c + c
  BY <1>1, Divided
<1>3. p * c \in Nat /\ q * c \in Nat
  OBVIOUS
<1>4. ~(p < q)
  <2>1. p < q => p * c + c <= q * c
    BY ONLY Multiples, c \in Nat \ {0}, p \in Nat, q \in Nat
  <2> QED BY <1>2, <1>3, <2>1
<1>5. ~(q < p)
  <2>1. q < p => q * c + c <= p * c
    BY ONLY Multiples, c \in Nat \ {0}, p \in Nat, q \in Nat
  <2> QED BY <1>2, <1>3, <2>1
<1> QED BY <1>1, <1>4, <1>5

(* The chunks and what they leave, of one value more. *)
Cuts(v, w, l) ==
    /\ Len(l) = Count => Chunks(w) = Chunks(v) \o <<l>> /\ Rest(w) = <<>>
    /\ Len(l) # Count => Chunks(w) = Chunks(v) /\ Rest(w) = l

(* The chunks and the rest, of one value more. *)
LEMMA ChunksNext ==
    ASSUME NEW v \in Seq(Value), NEW x \in Value, NEW w, w = Append(v, x),
           NEW l, l = Append(Rest(v), x)
    PROVE  Cuts(v, w, l)
<1>1. PICK n \in Nat : n = Len(v)
  BY More
<1>2. /\ w \in Seq(Value) /\ Len(w) = n + 1 /\ w[n + 1] = x
      /\ \A i \in 1 .. n : w[i] = v[i]
  BY <1>1, More
<1>3. PICK c \in Nat \ {0} : c = Count
  BY CountAssumption
<1>4. PICK q \in Nat : q = n \div c
  BY Divided
<1>5. PICK b \in Nat : b = q * c
  OBVIOUS
<1>6. b <= n /\ n < b + c /\ (q + 1) * c = b + c
  <2>1. b <= n /\ n < b + c
    BY <1>4, <1>5, Divided
  <2>2. (q + 1) * c = b + c
    BY <1>5
  <2> QED BY <2>1, <2>2
<1>7. Rest(v) = Slice(v, b, n) /\ \A u : Chunks(u) = [i \in 1 .. Len(u) \div c |-> Slice(u, (i - 1) * c, i * c)]
  BY <1>1, <1>3, <1>4, <1>5 DEF Rest, Chunks
<1>8. PICK r : r = Slice(v, b, n)
  OBVIOUS
<1>9. r \in Seq(Value) /\ Len(r) = n - b
  <2>1. n <= Len(v)
    BY <1>1
  <2>2. IsSlice(Value, r, v, b, n)
    BY ONLY <1>6, <1>8, <2>1, v \in Seq(Value), n \in Nat, b \in Nat, Sliced
  <2> QED BY <2>2 DEF IsSlice
<1>10. l = Append(r, x) /\ Len(l) = (n - b) + 1
  <2>1. l = Append(r, x)
    BY <1>7, <1>8
  <2> QED BY ONLY <1>9, <2>1, x \in Value
<1>11. Slice(w, b, n + 1) = l
  <2>1. n <= Len(v) /\ n + 1 <= Len(w)
    BY <1>1, <1>2
  <2>2. Slice(w, b, n + 1) = Append(Slice(v, b, n), w[n + 1])
    <3>1. b <= n
      BY <1>6
    <3> QED BY ONLY <1>2, <2>1, <3>1, v \in Seq(Value), n \in Nat, b \in Nat, SliceMore
  <2> QED BY <1>2, <1>8, <1>10, <2>2
<1>12. ASSUME NEW i \in 1 .. q
       PROVE  Slice(w, (i - 1) * c, i * c) = Slice(v, (i - 1) * c, i * c)
  <2>1. PICK e \in Nat : e = (i - 1) * c
    OBVIOUS
  <2>2. PICK f \in Nat : f = i * c
    OBVIOUS
  <2>3. e <= f
    BY <2>1, <2>2
  <2>4. f <= b
    <3>1. CASE i = q
      BY <1>5, <2>2, <3>1
    <3>2. CASE i < q
      <4>1. i * c + c <= q * c
        BY ONLY Multiples, <3>2, c \in Nat \ {0}, i \in 1 .. q, q \in Nat
      <4> QED BY <1>5, <2>2, <4>1
    <3> QED BY <3>1, <3>2
  <2>5. f <= Len(v) /\ f <= Len(w) /\ \A j \in 1 .. f : w[j] = v[j]
    BY <1>1, <1>2, <1>6, <2>4
  <2>6. Slice(w, e, f) = Slice(v, e, f)
    BY ONLY <1>2, <2>3, <2>5, v \in Seq(Value), e \in Nat, f \in Nat, SliceSame
  <2> QED BY <2>1, <2>2, <2>6
<1>13. ASSUME Len(l) = Count PROVE Chunks(w) = Chunks(v) \o <<l>> /\ Rest(w) = <<>>
  <2>1. n + 1 = b + c
    BY <1>3, <1>6, <1>10, <1>13
  <2>2. (n + 1) \div c = q + 1
    <3>1. q + 1 \in Nat /\ n + 1 \in Nat /\ (q + 1) * c <= n + 1 /\ n + 1 < (q + 1) * c + c
      BY <1>6, <2>1
    <3> QED BY ONLY <3>1, c \in Nat \ {0}, OnlyQuotient
  <2>3. PICK E : E = Chunks(v)
    OBVIOUS
  <2>4. PICK G : G = Chunks(w)
    OBVIOUS
  <2>5. E = [i \in 1 .. q |-> Slice(v, (i - 1) * c, i * c)]
    BY <1>1, <1>4, <1>7, <2>3
  <2>6. G = [i \in 1 .. q + 1 |-> Slice(w, (i - 1) * c, i * c)]
    BY <1>2, <1>7, <2>2, <2>4
  <2>7. Numbered(E, q) /\ Numbered(G, q + 1)
    BY <2>5, <2>6 DEF Numbered
  <2>8. \A i \in 1 .. q : G[i] = E[i]
    BY <1>12, <2>5, <2>6
  <2>9. G[q + 1] = l
    <3>1. ((q + 1) - 1) * c = b /\ (q + 1) * c = n + 1 /\ q + 1 \in 1 .. q + 1
      BY <1>5, <1>6, <2>1
    <3> QED BY <1>11, <2>6, <3>1
  <2>10. G = E \o <<G[q + 1]>>
    BY ONLY <2>7, <2>8, q \in Nat, Longer
  <2>11. Rest(w) = <<>>
    <3>1. Rest(w) = Slice(w, n + 1, n + 1)
      BY <1>2, <1>3, <1>6, <2>1, <2>2 DEF Rest
    <3>2. 1 .. (n + 1) - (n + 1) = {}
      OBVIOUS
    <3>3. Slice(w, n + 1, n + 1) = <<>>
      BY <3>2 DEF Slice
    <3> QED BY <3>1, <3>3
  <2> QED BY <2>3, <2>4, <2>9, <2>10, <2>11
<1>14. ASSUME Len(l) # Count PROVE Chunks(w) = Chunks(v) /\ Rest(w) = l
  <2>1. n + 1 < b + c
    BY <1>3, <1>6, <1>10, <1>14
  <2>2. (n + 1) \div c = q
    <3>1. n + 1 \in Nat /\ q * c <= n + 1 /\ n + 1 < q * c + c
      BY <1>5, <1>6, <2>1
    <3> QED BY ONLY <3>1, q \in Nat, c \in Nat \ {0}, OnlyQuotient
  <2>3. Chunks(v) = [i \in 1 .. q |-> Slice(v, (i - 1) * c, i * c)]
    BY <1>1, <1>4, <1>7
  <2>4. Chunks(w) = [i \in 1 .. q |-> Slice(w, (i - 1) * c, i * c)]
    BY <1>2, <1>7, <2>2
  <2>5. Chunks(w) = Chunks(v)
    BY <1>12, <2>3, <2>4
  <2>6. Rest(w) = Slice(w, b, n + 1)
    BY <1>2, <1>3, <1>5, <2>2 DEF Rest
  <2> QED BY <1>11, <2>5, <2>6
<1> QED BY <1>13, <1>14 DEF Cuts
-----------------------------------------------------------------------------
ValueCall == {"value"} \X Value
Call == ValueCall \cup ({"end", "tick", "error"} \X {0})

(* The values that came, and whether something was told, with one call more. *)
LEMMA ValuesNext ==
    ASSUME NEW h \in Seq(Call), NEW c \in Call
    PROVE  /\ Values(h) \in Seq(Value)
           /\ c \in ValueCall => Values(Append(h, c)) = Append(Values(h), c[2])
           /\ c \notin ValueCall => Values(Append(h, c)) = Values(h)
<1> DEFINE g == Append(h, c)
           s == Keep(h, ValueCall)
           t == Keep(g, ValueCall)
<1>1. /\ s \in Seq(Call \cap ValueCall)
      /\ t = IF c \in ValueCall THEN Append(s, c) ELSE s
  BY KeepAppend
<1>2. PICK n \in Nat : n = Len(s)
  BY <1>1
<1>3. s \in Seq(ValueCall) /\ DOMAIN s = 1 .. n
  BY <1>1, <1>2
<1>4. /\ Values(h) = [i \in DOMAIN s |-> s[i][2]]
      /\ Values(g) = [i \in DOMAIN t |-> t[i][2]]
  BY DEF Values, ValueCall
<1> HIDE DEF s, t, g
<1>5. Values(h) \in Seq(Value) /\ Len(Values(h)) = n /\ \A i \in 1 .. n : Values(h)[i] = s[i][2]
  <2>1. PICK f : f = Values(h)
    OBVIOUS
  <2>2. f = [i \in 1 .. n |-> s[i][2]]
    BY <1>3, <1>4, <2>1
  <2>3. ASSUME NEW i \in 1 .. n PROVE f[i] \in Value
    <3>1. s[i] \in ValueCall
      BY <1>3
    <3> QED BY <2>2, <3>1 DEF ValueCall
  <2>4. Numbered(f, n)
    BY <2>2 DEF Numbered
  <2>5. f \in Seq(Value) /\ Len(f) = n
    BY ONLY <2>3, <2>4, n \in Nat, ASequence
  <2> QED BY <2>1, <2>2, <2>5
<1>6. ASSUME c \in ValueCall PROVE Values(g) = Append(Values(h), c[2])
  <2>1. PICK x \in Value : x = c[2]
    BY <1>6 DEF ValueCall
  <2>2. /\ t = Append(s, c) /\ t \in Seq(ValueCall) /\ DOMAIN t = 1 .. n + 1
        /\ \A i \in 1 .. n : t[i] = s[i]
        /\ t[n + 1] = c
    BY ONLY <1>1, <1>2, <1>3, <1>6, Grown
  <2>3. PICK f : f = Values(g)
    OBVIOUS
  <2>4. f = [i \in 1 .. n + 1 |-> t[i][2]]
    BY <1>4, <2>2, <2>3
  <2>5. PICK v \in Seq(Value) : v = Values(h)
    BY <1>5
  <2>6. PICK w : w = Append(v, x)
    OBVIOUS
  <2>7. /\ w \in Seq(Value) /\ Len(w) = n + 1 /\ w[n + 1] = x
        /\ \A i \in 1 .. n : w[i] = v[i]
    <3>1. Len(v) = n
      BY <1>5, <2>5
    <3> QED BY ONLY <2>6, <3>1, v \in Seq(Value), x \in Value, Grown
  <2>8. ASSUME NEW i \in 1 .. n + 1 PROVE f[i] = w[i]
    <3>1. CASE i = n + 1
      BY <2>1, <2>2, <2>4, <2>7, <3>1
    <3>2. CASE i # n + 1
      <4>1. i \in 1 .. n
        BY <3>2
      <4> QED BY <1>5, <2>2, <2>4, <2>5, <2>7, <4>1
    <3> QED BY <3>1, <3>2
  <2>9. Numbered(f, n + 1)
    BY <2>4 DEF Numbered
  <2>10. n + 1 \in Nat /\ \A i \in 1 .. n + 1 : f[i] \in Value
    BY <2>7, <2>8
  <2>11. f \in Seq(Value) /\ Len(f) = n + 1
    BY ONLY <2>9, <2>10, ASequence
  <2>12. f = w
    BY ONLY <2>7, <2>8, <2>11, SeqEqual
  <2> QED BY <2>1, <2>3, <2>5, <2>6, <2>12
<1>7. ASSUME c \notin ValueCall PROVE Values(g) = Values(h)
  BY <1>1, <1>4, <1>7
<1> QED BY <1>5, <1>6, <1>7 DEF g

LEMMA NoValues == Values(<<>>) = <<>> /\ \A w : ~Told(<<>>, w)
<1>1. PICK s : s = Keep(<<>>, {"value"} \X Value)
  OBVIOUS
<1>2. s = <<>> /\ DOMAIN s = 1 .. 0
  BY <1>1, KeepNone
<1>3. PICK f : f = Values(<<>>)
  OBVIOUS
<1>4. f = [i \in DOMAIN s |-> s[i][2]]
  BY <1>1, <1>3 DEF Values
<1>5. Numbered(f, 0)
  BY ONLY <1>2, <1>4 DEF Numbered
<1>6. 0 \in Nat /\ \A i \in 1 .. 0 : f[i] \in Value
  OBVIOUS
<1>7. f \in Seq(Value) /\ Len(f) = 0
  BY ONLY <1>5, <1>6, ASequence
<1>8. f = <<>>
  BY ONLY <1>7
<1>9. \A w : ~Told(<<>>, w)
  BY DEF Told
<1> QED BY <1>3, <1>8, <1>9

LEMMA ToldNext ==
    ASSUME NEW h \in Seq(Call), NEW c \in Call
    PROVE  \A w : Told(Append(h, c), w) <=> (Told(h, w) \/ c[1] = w)
<1> DEFINE g == Append(h, c)
<1>1. /\ Len(h) \in Nat /\ \A i \in 1 .. Len(h) : g[i] = h[i]
      /\ g[Len(h) + 1] = c /\ DOMAIN h = 1 .. Len(h) /\ DOMAIN g = 1 .. Len(h) + 1
  BY Grown
<1> HIDE DEF g
<1> SUFFICES ASSUME NEW w PROVE Told(g, w) <=> (Told(h, w) \/ c[1] = w)
  BY DEF g
<1>2. Told(g, w) => (Told(h, w) \/ c[1] = w)
  BY <1>1 DEF Told
<1>3. (Told(h, w) \/ c[1] = w) => Told(g, w)
  BY <1>1 DEF Told
<1> QED BY <1>2, <1>3
-----------------------------------------------------------------------------
(* The last call of some sorts before the (n + 1)-th. *)
Earlier(h, n, S) == {0} \cup {j \in 1 .. n : h[j][1] \in S}

(* The calls of some sorts among the first, of one call more. *)
LEMMA EarlierNext ==
    ASSUME NEW h, NEW S, NEW n \in Nat
    PROVE  /\ Earlier(h, 0, S) = {0}
           /\ Earlier(h, n, S) \in SUBSET Nat
           /\ \A j \in Earlier(h, n, S) : j <= n
           /\ Earlier(h, n + 1, S) = Earlier(h, n, S) \cup IF h[n + 1][1] \in S THEN {n + 1} ELSE {}
<1>1. Earlier(h, 0, S) = {0}
  BY DEF Earlier
<1>2. Earlier(h, n, S) \in SUBSET Nat
  BY DEF Earlier
<1>3. \A j \in Earlier(h, n, S) : j <= n
  BY DEF Earlier
<1>4. 1 .. n + 1 = (1 .. n) \cup {n + 1}
  OBVIOUS
<1>5. Earlier(h, n + 1, S) = Earlier(h, n, S) \cup IF h[n + 1][1] \in S THEN {n + 1} ELSE {}
  BY <1>4 DEF Earlier
<1> QED BY <1>1, <1>2, <1>3, <1>5

(* Prior is the last of them. *)
LEMMA PriorIs ==
    ASSUME NEW h, NEW S, NEW n \in Nat
    PROVE  Prior(h, n + 1, S) \in Nat /\ Highest(Prior(h, n + 1, S), Earlier(h, n, S))
<1> DEFINE T == {i \in Nat : \E a \in Nat : Highest(a, Earlier(h, i, S))}
<1>1. 0 \in T
  <2>1. Highest(0, Earlier(h, 0, S))
    BY EarlierNext DEF Highest
  <2> QED BY <2>1
<1>2. ASSUME NEW i \in T PROVE i + 1 \in T
  <2>1. PICK a \in Nat : Highest(a, Earlier(h, i, S))
    OBVIOUS
  <2>2. i \in Nat
    OBVIOUS
  <2>3. PICK E \in SUBSET Nat : E = Earlier(h, i, S) /\ \A j \in E : j <= i
    BY ONLY <2>2, EarlierNext
  <2>4. Earlier(h, i + 1, S) = E \cup IF h[i + 1][1] \in S THEN {i + 1} ELSE {}
    BY ONLY <2>2, <2>3, EarlierNext
  <2>5. CASE h[i + 1][1] \in S
    <3>1. Earlier(h, i + 1, S) = E \cup {i + 1}
      BY <2>4, <2>5
    <3>2. Highest(i + 1, E \cup {i + 1})
      BY ONLY <2>2, <2>3 DEF Highest
    <3> QED BY <2>2, <3>1, <3>2
  <2>6. CASE h[i + 1][1] \notin S
    <3>1. Earlier(h, i + 1, S) = E
      BY <2>4, <2>6
    <3> QED BY <2>1, <2>2, <2>3, <3>1
  <2> QED BY <2>5, <2>6
<1>3. T = Nat
  <2> HIDE DEF T
  <2>1. T \in SUBSET Nat
    BY DEF T
  <2> QED BY <1>1, <1>2, <2>1, Induct
<1>4. PICK a \in Nat : Highest(a, Earlier(h, n, S))
  BY <1>3
<1>5. Prior(h, n + 1, S) = Max(Earlier(h, n, S))
  <2>1. (n + 1) - 1 = n
    OBVIOUS
  <2> QED BY <2>1 DEF Prior, Earlier
<1>6. Earlier(h, n, S) \in SUBSET Nat
  BY EarlierNext
<1> QED BY <1>4, <1>5, <1>6, Extremes

Precedes(h, S, n) ==
    /\ Prior(h, n + 1, S) \in Nat /\ Prior(h, n + 1, S) <= n
    /\ Prior(h, 1, S) = 0
    /\ Prior(h, (n + 1) + 1, S) = IF h[n + 1][1] \in S THEN n + 1 ELSE Prior(h, n + 1, S)

LEMMA PriorNext ==
    ASSUME NEW h, NEW S, NEW n \in Nat
    PROVE  Precedes(h, S, n)
<1>1. PICK a \in Nat : a = Prior(h, n + 1, S)
  BY PriorIs
<1>2. Highest(a, Earlier(h, n, S))
  BY <1>1, PriorIs
<1>3. PICK E \in SUBSET Nat : E = Earlier(h, n, S) /\ \A j \in E : j <= n
  BY EarlierNext
<1>4. a \in E /\ a <= n
  BY <1>2, <1>3 DEF Highest
<1>5. PICK b : b = Prior(h, (n + 1) + 1, S)
  OBVIOUS
<1>6. b \in Nat /\ Highest(b, Earlier(h, n + 1, S))
  <2>1. n + 1 \in Nat
    OBVIOUS
  <2> QED BY ONLY <1>5, <2>1, PriorIs
<1>7. Earlier(h, n + 1, S) = E \cup IF h[n + 1][1] \in S THEN {n + 1} ELSE {}
  BY <1>3, EarlierNext
<1>9. Prior(h, 1, S) = 0
  <2>1. Prior(h, 0 + 1, S) \in Nat /\ Highest(Prior(h, 0 + 1, S), Earlier(h, 0, S))
    BY PriorIs
  <2>2. Earlier(h, 0, S) = {0} /\ 0 + 1 = 1
    BY EarlierNext
  <2> QED BY <2>1, <2>2 DEF Highest
<1>8. CASE h[n + 1][1] \in S
  <2>1. Highest(b, E \cup {n + 1})
    BY <1>6, <1>7, <1>8
  <2>2. b = n + 1
    BY ONLY <1>3, <1>6, <2>1, n \in Nat DEF Highest
  <2> QED BY <1>1, <1>4, <1>5, <1>8, <1>9, <2>2 DEF Precedes
<1>10. CASE h[n + 1][1] \notin S
  <2>1. Highest(b, E)
    BY <1>6, <1>7, <1>10
  <2>2. b = a
    BY ONLY <1>2, <1>3, <1>6, <2>1, a \in Nat DEF Highest
  <2> QED BY <1>1, <1>4, <1>5, <1>9, <1>10, <2>2 DEF Precedes
<1> QED BY <1>8, <1>10

(* Prior of calls that agree, and of one call more. *)
LEMMA PriorIn ==
    ASSUME NEW h, NEW S, NEW n \in Nat
    PROVE  Prior(h, n + 1, S) \in Nat /\ Prior(h, n + 1, S) <= n
<1>1. Precedes(h, S, n)
  BY PriorNext
<1> QED BY ONLY <1>1 DEF Precedes

LEMMA PriorStep ==
    ASSUME NEW h, NEW S, NEW n \in Nat
    PROVE  Prior(h, (n + 1) + 1, S) = IF h[n + 1][1] \in S THEN n + 1 ELSE Prior(h, n + 1, S)
<1>1. Precedes(h, S, n)
  BY PriorNext
<1> QED BY ONLY <1>1 DEF Precedes

LEMMA PriorSame ==
    ASSUME NEW h, NEW g, NEW S, NEW n \in Nat, \A j \in 1 .. n : g[j] = h[j]
    PROVE  Prior(g, n + 1, S) = Prior(h, n + 1, S)
<1>1. (n + 1) - 1 = n
  OBVIOUS
<1>2. {j \in 1 .. n : g[j][1] \in S} = {j \in 1 .. n : h[j][1] \in S}
  OBVIOUS
<1> QED BY <1>1, <1>2 DEF Prior
-----------------------------------------------------------------------------
(* The batch before the next call, and the value kept before it, with one call more. *)
Carried(h) == [j \in DOMAIN h |-> h[j][2]]
Given == Value \cup {0}
Emptying == {"tick", "end"}

Carries(h, c, n, g) ==
    /\ g \in Seq(Call) /\ Len(g) = n + 1 /\ g[n + 1] = c
    /\ DOMAIN h = 1 .. n /\ DOMAIN g = 1 .. n + 1
    /\ \A i \in 1 .. n : g[i] = h[i]
    /\ Carried(h) \in Seq(Given) /\ Len(Carried(h)) = n
    /\ Carried(g) \in Seq(Given) /\ Len(Carried(g)) = n + 1
    /\ Carried(g)[n + 1] = c[2]
    /\ \A i \in 1 .. n : Carried(g)[i] = Carried(h)[i]

(* What the calls carry, of one call more. *)
LEMMA CarriedNext ==
    ASSUME NEW h \in Seq(Call), NEW c \in Call, NEW n \in Nat, n = Len(h), NEW g, g = Append(h, c)
    PROVE  Carries(h, c, n, g)
<1>1. /\ g \in Seq(Call) /\ Len(g) = n + 1 /\ g[n + 1] = c
      /\ DOMAIN h = 1 .. n /\ DOMAIN g = 1 .. n + 1
      /\ \A i \in 1 .. n : g[i] = h[i]
  BY Grown
<1>2. \A d \in Call : d[2] \in Given
  BY DEF Call, ValueCall, Given
<1>3. ASSUME NEW q \in Seq(Call), NEW m \in Nat, DOMAIN q = 1 .. m
      PROVE  /\ Carried(q) \in Seq(Given) /\ Len(Carried(q)) = m
             /\ \A i \in 1 .. m : Carried(q)[i] = q[i][2]
  <2>1. PICK f : f = Carried(q)
    OBVIOUS
  <2>2. f = [i \in 1 .. m |-> q[i][2]]
    BY <1>3, <2>1 DEF Carried
  <2>3. Numbered(f, m)
    BY <2>2 DEF Numbered
  <2>4. \A i \in 1 .. m : q[i] \in Call
    BY <1>3
  <2>5. \A i \in 1 .. m : f[i] \in Given
    BY <1>2, <2>2, <2>4
  <2>6. f \in Seq(Given) /\ Len(f) = m
    BY ONLY <2>3, <2>5, m \in Nat, ASequence
  <2> QED BY <2>1, <2>2, <2>6
<1>4. /\ Carried(h) \in Seq(Given) /\ Len(Carried(h)) = n
      /\ \A i \in 1 .. n : Carried(h)[i] = h[i][2]
  BY <1>1, <1>3
<1>5. /\ Carried(g) \in Seq(Given) /\ Len(Carried(g)) = n + 1
      /\ \A i \in 1 .. n + 1 : Carried(g)[i] = g[i][2]
  <2>1. n + 1 \in Nat
    OBVIOUS
  <2> QED BY ONLY <1>1, <1>3, <2>1
<1>6. n + 1 \in 1 .. n + 1 /\ \A i \in 1 .. n : i \in 1 .. n + 1
  OBVIOUS
<1> QED BY <1>1, <1>4, <1>5, <1>6 DEF Carries

Gathers(h, c, n, g) ==
    /\ \A i \in 1 .. n + 1 : Batch(g, i) = Batch(h, i)
    /\ c[1] \in Emptying => Batch(g, (n + 1) + 1) = <<>>
    /\ c[1] \notin Emptying => Batch(g, (n + 1) + 1) = Append(Batch(h, n + 1), c[2])

(* The values since the last tick or end, of one call more. *)
LEMMA BatchNext ==
    ASSUME NEW h \in Seq(Call), NEW c \in Call, NEW n \in Nat, n = Len(h), NEW g, g = Append(h, c)
    PROVE  Gathers(h, c, n, g)
<1>1. /\ Len(g) = n + 1 /\ g[n + 1] = c
      /\ \A i \in 1 .. n : g[i] = h[i]
      /\ Carried(h) \in Seq(Given) /\ Len(Carried(h)) = n
      /\ Carried(g) \in Seq(Given) /\ Len(Carried(g)) = n + 1
      /\ Carried(g)[n + 1] = c[2]
      /\ \A i \in 1 .. n : Carried(g)[i] = Carried(h)[i]
  <2>1. Carries(h, c, n, g)
    BY CarriedNext
  <2> QED BY ONLY <2>1 DEF Carries
<1>2. PICK v \in Seq(Given) : v = Carried(h)
  BY <1>1
<1>3. PICK w \in Seq(Given) : w = Carried(g)
  BY <1>1
<1>4. ASSUME NEW m \in Nat
      PROVE  /\ Batch(h, m + 1) = Slice(v, Prior(h, m + 1, Emptying), m)
             /\ Batch(g, m + 1) = Slice(w, Prior(g, m + 1, Emptying), m)
  <2>1. (m + 1) - 1 = m
    OBVIOUS
  <2> QED BY <1>2, <1>3, <2>1 DEF Batch, Emptying, Carried
<1>5. ASSUME NEW m \in Nat, m <= n
      PROVE  Batch(g, m + 1) = Batch(h, m + 1)
  <2>1. \A j \in 1 .. m : g[j] = h[j]
    BY <1>1, <1>5
  <2>2. Prior(g, m + 1, Emptying) = Prior(h, m + 1, Emptying)
    BY ONLY <2>1, m \in Nat, PriorSame
  <2>3. PICK a \in Nat : a = Prior(h, m + 1, Emptying) /\ a <= m
    BY PriorIn
  <2>4. m <= Len(v) /\ m <= Len(w) /\ \A j \in 1 .. m : w[j] = v[j]
    BY <1>1, <1>2, <1>3, <1>5
  <2>5. Slice(w, a, m) = Slice(v, a, m)
    BY ONLY <2>3, <2>4, v \in Seq(Given), w \in Seq(Given), m \in Nat, SliceSame
  <2> QED BY <1>4, <2>2, <2>3, <2>5
<1>6. ASSUME NEW i \in 1 .. n + 1 PROVE Batch(g, i) = Batch(h, i)
  <2>1. PICK m \in Nat : m + 1 = i /\ m <= n
    <3>1. i - 1 \in Nat /\ (i - 1) + 1 = i /\ i - 1 <= n
      OBVIOUS
    <3> QED BY <3>1
  <2> QED BY <1>5, <2>1
<1>7. ASSUME c[1] \in Emptying PROVE Batch(g, (n + 1) + 1) = <<>>
  <2>1. n + 1 \in Nat
    OBVIOUS
  <2>2. Prior(g, (n + 1) + 1, Emptying) = n + 1
    <3>1. Precedes(g, Emptying, n)
      BY PriorNext
    <3> QED BY ONLY <1>1, <1>7, <3>1, n \in Nat DEF Precedes
  <2>3. Batch(g, (n + 1) + 1) = Slice(w, n + 1, n + 1)
    BY <1>4, <2>1, <2>2
  <2>4. 1 .. (n + 1) - (n + 1) = {}
    OBVIOUS
  <2>5. Slice(w, n + 1, n + 1) = <<>>
    BY <2>4 DEF Slice
  <2> QED BY <2>3, <2>5
<1>8. ASSUME c[1] \notin Emptying PROVE Batch(g, (n + 1) + 1) = Append(Batch(h, n + 1), c[2])
  <2>1. n + 1 \in Nat
    OBVIOUS
  <2>2. PICK a \in Nat : a = Prior(h, n + 1, Emptying) /\ a <= n
    BY PriorIn
  <2>3. Prior(g, (n + 1) + 1, Emptying) = Prior(g, n + 1, Emptying)
    <3>1. Precedes(g, Emptying, n)
      BY PriorNext
    <3> QED BY ONLY <1>1, <1>8, <3>1, n \in Nat DEF Precedes
  <2>4. Prior(g, n + 1, Emptying) = a
    <3>1. \A j \in 1 .. n : g[j] = h[j]
      BY <1>1
    <3>2. Prior(g, n + 1, Emptying) = Prior(h, n + 1, Emptying)
      BY ONLY <3>1, n \in Nat, PriorSame
    <3> QED BY <2>2, <3>2
  <2>5. Batch(g, (n + 1) + 1) = Slice(w, a, n + 1) /\ Batch(h, n + 1) = Slice(v, a, n)
    BY <1>4, <2>1, <2>2, <2>3, <2>4
  <2>6. n <= Len(v) /\ n + 1 <= Len(w) /\ (\A j \in 1 .. n : w[j] = v[j]) /\ w[n + 1] = c[2]
    BY <1>1, <1>2, <1>3
  <2>7. Slice(w, a, n + 1) = Append(Slice(v, a, n), w[n + 1])
    <3>1. PICK B : B = Given
      OBVIOUS
    <3>2. v \in Seq(B)
      BY <3>1
    <3>3. w \in Seq(B)
      BY <3>1
    <3>4. a <= n
      BY <2>2
    <3>5. n <= Len(v)
      BY <2>6
    <3>6. n + 1 <= Len(w)
      BY <2>6
    <3>7. \A i \in 1 .. n : w[i] = v[i]
      BY <2>6
    <3> QED BY ONLY a \in Nat, n \in Nat, <3>2, <3>3, <3>4, <3>5, <3>6, <3>7, SliceMore
  <2>8. w[n + 1] = c[2]
    BY <2>6
  <2> QED BY ONLY <2>5, <2>7, <2>8
<1> QED BY <1>6, <1>7, <1>8 DEF Gathers

Retains(h, c, n, g) ==
    /\ \A i \in 1 .. n + 1 : LastBefore(g, i) = LastBefore(h, i)
    /\ c[1] = "value" => LastBefore(g, (n + 1) + 1) = <<c[2]>>
    /\ c[1] # "value" => LastBefore(g, (n + 1) + 1) = LastBefore(h, n + 1)

(* The value of the last value call, of one call more. *)
LEMMA LastBeforeNext ==
    ASSUME NEW h \in Seq(Call), NEW c \in Call, NEW n \in Nat, n = Len(h), NEW g, g = Append(h, c)
    PROVE  Retains(h, c, n, g)
<1>1. g[n + 1] = c /\ \A i \in 1 .. n : g[i] = h[i]
  <2>1. Carries(h, c, n, g)
    BY CarriedNext
  <2> QED BY ONLY <2>1 DEF Carries
<1>2. ASSUME NEW m \in Nat, m <= n
      PROVE  /\ LastBefore(g, m + 1) = LastBefore(h, m + 1)
             /\ Prior(g, m + 1, {"value"}) = Prior(h, m + 1, {"value"})
  <2>1. \A j \in 1 .. m : g[j] = h[j]
    BY <1>1, <1>2
  <2>2. Prior(g, m + 1, {"value"}) = Prior(h, m + 1, {"value"})
    BY ONLY <2>1, m \in Nat, PriorSame
  <2>3. PICK a \in Nat : a = Prior(h, m + 1, {"value"}) /\ a <= m
    BY PriorIn
  <2>4. a = 0 \/ g[a] = h[a]
    BY ONLY <2>1, <2>3, m \in Nat, a \in Nat
  <2> QED BY <2>2, <2>3, <2>4 DEF LastBefore
<1>3. ASSUME NEW i \in 1 .. n + 1 PROVE LastBefore(g, i) = LastBefore(h, i)
  <2>1. PICK m \in Nat : m + 1 = i /\ m <= n
    <3>1. i - 1 \in Nat /\ (i - 1) + 1 = i /\ i - 1 <= n
      OBVIOUS
    <3> QED BY <3>1
  <2> QED BY <1>2, <2>1
<1>4. ASSUME c[1] = "value" PROVE LastBefore(g, (n + 1) + 1) = <<c[2]>>
  <2>1. Prior(g, (n + 1) + 1, {"value"}) = n + 1 /\ n + 1 # 0
    <3>1. Precedes(g, {"value"}, n)
      BY PriorNext
    <3> QED BY ONLY <1>1, <1>4, <3>1, n \in Nat DEF Precedes
  <2> QED BY <1>1, <2>1 DEF LastBefore
<1>5. ASSUME c[1] # "value" PROVE LastBefore(g, (n + 1) + 1) = LastBefore(h, n + 1)
  <2>1. Prior(g, (n + 1) + 1, {"value"}) = Prior(g, n + 1, {"value"})
    <3>1. Precedes(g, {"value"}, n)
      BY PriorNext
    <3> QED BY ONLY <1>1, <1>5, <3>1, n \in Nat DEF Precedes
  <2>2. LastBefore(g, (n + 1) + 1) = LastBefore(g, n + 1)
    BY <2>1 DEF LastBefore
  <2>3. n <= n
    OBVIOUS
  <2> QED BY <1>2, <2>2, <2>3
<1> QED BY <1>3, <1>4, <1>5 DEF Retains
-----------------------------------------------------------------------------
(* What a rule that looks at each call makes of one more. *)
ByCalls == {"chunkwith", "chunkwithempty", "sample", "errors"}
At(k, h, i) ==
    CASE k = "chunkwith" -> IF h[i][1] # "value" /\ Batch(h, i) # <<>> THEN <<Batch(h, i)>> ELSE <<>>
      [] k = "chunkwithempty" ->
           IF h[i][1] = "tick" \/ (h[i][1] = "end" /\ Batch(h, i) # <<>>) THEN <<Batch(h, i)>> ELSE <<>>
      [] k = "sample" -> IF h[i][1] = "tick" THEN LastBefore(h, i) ELSE <<>>
      [] k = "errors" -> IF h[i][1] = "error" THEN <<Error>> ELSE <<>>

Adds(k, h, g, n) == RuleOf(k, g) = RuleOf(k, h) \o At(k, g, n + 1) /\ Small(At(k, g, n + 1))

(* The classes whose rule looks at each call: one call more adds what its place says. *)
LEMMA CallsAdd ==
    ASSUME NEW h \in Seq(Call), NEW c \in Call, NEW n \in Nat, n = Len(h), NEW g, g = Append(h, c),
           NEW k \in ByCalls
    PROVE  Adds(k, h, g, n)
<1> DEFINE F(q) == [i \in DOMAIN q |-> At(k, q, i)]
<1>1. ASSUME NEW q PROVE RuleOf(k, q) = FlattenSeq(F(q))
  <2>1. k = "chunkwith" \/ k = "chunkwithempty" \/ k = "sample" \/ k = "errors"
    BY DEF ByCalls
  <2>2. CASE k = "chunkwith"
    BY <2>2 DEF RuleOf, At
  <2>3. CASE k = "chunkwithempty"
    BY <2>3 DEF RuleOf, At
  <2>4. CASE k = "sample"
    BY <2>4 DEF RuleOf, At
  <2>5. CASE k = "errors"
    BY <2>5 DEF RuleOf, At
  <2> QED BY <2>1, <2>2, <2>3, <2>4, <2>5
<1>2. /\ DOMAIN h = 1 .. n /\ DOMAIN g = 1 .. n + 1
      /\ \A i \in 1 .. n : g[i] = h[i]
  <2>1. Carries(h, c, n, g)
    BY CarriedNext
  <2> QED BY ONLY <2>1 DEF Carries
<1>3. \A i \in 1 .. n : Batch(g, i) = Batch(h, i) /\ LastBefore(g, i) = LastBefore(h, i)
  <2>1. \A i \in 1 .. n : i \in 1 .. n + 1
    OBVIOUS
  <2>2. \A i \in 1 .. n + 1 : Batch(g, i) = Batch(h, i)
    <3>1. Gathers(h, c, n, g)
      BY BatchNext
    <3> QED BY ONLY <3>1 DEF Gathers
  <2>3. \A i \in 1 .. n + 1 : LastBefore(g, i) = LastBefore(h, i)
    <3>1. Retains(h, c, n, g)
      BY LastBeforeNext
    <3> QED BY ONLY <3>1 DEF Retains
  <2> QED BY <2>1, <2>2, <2>3
<1>4. \A i \in 1 .. n : At(k, g, i) = At(k, h, i)
  BY <1>2, <1>3 DEF At
<1>5. ASSUME NEW i PROVE Small(At(k, g, i))
  <2>1. k = "chunkwith" \/ k = "chunkwithempty" \/ k = "sample" \/ k = "errors"
    BY DEF ByCalls
  <2>2. Small(LastBefore(g, i))
    BY DEF LastBefore, Small
  <2> QED BY <2>1, <2>2 DEF At, Small
<1> HIDE DEF F
<1>6. PICK ss : ss = F(h)
  OBVIOUS
<1>7. PICK tt : tt = F(g)
  OBVIOUS
<1>8. /\ Numbered(ss, n) /\ Numbered(tt, n + 1)
      /\ (\A i \in 1 .. n : ss[i] = At(k, h, i)) /\ (\A i \in 1 .. n + 1 : tt[i] = At(k, g, i))
  BY <1>2, <1>6, <1>7 DEF Numbered, F
<1>9. /\ \A i \in 1 .. n : tt[i] = ss[i]
      /\ \A i \in 1 .. n + 1 : tt[i] = <<>> \/ \E y : tt[i] = <<y>>
      /\ tt[n + 1] = At(k, g, n + 1)
  <2>1. n + 1 \in 1 .. n + 1 /\ \A i \in 1 .. n : i \in 1 .. n + 1
    OBVIOUS
  <2> QED BY <1>4, <1>5, <1>8, <2>1 DEF Small
<1>10. FlattenSeq(tt) = FlattenSeq(ss) \o tt[n + 1]
  BY ONLY <1>8, <1>9, n \in Nat, FlatLonger
<1> QED BY <1>1, <1>5, <1>6, <1>7, <1>9, <1>10 DEF Adds
-----------------------------------------------------------------------------
(* The attributes m are those that an operator has after the calls h. *)
Right(k, h, m) ==
    /\ Keeps(k, m, Values(h))
    /\ k \in Batching => m.list = Batch(h, Len(h) + 1)
    /\ k = "sample" => m.prev = LastBefore(h, Len(h) + 1)

IsSeq(s) == \E A : s \in Seq(A)

(* What a call of a handler emits, and the attributes that it leaves, are right. *)
Obeys(k, h, g, out, now) ==
    RuleOf(k, g) = RuleOf(k, h) \o out /\ Small(out) /\ Right(k, g, now)

AtItsEnd == {"last", "list", "chunk"}
Plain == AllKinds \ (AtItsEnd \cup ByCalls)

(* Nothing emitted, and something. *)
LEMMA SeqNone == ASSUME NEW s, IsSeq(s) PROVE s \o <<>> = s
<1>1. PICK A : s \in Seq(A)
  BY DEF IsSeq
<1> QED BY ONLY <1>1

LEMMA SeqMore == ASSUME NEW s, IsSeq(s), NEW out, Small(out) PROVE IsSeq(s \o out)
<1>1. PICK A : s \in Seq(A)
  BY DEF IsSeq
<1>2. CASE out = <<>>
  BY <1>2, SeqNone
<1>3. CASE \E y : out = <<y>>
  <2>1. PICK y : out = <<y>>
    BY <1>3
  <2>2. PICK B : B = A \cup {y}
    OBVIOUS
  <2>3. s \in Seq(B) /\ out \in Seq(B)
    BY ONLY <1>1, <2>1, <2>2
  <2>4. s \o out \in Seq(B)
    BY ONLY <2>3
  <2> QED BY <2>4 DEF IsSeq
<1> QED BY <1>2, <1>3 DEF Small

(* The chunks are a sequence. *)
LEMMA ChunksSeq == ASSUME NEW v \in Seq(Value) PROVE IsSeq(Chunks(v))
<1>1. PICK e \in Nat \ {0} : e = Count
  BY CountAssumption
<1>2. PICK d \in Nat : d = Len(v)
  OBVIOUS
<1>3. PICK q \in Nat : q = d \div e
  BY ONLY Divided, e \in Nat \ {0}, d \in Nat
<1>4. PICK E : E = Chunks(v)
  OBVIOUS
<1>5. Numbered(E, q)
  BY <1>1, <1>2, <1>3, <1>4 DEF Chunks, Numbered
<1>6. \A i \in 1 .. q : E[i] \in {E[j] : j \in 1 .. q}
  OBVIOUS
<1>7. IsSeq(E)
  BY ONLY <1>5, <1>6, q \in Nat, ASequence DEF IsSeq
<1> QED BY <1>4, <1>7

(* The classes whose rule only looks at the values. *)
LEMMA PlainRule == ASSUME NEW k \in Plain, NEW h PROVE RuleOf(k, h) = ByValues(k, Values(h))
BY DEF Plain, AtItsEnd, ByCalls, RuleOf

LEMMA PlainKinds ==
    ASSUME NEW k \in Plain
    PROVE  \/ k \in {"filter", "skip", "take", "takewhile", "dropwhile", "changes", "unique"}
           \/ k \in {"iterate", "enumerate", "pairwise", "mean", "reduce", "previous"}
           \/ k \in {"takeuntil", "endonerror"} \/ k \in {"deque", "array"}
           \/ k \in (Folding \ Adding) \cup {"sum"}
BY DEF Plain, AllKinds, AtItsEnd, ByCalls, Folding, Adding

(* All of their handlers follow it. *)
LEMMA PlainFollows ==
    ASSUME NEW k \in Plain, NEW v \in Seq(Value), NEW x \in Value, NEW m, Keeps(k, m, v),
           k = "takewhile" => \A i \in DOMAIN v : Truth(v[i])
    PROVE  Follows(k, v, m, x)
<1>1. CASE k \in {"filter", "skip", "take", "takewhile", "dropwhile", "changes", "unique"}
  <2>1. CASE k = "filter"
    BY <2>1, FilterFollows
  <2>2. CASE k = "skip"
    BY <2>2, SkipFollows
  <2>3. CASE k = "take"
    BY <2>3, TakeFollows
  <2>4. CASE k = "takewhile"
    BY <2>4, TakeWhileFollows
  <2>5. CASE k = "dropwhile"
    BY <2>5, DropWhileFollows
  <2>6. CASE k = "changes"
    BY <2>6, ChangesFollows
  <2>7. CASE k = "unique"
    BY <2>7, UniqueFollows
  <2> QED BY <1>1, <2>1, <2>2, <2>3, <2>4, <2>5, <2>6, <2>7
<1>2. CASE k \in {"iterate", "enumerate", "pairwise", "mean", "reduce", "previous"}
  <2>1. CASE k = "iterate"
    BY <2>1, IterateFollows
  <2>2. CASE k = "enumerate"
    BY <2>2, EnumerateFollows
  <2>3. CASE k = "pairwise"
    BY <2>3, PairwiseFollows
  <2>4. CASE k = "mean"
    BY <2>4, MeanFollows
  <2>5. CASE k = "reduce"
    BY <2>5, ReduceFollows
  <2>6. CASE k = "previous"
    BY <2>6, PreviousFollows
  <2> QED BY <1>2, <2>1, <2>2, <2>3, <2>4, <2>5, <2>6
<1>3. CASE k \in {"takeuntil", "endonerror"}
  BY <1>3, PassFollows
<1>4. CASE k \in {"deque", "array"}
  BY <1>4, WindowFollows
<1>5. CASE k \in (Folding \ Adding) \cup {"sum"}
  BY <1>5, FoldFollows
<1> QED BY <1>1, <1>2, <1>3, <1>4, <1>5, PlainKinds
-----------------------------------------------------------------------------
(* A call with a value. *)
LEMMA ValueCalls ==
    ASSUME NEW h \in Seq(Call), NEW x \in Value, NEW g, g = Append(h, <<"value", x>>),
           NEW k \in AllKinds \ {"errors"}, NEW m, Right(k, h, m), IsSeq(RuleOf(k, h)),
           k = "takewhile" => \A i \in DOMAIN Values(h) : Truth(Values(h)[i]),
           k \in AtItsEnd => ~Told(h, "end")
    PROVE  LET r == OnSource(k, m, x)
           IN  Obeys(k, h, g, r.out, AfterOnSource(k, r.mem, x, r.out # <<>>))
<1>1. PICK c \in ValueCall : c = <<"value", x>>
  BY DEF ValueCall
<1>2. c \in Call /\ c[1] = "value" /\ c[2] = x /\ g = Append(h, c)
  BY <1>1 DEF Call
<1>3. PICK n \in Nat : n = Len(h)
  OBVIOUS
<1>4. PICK v \in Seq(Value) : v = Values(h)
  BY <1>2, ValuesNext
<1>5. PICK w : w = Append(v, x)
  OBVIOUS
<1>6. Values(g) = w
  BY <1>1, <1>2, <1>4, <1>5, ValuesNext
<1>7. Keeps(k, m, v) /\ IsRecord(m)
  BY <1>4 DEF Right, Keeps
<1>8. PICK r : r = OnSource(k, m, x)
  OBVIOUS
<1>9. CASE k \in Plain
  <2>1. Follows(k, v, m, x)
    BY <1>4, <1>7, <1>9, PlainFollows
  <2>2. /\ ByValues(k, w) = ByValues(k, v) \o r.out /\ Small(r.out)
        /\ Keeps(k, AfterOnSource(k, r.mem, x, r.out # <<>>), w)
    BY <1>5, <1>8, <2>1 DEF Follows
  <2>3. RuleOf(k, g) = ByValues(k, w) /\ RuleOf(k, h) = ByValues(k, v)
    BY <1>4, <1>6, <1>9, PlainRule
  <2>4. k \notin Batching /\ k # "sample"
    BY <1>9 DEF Plain, ByCalls, Batching
  <2>5. Obeys(k, h, g, r.out, AfterOnSource(k, r.mem, x, r.out # <<>>))
    BY ONLY <1>6, <2>2, <2>3, <2>4 DEF Obeys, Right
  <2> QED BY <1>8, <2>5
<1>10. ~Told(h, "end") => ~Told(g, "end")
  BY <1>2, ToldNext
<1>11. w \in Seq(Value) /\ w # <<>> /\ One(w) = <<x>>
  BY <1>5, More
<1>12. CASE k = "last"
  <2>1. PICK now : now = [m EXCEPT !.prev = <<x>>]
    OBVIOUS
  <2>2. r.out = <<>> /\ r.mem = now
    BY <1>8, <1>12, <2>1, Outcome DEF OnSource, Batching, LastOn
  <2>3. AfterOnSource(k, r.mem, x, r.out # <<>>) = now
    BY <1>12, <2>2 DEF AfterOnSource
  <2>4. RuleOf(k, g) = <<>> /\ RuleOf(k, h) = <<>>
    BY <1>10, <1>12 DEF RuleOf, AtItsEnd
  <2>5. IsRecord(now) /\ now.prev = <<x>>
    BY <1>7, <2>1, Replaced
  <2>6. Right(k, g, now)
    BY <1>6, <1>11, <1>12, <2>5 DEF Right, Keeps, Batching, Folding, Adding
  <2>7. Small(r.out)
    BY <2>2 DEF Small
  <2>8. RuleOf(k, g) = RuleOf(k, h) \o r.out
    BY <2>2, <2>4, SeqNone
  <2> QED BY <1>8, <2>3, <2>6, <2>7, <2>8 DEF Obeys
<1>13. CASE k = "list"
  <2>1. PICK now : now = [m EXCEPT !.list = w]
    OBVIOUS
  <2>2. m.list = v
    BY <1>7, <1>13 DEF Keeps
  <2>3. r.out = <<>> /\ r.mem = now
    BY <1>5, <1>8, <1>13, <2>1, <2>2, Outcome DEF OnSource, Batching, ListOn
  <2>4. AfterOnSource(k, r.mem, x, r.out # <<>>) = now
    BY <1>13, <2>3 DEF AfterOnSource
  <2>5. RuleOf(k, g) = <<>> /\ RuleOf(k, h) = <<>>
    BY <1>10, <1>13 DEF RuleOf, AtItsEnd
  <2>6. IsRecord(now) /\ now.list = w
    BY <1>7, <2>1, Replaced
  <2>7. Right(k, g, now)
    BY <1>6, <1>13, <2>6 DEF Right, Keeps, Batching, Folding, Adding
  <2>8. Small(r.out)
    BY <2>3 DEF Small
  <2>9. RuleOf(k, g) = RuleOf(k, h) \o r.out
    BY <2>3, <2>5, SeqNone
  <2> QED BY <1>8, <2>4, <2>7, <2>8, <2>9 DEF Obeys
<1>14. CASE k = "chunk"
  <2>1. m.list = Rest(v)
    BY <1>7, <1>14 DEF Keeps
  <2>2. PICK l : l = Append(Rest(v), x)
    OBVIOUS
  <2>3. Cuts(v, w, l)
    BY <1>5, <2>2, ChunksNext
  <2>4. PICK now : now = [m EXCEPT !.list = l]
    OBVIOUS
  <2>5. r = EmitsIf(Len(l) = Count, now, l)
    BY <1>8, <1>14, <2>1, <2>2, <2>4 DEF OnSource, Batching, ChunkOn
  <2>6. IsRecord(now) /\ now.list = l
    BY <1>7, <2>4, Replaced
  <2>7. IsSeq(Chunks(v)) /\ RuleOf(k, h) = Chunks(v) \o <<>> /\ RuleOf(k, g) = Chunks(w) \o <<>>
    <3>1. RuleOf(k, h) = Chunks(v) \o <<>> /\ RuleOf(k, g) = Chunks(w) \o <<>>
      BY <1>4, <1>6, <1>10, <1>14 DEF RuleOf, AtItsEnd
    <3> QED BY <3>1, ChunksSeq
  <2>8. CASE Len(l) = Count
    <3>1. r.out = <<l>> /\ r.mem = now
      <4>1. r = Emits(now, l)
        BY ONLY <2>5, <2>8 DEF EmitsIf
      <4> QED BY ONLY <4>1 DEF Emits
    <3>2. r.out # <<>> /\ Small(r.out)
      BY <3>1 DEF Small
    <3>3. PICK then : then = [now EXCEPT !.list = <<>>]
      OBVIOUS
    <3>4. AfterOnSource(k, r.mem, x, r.out # <<>>) = then
      BY <1>14, <3>1, <3>2, <3>3 DEF AfterOnSource
    <3>5. IsRecord(then) /\ then.list = <<>>
      BY <2>6, <3>3, Replaced
    <3>6. Chunks(w) = Chunks(v) \o <<l>> /\ Rest(w) = <<>>
      BY <2>3, <2>8 DEF Cuts
    <3>7. Right(k, g, then)
      BY <1>6, <1>14, <3>5, <3>6 DEF Right, Keeps, Batching, Folding, Adding
    <3>8. IsSeq(Chunks(w))
      <4>1. Small(<<l>>)
        BY DEF Small
      <4> QED BY <2>7, <3>6, <4>1, SeqMore
    <3>9. RuleOf(k, g) = RuleOf(k, h) \o r.out
      BY <2>7, <3>1, <3>6, <3>8, SeqNone
    <3> QED BY <1>8, <3>2, <3>4, <3>7, <3>9 DEF Obeys
  <2>9. CASE Len(l) # Count
    <3>1. r.out = <<>> /\ r.mem = now
      <4>1. r = Holds(now)
        BY ONLY <2>5, <2>9 DEF EmitsIf
      <4> QED BY ONLY <4>1 DEF Holds
    <3>2. AfterOnSource(k, r.mem, x, r.out # <<>>) = now /\ Small(r.out)
      BY <1>14, <3>1 DEF AfterOnSource, Small
    <3>3. Chunks(w) = Chunks(v) /\ Rest(w) = l
      BY <2>3, <2>9 DEF Cuts
    <3>4. Right(k, g, now)
      BY <1>6, <1>14, <2>6, <3>3 DEF Right, Keeps, Batching, Folding, Adding
    <3>5. RuleOf(k, g) = RuleOf(k, h) \o r.out
      BY <2>7, <3>1, <3>3, SeqNone
    <3> QED BY <1>8, <3>2, <3>4, <3>5 DEF Obeys
  <2> QED BY <2>8, <2>9
<1>15. CASE k \in ByCalls \ {"errors"}
  <2>1. RuleOf(k, g) = RuleOf(k, h) \o At(k, g, n + 1)
    <3>1. Adds(k, h, g, n)
      BY <1>2, <1>3, <1>15, CallsAdd
    <3> QED BY ONLY <3>1 DEF Adds
  <2>2. g[n + 1] = c /\ Len(g) = n + 1
    <3>1. Carries(h, c, n, g)
      BY <1>2, <1>3, CarriedNext
    <3> QED BY ONLY <3>1 DEF Carries
  <2>3. At(k, g, n + 1) = <<>>
    BY <1>2, <1>15, <2>2 DEF At, ByCalls
  <2>4. CASE k \in Batching
    <3>1. PICK now : now = [m EXCEPT !.list = Append(m.list, x)]
      OBVIOUS
    <3>2. r.out = <<>> /\ r.mem = now
      BY <1>8, <2>4, <3>1, Outcome DEF OnSource, Batching, ChunkWithOn, ListOn
    <3>3. AfterOnSource(k, r.mem, x, r.out # <<>>) = now /\ Small(r.out)
      BY <2>4, <3>2 DEF AfterOnSource, Small, Batching
    <3>4. IsRecord(now) /\ now.list = Append(m.list, x)
      BY <1>7, <3>1, Replaced
    <3>5. m.list = Batch(h, n + 1)
      BY <1>3, <2>4 DEF Right
    <3>6. Gathers(h, c, n, g)
      BY <1>2, <1>3, BatchNext
    <3>7. Batch(g, (n + 1) + 1) = Append(Batch(h, n + 1), x)
      BY ONLY <1>2, <3>6 DEF Gathers, Emptying
    <3>8. Right(k, g, now)
      BY <2>2, <2>4, <3>4, <3>5, <3>7 DEF Right, Keeps, Batching, Folding, Adding
    <3> QED BY <1>8, <2>1, <2>3, <3>2, <3>3, <3>8 DEF Obeys
  <2>5. CASE k = "sample"
    <3>1. PICK now : now = [m EXCEPT !.prev = <<x>>]
      OBVIOUS
    <3>2. r.out = <<>> /\ r.mem = now
      BY <1>8, <2>5, <3>1, Outcome DEF OnSource, Batching, SampleOn
    <3>3. AfterOnSource(k, r.mem, x, r.out # <<>>) = now /\ Small(r.out)
      BY <2>5, <3>2 DEF AfterOnSource, Small
    <3>4. IsRecord(now) /\ now.prev = <<x>>
      BY <1>7, <3>1, Replaced
    <3>5. Retains(h, c, n, g)
      BY <1>2, <1>3, LastBeforeNext
    <3>6. LastBefore(g, (n + 1) + 1) = <<x>>
      BY ONLY <1>2, <3>5 DEF Retains
    <3>7. Right(k, g, now)
      BY <2>2, <2>5, <3>4, <3>6 DEF Right, Keeps, Batching, Folding, Adding
    <3> QED BY <1>8, <2>1, <2>3, <3>2, <3>3, <3>7 DEF Obeys
  <2> QED BY <1>15, <2>4, <2>5 DEF ByCalls, Batching
<1>16. k \in Plain \/ k = "last" \/ k = "list" \/ k = "chunk" \/ k \in ByCalls \ {"errors"}
  BY DEF Plain, AtItsEnd
<1> QED BY <1>9, <1>12, <1>13, <1>14, <1>15, <1>16
-----------------------------------------------------------------------------
(* A call without one. *)
LEMMA OtherCall ==
    ASSUME NEW h \in Seq(Call), NEW s \in {"end", "tick", "error"}, NEW g, g = Append(h, <<s, 0>>)
    PROVE  /\ Values(g) = Values(h) /\ Values(h) \in Seq(Value)
           /\ Len(g) = Len(h) + 1 /\ g[Len(h) + 1] = <<s, 0>>
           /\ \A e : Told(g, e) <=> (Told(h, e) \/ s = e)
<1>1. PICK c : c = <<s, 0>>
  OBVIOUS
<1>2. c \in Call /\ c \notin ValueCall /\ c[1] = s /\ g = Append(h, c)
  BY <1>1 DEF Call, ValueCall
<1>3. Values(g) = Values(h) /\ Values(h) \in Seq(Value)
  BY <1>2, ValuesNext
<1>4. \A e : Told(g, e) <=> (Told(h, e) \/ s = e)
  BY <1>2, ToldNext
<1>5. Len(g) = Len(h) + 1 /\ g[Len(h) + 1] = c
  BY ONLY <1>2, h \in Seq(Call), Grown
<1> QED BY <1>1, <1>3, <1>4, <1>5

(* The attributes that do not depend on other calls stay right. *)
LEMMA KeptRight ==
    ASSUME NEW h \in Seq(Call), NEW s \in {"end", "tick", "error"}, NEW g, g = Append(h, <<s, 0>>),
           NEW k \in AllKinds, k \notin Batching, NEW m, Right(k, h, m)
    PROVE  Right(k, g, m)
<1>1. Values(g) = Values(h) /\ Len(g) = Len(h) + 1
  BY OtherCall
<1>2. PICK n \in Nat : n = Len(h)
  OBVIOUS
<1>3. PICK c : c = <<s, 0>>
  OBVIOUS
<1>4. c \in Call /\ c[1] = s /\ g = Append(h, c)
  BY <1>3 DEF Call, ValueCall
<1>5. Retains(h, c, n, g)
  BY <1>2, <1>4, LastBeforeNext
<1>6. LastBefore(g, (n + 1) + 1) = LastBefore(h, n + 1)
  BY ONLY <1>4, <1>5, s \in {"end", "tick", "error"} DEF Retains
<1> QED BY <1>1, <1>2, <1>6 DEF Right

(* What a batching operator has after a call that empties its list. *)
LEMMA Emptied ==
    ASSUME NEW h \in Seq(Call), NEW s \in {"end", "tick"}, NEW g, g = Append(h, <<s, 0>>),
           NEW k \in Batching, NEW m, Right(k, h, m)
    PROVE  /\ Right(k, g, AfterOnTimer(k, m))
           /\ m.list = <<>> => Right(k, g, m)
           /\ m.list = Batch(g, Len(h) + 1)
<1>1. Values(g) = Values(h) /\ Len(g) = Len(h) + 1
  BY OtherCall
<1>2. PICK n \in Nat : n = Len(h)
  OBVIOUS
<1>3. PICK c : c = <<s, 0>>
  OBVIOUS
<1>4. c \in Call /\ c[1] = s /\ g = Append(h, c)
  BY <1>3 DEF Call, ValueCall
<1>5. Gathers(h, c, n, g)
  BY <1>2, <1>4, BatchNext
<1>6. Batch(g, (n + 1) + 1) = <<>>
  BY ONLY <1>4, <1>5, s \in {"end", "tick"} DEF Gathers, Emptying
<1>7. Batch(g, n + 1) = Batch(h, n + 1)
  <2>1. n + 1 \in 1 .. n + 1
    OBVIOUS
  <2> QED BY ONLY <1>5, <2>1 DEF Gathers
<1>8. m.list = Batch(h, n + 1) /\ IsRecord(m) /\ k # "sample"
  BY <1>2 DEF Right, Keeps, Batching
<1>9. \A z : IsRecord(z) => Keeps(k, z, Values(g))
  BY DEF Keeps, Batching, Folding, Adding
<1>10. PICK now : now = [m EXCEPT !.list = <<>>]
  OBVIOUS
<1>11. AfterOnTimer(k, m) = now /\ IsRecord(now) /\ now.list = <<>>
  BY <1>8, <1>10, Replaced DEF AfterOnTimer
<1>12. Right(k, g, now)
  BY <1>1, <1>2, <1>6, <1>8, <1>9, <1>11 DEF Right
<1>13. m.list = <<>> => Right(k, g, m)
  BY <1>1, <1>2, <1>6, <1>8, <1>9 DEF Right
<1> QED BY <1>2, <1>7, <1>8, <1>11, <1>12, <1>13

(* A call for the end of the source. *)
LEMMA EndCalls ==
    ASSUME NEW h \in Seq(Call), NEW g, g = Append(h, <<"end", 0>>),
           NEW k \in AllKinds, NEW m, Right(k, h, m), IsSeq(RuleOf(k, h)),
           k \in AtItsEnd => ~Told(h, "end")
    PROVE  LET out == OnSourceDone(k, m)
           IN  Obeys(k, h, g, out, AfterOnTimer(k, m)) /\ (out = <<>> => Right(k, g, m))
<1>1. /\ Values(g) = Values(h) /\ Values(h) \in Seq(Value)
      /\ Len(g) = Len(h) + 1 /\ g[Len(h) + 1] = <<"end", 0>>
      /\ \A e : Told(g, e) <=> (Told(h, e) \/ "end" = e)
  BY OtherCall
<1>2. PICK v \in Seq(Value) : v = Values(h) /\ v = Values(g)
  BY <1>1
<1>3. PICK out : out = OnSourceDone(k, m)
  OBVIOUS
<1>4. Keeps(k, m, v)
  BY <1>2 DEF Right
<1>5. k \notin Batching => AfterOnTimer(k, m) = m /\ Right(k, g, m)
  BY KeptRight DEF AfterOnTimer
<1>6. CASE k \in Plain
  <2>1. out = <<>>
    BY <1>3, <1>6 DEF OnSourceDone, Plain, AtItsEnd, ByCalls, Batching
  <2>2. RuleOf(k, g) = RuleOf(k, h)
    BY <1>1, <1>6, PlainRule
  <2>3. k \notin Batching
    BY <1>6 DEF Plain, ByCalls, Batching
  <2> QED BY <1>3, <1>5, <2>1, <2>2, <2>3, SeqNone DEF Obeys, Small
<1>7. CASE k = "last"
  <2>1. m.prev = One(v) /\ k \notin Batching /\ ~Told(h, "end") /\ Told(g, "end")
    BY <1>1, <1>4, <1>7 DEF Keeps, Batching, AtItsEnd
  <2>2. out = One(v)
    BY <1>3, <1>7, <2>1 DEF OnSourceDone
  <2>3. RuleOf(k, h) = <<>> /\ RuleOf(k, g) = One(v)
    BY <1>2, <1>7, <2>1 DEF RuleOf, One
  <2>4. Small(out) /\ <<>> \o out = out
    BY <2>2 DEF Small, One
  <2> QED BY <1>3, <1>5, <2>1, <2>2, <2>3, <2>4 DEF Obeys
<1>8. CASE k = "list"
  <2>1. m.list = v /\ k \notin Batching /\ ~Told(h, "end") /\ Told(g, "end")
    BY <1>1, <1>4, <1>8 DEF Keeps, Batching, AtItsEnd
  <2>2. out = <<v>>
    BY <1>3, <1>8, <2>1 DEF OnSourceDone
  <2>3. RuleOf(k, h) = <<>> /\ RuleOf(k, g) = <<v>>
    BY <1>2, <1>8, <2>1 DEF RuleOf
  <2>4. Small(out) /\ <<>> \o out = out
    BY <2>2 DEF Small
  <2> QED BY <1>3, <1>5, <2>1, <2>2, <2>3, <2>4 DEF Obeys
<1>9. CASE k = "chunk"
  <2>1. m.list = Rest(v) /\ k \notin Batching /\ ~Told(h, "end") /\ Told(g, "end")
    BY <1>1, <1>4, <1>9 DEF Keeps, Batching, AtItsEnd
  <2>2. out = IF Rest(v) # <<>> THEN <<Rest(v)>> ELSE <<>>
    BY <1>3, <1>9, <2>1 DEF OnSourceDone
  <2>3. RuleOf(k, h) = Chunks(v) \o <<>> /\ RuleOf(k, g) = Chunks(v) \o out
    BY <1>2, <1>9, <2>1, <2>2 DEF RuleOf
  <2>4. Small(out)
    BY <2>2 DEF Small
  <2>5. Chunks(v) \o <<>> = Chunks(v)
    BY ChunksSeq, SeqNone
  <2> QED BY <1>3, <1>5, <2>1, <2>3, <2>4, <2>5 DEF Obeys
<1>10. CASE k \in ByCalls
  <2>1. PICK n \in Nat : n = Len(h)
    OBVIOUS
  <2>2. PICK c : c = <<"end", 0>>
    OBVIOUS
  <2>3. c \in Call /\ g = Append(h, c)
    BY <2>2 DEF Call, ValueCall
  <2>4. Adds(k, h, g, n)
    BY <1>10, <2>1, <2>3, CallsAdd
  <2>5. g[n + 1][1] = "end"
    BY <1>1, <2>1
  <2>6. CASE k \in Batching
    <3>1. /\ Right(k, g, AfterOnTimer(k, m))
          /\ m.list = <<>> => Right(k, g, m)
          /\ m.list = Batch(g, n + 1)
      BY <2>1, <2>6, Emptied
    <3>2. out = IF m.list # <<>> THEN <<m.list>> ELSE <<>>
      BY <1>3, <2>6 DEF OnSourceDone, Batching
    <3>3. At(k, g, n + 1) = out
      BY <2>5, <2>6, <3>1, <3>2 DEF At, Batching
    <3>4. out = <<>> => m.list = <<>>
      BY <3>2
    <3> QED BY <1>3, <2>4, <3>1, <3>3, <3>4 DEF Obeys, Adds
  <2>7. CASE k \notin Batching
    <3>1. out = <<>>
      BY <1>3, <1>10, <2>7 DEF OnSourceDone, Batching, ByCalls
    <3>2. At(k, g, n + 1) = <<>>
      BY <1>10, <2>5, <2>7 DEF At, Batching, ByCalls
    <3> QED BY <1>3, <1>5, <2>4, <2>7, <3>1, <3>2 DEF Obeys, Adds
  <2> QED BY <2>6, <2>7
<1> QED BY <1>6, <1>7, <1>8, <1>9, <1>10 DEF Plain, AtItsEnd

(* A call of the timer. *)
LEMMA TickCalls ==
    ASSUME NEW h \in Seq(Call), NEW g, g = Append(h, <<"tick", 0>>),
           NEW k \in Batching \cup {"sample"}, NEW m, Right(k, h, m)
    PROVE  LET out == OnTimer(k, m)
           IN  Obeys(k, h, g, out, AfterOnTimer(k, m)) /\ (out = <<>> => Right(k, g, m))
<1>1. Len(g) = Len(h) + 1 /\ g[Len(h) + 1] = <<"tick", 0>>
  BY OtherCall
<1>2. PICK out : out = OnTimer(k, m)
  OBVIOUS
<1>3. PICK n \in Nat : n = Len(h)
  OBVIOUS
<1>4. PICK c : c = <<"tick", 0>>
  OBVIOUS
<1>5. c \in Call /\ g = Append(h, c) /\ c[1] = "tick"
  BY <1>4 DEF Call, ValueCall
<1>6. Adds(k, h, g, n)
  BY <1>3, <1>5, CallsAdd DEF ByCalls, Batching
<1>7. g[n + 1][1] = "tick"
  BY <1>1, <1>3
<1>8. CASE k \in Batching
  <2>1. /\ Right(k, g, AfterOnTimer(k, m))
        /\ m.list = <<>> => Right(k, g, m)
        /\ m.list = Batch(g, n + 1)
    BY <1>3, <1>8, Emptied
  <2>2. out = IF m.list # <<>> \/ k = "chunkwithempty" THEN <<m.list>> ELSE <<>>
    BY <1>2, <1>8 DEF OnTimer, Batching
  <2>3. At(k, g, n + 1) = out
    BY <1>7, <1>8, <2>1, <2>2 DEF At, Batching
  <2>4. out = <<>> => m.list = <<>>
    BY <2>2
  <2> QED BY <1>2, <1>6, <2>1, <2>3, <2>4 DEF Obeys, Adds
<1>9. CASE k = "sample"
  <2>1. out = m.prev /\ AfterOnTimer(k, m) = m /\ k \in AllKinds /\ k \notin Batching
    BY <1>2, <1>9 DEF OnTimer, AfterOnTimer, Batching, AllKinds
  <2>2. Right(k, g, m)
    BY <2>1, KeptRight
  <2>3. m.prev = LastBefore(h, n + 1)
    BY <1>3, <1>9 DEF Right
  <2>4. Retains(h, c, n, g)
    BY <1>3, <1>5, LastBeforeNext
  <2>5. LastBefore(g, n + 1) = LastBefore(h, n + 1)
    <3>1. n + 1 \in 1 .. n + 1
      OBVIOUS
    <3> QED BY ONLY <2>4, <3>1 DEF Retains
  <2>6. At(k, g, n + 1) = out
    BY <1>7, <1>9, <2>1, <2>3, <2>5 DEF At
  <2> QED BY <1>2, <1>6, <2>1, <2>2, <2>6 DEF Obeys, Adds
<1> QED BY <1>8, <1>9

(* A call for an error. *)
LEMMA ErrorCalls ==
    ASSUME NEW h \in Seq(Call), NEW g, g = Append(h, <<"error", 0>>),
           NEW k \in {"endonerror", "errors"}, NEW m, Right(k, h, m), IsSeq(RuleOf(k, h))
    PROVE  Obeys(k, h, g, IF k = "errors" THEN ErrorsOn(m).out ELSE <<>>, m)
<1>1. /\ Values(g) = Values(h)
      /\ Len(g) = Len(h) + 1 /\ g[Len(h) + 1] = <<"error", 0>>
  BY OtherCall
<1>2. Right(k, g, m)
  <2>1. k \in AllKinds /\ k \notin Batching
    BY DEF AllKinds, Batching
  <2> QED BY <2>1, KeptRight
<1>3. CASE k = "endonerror"
  <2>1. k \in Plain
    BY <1>3 DEF Plain, AllKinds, AtItsEnd, ByCalls
  <2>2. RuleOf(k, g) = RuleOf(k, h)
    BY <1>1, <2>1, PlainRule
  <2> QED BY <1>2, <1>3, <2>2, SeqNone DEF Obeys, Small
<1>4. CASE k = "errors"
  <2>1. PICK n \in Nat : n = Len(h)
    OBVIOUS
  <2>2. PICK c : c = <<"error", 0>>
    OBVIOUS
  <2>3. c \in Call /\ g = Append(h, c)
    BY <2>2 DEF Call, ValueCall
  <2>4. Adds(k, h, g, n)
    BY <1>4, <2>1, <2>3, CallsAdd DEF ByCalls
  <2>5. g[n + 1][1] = "error"
    BY <1>1, <2>1
  <2>6. At(k, g, n + 1) = <<Error>> /\ ErrorsOn(m).out = <<Error>>
    BY <1>4, <2>5 DEF At, ErrorsOn, Emits
  <2> QED BY <1>2, <1>4, <2>4, <2>6 DEF Obeys, Adds
<1> QED BY <1>3, <1>4

(* Before the first call. *)
LEMMA NoCalls ==
    ASSUME NEW k \in AllKinds
    PROVE  RuleOf(k, <<>>) = <<>> /\ Right(k, <<>>, Fresh)
<1>1. Values(<<>>) = <<>> /\ ~Told(<<>>, "end")
  BY NoValues
<1>2. PICK v \in Seq(Value) : v = <<>> /\ v = Values(<<>>)
  <2>1. <<>> \in Seq(Value)
    OBVIOUS
  <2> QED BY <1>1, <2>1
<1>3. v = <<>> /\ Len(v) = 0 /\ DOMAIN v = {} /\ Count \in Nat /\ Count > 0
  BY <1>2, CountAssumption
<1>4. RuleOf(k, <<>>) = <<>>
  <2>1. FlattenSeq(<<>>) = <<>>
    BY FlattenNone
  <2>2. CASE k \in ByCalls
    BY <2>1, <2>2 DEF RuleOf, ByCalls
  <2>3. Chunks(v) = <<>>
    <3>1. 0 \div Count = 0
      <4>1. PICK e \in Nat \ {0} : e = Count
        BY <1>3
      <4>2. 0 \div e = 0
        <5>1. 0 \in Nat /\ 0 * e <= 0 /\ 0 < 0 * e + e
          OBVIOUS
        <5> QED BY ONLY <5>1, e \in Nat \ {0}, OnlyQuotient
      <4> QED BY <4>1, <4>2
    <3>2. 1 .. Len(v) \div Count = {}
      BY <1>3, <3>1
    <3> QED BY <3>2 DEF Chunks
  <2>4. CASE k \in AtItsEnd
    BY <1>1, <1>2, <2>3, <2>4 DEF RuleOf, AtItsEnd
  <2>5. \A S : Picked(v, S) = <<>>
    BY <1>3, <2>1 DEF Picked
  <2>6. CASE k \in Plain
    <3>1. 1 .. Len(v) - 1 = {} /\ 1 .. (Len(v) - Count) - 0 = {} /\ 1 .. Len(v) = {}
      BY <1>3
    <3>2. Slice(v, 0, Len(v) - Count) = <<>>
      BY <3>1 DEF Slice
    <3>3. ByValues(k, v) = <<>>
      BY <1>3, <2>5, <3>1, <3>2, <2>6 DEF ByValues, Plain, AllKinds
    <3> QED BY <1>2, <2>6, <3>3, PlainRule
  <2> QED BY <2>2, <2>4, <2>6 DEF Plain
<1>5. Right(k, <<>>, Fresh)
  <2>1. IsRecord(Fresh)
    BY DEF IsRecord, Fresh
  <2>2. UpTo(v, Len(v)) = {}
    BY <1>3 DEF UpTo
  <2>3. Latest(v, 0) = <<>> /\ Rest(v) = <<>>
    <3>1. 1 .. 0 - 0 = {}
      OBVIOUS
    <3>2. \A u : Slice(u, 0, 0) = <<>>
      BY <3>1 DEF Slice
    <3>3. Latest(v, 0) = Slice(v, 0, 0)
      BY <1>3 DEF Latest
    <3>4. Rest(v) = Slice(v, 0, 0)
      <4>1. PICK e \in Nat \ {0} : e = Count
        BY <1>3
      <4>2. 0 \div e = 0 /\ 0 * e = 0
        <5>1. 0 \in Nat /\ 0 * e <= 0 /\ 0 < 0 * e + e
          OBVIOUS
        <5>2. 0 \div e = 0
          BY ONLY <5>1, e \in Nat \ {0}, OnlyQuotient
        <5> QED BY <5>2
      <4> QED BY <1>3, <4>1, <4>2 DEF Rest
    <3> QED BY <3>2, <3>3, <3>4
  <2>4. Batch(<<>>, Len(<<>>) + 1) = <<>> /\ LastBefore(<<>>, Len(<<>>) + 1) = <<>>
    <3>1. \A S : Prior(<<>>, 1, S) = 0
      <4>1. ASSUME NEW S PROVE Prior(<<>>, 1, S) = 0
        <5>1. Precedes(<<>>, S, 0)
          BY PriorNext
        <5> QED BY ONLY <5>1 DEF Precedes
      <4> QED BY <4>1
    <3>2. Len(<<>>) + 1 = 1 /\ 1 .. (1 - 1) - 0 = {}
      OBVIOUS
    <3> QED BY <3>1, <3>2 DEF Batch, LastBefore, Slice
  <2> QED BY <1>2, <1>3, <2>1, <2>2, <2>3, <2>4 DEF Right, Keeps, Fresh, One
<1> QED BY <1>4, <1>5
-----------------------------------------------------------------------------
AtValue == {"early", "source"}
Elsewhere == {"side", "end", "error", "done"}
FrameType ==
    [at : AtValue, x : Value, drop : {{}}]
    \cup [at : Elsewhere, x : {0}, drop : SUBSET {"source", "side"}]

\* The attributes of the two classes that count.
Counting == [n : Nat, prev : {<<>>}, list : {<<>>}, seen : {{}}, drop : {TRUE}]

\* What Operators.tla says of "heard", of any sequence of calls.
Came(h) == Len(Values(h))
Falsy(h) == \E i \in DOMAIN Values(h) : ~Truth(Values(h)[i])
Ends(k, h) ==
    \/ Told(h, "end")
    \/ k = "endonerror" /\ Told(h, "error")
    \/ k = "take" /\ Came(h) >= Count
    \/ k = "takewhile" /\ Falsy(h)
    \/ k = "iterate" /\ Came(h) > Count

Frames(q) == {q[i] : i \in 1 .. Len(q)}
In(at) == \E f \in Frames(stack) : f.at = at

Typed ==
    /\ kind \in Kinds
    /\ listeners \in Behaviours
    /\ links \subseteq InputsOf(kind)
    /\ ended \in BOOLEAN
    /\ stack \in Seq(FrameType)
    /\ heard \in Seq(Call)
    /\ kind \in {"take", "iterate"} => mem \in Counting
    /\ kind = "takeuntil" => outs \in Seq(Value)

\* A link that outlives the end is one that a handler in progress will drop.
Dropped ==
    ended => \A s \in links : \E f \in Frames(stack) : f.at = "done" /\ s \in f.drop

\* What a handler in progress will drop after the end.
Drops ==
    \A f \in Frames(stack) :
        f.at = "done" => (kind = "takewhile" \/ f.drop \subseteq ThenLeft(kind))

\* A handler in progress has been called, and for what its place says.
Entered ==
    /\ In("early") => "early" \in listeners
    /\ In("end") => Told(heard, "end")
    /\ In("error") => (kind = "endonerror" /\ Told(heard, "error") /\ links = {})
    /\ \A f \in Frames(stack) : (f.at = "source" /\ kind = "takewhile") => Truth(f.x)

\* Without listeners that use the inputs, only the innermost handler is at an emit.
Alone ==
    (stack # <<>> /\ "feed" \notin listeners) => \A f \in Frames(Below) : f.at = "early"

\* An operator that has ended had to.
HadTo == ended => Ends(kind, heard)

\* One that has to end has ended, or a handler in progress is about to end it.
WillEnd ==
    \/ ended
    \/ /\ Told(heard, "end") => In("end")
       /\ (kind = "endonerror" /\ Told(heard, "error")) => In("error")
       /\ kind = "takewhile" => ~Falsy(heard)
       /\ kind = "iterate" => Came(heard) <= Count
       /\ (kind = "take" /\ "feed" \notin listeners) =>
              /\ Came(heard) <= Count
              /\ Came(heard) = Count => (stack # <<>> /\ Top.at = "source")

\* The attribute _n.
Counted == kind \in {"take", "iterate"} => mem.n = Came(heard)

OInv ==
    /\ Typed
    /\ Dropped
    /\ Drops
    /\ Entered
    /\ Alone
    /\ HadTo
    /\ WillEnd
    /\ Counted
-----------------------------------------------------------------------------
(* The frames of a stack that a frame is put on or taken from. *)
LEMMA Pushed ==
    ASSUME NEW b \in Seq(FrameType), NEW f \in FrameType
    PROVE  LET q == Append(b, f)
           IN  /\ q \in Seq(FrameType) /\ q # <<>>
               /\ Frames(q) = Frames(b) \cup {f}
               /\ q[Len(q)] = f /\ Front(q) = b
<1> DEFINE q == Append(b, f)
<1>1. /\ q \in Seq(FrameType) /\ Len(q) = Len(b) + 1 /\ Len(b) \in Nat
      /\ \A i \in 1 .. Len(b) : q[i] = b[i]
      /\ q[Len(b) + 1] = f
  BY Grown
<1>2. Frames(q) \subseteq Frames(b) \cup {f}
  BY <1>1 DEF Frames
<1>3. Frames(b) \cup {f} \subseteq Frames(q)
  <2>1. \A i \in 1 .. Len(b) : i \in 1 .. Len(q) /\ q[i] = b[i]
    BY <1>1
  <2>2. Len(q) \in 1 .. Len(q)
    BY <1>1
  <2> QED BY <1>1, <2>1, <2>2 DEF Frames
<1>4. Front(q) = b
  BY <1>1 DEF Front
<1> QED BY <1>1, <1>2, <1>3, <1>4

LEMMA Popped ==
    ASSUME NEW q \in Seq(FrameType), q # <<>>
    PROVE  /\ Front(q) \in Seq(FrameType) /\ q[Len(q)] \in FrameType
           /\ Frames(q) = Frames(Front(q)) \cup {q[Len(q)]}
<1>1. /\ Len(q) \in Nat \ {0} /\ Front(q) \in Seq(FrameType)
      /\ Len(Front(q)) = Len(q) - 1
      /\ \A i \in 1 .. Len(q) - 1 : Front(q)[i] = q[i]
  <2>1. Len(q) \in Nat \ {0} /\ Front(q) = SubSeq(q, 1, Len(q) - 1)
    BY DEF Front
  <2>2. PICK n \in 0 .. Len(q) : n = Len(q) - 1
    BY <2>1
  <2>3. /\ SubSeq(q, 1, n) \in Seq(FrameType) /\ Len(SubSeq(q, 1, n)) = n
        /\ \A i \in 1 .. n : SubSeq(q, 1, n)[i] = q[i]
    BY ONLY q \in Seq(FrameType), <2>2, Split
  <2> QED BY <2>1, <2>2, <2>3
<1>2. Frames(q) \subseteq Frames(Front(q)) \cup {q[Len(q)]}
  BY <1>1 DEF Frames
<1>3. Frames(Front(q)) \cup {q[Len(q)]} \subseteq Frames(q)
  BY <1>1 DEF Frames
<1> QED BY <1>1, <1>2, <1>3

(* What one more call of a handler changes. *)
LEMMA HeardNext ==
    ASSUME NEW h \in Seq(Call), NEW c \in Call
    PROVE  LET g == Append(h, c)
           IN  /\ g \in Seq(Call) /\ Came(h) \in Nat
               /\ \A w : Told(g, w) <=> (Told(h, w) \/ c[1] = w)
               /\ c \in ValueCall => /\ Came(g) = Came(h) + 1
                                     /\ Falsy(g) <=> (Falsy(h) \/ ~Truth(c[2]))
               /\ c \notin ValueCall => Came(g) = Came(h) /\ (Falsy(g) <=> Falsy(h))
<1>1. PICK g : g = Append(h, c)
  OBVIOUS
<1>2. PICK v \in Seq(Value) : v = Values(h)
  BY ValuesNext
<1>3. /\ g \in Seq(Call)
      /\ \A w : Told(g, w) <=> (Told(h, w) \/ c[1] = w)
  BY <1>1, ToldNext
<1>4. CASE c \notin ValueCall
  <2>1. Values(g) = v
    BY <1>1, <1>2, <1>4, ValuesNext
  <2> QED BY <1>1, <1>2, <1>3, <1>4, <2>1 DEF Came, Falsy
<1>5. CASE c \in ValueCall
  <2>1. PICK x \in Value : x = c[2]
    BY <1>5 DEF ValueCall
  <2>2. PICK w : w = Append(v, x)
    OBVIOUS
  <2>3. Values(g) = w
    BY <1>1, <1>2, <1>5, <2>1, <2>2, ValuesNext
  <2>4. PICK n \in Nat : n = Len(v)
    OBVIOUS
  <2>5. /\ Len(w) = n + 1 /\ DOMAIN v = 1 .. n /\ DOMAIN w = 1 .. n + 1
        /\ \A i \in 1 .. n : w[i] = v[i]
        /\ w[n + 1] = x
    BY ONLY <2>2, <2>4, v \in Seq(Value), x \in Value, Grown
  <2>6. (\E i \in 1 .. n + 1 : ~Truth(w[i])) <=> ((\E i \in 1 .. n : ~Truth(v[i])) \/ ~Truth(x))
    <3>1. \A i \in 1 .. n + 1 : i \in 1 .. n \/ i = n + 1
      OBVIOUS
    <3>2. n + 1 \in 1 .. n + 1 /\ \A i \in 1 .. n : i \in 1 .. n + 1
      OBVIOUS
    <3> QED BY ONLY <2>5, <3>1, <3>2
  <2>7. Falsy(g) <=> (Falsy(h) \/ ~Truth(c[2]))
    BY <1>2, <2>1, <2>3, <2>5, <2>6 DEF Falsy
  <2>8. Came(g) = Came(h) + 1 /\ Came(h) \in Nat
    BY <1>2, <2>3, <2>4, <2>5 DEF Came
  <2> QED BY <1>1, <1>3, <1>5, <2>7, <2>8
<1> QED BY <1>4, <1>5

(* The reasons to end, in terms of what has been heard. *)
LEMMA ToEnd == HasToEnd <=> Ends(kind, heard)
BY DEF HasToEnd, Ends, Heard, Came, Falsy, V
-----------------------------------------------------------------------------
(* The stack that a handler in progress is put on, or is taken from. *)
Under(b) ==
    /\ b \in Seq(FrameType)
    /\ Frames(b) \subseteq Frames(stack)
    /\ \A f \in Frames(stack) : f.at = "done" => f \in Frames(b)
    /\ "feed" \notin listeners => \A f \in Frames(b) : f.at = "early"

(* What every step does: it may add to what has been heard, and counts it. *)
Hears ==
    /\ UNCHANGED fixed
    /\ heard' \in Seq(Call)
    /\ \A w : Told(heard, w) => Told(heard', w)
    /\ Ends(kind, heard) => Ends(kind, heard')
    /\ kind \in {"take", "iterate"} => (mem' \in Counting /\ mem'.n = Came(heard'))
    /\ kind = "takeuntil" => outs' \in Seq(Value)

(* A step that ends the operator. *)
LEMMA Ending ==
    ASSUME OInv, NEW b, Under(b), NEW first, NEW then \in SUBSET {"source", "side"},
           SetDone(first, then, b), Hears, Ends(kind, heard'),
           ended \/ links \subseteq first \cup then,
           kind = "takewhile" \/ then \subseteq ThenLeft(kind)
    PROVE  OInv'
<1> DEFINE f == Frame("done", 0, then)
<1>1. f \in FrameType /\ f.at = "done" /\ f.drop = then
  BY DEF Frame, FrameType, AtValue, Elsewhere
<1>2. ended' /\ links' \subseteq links /\ kind' = kind /\ listeners' = listeners
  BY DEF SetDone, Hears, fixed
<1>3. /\ stack' \in Seq(FrameType)
      /\ stack' = b \/ (stack' = Append(b, f) /\ Frames(stack') = Frames(b) \cup {f})
      /\ stack' # b => Front(stack') = b
  BY <1>1, Pushed DEF SetDone, Under
<1> HIDE DEF f
<1>4. Frames(b) \subseteq Frames(stack') /\ Frames(stack') \subseteq Frames(b) \cup {f}
  BY <1>3
<1>5. Typed'
  BY <1>2, <1>3 DEF OInv, Typed, Hears
<1>6. Dropped'
  <2> SUFFICES ASSUME NEW s \in links'
               PROVE  \E g \in Frames(stack') : g.at = "done" /\ s \in g.drop
    BY DEF Dropped
  <2>1. CASE ended
    <3>1. s \in links
      BY <1>2
    <3>2. PICK g \in Frames(stack) : g.at = "done" /\ s \in g.drop
      BY <2>1, <3>1 DEF OInv, Dropped
    <3>3. g \in Frames(b)
      BY <3>2 DEF Under
    <3> QED BY <3>2, <3>3, <1>4
  <2>2. CASE ~ended
    <3>1. s \in then
      BY <2>2 DEF SetDone
    <3>2. f \in Frames(stack')
      BY <2>2, <1>1, Pushed DEF SetDone, Under, f
    <3> QED BY <3>1, <3>2, <1>1
  <2> QED BY <2>1, <2>2
<1>7. Drops'
  BY <1>1, <1>2, <1>4 DEF OInv, Drops, Under
<1>8. Entered'
  <2>1. \A g \in Frames(stack') : g.at # "done" => g \in Frames(stack)
    BY <1>1, <1>4 DEF Under
  <2>2. \A at : (at # "done" /\ In(at)') => In(at)
    BY <2>1 DEF In
  <2> QED BY <1>2, <2>1, <2>2 DEF OInv, Entered, Hears
<1>9. Alone'
  <2> SUFFICES ASSUME "feed" \notin listeners, stack' # <<>>, NEW g \in Frames(Front(stack'))
               PROVE  g.at = "early"
    BY <1>2 DEF Alone, Below
  <2>1. g \in Frames(b)
    <3>1. CASE stack' = b
      BY <3>1, <1>3, Popped
    <3> QED BY <3>1, <1>3
  <2> QED BY <2>1 DEF Under
<1>10. HadTo' /\ WillEnd' /\ Counted'
  BY <1>2 DEF Hears, HadTo, WillEnd, Counted
<1> QED BY <1>5, <1>6, <1>7, <1>8, <1>9, <1>10 DEF OInv

(* A step that does not: it may leave a handler, and enter one. *)
LEMMA Inside ==
    ASSUME OInv, NEW b, Under(b), NEW f \in FrameType, f.at # "done",
           stack' = b \/ stack' = Append(b, f),
           links' \subseteq links, ended' = ended, Hears, WillEnd',
           stack' = Append(b, f) =>
               /\ f.at = "early" => "early" \in listeners
               /\ f.at = "end" => Told(heard', "end")
               /\ f.at = "error" => (kind = "endonerror" /\ Told(heard', "error") /\ links' = {})
               /\ (f.at = "source" /\ kind = "takewhile") => Truth(f.x)
    PROVE  OInv'
<1>2. kind' = kind /\ listeners' = listeners
  BY DEF Hears, fixed
<1>3. /\ stack' \in Seq(FrameType)
      /\ stack' = b \/ (stack' = Append(b, f) /\ Frames(stack') = Frames(b) \cup {f})
      /\ stack' # b => Front(stack') = b
  BY Pushed DEF Under
<1>4. Frames(b) \subseteq Frames(stack') /\ Frames(stack') \subseteq Frames(b) \cup {f}
  BY <1>3
<1>5. Typed'
  BY <1>2, <1>3 DEF OInv, Typed, Hears
<1>6. Dropped'
  BY <1>4 DEF OInv, Dropped, Under
<1>7. Drops'
  BY <1>2, <1>4 DEF OInv, Drops, Under
<1>8. Entered'
  <2>1. \A g \in Frames(stack') : g \in Frames(stack) \/ (g = f /\ stack' = Append(b, f))
    BY <1>3, <1>4 DEF Under
  <2>2. \A at : In(at)' => (In(at) \/ (f.at = at /\ stack' = Append(b, f)))
    BY <2>1 DEF In
  <2>3. /\ In("early")' => "early" \in listeners
        /\ In("end")' => Told(heard', "end")
        /\ In("error")' => (kind = "endonerror" /\ Told(heard', "error") /\ links' = {})
    BY <2>2 DEF OInv, Entered, Hears
  <2>4. \A g \in Frames(stack') : (g.at = "source" /\ kind = "takewhile") => Truth(g.x)
    BY <2>1 DEF OInv, Entered
  <2> QED BY <1>2, <2>3, <2>4 DEF Entered
<1>9. Alone'
  <2> SUFFICES ASSUME "feed" \notin listeners, stack' # <<>>, NEW g \in Frames(Front(stack'))
               PROVE  g.at = "early"
    BY <1>2 DEF Alone, Below
  <2>1. g \in Frames(b)
    <3>1. CASE stack' = b
      BY <3>1, <1>3, Popped
    <3> QED BY <3>1, <1>3
  <2> QED BY <2>1 DEF Under
<1>10. HadTo' /\ Counted'
  BY <1>2 DEF OInv, Hears, HadTo, Counted
<1> QED BY <1>5, <1>6, <1>7, <1>8, <1>9, <1>10 DEF OInv

(* The stack as it is when the inputs are used, and without its last handler. *)
LEMMA OnStack ==
    ASSUME OInv, MayCall
    PROVE  Under(stack)
<1>1. ASSUME "feed" \notin listeners, NEW f \in Frames(stack) PROVE f.at = "early"
  <2>1. stack # <<>> /\ stack \in Seq(FrameType)
    BY <1>1 DEF OInv, Typed, Frames
  <2>2. f \in Frames(Below) \/ f = Top
    BY <2>1, <1>1, Popped DEF Below, Top
  <2> QED BY <1>1, <2>1, <2>2 DEF OInv, Alone, MayCall, InUserCode
<1> QED BY <1>1 DEF Under, OInv, Typed

LEMMA OnBelow ==
    ASSUME OInv, stack # <<>>, Top.at # "done"
    PROVE  Under(Below) /\ Top \in FrameType
<1>1. stack \in Seq(FrameType)
  BY DEF OInv, Typed
<1>2. /\ Below \in Seq(FrameType) /\ Top \in FrameType
      /\ Frames(stack) = Frames(Below) \cup {Top}
  BY <1>1, Popped DEF Below, Top
<1> QED BY <1>2 DEF Under, OInv, Alone
-----------------------------------------------------------------------------
(* What the handlers of the classes that end by themselves do. *)
LEMMA Emitted == \A v : <<v>> # <<>>
<1> SUFFICES ASSUME NEW v PROVE <<v>> # <<>>
  OBVIOUS
<1>1. Len(<<v>>) = 1 /\ Len(<<>>) = 0
  OBVIOUS
<1> QED BY <1>1

(* Take and Iterate add one to their counter and emit up to the count. *)
LEMMA Counts ==
    ASSUME NEW m \in Counting, NEW v
    PROVE  LET e == EmitsIf(m.n < Count, [m EXCEPT !.n = @ + 1], v)
           IN  /\ e.mem \in Counting /\ e.mem.n = m.n + 1
               /\ e.out # <<>> <=> m.n < Count
<1> DEFINE N == Nat
           now == [m EXCEPT !.n = @ + 1]
           e == EmitsIf(m.n < Count, now, v)
<1>1. m.n \in N /\ m.n + 1 \in N
  BY DEF Counting
<1>2. \A S, T, U, W : m \in [n : N, prev : S, list : T, seen : U, drop : W] =>
        now \in [n : N, prev : S, list : T, seen : U, drop : W] /\ now.n = m.n + 1
  <2> HIDE DEF N
  <2> QED BY <1>1
<1>3. now \in Counting /\ now.n = m.n + 1
  BY <1>2 DEF Counting
<1>4. e.mem = now /\ (e.out # <<>> <=> m.n < Count)
  <2> HIDE DEF now
  <2> QED BY Emitted DEF EmitsIf, Emits, Holds
<1> HIDE DEF e, now
<1>5. e.mem \in Counting /\ e.mem.n = m.n + 1
  BY <1>3, <1>4
<1> QED BY <1>4, <1>5 DEF e, now

LEMMA Handler ==
    ASSUME NEW k \in Kinds, NEW m, NEW x \in Value, k \in {"take", "iterate"} => m \in Counting
    PROVE  LET r == OnSource(k, m, x)
           IN  /\ k \in {"take", "iterate"} => /\ r.mem \in Counting /\ r.mem.n = m.n + 1
                                               /\ r.out # <<>> <=> m.n < Count
               /\ k = "takewhile" => (r.out # <<>> <=> Truth(x))
               /\ k = "takeuntil" => r.out = <<x>>
<1> DEFINE Rising(r) == /\ r.mem \in Counting /\ r.mem.n = m.n + 1
                        /\ r.out # <<>> <=> m.n < Count
<1>1. CASE k = "take"
  <2>1. OnSource(k, m, x) = EmitsIf(m.n < Count, [m EXCEPT !.n = @ + 1], x)
    BY <1>1 DEF OnSource, TakeOn, Batching
  <2>2. Rising(EmitsIf(m.n < Count, [m EXCEPT !.n = @ + 1], x))
    BY <1>1, Counts
  <2> HIDE DEF Rising
  <2>3. Rising(OnSource(k, m, x))
    BY <2>1, <2>2
  <2> QED BY <1>1, <2>3 DEF Rising
<1>2. CASE k = "iterate"
  <2>1. OnSource(k, m, x) = EmitsIf(m.n < Count, [m EXCEPT !.n = @ + 1], m.n)
    BY <1>2 DEF OnSource, IterateOn, Batching
  <2>2. Rising(EmitsIf(m.n < Count, [m EXCEPT !.n = @ + 1], m.n))
    BY <1>2, Counts
  <2> HIDE DEF Rising
  <2>3. Rising(OnSource(k, m, x))
    BY <2>1, <2>2
  <2> QED BY <1>2, <2>3 DEF Rising
<1>3. CASE k = "takewhile"
  <2>1. OnSource(k, m, x) = EmitsIf(Truth(x), m, x)
    BY <1>3 DEF OnSource, TakeWhileOn, Batching
  <2> QED BY <1>3, <2>1, Emitted DEF EmitsIf, Emits, Holds
<1>4. CASE k = "takeuntil"
  <2>1. OnSource(k, m, x) = Emits(m, x)
    BY <1>4 DEF OnSource, PassOn, Batching
  <2> QED BY <1>4, <2>1 DEF Emits
<1> QED BY <1>1, <1>2, <1>3, <1>4

LEMMA Handled ==
    ASSUME NEW k \in Kinds, NEW m, NEW x \in Value, NEW e \in BOOLEAN
    PROVE  /\ k \in {"take", "iterate", "takewhile"} => AfterOnSource(k, m, x, e) = m
           /\ k = "take" => (StopsAfter(k, m, x, e) <=> m.n = Count)
           /\ k = "takewhile" => (StopsAfter(k, m, x, e) <=> ~Truth(x))
           /\ k = "iterate" => (StopsAfter(k, m, x, e) <=> ~e)
           /\ k \notin {"take", "iterate", "takewhile"} => ~StopsAfter(k, m, x, e)
BY DEF AfterOnSource, StopsAfter, TakeStops

LEMMA Inputs ==
    /\ \A k : /\ InputsOf(k) = FirstLeft(k) \cup ThenLeft(k)
              /\ InputsOf(k) \subseteq {"source", "side"}
              /\ FirstLeft(k) \subseteq {"source", "side"} /\ ThenLeft(k) \subseteq {"source", "side"}
              /\ k \in {"take", "takewhile", "iterate", "endonerror", "errors"} => InputsOf(k) = {"source"}
              /\ k # "sample" => ThenLeft(k) \subseteq IF k = "takeuntil" THEN {"side"} ELSE {}
BY DEF InputsOf, FirstLeft, ThenLeft, Batching

(* A call that is heard keeps what has been heard. *)
LEMMA Hearing ==
    ASSUME OInv, NEW c \in Call, heard' = Append(heard, c), UNCHANGED fixed,
           kind \in {"take", "iterate"} => (mem' \in Counting /\ mem'.n = Came(heard')),
           kind = "takeuntil" => outs' \in Seq(Value)
    PROVE  Hears
<1>1. heard \in Seq(Call)
  BY DEF OInv, Typed
<1>2. /\ heard' \in Seq(Call) /\ Came(heard) \in Nat
      /\ \A w : Told(heard', w) <=> (Told(heard, w) \/ c[1] = w)
      /\ c \in ValueCall => /\ Came(heard') = Came(heard) + 1
                            /\ Falsy(heard') <=> (Falsy(heard) \/ ~Truth(c[2]))
      /\ c \notin ValueCall => Came(heard') = Came(heard) /\ (Falsy(heard') <=> Falsy(heard))
  BY <1>1, HeardNext
<1>3. Ends(kind, heard) => Ends(kind, heard')
  <2>1. Came(heard') >= Came(heard) /\ Came(heard') \in Nat /\ (Falsy(heard) => Falsy(heard'))
    BY <1>2
  <2> QED BY <1>2, <2>1, CountAssumption DEF Ends
<1> QED BY <1>2, <1>3 DEF Hears

(* A handler of the source that does not end the operator leaves what has to end
   it as it was. *)
LEMMA StillRuns ==
    ASSUME OInv, NEW b, Under(b), NEW c \in ValueCall, heard' = Append(heard, c),
           \A f \in Frames(stack) : f \in Frames(b) \/ f.at = "early",
           Frames(b) \subseteq Frames(stack'), UNCHANGED fixed, ended' = ended,
           (kind = "takewhile" /\ ~ended) => Truth(c[2]),
           (kind = "iterate" /\ ~ended) => Came(heard) < Count,
           (kind = "take" /\ Came(heard) + 1 = Count) => (stack' # <<>> /\ Top'.at = "source")
    PROVE  WillEnd'
<1> SUFFICES ASSUME ~ended PROVE WillEnd'
  BY DEF WillEnd, OInv, Typed
<1>1. heard \in Seq(Call) /\ c \in Call /\ c[1] = "value" /\ Count \in Nat \ {0}
  BY CountAssumption DEF OInv, Typed, Call, ValueCall
<1>2. /\ Came(heard) \in Nat
      /\ \A w : Told(heard', w) <=> (Told(heard, w) \/ c[1] = w)
      /\ Came(heard') = Came(heard) + 1
      /\ Falsy(heard') <=> (Falsy(heard) \/ ~Truth(c[2]))
  BY <1>1, HeardNext
<1>3. \A at : (at # "early" /\ In(at)) => In(at)'
  BY DEF In
<1>4. kind' = kind /\ listeners' = listeners
  BY DEF fixed
<1>5. /\ Told(heard', "end") => In("end")'
      /\ (kind = "endonerror" /\ Told(heard', "error")) => In("error")'
      /\ kind = "takewhile" => ~Falsy(heard')
      /\ kind = "iterate" => Came(heard') <= Count
  BY <1>1, <1>2, <1>3 DEF OInv, WillEnd
<1>6. ASSUME kind = "take", "feed" \notin listeners
      PROVE  /\ Came(heard') <= Count
             /\ Came(heard') = Count => (stack' # <<>> /\ Top'.at = "source")
  <2>1. Came(heard) # Count
    <3> SUFFICES ASSUME Came(heard) = Count PROVE FALSE
      OBVIOUS
    <3>1. stack # <<>> /\ Top.at = "source"
      BY <1>6 DEF OInv, WillEnd
    <3>2. Top \in Frames(stack)
      BY <3>1, Popped DEF OInv, Typed, Top
    <3> QED BY <3>1, <3>2, <1>6 DEF Under
  <2>2. Came(heard) <= Count
    BY <1>6 DEF OInv, WillEnd
  <2> QED BY <2>1, <2>2, <1>1, <1>2, <1>6
<1> QED BY <1>4, <1>5, <1>6 DEF WillEnd
(* on_source of a value, up to its emit or to its end. *)
LEMMA Enter ==
    ASSUME OInv, NEW b, Under(b), NEW x \in Value, EnterOnSource(x, b), UNCHANGED fixed,
           \A f \in Frames(stack) : f \in Frames(b) \/ f.at = "early"
    PROVE  OInv'
<1> DEFINE r == OnSource(kind, mem, x)
           c == <<"value", x>>
           f == Frame("source", x, {})
<1>1. /\ c \in ValueCall /\ c \in Call /\ c[1] = "value" /\ c[2] = x
      /\ kind \in Kinds /\ heard \in Seq(Call) /\ ended \in BOOLEAN
  BY DEF OInv, Typed, Call, ValueCall
<1>2. /\ kind \in {"take", "iterate"} =>
           /\ mem \in Counting /\ mem.n = Came(heard)
           /\ r.mem \in Counting /\ r.mem.n = mem.n + 1
           /\ r.out # <<>> <=> mem.n < Count
      /\ kind = "takewhile" => (r.out # <<>> <=> Truth(x))
      /\ kind = "takeuntil" => r.out = <<x>>
  BY <1>1, Handler DEF OInv, Typed, Counted
<1>3. /\ heard' = Append(heard, c) /\ outs' = outs \o r.out
      /\ \/ /\ r.out # <<>> /\ mem' = r.mem /\ stack' = Append(b, f)
            /\ links' = links /\ ended' = ended
         \/ r.out = <<>> /\ LeaveOnSource(r.mem, x, FALSE, b)
  BY DEF EnterOnSource
<1> HIDE DEF r, c
<1>4. /\ heard' \in Seq(Call) /\ Came(heard) \in Nat
      /\ Came(heard') = Came(heard) + 1
      /\ Falsy(heard') <=> (Falsy(heard) \/ ~Truth(x))
  BY <1>1, <1>3, HeardNext
<1>5. FALSE \in BOOLEAN
  OBVIOUS
<1>6. kind \in {"take", "iterate", "takewhile"} => mem' = r.mem
  BY <1>1, <1>3, <1>5, Handled DEF LeaveOnSource
<1>7. kind = "takeuntil" => outs' \in Seq(Value)
  <2> SUFFICES ASSUME kind = "takeuntil" PROVE outs' \in Seq(Value)
    OBVIOUS
  <2>1. outs \in Seq(Value) /\ <<x>> \in Seq(Value)
    BY DEF OInv, Typed
  <2>2. outs' = outs \o <<x>>
    BY <1>2, <1>3
  <2> QED BY <2>1, <2>2
<1>8. Hears
  BY <1>1, <1>2, <1>3, <1>4, <1>6, <1>7, Hearing
<1>9. CASE r.out # <<>>
  <2>1. f \in FrameType /\ f.at = "source" /\ f.x = x
    BY DEF Frame, FrameType, AtValue, Elsewhere
  <2>2. /\ stack' = Append(b, f) /\ stack' # <<>> /\ stack'[Len(stack')] = f
        /\ Frames(stack') = Frames(b) \cup {f}
    <3>1. stack' = Append(b, f) /\ b \in Seq(FrameType)
      BY <1>3, <1>9 DEF Under, r
    <3> HIDE DEF f
    <3> QED BY <2>1, <3>1, Pushed
  <2> HIDE DEF f
  <2>3. stack' # <<>> /\ Top'.at = "source"
    BY <2>1, <2>2 DEF Top
  <2>4. /\ kind = "takewhile" => Truth(x)
        /\ kind = "iterate" => Came(heard) < Count
    BY <1>2, <1>9
  <2>5. WillEnd'
    BY <1>1, <1>3, <1>9, <2>2, <2>3, <2>4, StillRuns
  <2> QED BY <1>3, <1>8, <1>9, <2>1, <2>2, <2>4, <2>5, Inside
<1>10. CASE r.out = <<>>
  <2> DEFINE now == AfterOnSource(kind, r.mem, x, FALSE)
  <2>1. /\ kind \in {"take", "iterate", "takewhile"} => now = r.mem
        /\ kind = "take" => (StopsAfter(kind, now, x, FALSE) <=> now.n = Count)
        /\ kind = "takewhile" => (StopsAfter(kind, now, x, FALSE) <=> ~Truth(x))
        /\ kind = "iterate" => (StopsAfter(kind, now, x, FALSE) <=> ~FALSE)
        /\ kind \notin {"take", "iterate", "takewhile"} => ~StopsAfter(kind, now, x, FALSE)
    BY <1>1, <1>5, Handled
  <2>2. IF StopsAfter(kind, now, x, FALSE)
           THEN Stop(b)
           ELSE stack' = b /\ links' = links /\ ended' = ended
    BY <1>3, <1>10 DEF LeaveOnSource
  <2> HIDE DEF now
  <2>3. CASE kind \in {"takewhile", "iterate"} /\ StopsAfter(kind, now, x, FALSE)
    <3>1. Ends(kind, heard')
      BY <1>2, <1>4, <1>10, <2>1, <2>3, CountAssumption DEF Ends
    <3>2. links \subseteq {"source"}
      BY <2>3, Inputs DEF OInv, Typed
    <3>3. CASE kind = "takewhile"
      <4>1. SetDone({}, {"source"}, b)
        BY <2>2, <2>3, <3>3 DEF Stop
      <4> QED BY <1>8, <3>1, <3>2, <3>3, <4>1, Ending
    <3>4. CASE kind = "iterate"
      <4>1. SetDone({"source"}, {}, b)
        BY <2>2, <2>3, <3>4 DEF Stop
      <4> QED BY <1>8, <3>1, <3>2, <4>1, Ending
    <3> QED BY <2>3, <3>3, <3>4
  <2>4. CASE ~(kind \in {"takewhile", "iterate"} /\ StopsAfter(kind, now, x, FALSE))
    <3>1. kind = "take" => Came(heard) >= Count
      BY <1>2, <1>4, <1>10, CountAssumption
    <3>2. ~StopsAfter(kind, now, x, FALSE)
      <4>1. CASE kind = "take"
        <5>1. /\ mem.n \in Nat /\ ~(mem.n < Count) /\ now.n = mem.n + 1 /\ Count \in Nat
          BY <1>2, <1>4, <1>10, <2>1, <4>1, CountAssumption
        <5>2. now.n # Count
          BY <5>1
        <5> QED BY <2>1, <4>1, <5>2
      <4> QED BY <2>1, <2>4, <4>1
    <3>3. stack' = b /\ links' = links /\ ended' = ended
      BY <2>2, <3>2
    <3>4. (kind = "takewhile" => Truth(x)) /\ kind # "iterate"
      BY <2>1, <3>2
    <3>5. WillEnd'
      BY <1>1, <1>3, <1>4, <3>1, <3>3, <3>4, CountAssumption, StillRuns
    <3>6. Frame("side", 0, {}) \in FrameType /\ Frame("side", 0, {}).at = "side"
      BY DEF Frame, FrameType, AtValue, Elsewhere
    <3>7. stack' # Append(b, Frame("side", 0, {}))
      <4>1. Len(Append(b, Frame("side", 0, {}))) = Len(b) + 1 /\ Len(b) \in Nat
        BY <3>6, Grown DEF Under
      <4> QED BY <3>3, <4>1
    <3> QED BY <1>8, <3>3, <3>5, <3>6, <3>7, Inside
  <2> QED BY <2>3, <2>4
<1> QED BY <1>9, <1>10

(* The rest of on_source, after the listeners of its emit. *)
LEMMA Leave ==
    ASSUME OInv, stack # <<>>, Top.at = "source", LeaveOnSource(mem, Top.x, TRUE, Below),
           Top.x \in Value, UNCHANGED <<fixed, heard, outs>>
    PROVE  OInv'
<1>1. PICK b : b = Below
  OBVIOUS
<1>2. Under(b) /\ Top \in FrameType
  BY <1>1, OnBelow
<1>3. PICK x \in Value : x = Top.x
  OBVIOUS
<1> DEFINE now == AfterOnSource(kind, mem, x, TRUE)
<1>4. /\ kind \in Kinds /\ heard \in Seq(Call) /\ TRUE \in BOOLEAN /\ ended \in BOOLEAN
      /\ stack \in Seq(FrameType)
  BY DEF OInv, Typed
<1>5. /\ kind \in {"take", "iterate", "takewhile"} => now = mem
      /\ kind = "take" => (StopsAfter(kind, now, x, TRUE) <=> now.n = Count)
      /\ kind = "takewhile" => (StopsAfter(kind, now, x, TRUE) <=> ~Truth(x))
      /\ kind = "iterate" => (StopsAfter(kind, now, x, TRUE) <=> ~TRUE)
      /\ kind \notin {"take", "iterate", "takewhile"} => ~StopsAfter(kind, now, x, TRUE)
  BY <1>4, Handled
<1>6. /\ mem' = now
      /\ IF StopsAfter(kind, now, x, TRUE)
           THEN Stop(b)
           ELSE stack' = b /\ links' = links /\ ended' = ended
  BY <1>1, <1>3 DEF LeaveOnSource
<1> HIDE DEF now
<1>7. Hears
  BY <1>4, <1>5, <1>6 DEF Hears, OInv, Typed, Counted
<1>8. Top \in Frames(stack) /\ Frames(stack) = Frames(Below) \cup {Top}
  BY <1>4, Popped DEF Top, Below
<1>9. kind = "takewhile" => Truth(x)
  BY <1>3, <1>8 DEF OInv, Entered
<1>10. CASE kind = "take" /\ StopsAfter(kind, now, x, TRUE)
  <2>1. SetDone({"source"}, {}, b)
    BY <1>6, <1>10 DEF Stop
  <2>2. Ends(kind, heard')
    <3>1. mem.n = Came(heard) /\ mem.n = Count /\ kind' = kind
      BY <1>5, <1>10 DEF OInv, Counted, fixed
    <3> QED BY <1>10, <3>1, CountAssumption DEF Ends
  <2>3. links \subseteq {"source"}
    BY <1>10, Inputs DEF OInv, Typed
  <2> QED BY <1>2, <1>7, <2>1, <2>2, <2>3, Ending
<1>11. CASE ~(kind = "take" /\ StopsAfter(kind, now, x, TRUE))
  <2>1. stack' = b /\ links' = links /\ ended' = ended
    BY <1>5, <1>6, <1>9, <1>11
  <2>2. \A at : (at # "source" /\ In(at)) => In(at)'
    BY <1>1, <1>8, <2>1 DEF In
  <2>3. ASSUME ~ended, kind = "take", "feed" \notin listeners
        PROVE  Came(heard) <= Count /\ Came(heard) # Count
    <3>1. mem.n = Came(heard) /\ now.n # Count /\ now = mem
      BY <1>5, <1>11, <2>3 DEF OInv, Counted
    <3>2. Came(heard) <= Count
      BY <2>3 DEF OInv, WillEnd
    <3> QED BY <2>3, <3>1, <3>2, <1>4
  <2>4. WillEnd'
    BY <1>4, <2>1, <2>2, <2>3 DEF OInv, WillEnd, fixed
  <2>5. Frame("side", 0, {}) \in FrameType /\ Frame("side", 0, {}).at = "side"
    BY DEF Frame, FrameType, AtValue, Elsewhere
  <2>6. stack' # Append(b, Frame("side", 0, {}))
    <3>1. Len(Append(b, Frame("side", 0, {}))) = Len(b) + 1 /\ Len(b) \in Nat
      BY <1>2, <2>5, Grown DEF Under
    <3> QED BY <2>1, <3>1
  <2> QED BY <1>2, <1>7, <2>1, <2>4, <2>5, <2>6, Inside
<1> QED BY <1>10, <1>11
-----------------------------------------------------------------------------
(* A call of a handler that is heard but brings no value. *)
LEMMA NoValue ==
    ASSUME OInv, NEW c \in Call, c \notin ValueCall, heard' = Append(heard, c),
           UNCHANGED <<fixed, mem>>, kind = "takeuntil" => outs' = outs
    PROVE  /\ Hears
           /\ Came(heard') = Came(heard) /\ Came(heard) \in Nat
           /\ Falsy(heard') <=> Falsy(heard)
           /\ \A w : Told(heard', w) <=> (Told(heard, w) \/ c[1] = w)
<1>1. heard \in Seq(Call)
  BY DEF OInv, Typed
<1>2. /\ Came(heard') = Came(heard) /\ Came(heard) \in Nat
      /\ Falsy(heard') <=> Falsy(heard)
      /\ \A w : Told(heard', w) <=> (Told(heard, w) \/ c[1] = w)
  BY <1>1, HeardNext
<1>3. Hears
  BY <1>2, Hearing DEF OInv, Typed, Counted
<1> QED BY <1>2, <1>3

(* What may still end the operator stays when frames stay. *)
LEMMA StillDue ==
    ASSUME OInv, Frames(stack) \subseteq Frames(stack'), UNCHANGED <<fixed, ended>>,
           MayCall, Came(heard') = Came(heard), Falsy(heard') <=> Falsy(heard),
           Told(heard', "end") => (Told(heard, "end") \/ In("end")'),
           (kind = "endonerror" /\ Told(heard', "error")) => (Told(heard, "error") \/ In("error")')
    PROVE  WillEnd'
<1>1. \A at : In(at) => In(at)'
  BY DEF In
<1>2. ASSUME ~ended, kind = "take", "feed" \notin listeners
      PROVE  Came(heard) <= Count /\ Came(heard) # Count
  <2>1. Came(heard) = Count => (stack # <<>> /\ Top.at = "source")
    BY <1>2 DEF OInv, WillEnd
  <2>2. Came(heard) # Count
    BY <1>2, <2>1 DEF MayCall, InUserCode
  <2> QED BY <1>2, <2>2 DEF OInv, WillEnd
<1> QED BY <1>1, <1>2 DEF OInv, WillEnd, fixed

(* on_source_done. *)
LEMMA EnterDone ==
    ASSUME OInv, MayCall, EnterOnSourceDone, UNCHANGED fixed
    PROVE  OInv'
<1> DEFINE out == OnSourceDone(kind, mem)
           c == <<"end", 0>>
           f == Frame("end", 0, {})
<1>1. PICK b : b = stack
  OBVIOUS
<1>2. Under(b)
  BY <1>1, OnStack
<1>3. c \in Call /\ c \notin ValueCall /\ c[1] = "end"
  BY DEF Call, ValueCall
<1>4. kind = "takeuntil" => out = <<>>
  BY DEF OnSourceDone, Batching
<1>5. /\ heard' = Append(heard, c) /\ outs' = outs \o out /\ mem' = mem
      /\ IF out # <<>>
         THEN stack' = Append(b, f) /\ links' = links /\ ended' = ended
         ELSE SetDone(FirstLeft(kind), ThenLeft(kind), b)
  BY <1>1 DEF EnterOnSourceDone
<1> HIDE DEF out, c
<1>6. kind = "takeuntil" => outs' = outs
  BY <1>4, <1>5 DEF OInv, Typed
<1>7. /\ Hears
      /\ Came(heard') = Came(heard) /\ Came(heard) \in Nat
      /\ Falsy(heard') <=> Falsy(heard)
      /\ \A w : Told(heard', w) <=> (Told(heard, w) \/ c[1] = w)
  BY <1>3, <1>5, <1>6, NoValue
<1>8. CASE out # <<>>
  <2>1. f \in FrameType /\ f.at = "end"
    BY DEF Frame, FrameType, AtValue, Elsewhere
  <2>2. stack' = Append(b, f) /\ b \in Seq(FrameType)
    BY <1>2, <1>5, <1>8 DEF Under
  <2> HIDE DEF f
  <2>3. Frames(stack') = Frames(b) \cup {f}
    BY <2>1, <2>2, Pushed
  <2>4. In("end")'
    BY <2>1, <2>3 DEF In
  <2>5. WillEnd'
    BY <1>1, <1>3, <1>5, <1>7, <1>8, <2>3, <2>4, StillDue
  <2> QED BY <1>2, <1>3, <1>5, <1>7, <1>8, <2>1, <2>2, <2>5, Inside
<1>9. CASE out = <<>>
  <2>1. SetDone(FirstLeft(kind), ThenLeft(kind), b)
    BY <1>5, <1>9
  <2>2. Ends(kind, heard')
    BY <1>3, <1>7 DEF Ends
  <2>3. /\ links \subseteq FirstLeft(kind) \cup ThenLeft(kind)
        /\ ThenLeft(kind) \in SUBSET {"source", "side"}
    BY Inputs DEF OInv, Typed
  <2> QED BY <1>2, <1>7, <2>1, <2>2, <2>3, Ending
<1> QED BY <1>8, <1>9

(* A frame that is entered for anything else. *)
LEMMA Pushes ==
    ASSUME OInv, MayCall, NEW f \in FrameType, f.at \in {"early", "side"},
           stack' = Append(stack, f), UNCHANGED <<links, ended>>, Hears,
           f.at = "early" => "early" \in listeners,
           Came(heard') = Came(heard), Falsy(heard') <=> Falsy(heard),
           \A w \in {"end", "error"} :
               Told(heard', w) => (Told(heard, w) \/ (w = "error" /\ kind = "errors"))
    PROVE  OInv'
<1>1. PICK b : b = stack
  OBVIOUS
<1>2. Under(b)
  BY <1>1, OnStack
<1>3. Frames(stack') = Frames(b) \cup {f}
  BY <1>1, <1>2, Pushed DEF Under
<1>4. WillEnd'
  BY <1>1, <1>3, StillDue DEF Hears
<1> QED BY <1>1, <1>2, <1>4, Inside

LEMMA SourceEmitsKeeps == ASSUME OInv, NEW x \in Value, SourceEmits(x) PROVE OInv'
<1>1. PICK b : b = stack
  OBVIOUS
<1>2. Under(b)
  BY <1>1, OnStack DEF SourceEmits
<1>3. CASE "early" \in listeners
  <2>1. /\ Frame("early", x, {}) \in FrameType /\ Frame("early", x, {}).at = "early"
        /\ stack' = Append(stack, Frame("early", x, {}))
        /\ UNCHANGED <<fixed, mem, links, ended, heard, outs>>
    BY <1>3 DEF SourceEmits, Frame, FrameType, AtValue, Elsewhere
  <2>2. Hears
    BY <2>1 DEF Hears, OInv, Typed, Counted
  <2> QED BY <1>3, <2>1, <2>2, Pushes DEF SourceEmits
<1>4. CASE "early" \notin listeners
  BY <1>1, <1>2, <1>4, Enter DEF SourceEmits
<1> QED BY <1>3, <1>4

LEMMA SideEmitsKeeps == ASSUME OInv, SideEmits PROVE OInv'
<1> DEFINE c == <<"tick", 0>>
           f == Frame("side", 0, {})
<1>1. CASE kind = "takeuntil"
  BY <1>1, EnterDone DEF SideEmits
<1>2. CASE kind # "takeuntil"
  <2>1. c \in Call /\ c \notin ValueCall /\ c[1] = "tick"
    BY DEF Call, ValueCall
  <2>2. /\ heard' = Append(heard, c) /\ UNCHANGED <<fixed, mem, links, ended>>
        /\ stack' = stack \/ stack' = Append(stack, f)
    BY <1>2 DEF SideEmits
  <2>3. f \in FrameType /\ f.at = "side"
    BY DEF Frame, FrameType, AtValue, Elsewhere
  <2> HIDE DEF c, f
  <2>4. /\ Hears
        /\ Came(heard') = Came(heard) /\ Came(heard) \in Nat
        /\ Falsy(heard') <=> Falsy(heard)
        /\ \A w : Told(heard', w) <=> (Told(heard, w) \/ c[1] = w)
    BY <1>2, <2>1, <2>2, NoValue
  <2>5. CASE stack' = Append(stack, f)
    BY <2>1, <2>2, <2>3, <2>4, <2>5, Pushes DEF SideEmits
  <2>6. CASE stack' = stack
    <3>1. PICK b : b = stack
      OBVIOUS
    <3>2. Under(b)
      BY <3>1, OnStack DEF SideEmits
    <3>3. WillEnd'
      BY <2>1, <2>2, <2>4, <2>6, StillDue DEF SideEmits
    <3>4. stack' # Append(b, f)
      <4>1. Len(Append(b, f)) = Len(b) + 1 /\ Len(b) \in Nat
        BY <2>3, <3>2, Grown DEF Under
      <4> QED BY <2>6, <3>1, <4>1
    <3> QED BY <2>2, <2>3, <2>4, <2>6, <3>1, <3>2, <3>3, <3>4, Inside
  <2> QED BY <2>2, <2>5, <2>6
<1> QED BY <1>1, <1>2

LEMMA SideEndsKeeps == ASSUME OInv, SideEnds PROVE OInv'
<1>1. CASE kind # "takeuntil"
  BY <1>1, EnterDone DEF SideEnds
<1>2. CASE kind = "takeuntil"
  <2>1. links' \subseteq links /\ UNCHANGED <<fixed, mem, ended, stack, heard, outs>>
    BY <1>2 DEF SideEnds
  <2>2. /\ Typed' /\ Dropped' /\ Drops' /\ Alone' /\ HadTo' /\ Counted'
    BY <2>1 DEF OInv, Typed, Dropped, Drops, Alone, Below, HadTo, Counted, fixed
  <2>3. WillEnd'
    BY <2>1 DEF OInv, WillEnd, In, Top, fixed
  <2>4. Entered'
    BY <2>1, <1>2 DEF OInv, Entered, In, fixed
  <2> QED BY <2>2, <2>3, <2>4 DEF OInv
<1> QED BY <1>1, <1>2

LEMMA SourceFailsKeeps == ASSUME OInv, SourceFails PROVE OInv'
<1> DEFINE c == <<"error", 0>>
<1>1. c \in Call /\ c \notin ValueCall /\ c[1] = "error"
  BY DEF Call, ValueCall
<1>2. heard' = Append(heard, c) /\ UNCHANGED <<fixed, mem, ended>> /\ kind \in {"endonerror", "errors"}
  BY DEF SourceFails
<1> HIDE DEF c
<1>3. /\ Hears
      /\ Came(heard') = Came(heard) /\ Came(heard) \in Nat
      /\ Falsy(heard') <=> Falsy(heard)
      /\ \A w : Told(heard', w) <=> (Told(heard, w) \/ c[1] = w)
  BY <1>1, <1>2, NoValue
<1>4. CASE kind = "errors"
  <2>1. /\ Frame("side", 0, {}) \in FrameType /\ Frame("side", 0, {}).at = "side"
        /\ stack' = Append(stack, Frame("side", 0, {})) /\ UNCHANGED links
    BY <1>4 DEF SourceFails, Frame, FrameType, AtValue, Elsewhere
  <2> QED BY <1>1, <1>2, <1>3, <1>4, <2>1, Pushes DEF SourceFails
<1>5. CASE kind = "endonerror"
  <2> DEFINE f == Frame("error", 0, {})
  <2>1. PICK b : b = stack
    OBVIOUS
  <2>2. Under(b)
    BY <2>1, OnStack DEF SourceFails
  <2>3. /\ f \in FrameType /\ f.at = "error"
        /\ stack' = Append(b, f) /\ links' = links \ {"source"}
    BY <1>5, <2>1 DEF SourceFails, Frame, FrameType, AtValue, Elsewhere
  <2> HIDE DEF f
  <2>4. Frames(stack') = Frames(b) \cup {f}
    BY <2>2, <2>3, Pushed DEF Under
  <2>5. In("error")'
    BY <2>3, <2>4 DEF In
  <2>6. WillEnd'
    BY <1>1, <1>2, <1>3, <2>1, <2>4, <2>5, StillDue DEF SourceFails
  <2>7. links' = {}
    BY <1>5, <2>3, Inputs DEF OInv, Typed
  <2> QED BY <1>1, <1>2, <1>3, <1>5, <2>2, <2>3, <2>6, <2>7, Inside
<1> QED BY <1>2, <1>4, <1>5
-----------------------------------------------------------------------------
(* The user code of a frame is through. *)
LEMMA ReturnKeeps == ASSUME OInv, Return PROVE OInv'
<1>1. stack # <<>> /\ UNCHANGED <<fixed, over>> /\ stack \in Seq(FrameType)
  BY DEF Return, OInv, Typed
<1>2. /\ Top \in FrameType /\ Below \in Seq(FrameType)
      /\ Frames(stack) = Frames(Below) \cup {Top} /\ Top \in Frames(stack)
  BY <1>1, Popped DEF Top, Below
<1>3. /\ Top.at \in AtValue \cup Elsewhere
      /\ Top.at \in AtValue => Top.x \in Value
  BY <1>2 DEF FrameType, AtValue, Elsewhere
<1>4. PICK b : b = Below
  OBVIOUS
<1>5. Top.at # "done" => Under(b)
  BY <1>1, <1>4, OnBelow
<1>6. CASE Top.at = "early"
  <2>1. EnterOnSource(Top.x, b)
    BY <1>4, <1>6 DEF Return
  <2>2. PICK x \in Value : x = Top.x
    BY <1>3, <1>6 DEF AtValue
  <2> QED BY <1>1, <1>2, <1>4, <1>5, <1>6, <2>1, <2>2, Enter
<1>7. CASE Top.at = "source"
  BY <1>1, <1>3, <1>7, Leave DEF Return, AtValue
<1>8. CASE Top.at = "side"
  <2>1. /\ mem' = AfterOnTimer(kind, mem) /\ stack' = b
        /\ UNCHANGED <<links, ended, heard, outs>>
    BY <1>4, <1>8 DEF Return
  <2>2. kind \in {"take", "iterate"} => mem' = mem
    BY <2>1 DEF AfterOnTimer, Batching
  <2>3. Hears
    BY <1>1, <2>1, <2>2 DEF Hears, OInv, Typed, Counted
  <2>4. \A at : (at # "side" /\ In(at)) => In(at)'
    BY <1>2, <1>4, <1>8, <2>1 DEF In
  <2>5. WillEnd'
    BY <1>1, <1>8, <2>1, <2>4 DEF OInv, WillEnd, fixed
  <2>6. /\ Frame("side", 0, {}) \in FrameType /\ Frame("side", 0, {}).at = "side"
    BY DEF Frame, FrameType, AtValue, Elsewhere
  <2>7. stack' # Append(b, Frame("side", 0, {}))
    <3>1. Len(Append(b, Frame("side", 0, {}))) = Len(b) + 1 /\ Len(b) \in Nat
      BY <1>2, <1>4, <2>6, Grown
    <3> QED BY <2>1, <3>1
  <2> QED BY <1>5, <1>8, <2>1, <2>3, <2>5, <2>6, <2>7, Inside
<1>9. CASE Top.at = "end"
  <2>1. /\ mem' = AfterOnTimer(kind, mem) /\ SetDone(FirstLeft(kind), ThenLeft(kind), b)
        /\ UNCHANGED <<heard, outs>>
    BY <1>4, <1>9 DEF Return
  <2>2. kind \in {"take", "iterate"} => mem' = mem
    BY <2>1 DEF AfterOnTimer, Batching
  <2>3. Hears
    BY <1>1, <2>1, <2>2 DEF Hears, OInv, Typed, Counted
  <2>4. Ends(kind, heard')
    BY <1>2, <1>9, <2>1 DEF OInv, Entered, In, Ends
  <2>5. /\ links \subseteq FirstLeft(kind) \cup ThenLeft(kind)
        /\ ThenLeft(kind) \in SUBSET {"source", "side"}
    BY Inputs DEF OInv, Typed
  <2> QED BY <1>5, <1>9, <2>1, <2>3, <2>4, <2>5, Ending
<1>10. CASE Top.at = "error"
  <2>1. SetDone({}, {}, b) /\ UNCHANGED <<mem, heard, outs>>
    BY <1>4, <1>10 DEF Return
  <2>2. Hears
    BY <1>1, <2>1 DEF Hears, OInv, Typed, Counted
  <2>3. Ends(kind, heard') /\ links = {}
    BY <1>2, <1>10, <2>1 DEF OInv, Entered, In, Ends
  <2> QED BY <1>5, <1>10, <2>1, <2>2, <2>3, Ending
<1>11. CASE Top.at = "done"
  <2>1. links' = links \ Top.drop /\ stack' = Below /\ UNCHANGED <<mem, ended, heard, outs>>
    BY <1>11 DEF Return
  <2>2. /\ \A f \in Frames(stack') : f \in Frames(stack)
        /\ \A f \in Frames(stack) : f = Top \/ f \in Frames(stack')
        /\ UNCHANGED <<kind, listeners>>
    BY <1>1, <1>2, <2>1 DEF fixed
  <2>3. /\ \A at : In(at)' => In(at)
        /\ \A at : (at # "done" /\ In(at)) => In(at)'
    BY <1>11, <2>2 DEF In
  <2>4. Typed'
    BY <1>2, <2>1, <2>2 DEF OInv, Typed
  <2>5. Dropped'
    BY <2>1, <2>2 DEF OInv, Dropped
  <2>6. Drops' /\ HadTo' /\ Counted'
    BY <2>1, <2>2 DEF OInv, Drops, HadTo, Counted
  <2>7. Entered'
    BY <2>1, <2>2, <2>3 DEF OInv, Entered
  <2>8. Alone'
    <3> SUFFICES ASSUME "feed" \notin listeners, stack' # <<>>, NEW f \in Frames(Front(stack'))
                 PROVE  f.at = "early"
      BY <2>2 DEF Alone, Below
    <3>1. f \in Frames(Below)
      BY <1>2, <2>1, Popped
    <3> QED BY <1>1, <3>1 DEF OInv, Alone
  <2>9. WillEnd'
    BY <1>1, <1>11, <2>1, <2>2, <2>3 DEF OInv, WillEnd
  <2> QED BY <2>4, <2>5, <2>6, <2>7, <2>8, <2>9 DEF OInv
<1> QED BY <1>3, <1>6, <1>7, <1>8, <1>9, <1>10, <1>11 DEF AtValue, Elsewhere

LEMMA Starts == Init => OInv
<1> SUFFICES ASSUME Init PROVE OInv
  OBVIOUS
<1>1. /\ kind \in Kinds /\ listeners \in Behaviours /\ mem = Fresh /\ stack = <<>>
      /\ ended \in BOOLEAN /\ links \subseteq InputsOf(kind) /\ (ended => links = {})
      /\ heard = IF ended THEN <<<<"end", 0>>>> ELSE <<>>
      /\ outs = IF ended THEN OnSourceDone(kind, Fresh) ELSE <<>>
  BY DEF Init
<1>2. <<>> \in Seq(Call) /\ <<"end", 0>> \in Call /\ <<"end", 0>> \notin ValueCall
      /\ <<>> \in Seq(FrameType) /\ <<>> \in Seq(Value) /\ Frames(<<>>) = {}
  BY DEF Call, ValueCall, Frames
<1>3. /\ Came(<<>>) = 0 /\ ~Falsy(<<>>) /\ \A w : ~Told(<<>>, w)
  <2>1. Len(<<>>) = 0 /\ DOMAIN <<>> = {}
    OBVIOUS
  <2> QED BY <2>1, NoValues DEF Came, Falsy
<1>4. <<<<"end", 0>>>> = Append(<<>>, <<"end", 0>>)
  OBVIOUS
<1>5. /\ heard \in Seq(Call) /\ Came(heard) = 0 /\ ~Falsy(heard)
      /\ Told(heard, "end") <=> ended
      /\ ~Told(heard, "error")
  <2>1. CASE ended
    <3>1. heard = Append(<<>>, <<"end", 0>>)
      BY <1>1, <1>4, <2>1
    <3>2. /\ heard \in Seq(Call) /\ Came(heard) = 0 /\ ~Falsy(heard)
          /\ \A w : Told(heard, w) <=> <<"end", 0>>[1] = w
      BY <1>2, <1>3, <3>1, HeardNext
    <3> QED BY <2>1, <3>2
  <2>2. CASE ~ended
    BY <1>1, <1>2, <1>3, <2>2
  <2> QED BY <1>1, <2>1, <2>2
<1>6. Fresh \in Counting /\ Fresh.n = 0
  BY DEF Fresh, Counting
<1>7. kind = "takeuntil" => outs \in Seq(Value)
  <2>1. kind = "takeuntil" => OnSourceDone(kind, Fresh) = <<>>
    BY DEF OnSourceDone, Batching
  <2> QED BY <1>1, <1>2, <2>1
<1>8. Typed
  BY <1>1, <1>2, <1>5, <1>6, <1>7 DEF Typed
<1>9. Dropped /\ Drops /\ Entered /\ Alone /\ HadTo
  BY <1>1, <1>2, <1>5 DEF Dropped, Drops, Entered, Alone, HadTo, In, Ends
<1>10. WillEnd
  BY <1>1, <1>5, CountAssumption DEF WillEnd
<1>11. Counted
  BY <1>1, <1>5, <1>6 DEF Counted
<1> QED BY <1>8, <1>9, <1>10, <1>11 DEF OInv

LEMMA Steps == OInv /\ [Next]_vars => OInv'
<1> SUFFICES ASSUME OInv, [Next]_vars PROVE OInv'
  OBVIOUS
<1>1. CASE UNCHANGED vars
  BY <1>1 DEF vars, fixed, OInv, Typed, Dropped, Drops, Entered, Alone, HadTo, WillEnd, Counted,
              In, Top, Below
<1>2. ASSUME NEW x \in Value, SourceEmits(x) PROVE OInv'
  BY <1>2, SourceEmitsKeeps
<1>3. CASE SourceEnds
  BY <1>3, EnterDone DEF SourceEnds
<1> QED BY <1>1, <1>2, <1>3, SideEmitsKeeps, SideEndsKeeps, SourceFailsKeeps, ReturnKeeps DEF Next

LEMMA Invariant == Spec => []OInv
<1> QED BY Starts, Steps, PTL DEF Spec

(* Once no handler is in progress, an operator has ended exactly if what it has
   heard ends it, and then has let its inputs go; of a Take this holds only if its
   listeners do not feed it. *)
THEOREM EndsAsItHasTo == Spec => []EndsWithItsInputs
<1>1. OInv => EndsWithItsInputs
  <2> SUFFICES ASSUME OInv, stack = <<>>, kind = "take" => "feed" \notin listeners
               PROVE  (ended <=> HasToEnd) /\ (ended => links = {})
    BY DEF EndsWithItsInputs
  <2>1. Frames(stack) = {}
    BY DEF Frames
  <2>2. \A at : ~In(at)
    BY <2>1 DEF In
  <2>3. Came(heard) \in Nat /\ Count \in Nat
    <3>1. <<"end", 0>> \in Call /\ heard \in Seq(Call)
      BY DEF OInv, Typed, Call
    <3> QED BY <3>1, HeardNext, CountAssumption
  <2>4. Ends(kind, heard) => ended
    BY <2>2, <2>3 DEF OInv, WillEnd, Ends
  <2> QED BY <2>1, <2>4, ToEnd DEF OInv, HadTo, Dropped, Typed
<1> QED BY <1>1, Invariant, PTL

(* After its end an operator emits nothing, unless it is fed while it ends. *)
THEOREM Silent == Spec => SilentAfterEndAlone
<1>1. OInv /\ [Next]_vars => (ended /\ ~FedWhileConnected => outs' = outs)
  <2> SUFFICES ASSUME OInv, [Next]_vars, ended, ~FedWhileConnected PROVE outs' = outs
    OBVIOUS
  <2>1. /\ "early" \notin listeners
        /\ "feed" \in listeners => kind \notin {"takewhile", "sample"}
    BY DEF FedWhileConnected
  <2>2. MayCall => /\ "source" \notin links
                   /\ "side" \in links => kind = "takeuntil"
    <3> SUFFICES ASSUME MayCall, NEW s \in links
                 PROVE  s = "side" /\ kind = "takeuntil"
      BY DEF OInv, Typed
    <3>1. PICK f \in Frames(stack) : f.at = "done" /\ s \in f.drop
      BY DEF OInv, Dropped
    <3>2. "feed" \in listeners
      BY <3>1, OnStack DEF Under
    <3>3. f.drop \subseteq ThenLeft(kind)
      BY <2>1, <3>1, <3>2 DEF OInv, Drops
    <3> QED BY <2>1, <3>1, <3>2, <3>3, Inputs
  <2>3. CASE UNCHANGED vars
    BY <2>3 DEF vars
  <2>4. CASE Return
    <3>1. stack # <<>> /\ Top \in Frames(stack)
      BY <2>4, Popped DEF Return, Top, OInv, Typed
    <3>2. Top.at # "early"
      BY <2>1, <3>1 DEF OInv, Entered, In
    <3>3. Top \in FrameType
      BY <3>1, Popped DEF Top, OInv, Typed
    <3>4. Top.at \in AtValue \cup Elsewhere
      BY <3>3 DEF FrameType, AtValue, Elsewhere
    <3> QED BY <2>4, <3>2, <3>4 DEF Return, AtValue, Elsewhere
  <2>5. ASSUME NEW x \in Value, SourceEmits(x) PROVE outs' = outs
    BY <2>2, <2>5 DEF SourceEmits
  <2>6. CASE SourceEnds
    BY <2>2, <2>6 DEF SourceEnds
  <2>7. CASE SourceFails
    BY <2>2, <2>7 DEF SourceFails
  <2>8. CASE SideEmits \/ SideEnds
    <3>1. kind = "takeuntil"
      BY <2>2, <2>8 DEF SideEmits, SideEnds
    <3>2. OnSourceDone(kind, mem) = <<>> /\ outs \in Seq(Value)
      BY <3>1 DEF OnSourceDone, Batching, OInv, Typed
    <3>3. outs' = outs \/ outs' = outs \o <<>>
      BY <2>8, <3>1, <3>2 DEF SideEmits, SideEnds, EnterOnSourceDone
    <3> QED BY <3>2, <3>3
  <2> QED BY <2>3, <2>4, <2>5, <2>6, <2>7, <2>8 DEF Next
<1> QED BY <1>1, Invariant, PTL DEF Spec, SilentAfterEndAlone
-----------------------------------------------------------------------------
(* The attributes once the handler that is in progress will be through its emit. *)
NowOf(k, m, q) ==
    IF q = <<>> THEN m
    ELSE LET f == q[Len(q)]
         IN  IF f.at = "source" THEN AfterOnSource(k, m, f.x, TRUE)
             ELSE IF f.at \in {"side", "end"} THEN AfterOnTimer(k, m)
             ELSE m

NowIn(f, k, m, q) ==
    NowOf(k, m, q) = IF f.at = "source" THEN AfterOnSource(k, m, f.x, TRUE)
                     ELSE IF f.at \in {"side", "end"} THEN AfterOnTimer(k, m)
                     ELSE m

Ruled ==
    /\ kind \in Reentrant \/ "feed" \notin listeners
    /\ ended /\ kind \in SpoiltByLateValue => "early" \notin listeners

(* What has been emitted and the attributes are those of the rule. *)
Shows(k, h, o, m) == o = RuleOf(k, h) /\ IsSeq(o) /\ Right(k, h, m)

RInv == Ruled => Shows(kind, heard, outs, NowOf(kind, mem, stack))

(* No earlier listener runs before on_source of Errors, which is never called, and an
   operator that waits for the end hears of it once. *)
EInv ==
    /\ kind = "errors" => ~In("early")
    /\ kind \in AtItsEnd /\ Told(heard, "end") =>
           /\ "source" \in over
           /\ ended \/ (stack # <<>> /\ Top.at = "end")
-----------------------------------------------------------------------------
(* The classes are among those of Handlers.tla. *)
LEMMA AllOfThem == Kinds \subseteq AllKinds
BY KindsAssumption

(* A call that obeys the rule adds what the rule adds. *)
LEMMA Shown ==
    ASSUME NEW k, NEW h, NEW o, NEW m, Shows(k, h, o, m), NEW g, NEW out, NEW now,
           Obeys(k, h, g, out, now)
    PROVE  Shows(k, g, o \o out, now)
<1>1. IsSeq(o \o out)
  BY SeqMore DEF Shows, Obeys
<1> QED BY <1>1 DEF Shows, Obeys

(* The re-entrant classes keep nothing back during an emit. *)
LEMMA AfterReentrant ==
    ASSUME NEW k \in Reentrant, NEW m, NEW x
    PROVE  AfterOnSource(k, m, x, TRUE) = m /\ AfterOnTimer(k, m) = m
BY DEF Reentrant, AfterOnSource, AfterOnTimer

(* A stack on which no handler is at an emit of its own. *)
LEMMA Settled ==
    ASSUME NEW q \in Seq(FrameType), NEW k, NEW m,
           k \in Reentrant \/ \A f \in Frames(q) : f.at = "early"
    PROVE  NowOf(k, m, q) = m
<1>1. CASE q = <<>>
  BY <1>1 DEF NowOf
<1>2. CASE q # <<>>
  <2>1. PICK f \in Frames(q) : f = q[Len(q)]
    BY <1>2, Popped
  <2>2. CASE k \in Reentrant
    <3>1. AfterOnSource(k, m, f.x, TRUE) = m /\ AfterOnTimer(k, m) = m
      BY <2>2, AfterReentrant
    <3> QED BY <1>2, <2>1, <3>1 DEF NowOf
  <2>3. CASE \A i \in Frames(q) : i.at = "early"
    BY <1>2, <2>1, <2>3 DEF NowOf
  <2> QED BY <2>2, <2>3
<1> QED BY <1>1, <1>2

(* The handler on top of a stack. *)
LEMMA OnTop ==
    ASSUME NEW b \in Seq(FrameType), NEW f \in FrameType, NEW q, q = Append(b, f), NEW k, NEW m
    PROVE  NowIn(f, k, m, q)
<1>1. q # <<>> /\ q[Len(q)] = f
  BY Pushed
<1> QED BY ONLY <1>1 DEF NowOf, NowIn

(* The frames that handlers are put on the stack with. *)
LEMMA SomeFrames ==
    /\ \A x \in Value : /\ Frame("early", x, {}) \in FrameType /\ Frame("early", x, {}).at = "early"
                        /\ Frame("source", x, {}) \in FrameType /\ Frame("source", x, {}).at = "source"
                        /\ Frame("source", x, {}).x = x
    /\ \A at \in {"side", "end", "error"} :
           Frame(at, 0, {}) \in FrameType /\ Frame(at, 0, {}).at = at
    /\ \A then \in SUBSET {"source", "side"} :
           Frame("done", 0, then) \in FrameType /\ Frame("done", 0, then).at = "done"
BY DEF Frame, FrameType, AtValue, Elsewhere

(* set_done leaves the stack below, or puts a frame on it in which nothing is kept back. *)
LEMMA DoneStack ==
    ASSUME NEW first, NEW then \in SUBSET {"source", "side"}, NEW b, SetDone(first, then, b)
    PROVE  ended' /\ \/ stack' = b
                     \/ \E f \in FrameType : f.at = "done" /\ stack' = Append(b, f)
<1>1. ended' /\ (stack' = b \/ stack' = Append(b, Frame("done", 0, then)))
  BY DEF SetDone
<1> QED BY <1>1, SomeFrames

(* A step that leaves no handler at an emit of its own on top. *)
LEMMA DoneNow ==
    ASSUME NEW b \in Seq(FrameType),
           \/ stack' = b
           \/ \E f \in FrameType : f.at \in {"early", "error", "done"} /\ stack' = Append(b, f),
           kind \in Reentrant \/ \A f \in Frames(b) : f.at = "early",
           NEW m
    PROVE  NowOf(kind, m, stack') = m
<1>1. CASE stack' = b
  <2>1. NowOf(kind, m, b) = m
    BY Settled
  <2> QED BY <1>1, <2>1
<1>2. CASE \E f \in FrameType : f.at \in {"early", "error", "done"} /\ stack' = Append(b, f)
  <2>1. PICK f \in FrameType : f.at \in {"early", "error", "done"} /\ stack' = Append(b, f)
    BY <1>2
  <2>2. PICK q : q = stack'
    OBVIOUS
  <2>3. q = Append(b, f) /\ f.at \in {"early", "error", "done"}
    BY <2>1, <2>2
  <2>4. NowIn(f, kind, m, q)
    BY ONLY b \in Seq(FrameType), f \in FrameType, <2>3, OnTop
  <2>5. NowOf(kind, m, q) = m
    BY ONLY <2>3, <2>4 DEF NowIn
  <2> QED BY <2>2, <2>5
<1> QED BY <1>1, <1>2
-----------------------------------------------------------------------------
(* An end is for good. *)
LEMMA EndStays == ASSUME OInv, Next, ended PROVE ended' /\ UNCHANGED fixed
<1>1. ASSUME NEW x, NEW b, EnterOnSource(x, b) PROVE ended'
  BY <1>1 DEF EnterOnSource, LeaveOnSource, Stop, SetDone
<1>2. ASSUME EnterOnSourceDone PROVE ended'
  BY <1>2 DEF EnterOnSourceDone, SetDone
<1>3. ASSUME NEW x \in Value, SourceEmits(x) PROVE ended' /\ UNCHANGED fixed
  BY <1>1, <1>3 DEF SourceEmits
<1>4. CASE SourceEnds \/ SideEmits \/ SideEnds
  BY <1>2, <1>4 DEF SourceEnds, SideEmits, SideEnds
<1>5. CASE SourceFails
  BY <1>5 DEF SourceFails
<1>6. CASE Return
  <2>1. stack # <<>> /\ UNCHANGED fixed /\ Top \in FrameType
    BY <1>6, Popped DEF Return, Top, OInv, Typed
  <2>2. Top.at \in AtValue \cup Elsewhere
    BY <2>1 DEF FrameType
  <2>3. CASE Top.at = "early"
    BY <1>1, <1>6, <2>1, <2>3 DEF Return
  <2>4. CASE Top.at = "source"
    BY <1>6, <2>1, <2>4 DEF Return, LeaveOnSource, Stop, SetDone
  <2>5. CASE Top.at \in Elsewhere
    BY <1>6, <2>1, <2>5 DEF Return, SetDone, Elsewhere
  <2> QED BY <2>2, <2>3, <2>4, <2>5 DEF AtValue
<1> QED BY <1>3, <1>4, <1>5, <1>6 DEF Next

(* A step does not make an operator keep to its rule that did not. *)
LEMMA RuledBefore == ASSUME OInv, Next, UNCHANGED fixed, Ruled' PROVE Ruled
<1>1. kind' = kind /\ listeners' = listeners
  BY DEF fixed
<1> QED BY <1>1, EndStays DEF Ruled, Reentrant, OInv, Typed

(* When the inputs are used, nothing is kept back. *)
LEMMA Calling ==
    ASSUME OInv, Ruled, MayCall
    PROVE  /\ NowOf(kind, mem, stack) = mem
           /\ stack \in Seq(FrameType) /\ Under(stack)
           /\ kind \in Reentrant \/ \A f \in Frames(stack) : f.at = "early"
<1>1. stack \in Seq(FrameType) /\ Under(stack)
  BY OnStack DEF OInv, Typed
<1>2. kind \in Reentrant \/ \A f \in Frames(stack) : f.at = "early"
  BY <1>1 DEF Ruled, Under
<1> QED BY <1>1, <1>2, Settled
-----------------------------------------------------------------------------
(* No frame of an earlier listener is added. *)
LEMMA NoneEarly ==
    ASSUME NEW b \in Seq(FrameType), \A f \in Frames(b) : f.at # "early",
           \/ stack' = b
           \/ \E f \in FrameType : f.at # "early" /\ stack' = Append(b, f)
    PROVE  ~In("early")'
<1>1. CASE stack' = b
  BY <1>1 DEF In
<1>2. CASE \E f \in FrameType : f.at # "early" /\ stack' = Append(b, f)
  <2>1. PICK f \in FrameType : f.at # "early" /\ stack' = Append(b, f)
    BY <1>2
  <2>2. PICK q : q = stack'
    OBVIOUS
  <2>3. Frames(q) = Frames(b) \cup {f}
    BY <2>1, <2>2, Pushed
  <2> QED BY <2>1, <2>2, <2>3 DEF In
<1> QED BY <1>1, <1>2

(* What set_done, the end of the source and a return may put on the stack. *)
LEMMA ThenIn == FirstLeft(kind) \in SUBSET {"source", "side"} /\ ThenLeft(kind) \in SUBSET {"source", "side"}
BY Inputs

(* The stack after the end of the source, after a stop, and after a return. *)
LEMMA EndOnStack ==
    ASSUME EnterOnSourceDone
    PROVE  \/ stack' = stack
           \/ \E f \in FrameType : f.at \in {"end", "done"} /\ stack' = Append(stack, f)
<1>1. CASE OnSourceDone(kind, mem) # <<>>
  BY <1>1, SomeFrames DEF EnterOnSourceDone
<1>2. CASE OnSourceDone(kind, mem) = <<>>
  <2>1. SetDone(FirstLeft(kind), ThenLeft(kind), stack)
    BY <1>2 DEF EnterOnSourceDone
  <2> QED BY <2>1, ThenIn, DoneStack
<1> QED BY <1>1, <1>2

LEMMA StopStack ==
    ASSUME NEW b, Stop(b)
    PROVE  \/ stack' = b
           \/ \E f \in FrameType : f.at = "done" /\ stack' = Append(b, f)
<1>1. {} \in SUBSET {"source", "side"} /\ {"source"} \in SUBSET {"source", "side"}
  OBVIOUS
<1>2. CASE kind = "takewhile"
  BY <1>1, <1>2, DoneStack DEF Stop
<1>3. CASE kind # "takewhile"
  BY <1>1, <1>3, DoneStack DEF Stop
<1> QED BY <1>2, <1>3

LEMMA ReturnStack ==
    ASSUME OInv, Return, Top.at # "early"
    PROVE  \/ stack' = Below
           \/ \E f \in FrameType : f.at = "done" /\ stack' = Append(Below, f)
<1>1. stack # <<>> /\ Top \in FrameType
  BY Popped DEF Return, Top, OInv, Typed
<1>2. Top.at \in AtValue \cup Elsewhere
  BY <1>1 DEF FrameType
<1>3. CASE Top.at = "source"
  <2>1. Stop(Below) \/ stack' = Below
    BY <1>3 DEF Return, LeaveOnSource
  <2> QED BY <2>1, StopStack
<1>4. CASE Top.at = "side" \/ Top.at = "done"
  BY <1>4 DEF Return
<1>5. CASE Top.at = "end"
  <2>1. SetDone(FirstLeft(kind), ThenLeft(kind), Below)
    BY <1>5 DEF Return
  <2> QED BY <2>1, ThenIn, DoneStack
<1>6. CASE Top.at = "error"
  <2>1. SetDone({}, {}, Below) /\ {} \in SUBSET {"source", "side"}
    BY <1>6 DEF Return
  <2> QED BY <2>1, DoneStack
<1> QED BY <1>2, <1>3, <1>4, <1>5, <1>6 DEF AtValue, Elsewhere
-----------------------------------------------------------------------------
(* Errors never has an earlier listener in progress. *)
LEMMA ErrorsNeverEarly ==
    ASSUME OInv, EInv, Next, kind = "errors"
    PROVE  ~In("early")'
<1>1. stack \in Seq(FrameType) /\ \A f \in Frames(stack) : f.at # "early"
  BY DEF OInv, Typed, EInv, In
<1>2. CASE EnterOnSourceDone
  <2>1. \/ stack' = stack
        \/ \E f \in FrameType : f.at # "early" /\ stack' = Append(stack, f)
    BY <1>2, EndOnStack
  <2> QED BY <1>1, <2>1, NoneEarly
<1>3. CASE SourceFails
  <2>1. stack' = Append(stack, Frame("side", 0, {}))
    BY <1>3 DEF SourceFails
  <2>2. \E f \in FrameType : f.at # "early" /\ stack' = Append(stack, f)
    BY <2>1, SomeFrames
  <2> QED BY <1>1, <2>2, NoneEarly
<1>4. CASE Return
  <2>1. stack # <<>> /\ Below \in Seq(FrameType) /\ Frames(stack) = Frames(Below) \cup {Top}
    BY <1>1, <1>4, Popped DEF Return, Top, Below
  <2>2. Top.at # "early" /\ \A f \in Frames(Below) : f.at # "early"
    BY <1>1, <2>1
  <2>3. \/ stack' = Below
        \/ \E f \in FrameType : f.at # "early" /\ stack' = Append(Below, f)
    BY <1>4, <2>2, ReturnStack
  <2> QED BY <2>1, <2>2, <2>3, NoneEarly
<1>5. "side" \notin links /\ \A x : ~SourceEmits(x)
  BY Inputs DEF OInv, Typed, SourceEmits
<1> QED BY <1>2, <1>3, <1>4, <1>5 DEF Next, SourceEnds, SideEmits, SideEnds

(* An end is heard only once by an operator that waits for it. *)
LEMMA OnlySource ==
    ASSUME OInv, kind \in AtItsEnd
    PROVE  "side" \notin links /\ kind \notin {"takeuntil", "errors", "endonerror"}
<1>1. InputsOf(kind) = {"source"}
  BY DEF InputsOf, AtItsEnd, Batching
<1> QED BY <1>1 DEF OInv, Typed, AtItsEnd

(* The end of the source is being emitted for, or the operator has ended. *)
LEMMA EntersEnd ==
    ASSUME EnterOnSourceDone, stack \in Seq(FrameType)
    PROVE  ended' \/ (stack' # <<>> /\ Top'.at = "end")
<1>1. CASE OnSourceDone(kind, mem) # <<>>
  <2>1. PICK f \in FrameType : f = Frame("end", 0, {}) /\ f.at = "end"
    BY SomeFrames
  <2>2. PICK q : q = stack'
    OBVIOUS
  <2>3. q = Append(stack, f)
    BY <1>1, <2>1, <2>2 DEF EnterOnSourceDone
  <2>4. q # <<>> /\ q[Len(q)] = f
    BY <2>1, <2>3, Pushed
  <2> QED BY <2>1, <2>2, <2>4 DEF Top
<1>2. CASE OnSourceDone(kind, mem) = <<>>
  BY <1>2 DEF EnterOnSourceDone, SetDone
<1> QED BY <1>1, <1>2

(* Another call does not tell the end. *)
LEMMA ToldAfter ==
    ASSUME OInv, NEW c \in Call, heard' = Append(heard, c), c[1] # "end"
    PROVE  Told(heard, "end")' <=> Told(heard, "end")
<1>1. heard \in Seq(Call)
  BY DEF OInv, Typed
<1>2. PICK g : g = heard'
  OBVIOUS
<1>3. Told(g, "end") <=> Told(heard, "end")
  BY <1>1, <1>2, ToldNext
<1> QED BY <1>2, <1>3 DEF Told

LEMMA ValueIsCall == \A x \in Value : <<"value", x>> \in Call /\ <<"value", x>>[1] = "value"
BY DEF Call, ValueCall

(* When it is told, it stays told in this way. *)
LEMMA OneEnd ==
    ASSUME OInv, EInv, Next, kind \in AtItsEnd, Told(heard, "end")'
    PROVE  "source" \in over' /\ (ended' \/ (stack' # <<>> /\ Top'.at = "end"))
<1>1. stack \in Seq(FrameType)
  BY DEF OInv, Typed
<1>2. CASE SourceEnds
  <2>1. EnterOnSourceDone /\ over' = over \cup {"source"}
    BY <1>2 DEF SourceEnds
  <2> QED BY <1>1, <2>1, EntersEnd
<1>3. ASSUME NEW x \in Value, SourceEmits(x) PROVE FALSE
  <2>1. ~Told(heard, "end")
    BY <1>3 DEF SourceEmits, EInv
  <2>2. heard' = heard \/ heard' = Append(heard, <<"value", x>>)
    BY <1>3 DEF SourceEmits, EnterOnSource
  <2>3. ~Told(heard, "end")'
    BY <2>1, <2>2, ToldAfter, ValueIsCall
  <2> QED BY <2>3
<1>4. CASE Return
  <2>1. over' = over
    BY <1>4 DEF Return
  <2>2. CASE Top.at = "early"
    <3>1. stack # <<>> /\ Top \in FrameType
      BY <1>1, <1>4, Popped DEF Return, Top
    <3>2. Top.x \in Value
      BY <2>2, <3>1 DEF FrameType, AtValue, Elsewhere
    <3>3. heard' = Append(heard, <<"value", Top.x>>)
      BY <1>4, <2>2 DEF Return, EnterOnSource
    <3>4. Told(heard, "end")
      BY <3>2, <3>3, ToldAfter, ValueIsCall
    <3>5. "source" \in over /\ ended
      BY <2>2, <3>4 DEF EInv
    <3>6. ended'
      BY <3>5, EndStays
    <3> QED BY <2>1, <3>5, <3>6
  <2>3. CASE Top.at # "early"
    <3>1. /\ stack # <<>> /\ Top \in FrameType
      BY <1>1, <1>4, Popped DEF Return, Top
    <3>2. Top.at \in AtValue \cup Elsewhere
      BY <3>1 DEF FrameType
    <3>3. heard' = heard
      BY <1>4, <2>3, <3>2 DEF Return, AtValue, Elsewhere
    <3>4. Told(heard, "end")
      BY <3>3 DEF Told
    <3>5. "source" \in over /\ (ended \/ Top.at = "end")
      BY <3>4 DEF EInv
    <3>6. CASE ended
      BY <2>1, <3>5, <3>6, EndStays
    <3>7. CASE Top.at = "end"
      <4>1. ended'
        BY <1>4, <3>7 DEF Return, SetDone
      <4> QED BY <2>1, <3>5, <4>1
    <3> QED BY <3>5, <3>6, <3>7
  <2> QED BY <2>2, <2>3
<1> QED BY <1>2, <1>3, <1>4, OnlySource DEF Next, SideEmits, SideEnds, SourceFails

(* Every step keeps both. *)
LEMMA EndSteps == OInv /\ EInv /\ [Next]_vars => EInv'
<1> SUFFICES ASSUME OInv, EInv, [Next]_vars PROVE EInv'
  OBVIOUS
<1>1. CASE UNCHANGED vars
  BY <1>1 DEF vars, fixed, EInv, In, Top, Told
<1>2. CASE Next
  <2>1. kind' = kind
    BY <1>2 DEF Next, SourceEmits, SourceEnds, SideEmits, SideEnds, SourceFails, Return, fixed
  <2>2. kind' = "errors" => ~In("early")'
    BY <1>2, <2>1, ErrorsNeverEarly
  <2>3. (kind' \in AtItsEnd /\ Told(heard, "end")') =>
            "source" \in over' /\ (ended' \/ (stack' # <<>> /\ Top'.at = "end"))
    BY <1>2, <2>1, OneEnd
  <2> QED BY <2>2, <2>3 DEF EInv
<1> QED BY <1>1, <1>2
-----------------------------------------------------------------------------
ShownNext == Shows(kind, heard', outs', NowOf(kind, mem', stack'))
ShownNow == Shows(kind, heard, outs, mem)

(* on_source of a value. *)
LEMMA ValueShown ==
    ASSUME OInv, ShownNow, NEW x \in Value, NEW b \in Seq(FrameType), EnterOnSource(x, b),
           kind \in Reentrant \/ \A f \in Frames(b) : f.at = "early",
           kind # "errors", kind = "takewhile" => ~Falsy(heard),
           kind \in AtItsEnd => ~Told(heard, "end")
    PROVE  ShownNext
<1>1. PICK k \in AllKinds \ {"errors"} : k = kind
  BY AllOfThem DEF OInv, Typed
<1>2. PICK h \in Seq(Call) : h = heard
  BY DEF OInv, Typed
<1>3. PICK g : g = Append(h, <<"value", x>>)
  OBVIOUS
<1>4. PICK m : m = mem
  OBVIOUS
<1>5. PICK r : r = OnSource(k, m, x)
  OBVIOUS
<1>6. PICK now : now = AfterOnSource(k, r.mem, x, r.out # <<>>)
  OBVIOUS
<1>7. Shows(k, h, outs, m)
  BY <1>1, <1>2, <1>4 DEF ShownNow
<1>8. Obeys(k, h, g, r.out, now)
  <2>1. Right(k, h, m) /\ IsSeq(RuleOf(k, h))
    BY <1>7 DEF Shows
  <2>2. k = "takewhile" => \A i \in DOMAIN Values(h) : Truth(Values(h)[i])
    BY <1>1, <1>2 DEF Falsy
  <2>3. k \in AtItsEnd => ~Told(h, "end")
    BY <1>1, <1>2
  <2>4. Obeys(k, h, g, OnSource(k, m, x).out,
              AfterOnSource(k, OnSource(k, m, x).mem, x, OnSource(k, m, x).out # <<>>))
    BY <1>3, <2>1, <2>2, <2>3, ValueCalls
  <2> QED BY <1>5, <1>6, <2>4
<1>9. heard' = g /\ outs' = outs \o r.out
  BY <1>1, <1>2, <1>3, <1>4, <1>5 DEF EnterOnSource
<1>10. Shows(k, g, outs \o r.out, now)
  BY <1>7, <1>8, Shown
<1>11. NowOf(k, mem', stack') = now
  <2>1. PICK q : q = stack'
    OBVIOUS
  <2>2. CASE r.out # <<>>
    <3>1. PICK f \in FrameType : f = Frame("source", x, {}) /\ f.at = "source" /\ f.x = x
      BY SomeFrames
    <3>2. mem' = r.mem /\ q = Append(b, f)
      BY <1>1, <1>4, <1>5, <2>1, <2>2, <3>1 DEF EnterOnSource
    <3>3. NowIn(f, k, r.mem, q)
      BY <3>2, OnTop
    <3>4. NowOf(k, r.mem, q) = AfterOnSource(k, r.mem, x, TRUE)
      BY <3>1, <3>3 DEF NowIn
    <3>5. now = AfterOnSource(k, r.mem, x, TRUE)
      BY <1>6, <2>2
    <3> QED BY <2>1, <3>2, <3>4, <3>5
  <2>3. CASE r.out = <<>>
    <3>1. LeaveOnSource(r.mem, x, FALSE, b)
      BY <1>1, <1>4, <1>5, <2>3 DEF EnterOnSource
    <3>2. mem' = AfterOnSource(k, r.mem, x, FALSE)
      BY <1>1, <3>1 DEF LeaveOnSource
    <3>3. now = AfterOnSource(k, r.mem, x, FALSE)
      BY <1>6, <2>3
    <3>4. \/ stack' = b
          \/ \E f \in FrameType : f.at \in {"early", "error", "done"} /\ stack' = Append(b, f)
      BY <3>1, StopStack DEF LeaveOnSource
    <3>5. NowOf(kind, now, stack') = now
      BY <3>4, DoneNow
    <3> QED BY <1>1, <3>2, <3>3, <3>5
  <2> QED BY <2>2, <2>3
<1> QED BY <1>1, <1>9, <1>10, <1>11 DEF ShownNext

(* on_source_done. *)
LEMMA EndShown ==
    ASSUME OInv, ShownNow, EnterOnSourceDone, stack \in Seq(FrameType),
           kind \in Reentrant \/ \A f \in Frames(stack) : f.at = "early",
           kind \in AtItsEnd => ~Told(heard, "end")
    PROVE  ShownNext
<1>1. PICK k \in AllKinds : k = kind
  BY AllOfThem DEF OInv, Typed
<1>2. PICK h \in Seq(Call) : h = heard
  BY DEF OInv, Typed
<1>3. PICK g : g = Append(h, <<"end", 0>>)
  OBVIOUS
<1>4. PICK m : m = mem
  OBVIOUS
<1>5. PICK out : out = OnSourceDone(k, m)
  OBVIOUS
<1>7. Shows(k, h, outs, m)
  BY <1>1, <1>2, <1>4 DEF ShownNow
<1>8. Obeys(k, h, g, out, AfterOnTimer(k, m)) /\ (out = <<>> => Right(k, g, m))
  <2>1. Right(k, h, m) /\ IsSeq(RuleOf(k, h))
    BY <1>7 DEF Shows
  <2>2. k \in AtItsEnd => ~Told(h, "end")
    BY <1>1, <1>2
  <2>3. /\ Obeys(k, h, g, OnSourceDone(k, m), AfterOnTimer(k, m))
        /\ OnSourceDone(k, m) = <<>> => Right(k, g, m)
    BY <1>3, <2>1, <2>2, EndCalls
  <2> QED BY <1>5, <2>3
<1>9. heard' = g /\ outs' = outs \o out /\ mem' = m
  BY <1>1, <1>2, <1>3, <1>4, <1>5 DEF EnterOnSourceDone
<1>10. Shows(k, g, outs \o out, AfterOnTimer(k, m))
  BY <1>7, <1>8, Shown
<1>11. CASE out # <<>>
  <2>1. PICK f \in FrameType : f = Frame("end", 0, {}) /\ f.at = "end"
    BY SomeFrames
  <2>2. PICK q : q = stack'
    OBVIOUS
  <2>3. q = Append(stack, f)
    BY <1>1, <1>4, <1>5, <1>11, <2>1, <2>2 DEF EnterOnSourceDone
  <2>4. NowIn(f, k, m, q)
    BY <2>3, OnTop
  <2>5. NowOf(k, m, q) = AfterOnTimer(k, m)
    BY <2>1, <2>4 DEF NowIn
  <2> QED BY <1>1, <1>9, <1>10, <2>2, <2>5 DEF ShownNext
<1>12. CASE out = <<>>
  <2>1. SetDone(FirstLeft(kind), ThenLeft(kind), stack)
    BY <1>1, <1>4, <1>5, <1>12 DEF EnterOnSourceDone
  <2>2. \/ stack' = stack
        \/ \E f \in FrameType : f.at \in {"early", "error", "done"} /\ stack' = Append(stack, f)
    BY <2>1, ThenIn, DoneStack
  <2>3. NowOf(kind, m, stack') = m
    BY <2>2, DoneNow
  <2>4. Shows(k, g, outs \o out, m)
    BY <1>8, <1>10, <1>12 DEF Shows
  <2> QED BY <1>1, <1>9, <2>3, <2>4 DEF ShownNext
<1> QED BY <1>11, <1>12

(* The timer of Sample and ChunkWith. *)
LEMMA TickShown ==
    ASSUME OInv, ShownNow, SideEmits, kind # "takeuntil", stack \in Seq(FrameType),
           NowOf(kind, mem, stack) = mem
    PROVE  ShownNext
<1>1. PICK k \in Batching \cup {"sample"} : k = kind
  BY DEF SideEmits, OInv, Typed, InputsOf
<1>2. PICK h \in Seq(Call) : h = heard
  BY DEF OInv, Typed
<1>3. PICK g : g = Append(h, <<"tick", 0>>)
  OBVIOUS
<1>4. PICK m : m = mem
  OBVIOUS
<1>5. PICK out : out = OnTimer(k, m)
  OBVIOUS
<1>6. Shows(k, h, outs, m)
  BY <1>1, <1>2, <1>4 DEF ShownNow
<1>7. Obeys(k, h, g, out, AfterOnTimer(k, m)) /\ (out = <<>> => Right(k, g, m))
  <2>1. Right(k, h, m)
    BY <1>6 DEF Shows
  <2>2. /\ Obeys(k, h, g, OnTimer(k, m), AfterOnTimer(k, m))
        /\ OnTimer(k, m) = <<>> => Right(k, g, m)
    BY <1>3, <2>1, TickCalls
  <2> QED BY <1>5, <2>2
<1>8. /\ heard' = g /\ outs' = outs \o out /\ mem' = m
      /\ stack' = IF out = <<>> THEN stack ELSE Append(stack, Frame("side", 0, {}))
  BY <1>1, <1>2, <1>3, <1>4, <1>5 DEF SideEmits
<1>9. Shows(k, g, outs \o out, AfterOnTimer(k, m))
  BY <1>6, <1>7, Shown
<1>10. CASE out # <<>>
  <2>1. PICK f \in FrameType : f = Frame("side", 0, {}) /\ f.at = "side"
    BY SomeFrames
  <2>2. PICK q : q = stack'
    OBVIOUS
  <2>3. q = Append(stack, f)
    BY <1>8, <1>10, <2>1, <2>2
  <2>4. NowIn(f, k, m, q)
    BY <2>3, OnTop
  <2>5. NowOf(k, m, q) = AfterOnTimer(k, m)
    BY <2>1, <2>4 DEF NowIn
  <2> QED BY <1>1, <1>8, <1>9, <2>2, <2>5 DEF ShownNext
<1>11. CASE out = <<>>
  <2>1. NowOf(k, m, stack') = m
    BY <1>1, <1>4, <1>8, <1>11
  <2>2. Shows(k, g, outs \o out, m)
    BY <1>7, <1>9, <1>11 DEF Shows
  <2> QED BY <1>1, <1>8, <2>1, <2>2 DEF ShownNext
<1> QED BY <1>10, <1>11

(* An error of the source. *)
LEMMA ErrorShown ==
    ASSUME OInv, ShownNow, SourceFails, stack \in Seq(FrameType)
    PROVE  ShownNext
<1>1. PICK k \in {"endonerror", "errors"} : k = kind
  BY DEF SourceFails
<1>2. PICK h \in Seq(Call) : h = heard
  BY DEF OInv, Typed
<1>3. PICK g : g = Append(h, <<"error", 0>>)
  OBVIOUS
<1>4. PICK m : m = mem
  OBVIOUS
<1>5. PICK out : out = IF k = "errors" THEN ErrorsOn(m).out ELSE <<>>
  OBVIOUS
<1>6. Shows(k, h, outs, m)
  BY <1>1, <1>2, <1>4 DEF ShownNow
<1>7. Obeys(k, h, g, out, m)
  <2>1. Right(k, h, m) /\ IsSeq(RuleOf(k, h))
    BY <1>6 DEF Shows
  <2>2. Obeys(k, h, g, IF k = "errors" THEN ErrorsOn(m).out ELSE <<>>, m)
    BY <1>3, <2>1, ErrorCalls
  <2> QED BY <1>5, <2>2
<1>8. Shows(k, g, outs \o out, m)
  BY <1>6, <1>7, Shown
<1>9. outs \o <<>> = outs
  BY <1>6, SeqNone DEF Shows
<1>10. heard' = g /\ outs' = outs \o out /\ mem' = m
  BY <1>1, <1>2, <1>3, <1>4, <1>5, <1>9 DEF SourceFails
<1>11. PICK f \in FrameType : f.at \in {"side", "error"} /\ stack' = Append(stack, f)
  BY SomeFrames DEF SourceFails
<1>12. PICK q : q = stack'
  OBVIOUS
<1>13. NowIn(f, k, m, q)
  BY <1>11, <1>12, OnTop
<1>14. AfterOnTimer(k, m) = m
  BY DEF AfterOnTimer, Batching
<1>15. NowOf(k, m, q) = m
  BY <1>11, <1>13, <1>14 DEF NowIn
<1> QED BY <1>1, <1>8, <1>10, <1>12, <1>15 DEF ShownNext
-----------------------------------------------------------------------------
(* The inputs are used by an operator that has not ended. *)
LEMMA StillOpen ==
    ASSUME OInv, Ruled, MayCall, "source" \in links
    PROVE  ~ended
<1> SUFFICES ASSUME ended PROVE FALSE
  OBVIOUS
<1>1. PICK f \in Frames(stack) : f.at = "done" /\ "source" \in f.drop
  BY DEF OInv, Dropped
<1>2. "source" \notin ThenLeft(kind)
  BY DEF ThenLeft, FirstLeft, InputsOf
<1>3. kind = "takewhile"
  BY <1>1, <1>2 DEF OInv, Drops
<1>4. "feed" \notin listeners
  BY <1>3 DEF Ruled, Reentrant
<1>5. f.at = "early"
  BY <1>1, <1>4, OnStack DEF Under
<1> QED BY <1>1, <1>5

(* Where nothing is kept back, the attributes themselves are right. *)
LEMMA ShownBefore ==
    ASSUME RInv, Ruled, NowOf(kind, mem, stack) = mem
    PROVE  ShownNow
BY DEF RInv, ShownNow

(* Every action adds to what is emitted what its call adds to the rule. *)
LEMMA SourceEmitsShows ==
    ASSUME OInv, EInv, RInv, Ruled, NEW x \in Value, SourceEmits(x)
    PROVE  ShownNext
<1>1. /\ NowOf(kind, mem, stack) = mem
      /\ stack \in Seq(FrameType)
      /\ kind \in Reentrant \/ \A f \in Frames(stack) : f.at = "early"
  BY Calling DEF SourceEmits
<1>2. ShownNow
  BY <1>1, ShownBefore
<1>3. CASE "early" \in listeners
  <2>1. PICK f \in FrameType : f = Frame("early", x, {}) /\ f.at = "early"
    BY SomeFrames
  <2>2. stack' = Append(stack, f) /\ UNCHANGED <<mem, heard, outs>>
    BY <1>3, <2>1 DEF SourceEmits
  <2>3. NowOf(kind, mem, stack') = mem
    BY <1>1, <2>1, <2>2, DoneNow
  <2> QED BY <1>2, <2>2, <2>3 DEF ShownNow, ShownNext
<1>4. CASE "early" \notin listeners
  <2>1. EnterOnSource(x, stack) /\ kind # "errors" /\ "source" \in links /\ "source" \notin over
    BY <1>4 DEF SourceEmits
  <2>2. ~ended
    BY <2>1, StillOpen DEF SourceEmits
  <2>3. kind = "takewhile" => ~Falsy(heard)
    BY <2>2 DEF OInv, WillEnd
  <2>4. kind \in AtItsEnd => ~Told(heard, "end")
    BY <2>1 DEF EInv
  <2> QED BY <1>1, <1>2, <2>1, <2>3, <2>4, ValueShown
<1> QED BY <1>3, <1>4

LEMMA SourceEndsShows == ASSUME OInv, EInv, RInv, Ruled, SourceEnds PROVE ShownNext
<1>1. /\ NowOf(kind, mem, stack) = mem
      /\ stack \in Seq(FrameType)
      /\ kind \in Reentrant \/ \A f \in Frames(stack) : f.at = "early"
  BY Calling DEF SourceEnds
<1>2. ShownNow
  BY <1>1, ShownBefore
<1>3. EnterOnSourceDone /\ (kind \in AtItsEnd => ~Told(heard, "end"))
  BY DEF SourceEnds, EInv
<1> QED BY <1>1, <1>2, <1>3, EndShown

LEMMA SideShows == ASSUME OInv, EInv, RInv, Ruled, SideEmits \/ SideEnds PROVE ShownNext
<1>1. /\ NowOf(kind, mem, stack) = mem
      /\ stack \in Seq(FrameType)
      /\ kind \in Reentrant \/ \A f \in Frames(stack) : f.at = "early"
  BY Calling DEF SideEmits, SideEnds
<1>2. ShownNow
  BY <1>1, ShownBefore
<1>3. kind \notin AtItsEnd
  BY OnlySource DEF SideEmits, SideEnds
<1>4. CASE EnterOnSourceDone
  BY <1>1, <1>2, <1>3, <1>4, EndShown
<1>5. CASE SideEmits /\ kind # "takeuntil"
  BY <1>1, <1>2, <1>5, TickShown
<1>6. CASE SideEnds /\ kind = "takeuntil"
  <2>1. UNCHANGED <<mem, stack, heard, outs>>
    BY <1>6 DEF SideEnds
  <2> QED BY <1>1, <1>2, <2>1 DEF ShownNow, ShownNext
<1> QED BY <1>4, <1>5, <1>6 DEF SideEmits, SideEnds

LEMMA SourceFailsShows == ASSUME OInv, EInv, RInv, Ruled, SourceFails PROVE ShownNext
<1>1. NowOf(kind, mem, stack) = mem /\ stack \in Seq(FrameType)
  BY Calling DEF SourceFails
<1>2. ShownNow
  BY <1>1, ShownBefore
<1> QED BY <1>1, <1>2, ErrorShown

(* What was kept back during an emit is done when it is through. *)
LEMMA ReturnShows == ASSUME OInv, EInv, RInv, Ruled, Return PROVE ShownNext
<1>1. stack # <<>> /\ stack \in Seq(FrameType) /\ UNCHANGED fixed
  BY DEF Return, OInv, Typed
<1>2. /\ Top \in FrameType /\ Below \in Seq(FrameType)
      /\ Frames(stack) = Frames(Below) \cup {Top} /\ Top \in Frames(stack)
  BY <1>1, Popped DEF Top, Below
<1>3. Top.at \in AtValue \cup Elsewhere /\ (Top.at \in AtValue => Top.x \in Value)
  BY <1>2 DEF FrameType, AtValue, Elsewhere
<1>4. kind \in Reentrant \/ \A f \in Frames(Below) : f.at = "early"
  BY <1>1 DEF Ruled, OInv, Alone
<1>5. NowOf(kind, mem, stack) = IF Top.at = "source" THEN AfterOnSource(kind, mem, Top.x, TRUE)
                                ELSE IF Top.at \in {"side", "end"} THEN AfterOnTimer(kind, mem)
                                ELSE mem
  BY <1>1 DEF NowOf, Top
<1>6. CASE Top.at = "early"
  <2>1. PICK x \in Value : x = Top.x
    BY <1>3, <1>6 DEF AtValue
  <2>2. PICK b \in Seq(FrameType) : b = Below
    BY <1>2
  <2>3. EnterOnSource(x, b)
    BY <1>6, <2>1, <2>2 DEF Return
  <2>4. NowOf(kind, mem, stack) = mem
    BY <1>5, <1>6
  <2>5. ShownNow
    BY <2>4, ShownBefore
  <2>6. In("early") /\ "early" \in listeners
    BY <1>2, <1>6 DEF In, OInv, Entered
  <2>7. kind \in SpoiltByLateValue => ~ended
    BY <2>6 DEF Ruled
  <2>8. kind = "takewhile" => ~Falsy(heard)
    BY <2>7 DEF SpoiltByLateValue, OInv, WillEnd
  <2>9. kind # "errors" /\ (kind \in AtItsEnd => ~Told(heard, "end"))
    BY <1>6, <2>6, <2>7 DEF SpoiltByLateValue, AtItsEnd, EInv
  <2>10. kind \in Reentrant \/ \A f \in Frames(b) : f.at = "early"
    BY <1>4, <2>2
  <2> QED BY <2>3, <2>5, <2>8, <2>9, <2>10, ValueShown
<1>7. CASE Top.at # "early"
  <2>1. heard' = heard /\ outs' = outs /\ mem' = NowOf(kind, mem, stack)
    <3>1. CASE Top.at = "source"
      BY <1>5, <3>1 DEF Return, LeaveOnSource
    <3>2. CASE Top.at = "side"
      BY <1>5, <3>2 DEF Return
    <3>3. CASE Top.at = "end"
      BY <1>5, <3>3 DEF Return
    <3>4. CASE Top.at = "error" \/ Top.at = "done"
      BY <1>5, <3>4 DEF Return
    <3> QED BY <1>3, <1>7, <3>1, <3>2, <3>3, <3>4 DEF AtValue, Elsewhere
  <2>2. PICK m : m = NowOf(kind, mem, stack)
    OBVIOUS
  <2>3. Shows(kind, heard, outs, m)
    BY <2>2 DEF RInv
  <2>4. \/ stack' = Below
        \/ \E f \in FrameType : f.at \in {"early", "error", "done"} /\ stack' = Append(Below, f)
    BY <1>7, ReturnStack
  <2>5. NowOf(kind, m, stack') = m
    BY <1>2, <1>4, <2>4, DoneNow
  <2> QED BY <2>1, <2>2, <2>3, <2>5 DEF ShownNext
<1> QED BY <1>6, <1>7

(* Every step keeps to the rule, and the initial states do. *)
LEMMA RuleSteps == OInv /\ EInv /\ RInv /\ [Next]_vars => RInv'
<1> SUFFICES ASSUME OInv, EInv, RInv, [Next]_vars PROVE RInv'
  OBVIOUS
<1>1. CASE UNCHANGED vars
  BY <1>1 DEF vars, fixed, RInv, Ruled
<1>2. CASE Next
  <2> SUFFICES ASSUME Ruled' PROVE Shows(kind, heard, outs, NowOf(kind, mem, stack))'
    BY DEF RInv
  <2>1. UNCHANGED fixed /\ kind' = kind
    BY <1>2 DEF Next, SourceEmits, SourceEnds, SideEmits, SideEnds, SourceFails, Return, fixed
  <2>2. Ruled
    BY <1>2, <2>1, RuledBefore
  <2>3. ShownNext
    BY <1>2, <2>2, SourceEmitsShows, SourceEndsShows, SideShows, SourceFailsShows, ReturnShows
       DEF Next
  <2> QED BY <2>1, <2>3 DEF ShownNext
<1> QED BY <1>1, <1>2

LEMMA RuleStarts == Init => EInv /\ RInv
<1> SUFFICES ASSUME Init PROVE EInv /\ RInv
  OBVIOUS
<1>1. /\ kind \in AllKinds /\ mem = Fresh /\ stack = <<>> /\ ended = ("source" \in over)
      /\ heard = IF ended THEN <<<<"end", 0>>>> ELSE <<>>
      /\ outs = IF ended THEN OnSourceDone(kind, Fresh) ELSE <<>>
  BY AllOfThem DEF Init
<1>2. <<>> \in Seq(Call) /\ <<<<"end", 0>>>> = Append(<<>>, <<"end", 0>>)
  OBVIOUS
<1>3. EInv
  <2>1. Frames(stack) = {}
    BY <1>1 DEF Frames
  <2>2. ~In("early")
    BY <2>1 DEF In
  <2>3. Told(heard, "end") => ended
    BY <1>1, NoValues
  <2> QED BY <1>1, <2>2, <2>3 DEF EInv
<1>4. RuleOf(kind, <<>>) = <<>> /\ Right(kind, <<>>, Fresh)
  BY <1>1, NoCalls
<1>5. Shows(kind, <<>>, <<>>, Fresh)
  <2>1. <<>> \in Seq({})
    OBVIOUS
  <2> QED BY <1>4, <2>1 DEF Shows, IsSeq
<1>6. NowOf(kind, mem, stack) = mem
  BY <1>1 DEF NowOf
<1>7. Shows(kind, heard, outs, mem)
  <2>1. CASE ~ended
    BY <1>1, <1>5, <2>1
  <2>2. CASE ended
    <3>1. PICK k \in AllKinds : k = kind
      BY <1>1
    <3>2. PICK h \in Seq(Call) : h = <<>>
      BY <1>2
    <3>3. PICK g : g = Append(h, <<"end", 0>>)
      OBVIOUS
    <3>4. PICK out : out = OnSourceDone(k, Fresh)
      OBVIOUS
    <3>5. ~Told(h, "end") /\ Right(k, h, Fresh) /\ IsSeq(RuleOf(k, h))
      BY <1>5, <3>1, <3>2, NoValues DEF Shows
    <3>6. Obeys(k, h, g, out, AfterOnTimer(k, Fresh))
      BY <3>3, <3>4, <3>5, EndCalls
    <3>7. AfterOnTimer(k, Fresh) = Fresh
      BY DEF AfterOnTimer, Fresh
    <3>8. Shows(k, g, <<>> \o out, Fresh)
      BY <1>5, <3>1, <3>2, <3>6, <3>7, Shown
    <3>9. <<>> \o out = out
      BY <3>6 DEF Obeys, Small
    <3>10. heard = g /\ outs = out
      BY <1>1, <1>2, <2>2, <3>1, <3>2, <3>3, <3>4
    <3> QED BY <1>1, <3>1, <3>8, <3>9, <3>10
  <2> QED BY <2>1, <2>2
<1>8. RInv
  BY <1>6, <1>7 DEF RInv
<1> QED BY <1>3, <1>8

(* What every operator emits is what its rule says of the calls that its handlers have
   had, at every moment.  Listeners of its emits may use its inputs, but for the seven
   classes outside Reentrant; an earlier listener of the source may end it in the same
   emit, but for the four classes of SpoiltByLateValue. *)
THEOREM EmitsAsItsRuleSays == Spec => []EmitsByRule
<1>1. Spec => [](OInv /\ EInv /\ RInv)
  BY Starts, Steps, RuleStarts, EndSteps, RuleSteps, PTL DEF Spec
<1>2. RInv => EmitsByRule
  BY DEF RInv, Ruled, Shows, EmitsByRule
<1> QED BY <1>1, <1>2, PTL
=============================================================================
