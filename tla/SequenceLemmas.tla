--------------------------- MODULE SequenceLemmas ---------------------------
(***************************************************************************)
(* What the sequence operators of the models return: lengths, elements.    *)
(***************************************************************************)
EXTENDS Naturals, Sequences, SequencesExt, Filter, WellFoundedInduction, TLAPS

(* The end of a sequence grows, its head is taken. *)
LEMMA Grown ==
    ASSUME NEW S, NEW q \in Seq(S), NEW x \in S
    PROVE  /\ Append(q, x) \in Seq(S)
           /\ Len(q) \in Nat /\ DOMAIN q = 1 .. Len(q)
           /\ Len(Append(q, x)) = Len(q) + 1
           /\ DOMAIN Append(q, x) = 1 .. Len(q) + 1
           /\ \A i \in 1 .. Len(q) : Append(q, x)[i] = q[i]
           /\ Append(q, x)[Len(q) + 1] = x
OBVIOUS

LEMMA Taken ==
    ASSUME NEW S, NEW q \in Seq(S), q # <<>>
    PROVE  /\ Tail(q) \in Seq(S)
           /\ Len(q) \in Nat \ {0} /\ DOMAIN q = 1 .. Len(q)
           /\ Head(q) = q[1] /\ q[1] \in S
           /\ Len(Tail(q)) = Len(q) - 1
           /\ DOMAIN Tail(q) = 1 .. Len(q) - 1
           /\ \A i \in 1 .. Len(q) - 1 : Tail(q)[i] = q[i + 1]
OBVIOUS

(* The first elements of a sequence, and the others. *)
LEMMA Split ==
    ASSUME NEW S, NEW q \in Seq(S), NEW n \in 0 .. Len(q)
    PROVE  /\ SubSeq(q, 1, n) \in Seq(S) /\ SubSeq(q, n + 1, Len(q)) \in Seq(S)
           /\ Len(SubSeq(q, 1, n)) = n /\ Len(SubSeq(q, n + 1, Len(q))) = Len(q) - n
           /\ \A i \in 1 .. n : SubSeq(q, 1, n)[i] = q[i]
           /\ \A i \in 1 .. Len(q) - n : SubSeq(q, n + 1, Len(q))[i] = q[n + i]
OBVIOUS

LEMMA Joined ==
    ASSUME NEW S, NEW q \in Seq(S), NEW r \in Seq(S)
    PROVE  /\ q \o r \in Seq(S)
           /\ Len(q \o r) = Len(q) + Len(r)
           /\ \A i \in 1 .. Len(q) : (q \o r)[i] = q[i]
           /\ \A i \in 1 .. Len(r) : (q \o r)[Len(q) + i] = r[i]
           /\ \A i \in Len(q) + 1 .. Len(q) + Len(r) : (q \o r)[i] = r[i - Len(q)]
OBVIOUS

(* An element of a sequence without duplicates is removed: the others stay, in
   their order. *)
LEMMA RemovedOne ==
    ASSUME NEW S, NEW q \in Seq(S), NEW p \in 1 .. Len(q), IsInjective(q)
    PROVE  LET r == RemoveFirst(q, q[p])
           IN  /\ r \in Seq(S) /\ Len(q) \in Nat /\ Len(r) = Len(q) - 1
               /\ \A i \in 1 .. p - 1 : r[i] = q[i]
               /\ \A i \in p .. Len(q) - 1 : r[i] = q[i + 1]
<1> DEFINE I == {i \in 1 .. Len(q) : q[i] = q[p]}
           front == SubSeq(q, 1, p - 1)
           back == SubSeq(q, p + 1, Len(q))
<1>1. I = {p} /\ Len(q) \in Nat
  BY DEF IsInjective
<1>2. Min(I) = p
  BY <1>1 DEF Min
<1>3. SelectInSeq(q, LAMBDA v : v = q[p]) = p
  BY <1>1, <1>2 DEF SelectInSeq
<1>4. RemoveFirst(q, q[p]) = front \o back
  BY <1>3 DEF RemoveFirst, RemoveAt
<1>5. /\ p - 1 \in 0 .. Len(q)
      /\ front \in Seq(S) /\ Len(front) = p - 1
      /\ \A i \in 1 .. p - 1 : front[i] = q[i]
  <2>1. p - 1 \in 0 .. Len(q)
    BY <1>1
  <2> QED BY <2>1, Split
<1>6. /\ back \in Seq(S) /\ Len(back) = Len(q) - p
      /\ \A i \in 1 .. Len(q) - p : back[i] = q[p + i]
  <2>1. p \in 0 .. Len(q)
    BY <1>1
  <2> QED BY <2>1, Split
<1> HIDE DEF front, back
<1>7. /\ front \o back \in Seq(S) /\ Len(front \o back) = Len(front) + Len(back)
      /\ \A i \in 1 .. Len(front) : (front \o back)[i] = front[i]
      /\ \A i \in Len(front) + 1 .. Len(front) + Len(back) :
            (front \o back)[i] = back[i - Len(front)]
  <2>1. front \in Seq(S) /\ back \in Seq(S)
    BY <1>5, <1>6
  <2> QED BY ONLY <2>1, Joined
<1>8. Len(front \o back) = Len(q) - 1
  BY <1>1, <1>5, <1>6, <1>7
<1>9. \A i \in 1 .. p - 1 : (front \o back)[i] = q[i]
  BY <1>5, <1>7
<1>10. ASSUME NEW i \in p .. Len(q) - 1 PROVE (front \o back)[i] = q[i + 1]
  <2>1. /\ i \in Len(front) + 1 .. Len(front) + Len(back)
        /\ i - Len(front) \in 1 .. Len(q) - p /\ p + (i - Len(front)) = i + 1
    BY <1>1, <1>5, <1>6
  <2>2. (front \o back)[i] = back[i - Len(front)]
    BY <2>1, <1>7
  <2>3. back[i - Len(front)] = q[p + (i - Len(front))]
    BY <2>1, <1>6
  <2> QED BY <2>1, <2>2, <2>3
<1> QED
  BY <1>1, <1>4, <1>7, <1>8, <1>9, <1>10
-----------------------------------------------------------------------------
(* A set of numbers has a least one: induction over sets of numbers. *)
LEMMA Least ==
    ASSUME NEW T \in SUBSET Nat, T # {}
    PROVE  \E n \in T : \A m \in T : n <= m
<1> DEFINE R == {ss \in Nat \X Nat : ss[1] < ss[2]}
<1>1. IsWellFoundedOn(R, Nat)
  BY NatLessThanWellFounded DEF OpToRel
<1> HIDE DEF R
<1>2. PICK n \in T : \A m \in T : ~(<<m, n>> \in R)
  BY <1>1, WFMin
<1>3. \A m \in T : ~(m < n)
  BY <1>2 DEF R
<1> QED BY <1>3

LEMMA Induct ==
    ASSUME NEW T \in SUBSET Nat, 0 \in T, \A n \in T : n + 1 \in T
    PROVE  T = Nat
<1> SUFFICES ASSUME Nat \ T # {} PROVE FALSE
  OBVIOUS
<1>1. PICK n \in Nat \ T : \A m \in Nat \ T : n <= m
  <2>1. Nat \ T \in SUBSET Nat
    OBVIOUS
  <2> QED BY <2>1, Least
<1>2. n # 0 /\ n - 1 \in Nat /\ n - 1 \in T
  BY <1>1
<1> QED BY <1>1, <1>2

(* The function that Keep is defined by: it exists, and what it is made of. *)
KeepsOf(q, S, n, kept) ==
    kept = [i \in 0 .. n |-> IF i = 0 THEN <<>>
              ELSE IF q[i] \in S THEN Append(kept[i - 1], q[i]) ELSE kept[i - 1]]

LEMMA KeepExists ==
    ASSUME NEW A, NEW q \in Seq(A), NEW S
    PROVE  \E kept : KeepsOf(q, S, Len(q), kept)
<1> DEFINE T == {n \in Nat : n <= Len(q) => \E kept : KeepsOf(q, S, n, kept)}
<1>1. 0 \in T
  <2> DEFINE k0 == [i \in 0 .. 0 |-> <<>>]
  <2>1. KeepsOf(q, S, 0, k0)
    BY DEF KeepsOf
  <2> QED BY <2>1
<1>2. ASSUME NEW n \in T PROVE n + 1 \in T
  <2>1. SUFFICES ASSUME n + 1 <= Len(q) PROVE \E kept : KeepsOf(q, S, n + 1, kept)
    OBVIOUS
  <2>2. PICK kept : KeepsOf(q, S, n, kept)
    BY <2>1
  <2> DEFINE last == IF q[n + 1] \in S THEN Append(kept[n], q[n + 1]) ELSE kept[n]
  <2> DEFINE more == [i \in 0 .. n + 1 |-> IF i = n + 1 THEN last ELSE kept[i]]
  <2>3. ASSUME NEW i \in 0 .. n + 1
        PROVE  more[i] = IF i = 0 THEN <<>>
              ELSE IF q[i] \in S THEN Append(more[i - 1], q[i]) ELSE more[i - 1]
    <3>1. CASE i = n + 1
      <4>1. i # 0 /\ i - 1 = n /\ n \in 0 .. n + 1 /\ n # n + 1
        BY <3>1
      <4>2. more[i] = last /\ more[i - 1] = kept[n]
        BY <3>1, <4>1
      <4> QED BY <3>1, <4>1, <4>2
    <3>2. CASE i # n + 1
      <4>1. i \in 0 .. n /\ (i # 0 => i - 1 \in 0 .. n + 1 /\ i - 1 # n + 1)
        BY <3>2
      <4>2. more[i] = kept[i] /\ (i # 0 => more[i - 1] = kept[i - 1])
        BY <3>2, <4>1
      <4> QED BY <2>2, <4>1, <4>2 DEF KeepsOf
    <3> QED BY <3>1, <3>2
  <2>4. KeepsOf(q, S, n + 1, more)
    BY <2>3 DEF KeepsOf
  <2> QED BY <2>4
<1>3. T = Nat
  <2> HIDE DEF T
  <2>1. T \in SUBSET Nat
    BY DEF T
  <2> QED BY <1>1, <1>2, <2>1, Induct
<1>4. Len(q) \in Nat
  OBVIOUS
<1>5. Len(q) \in T
  BY <1>3, <1>4
<1> QED BY <1>5

LEMMA KeepDef ==
    ASSUME NEW A, NEW q \in Seq(A), NEW S
    PROVE  \E kept : KeepsOf(q, S, Len(q), kept) /\ Keep(q, S) = kept[Len(q)]
<1>1. KeepsOf(q, S, Len(q), CHOOSE kept : KeepsOf(q, S, Len(q), kept))
  BY KeepExists
<1>2. Keep(q, S) = (CHOOSE kept : KeepsOf(q, S, Len(q), kept))[Len(q)]
  BY DEF Keep, KeepsOf
<1> QED BY <1>1, <1>2

LEMMA KeptNext ==
    ASSUME NEW A, NEW q \in Seq(A), NEW S, NEW kept, KeepsOf(q, S, Len(q), kept)
    PROVE  /\ kept[0] = <<>>
           /\ \A n \in Nat : n + 1 <= Len(q) =>
                 kept[n + 1] = IF q[n + 1] \in S THEN Append(kept[n], q[n + 1]) ELSE kept[n]
<1> DEFINE F == [i \in 0 .. Len(q) |-> IF i = 0 THEN <<>>
                    ELSE IF q[i] \in S THEN Append(kept[i - 1], q[i]) ELSE kept[i - 1]]
<1>1. kept = F
  BY DEF KeepsOf
<1>2. F[0] = <<>>
  OBVIOUS
<1>3. ASSUME NEW n \in Nat, n + 1 <= Len(q)
      PROVE  F[n + 1] = IF q[n + 1] \in S THEN Append(kept[n], q[n + 1]) ELSE kept[n]
  <2>1. n + 1 \in 0 .. Len(q) /\ n + 1 # 0 /\ n + 1 - 1 = n
    BY <1>3
  <2> QED BY <2>1
<1> HIDE DEF F
<1> QED BY <1>1, <1>2, <1>3

LEMMA KeptType ==
    ASSUME NEW A, NEW q \in Seq(A), NEW S, NEW kept, KeepsOf(q, S, Len(q), kept)
    PROVE  \A n \in 0 .. Len(q) : kept[n] \in Seq(A \cap S)
<1> DEFINE T == {n \in Nat : n <= Len(q) => kept[n] \in Seq(A \cap S)}
<1>1. kept[0] = <<>>
  BY KeptNext
<1>2. \A n \in Nat : n + 1 <= Len(q) =>
           kept[n + 1] = IF q[n + 1] \in S THEN Append(kept[n], q[n + 1]) ELSE kept[n]
  BY KeptNext
<1>3. 0 \in T
  <2>1. <<>> \in Seq(A \cap S)
    OBVIOUS
  <2> QED BY <1>1, <2>1
<1>4. ASSUME NEW n \in T PROVE n + 1 \in T
  <2> SUFFICES ASSUME n + 1 <= Len(q) PROVE kept[n + 1] \in Seq(A \cap S)
    OBVIOUS
  <2>1. n \in Nat /\ q[n + 1] \in A /\ kept[n] \in Seq(A \cap S)
    OBVIOUS
  <2>2. kept[n + 1] = IF q[n + 1] \in S THEN Append(kept[n], q[n + 1]) ELSE kept[n]
    BY <1>2, <2>1
  <2> QED BY <2>1, <2>2
<1>5. T = Nat
  <2> HIDE DEF T
  <2>1. T \in SUBSET Nat
    BY DEF T
  <2> QED BY <1>3, <1>4, <2>1, Induct
<1> QED BY <1>5

LEMMA KeptSame ==
    ASSUME NEW A, NEW q \in Seq(A), NEW r \in Seq(A), NEW S,
           NEW kq, KeepsOf(q, S, Len(q), kq), NEW kr, KeepsOf(r, S, Len(r), kr),
           NEW m \in Nat, m <= Len(q), m <= Len(r), \A i \in 1 .. m : q[i] = r[i]
    PROVE  kq[m] = kr[m]
<1> DEFINE T == {n \in Nat : n <= m => kq[n] = kr[n]}
<1>1. 0 \in T
  <2>1. kq[0] = <<>> /\ kr[0] = <<>>
    BY KeptNext
  <2> QED BY <2>1
<1>2. ASSUME NEW n \in T PROVE n + 1 \in T
  <2> SUFFICES ASSUME n + 1 <= m PROVE kq[n + 1] = kr[n + 1]
    OBVIOUS
  <2>1. /\ n + 1 \in 1 .. Len(q) /\ n + 1 \in 1 .. Len(r) /\ n + 1 - 1 = n
        /\ kq[n] = kr[n] /\ q[n + 1] = r[n + 1]
    OBVIOUS
  <2>2. kq[n + 1] = IF q[n + 1] \in S THEN Append(kq[n], q[n + 1]) ELSE kq[n]
    BY <2>1, KeptNext
  <2>3. kr[n + 1] = IF r[n + 1] \in S THEN Append(kr[n], r[n + 1]) ELSE kr[n]
    BY <2>1, KeptNext
  <2> QED BY <2>1, <2>2, <2>3
<1>3. T = Nat
  <2> HIDE DEF T
  <2>1. T \in SUBSET Nat
    BY DEF T
  <2> QED BY <1>1, <1>2, <2>1, Induct
<1> QED BY <1>3

(* What Keep returns of the empty sequence, of one that grows, of its places, of
   two in a row, of one without its head. *)
LEMMA KeepNone == ASSUME NEW S PROVE Keep(<<>>, S) = <<>>
<1>1. <<>> \in Seq(Nat) /\ Len(<<>>) = 0
  OBVIOUS
<1>2. PICK kept : KeepsOf(<<>>, S, 0, kept) /\ Keep(<<>>, S) = kept[0]
  BY <1>1, KeepDef
<1>3. kept[0] = <<>>
  BY <1>1, <1>2, KeptNext
<1> QED BY <1>2, <1>3

LEMMA KeepAppend ==
    ASSUME NEW A, NEW q \in Seq(A), NEW x \in A, NEW S
    PROVE  /\ Keep(q, S) \in Seq(A \cap S)
           /\ Keep(Append(q, x), S) = IF x \in S THEN Append(Keep(q, S), x) ELSE Keep(q, S)
<1> DEFINE r == Append(q, x)
<1>1. r \in Seq(A) /\ Len(r) = Len(q) + 1 /\ Len(q) \in Nat /\ r[Len(q) + 1] = x
      /\ \A i \in 1 .. Len(q) : q[i] = r[i]
  OBVIOUS
<1>2. PICK kq : KeepsOf(q, S, Len(q), kq) /\ Keep(q, S) = kq[Len(q)]
  BY KeepDef
<1> HIDE DEF r
<1>3. PICK kr : KeepsOf(r, S, Len(r), kr) /\ Keep(r, S) = kr[Len(r)]
  BY <1>1, KeepDef
<1>4. kq[Len(q)] = kr[Len(q)]
  <2>1. Len(q) <= Len(q) /\ Len(q) <= Len(r)
    BY <1>1
  <2> QED BY <1>1, <1>2, <1>3, <2>1, KeptSame
<1>5. kr[Len(q) + 1] = IF x \in S THEN Append(kr[Len(q)], x) ELSE kr[Len(q)]
  <2>1. Len(q) \in Nat /\ Len(q) + 1 <= Len(r)
    BY <1>1
  <2>2. kr[Len(q) + 1] = IF r[Len(q) + 1] \in S THEN Append(kr[Len(q)], r[Len(q) + 1])
                         ELSE kr[Len(q)]
    BY <1>1, <1>3, <2>1, KeptNext
  <2> QED BY <1>1, <2>2
<1>6. kq[Len(q)] \in Seq(A \cap S)
  <2>1. Len(q) \in 0 .. Len(q)
    BY <1>1
  <2> QED BY <1>2, <2>1, KeptType
<1> QED BY <1>1, <1>2, <1>3, <1>4, <1>5, <1>6 DEF r

(* The elements of k are those of the first m of q that are in S, at the places f. *)
PlacesOf(f, q, S, m, k) ==
    /\ f \in [1 .. Len(k) -> 1 .. m]
    /\ \A i \in 1 .. Len(k) : k[i] = q[f[i]] /\ q[f[i]] \in S
    /\ \A i, j \in 1 .. Len(k) : i < j => f[i] < f[j]
    /\ \A n \in 1 .. m : q[n] \in S => \E i \in 1 .. Len(k) : f[i] = n

LEMMA KeptPlaces ==
    ASSUME NEW A, NEW q \in Seq(A), NEW S
    PROVE  /\ Keep(q, S) \in Seq(A \cap S)
           /\ \E f : PlacesOf(f, q, S, Len(q), Keep(q, S))
<1>1. PICK kept : KeepsOf(q, S, Len(q), kept) /\ Keep(q, S) = kept[Len(q)]
  BY KeepDef
<1>2. /\ kept[0] = <<>>
      /\ \A n \in Nat : n + 1 <= Len(q) =>
           kept[n + 1] = IF q[n + 1] \in S THEN Append(kept[n], q[n + 1]) ELSE kept[n]
  BY <1>1, KeptNext
<1>3. \A n \in 0 .. Len(q) : kept[n] \in Seq(A \cap S)
  BY <1>1, KeptType
<1> DEFINE T == {n \in Nat : n <= Len(q) => \E f : PlacesOf(f, q, S, n, kept[n])}
<1>4. 0 \in T
  <2> DEFINE f == [i \in 1 .. 0 |-> i]
  <2>1. PlacesOf(f, q, S, 0, <<>>)
    BY DEF PlacesOf
  <2> QED BY <1>2, <2>1
<1>5. ASSUME NEW n \in T PROVE n + 1 \in T
  <2> SUFFICES ASSUME n + 1 <= Len(q) PROVE \E f : PlacesOf(f, q, S, n + 1, kept[n + 1])
    OBVIOUS
  <2>1. PICK f : PlacesOf(f, q, S, n, kept[n])
    OBVIOUS
  <2>2. n \in Nat /\ n \in 0 .. Len(q) /\ q[n + 1] \in A
    OBVIOUS
  <2>3. kept[n] \in Seq(A \cap S) /\ Len(kept[n]) \in Nat
    BY <1>3, <2>2
  <2> DEFINE k == kept[n]
  <2>4. kept[n + 1] = IF q[n + 1] \in S THEN Append(k, q[n + 1]) ELSE k
    BY <1>2, <2>2
  <2> HIDE DEF k
  <2>5. CASE q[n + 1] \notin S
    <3>1. kept[n + 1] = k
      BY <2>4, <2>5
    <3>2. PlacesOf(f, q, S, n + 1, k)
      <4>1. PlacesOf(f, q, S, n, k)
        BY <2>1 DEF k
      <4>2. \A m \in 1 .. n + 1 : m \in 1 .. n \/ m = n + 1
        BY <2>2
      <4>3. f \in [1 .. Len(k) -> 1 .. n + 1]
        BY <2>2, <4>1 DEF PlacesOf
      <4> QED BY <2>5, <4>1, <4>2, <4>3 DEF PlacesOf
    <3> QED BY <3>1, <3>2
  <2>6. CASE q[n + 1] \in S
    <3> DEFINE r == Append(k, q[n + 1])
               g == [i \in 1 .. Len(k) + 1 |-> IF i = Len(k) + 1 THEN n + 1 ELSE f[i]]
    <3>1. /\ Len(k) \in Nat /\ Len(r) = Len(k) + 1 /\ r[Len(k) + 1] = q[n + 1]
          /\ \A i \in 1 .. Len(k) : r[i] = k[i]
      BY <2>2, <2>3, <2>6 DEF k
    <3>2. PlacesOf(f, q, S, n, k)
      BY <2>1 DEF k
    <3>3. /\ \A i \in 1 .. Len(k) : g[i] = f[i]
          /\ g[Len(k) + 1] = n + 1
          /\ \A i \in 1 .. Len(r) : i \in 1 .. Len(k) \/ i = Len(k) + 1
          /\ DOMAIN g = 1 .. Len(r)
      BY <3>1, <3>2 DEF PlacesOf
    <3>4. g \in [1 .. Len(r) -> 1 .. n + 1]
      BY <2>2, <3>1, <3>2 DEF PlacesOf
    <3> HIDE DEF r, g
    <3>5. \A i \in 1 .. Len(r) : r[i] = q[g[i]] /\ q[g[i]] \in S
      BY <2>6, <3>1, <3>2, <3>3 DEF PlacesOf
    <3>6. \A i, j \in 1 .. Len(r) : i < j => g[i] < g[j]
      <4>1. \A i \in 1 .. Len(k) : f[i] \in 1 .. n
        BY <3>2 DEF PlacesOf
      <4>2. ASSUME NEW i \in 1 .. Len(r), NEW j \in 1 .. Len(r), i < j PROVE g[i] < g[j]
        <5>1. i \in 1 .. Len(k) /\ g[i] = f[i] /\ f[i] \in 1 .. n
          BY <3>1, <3>3, <4>1, <4>2
        <5>2. CASE j = Len(k) + 1
          BY <2>2, <3>3, <5>1, <5>2
        <5>3. CASE j \in 1 .. Len(k)
          BY <3>2, <3>3, <4>2, <5>1, <5>3 DEF PlacesOf
        <5> QED BY <3>3, <5>2, <5>3
      <4> QED BY <4>2
    <3>7. \A m \in 1 .. n + 1 : q[m] \in S => \E i \in 1 .. Len(r) : g[i] = m
      <4>1. \A m \in 1 .. n + 1 : m \in 1 .. n \/ m = n + 1
        BY <2>2
      <4>2. Len(k) + 1 \in 1 .. Len(r) /\ \A i \in 1 .. Len(k) : i \in 1 .. Len(r)
        BY <3>1
      <4> QED BY <3>2, <3>3, <4>1, <4>2 DEF PlacesOf
    <3>8. PlacesOf(g, q, S, n + 1, r)
      BY <3>4, <3>5, <3>6, <3>7 DEF PlacesOf
    <3>9. kept[n + 1] = r
      BY <2>4, <2>6 DEF r
    <3> QED BY <3>8, <3>9
  <2> QED BY <2>5, <2>6
<1>6. T = Nat
  <2> HIDE DEF T
  <2>1. T \in SUBSET Nat
    BY DEF T
  <2> QED BY <1>4, <1>5, <2>1, Induct
<1>7. Len(q) \in Nat /\ Len(q) \in 0 .. Len(q)
  OBVIOUS
<1>8. Len(q) \in T
  BY <1>6, <1>7
<1> QED BY <1>1, <1>3, <1>7, <1>8

LEMMA KeepJoined ==
    ASSUME NEW A, NEW q \in Seq(A), NEW r \in Seq(A), NEW S
    PROVE  Keep(q \o r, S) = Keep(q, S) \o Keep(r, S)
<1> DEFINE b == q \o r
<1>1. /\ b \in Seq(A) /\ Len(b) = Len(q) + Len(r) /\ Len(q) \in Nat /\ Len(r) \in Nat
      /\ \A i \in 1 .. Len(q) : q[i] = b[i]
      /\ \A i \in 1 .. Len(r) : b[Len(q) + i] = r[i]
  OBVIOUS
<1>0. b \in Seq(A)
  BY <1>1
<1> HIDE DEF b
<1>2. PICK kq : KeepsOf(q, S, Len(q), kq) /\ Keep(q, S) = kq[Len(q)]
  BY KeepDef
<1>3. PICK kr : KeepsOf(r, S, Len(r), kr) /\ Keep(r, S) = kr[Len(r)]
  BY KeepDef
<1>4. PICK kb : KeepsOf(b, S, Len(b), kb) /\ Keep(b, S) = kb[Len(b)]
  BY <1>1, KeepDef
<1>5. /\ kr[0] = <<>>
      /\ \A n \in Nat : n + 1 <= Len(r) =>
           kr[n + 1] = IF r[n + 1] \in S THEN Append(kr[n], r[n + 1]) ELSE kr[n]
  BY <1>3, KeptNext
<1>6. \A n \in Nat : n + 1 <= Len(b) =>
           kb[n + 1] = IF b[n + 1] \in S THEN Append(kb[n], b[n + 1]) ELSE kb[n]
  <2>1. KeepsOf(b, S, Len(b), kb)
    BY <1>4
  <2> QED BY ONLY <1>0, <2>1, KeptNext
<1>7. kb[Len(q)] = kq[Len(q)]
  <2>1. Len(q) \in Nat /\ Len(q) <= Len(q) /\ Len(q) <= Len(b) /\ \A i \in 1 .. Len(q) : b[i] = q[i]
    BY <1>1
  <2> QED BY <1>0, <1>2, <1>4, <2>1, KeptSame
<1>8. kq[Len(q)] \in Seq(A \cap S) /\ \A n \in 0 .. Len(r) : kr[n] \in Seq(A \cap S)
  <2>1. Len(q) \in 0 .. Len(q)
    BY <1>1
  <2> QED BY <1>2, <1>3, <2>1, KeptType
<1> DEFINE T == {n \in Nat : n <= Len(r) => kb[Len(q) + n] = kq[Len(q)] \o kr[n]}
<1>9. 0 \in T
  <2>1. Len(q) + 0 = Len(q)
    BY <1>1
  <2>2. kq[Len(q)] \o <<>> = kq[Len(q)]
    BY <1>8
  <2>3. kb[Len(q) + 0] = kq[Len(q)] \o kr[0]
    BY <1>5, <1>7, <2>1, <2>2
  <2> QED BY <2>3
<1>10. ASSUME NEW n \in T PROVE n + 1 \in T
  <2>0. n + 1 \in Nat
    OBVIOUS
  <2> SUFFICES ASSUME n + 1 <= Len(r) PROVE kb[Len(q) + (n + 1)] = kq[Len(q)] \o kr[n + 1]
    BY <2>0
  <2>1. /\ n \in Nat /\ n \in 0 .. Len(r) /\ Len(q) + (n + 1) = (Len(q) + n) + 1
        /\ Len(q) + n \in Nat /\ Len(q) + n + 1 <= Len(b) /\ n + 1 \in 1 .. Len(r)
    BY <1>1
  <2>2. kb[Len(q) + n] = kq[Len(q)] \o kr[n]
    <3>1. n <= Len(r)
      BY <2>1
    <3> QED BY <3>1
  <2>3. b[Len(q) + n + 1] = r[n + 1] /\ r[n + 1] \in A
    BY <1>1, <2>1
  <2>4. kb[Len(q) + n + 1] = IF r[n + 1] \in S THEN Append(kq[Len(q)] \o kr[n], r[n + 1])
                             ELSE kq[Len(q)] \o kr[n]
    BY <1>6, <2>1, <2>2, <2>3
  <2>5. kr[n + 1] = IF r[n + 1] \in S THEN Append(kr[n], r[n + 1]) ELSE kr[n]
    BY <1>5, <2>1
  <2> DEFINE u == kq[Len(q)]
             v == kr[n]
             x == r[n + 1]
  <2>6. x \in S => Append(u \o v, x) = u \o Append(v, x)
    <3>1. u \in Seq(A) /\ v \in Seq(A) /\ x \in A
      BY <1>8, <2>1, <2>3
    <3> HIDE DEF u, v, x
    <3>2. u \o v \in Seq(A) /\ <<x>> \in Seq(A)
      BY <3>1
    <3>3. \A w \in Seq(A) : Append(w, x) = w \o <<x>>
      BY <3>1
    <3>4. (u \o v) \o <<x>> = u \o (v \o <<x>>)
      BY <3>1, <3>2
    <3> QED BY <3>1, <3>2, <3>3, <3>4, Zenon
  <2> HIDE DEF u, v, x
  <2>7. kb[Len(q) + n + 1] = u \o (IF x \in S THEN Append(v, x) ELSE v)
    BY <2>4, <2>6 DEF u, v, x
  <2> QED BY <2>1, <2>5, <2>7 DEF u, v, x
<1>11. T = Nat
  <2> HIDE DEF T
  <2>1. T \in SUBSET Nat
    BY DEF T
  <2> QED BY <1>9, <1>10, <2>1, Induct
<1>12. Len(r) \in Nat /\ Len(r) <= Len(r)
  BY <1>1
<1>13. kb[Len(q) + Len(r)] = kq[Len(q)] \o kr[Len(r)]
  BY <1>11, <1>12
<1>14. kb[Len(b)] = kq[Len(q)] \o kr[Len(r)]
  BY <1>1, <1>13
<1> QED BY <1>2, <1>3, <1>4, <1>14 DEF b

LEMMA KeepOne ==
    ASSUME NEW A, NEW q \in Seq(A), NEW S
    PROVE  Len(q) = 1 => Keep(q, S) = IF q[1] \in S THEN <<q[1]>> ELSE <<>>
<1>1. PICK kept : KeepsOf(q, S, Len(q), kept) /\ Keep(q, S) = kept[Len(q)]
  BY KeepDef
<1>2. /\ kept[0] = <<>>
      /\ \A n \in Nat : n + 1 <= Len(q) =>
           kept[n + 1] = IF q[n + 1] \in S THEN Append(kept[n], q[n + 1]) ELSE kept[n]
  BY <1>1, KeptNext
<1>3. 1 <= Len(q) => kept[1] = IF q[1] \in S THEN Append(kept[0], q[1]) ELSE kept[0]
  <2>1. 0 \in Nat /\ 0 + 1 = 1
    OBVIOUS
  <2> QED BY <1>2, <2>1
<1> QED BY <1>1, <1>2, <1>3

LEMMA KeepTail ==
    ASSUME NEW A, NEW q \in Seq(A), NEW S, q # <<>>
    PROVE  Keep(q, S) = IF Head(q) \in S THEN <<Head(q)>> \o Keep(Tail(q), S) ELSE Keep(Tail(q), S)
<1> DEFINE one == SubSeq(q, 1, 1)
           rest == Tail(q)
<1>1. /\ one \in Seq(A) /\ Len(one) = 1 /\ one[1] = Head(q)
      /\ rest \in Seq(A) /\ q = one \o rest
  OBVIOUS
<1> HIDE DEF one, rest
<1>2. Keep(one \o rest, S) = Keep(one, S) \o Keep(rest, S)
  BY <1>1, KeepJoined
<1>3. Keep(one, S) = IF Head(q) \in S THEN <<Head(q)>> ELSE <<>>
  BY <1>1, KeepOne
<1>4. Keep(rest, S) \in Seq(A \cap S)
  BY <1>1, KeptPlaces
<1>5. <<>> \o Keep(rest, S) = Keep(rest, S)
  BY <1>4
<1> QED BY <1>1, <1>2, <1>3, <1>5 DEF rest
-----------------------------------------------------------------------------
(* The sums of the first n of m numbers: they exist, and there is one for each n. *)
SumsOf(s, c, m) == s = [n \in 0 .. m |-> IF n = 0 THEN 0 ELSE s[n - 1] + c[n]]

LEMMA SumsExist ==
    ASSUME NEW m \in Nat, NEW c \in [1 .. m -> Nat]
    PROVE  \E s \in [0 .. m -> Nat] : SumsOf(s, c, m)
<1> DEFINE Some(k) == \E s \in [0 .. k -> Nat] : SumsOf(s, c, k)
           T == {k \in Nat : k <= m => Some(k)}
<1>1. 0 \in T
  <2> DEFINE z == [n \in 0 .. 0 |-> 0]
  <2>1. z \in [0 .. 0 -> Nat]
    OBVIOUS
  <2>2. SumsOf(z, c, 0)
    BY DEF SumsOf
  <2> QED BY <2>1, <2>2
<1>2. ASSUME NEW k \in T PROVE k + 1 \in T
  <2> SUFFICES ASSUME k + 1 <= m PROVE Some(k + 1)
    <3>1. k + 1 \in Nat
      OBVIOUS
    <3> HIDE DEF Some
    <3> QED BY <3>1
  <2>1. k \in Nat /\ k <= m /\ \E s \in [0 .. k -> Nat] : SumsOf(s, c, k)
    <3>1. k \in Nat /\ k <= m
      OBVIOUS
    <3> HIDE DEF SumsOf
    <3> QED BY <3>1
  <2>2. PICK s \in [0 .. k -> Nat] : SumsOf(s, c, k)
    BY <2>1
  <2> DEFINE r == [n \in 0 .. k + 1 |-> IF n = k + 1 THEN s[k] + c[k + 1] ELSE s[n]]
             F == [n \in 0 .. k + 1 |-> IF n = 0 THEN 0 ELSE r[n - 1] + c[n]]
             G == [n \in 0 .. k |-> IF n = 0 THEN 0 ELSE s[n - 1] + c[n]]
  <2>3. s[k] \in Nat /\ c[k + 1] \in Nat
    BY <2>1
  <2>4. r \in [0 .. k + 1 -> Nat]
    BY <2>1, <2>3
  <2>5. s = G
    BY <2>2 DEF SumsOf
  <2>6. ASSUME NEW n \in 0 .. k + 1 PROVE r[n] = F[n]
    <3>1. CASE n = 0
      <4>1. s[0] = G[0] /\ G[0] = 0
        BY <2>1, <2>5
      <4> QED BY <2>1, <3>1, <4>1
    <3>2. CASE n \in 1 .. k
      <4>1. /\ G[n] = s[n - 1] + c[n] /\ n # 0
            /\ r[n] = s[n] /\ n - 1 \in 0 .. k /\ n - 1 # k + 1 /\ r[n - 1] = s[n - 1]
        BY <2>1, <3>2
      <4>2. s[n] = G[n]
        BY <2>5
      <4> QED BY <4>1, <4>2
    <3>3. CASE n = k + 1
      <4>1. /\ n - 1 = k /\ n # 0 /\ r[k] = s[k] /\ r[n] = s[k] + c[n]
        BY <2>1, <3>3
      <4> QED BY <4>1
    <3> QED BY <2>1, <3>1, <3>2, <3>3
  <2>7. r = F
    BY <2>6
  <2>8. SumsOf(r, c, k + 1)
    BY <2>7 DEF SumsOf
  <2> QED BY <2>4, <2>8
<1>3. T = Nat
  <2> HIDE DEF T
  <2>1. T \in SUBSET Nat
    BY DEF T
  <2> QED BY <1>1, <1>2, <2>1, Induct
<1>4. Some(m)
  <2> HIDE DEF Some
  <2> QED BY <1>3
<1> QED BY <1>4

SumUp(s, c, m) == s[0] = 0 /\ \A n \in 0 .. m - 1 : s[n + 1] = s[n] + c[n + 1]

LEMMA SumsNext ==
    ASSUME NEW m \in Nat, NEW c, NEW s, SumsOf(s, c, m)
    PROVE  SumUp(s, c, m)
<1> DEFINE F == [n \in 0 .. m |-> IF n = 0 THEN 0 ELSE s[n - 1] + c[n]]
<1>1. s = F
  BY DEF SumsOf
<1>2. F[0] = 0
  OBVIOUS
<1>3. ASSUME NEW n \in 0 .. m - 1 PROVE F[n + 1] = s[n] + c[n + 1]
  <2>1. n + 1 \in 0 .. m /\ n + 1 # 0 /\ n + 1 - 1 = n
    OBVIOUS
  <2> QED BY <2>1
<1> HIDE DEF F
<1> QED BY <1>1, <1>2, <1>3 DEF SumUp

LEMMA SumsAgree ==
    ASSUME NEW m \in Nat, NEW c, NEW s, NEW r, SumUp(s, c, m), SumUp(r, c, m)
    PROVE  s[m] = r[m]
<1> DEFINE T == {k \in Nat : k <= m => s[k] = r[k]}
<1>1. 0 \in T
  BY DEF SumUp
<1>2. ASSUME NEW k \in T PROVE k + 1 \in T
  <2> SUFFICES ASSUME k + 1 <= m PROVE s[k + 1] = r[k + 1]
    OBVIOUS
  <2>1. k \in 0 .. m - 1 /\ s[k] = r[k]
    OBVIOUS
  <2> QED BY <2>1 DEF SumUp
<1>3. T = Nat
  <2> HIDE DEF T
  <2>1. T \in SUBSET Nat
    BY DEF T
  <2> QED BY <1>1, <1>2, <2>1, Induct
<1> QED BY <1>3

LEMMA SumsGrow ==
    ASSUME NEW m \in Nat, NEW c \in [1 .. m -> Nat], NEW s \in [0 .. m -> Nat], SumsOf(s, c, m),
           NEW i \in 0 .. m, NEW j \in i .. m
    PROVE  s[i] <= s[j]
<1> DEFINE T == {k \in Nat : i + k <= m => s[i] <= s[i + k]}
<1>1. 0 \in T
  <2>1. s[i] \in Nat /\ i + 0 = i
    OBVIOUS
  <2> QED BY <2>1
<1>2. ASSUME NEW k \in T PROVE k + 1 \in T
  <2> SUFFICES ASSUME i + (k + 1) <= m PROVE s[i] <= s[i + (k + 1)]
    OBVIOUS
  <2>1. PICK n \in 0 .. m - 1 : n = i + k
    OBVIOUS
  <2>2. s[i] <= s[n] /\ i + (k + 1) = n + 1 /\ s[n] \in Nat /\ s[i] \in Nat
    BY <2>1
  <2>3. s[n + 1] = s[n] + c[n + 1] /\ c[n + 1] \in Nat
    <3>1. \A l \in 0 .. m - 1 : s[l + 1] = s[l] + c[l + 1]
      BY SumsNext DEF SumUp
    <3>2. n + 1 \in 1 .. m
      OBVIOUS
    <3> QED BY <3>1, <3>2
  <2>4. \A a, b, d \in Nat : a <= b => a <= b + d
    OBVIOUS
  <2>5. s[i + (k + 1)] = s[n] + c[n + 1]
    BY <2>2, <2>3, Zenon
  <2> QED BY <2>2, <2>3, <2>4, <2>5, Zenon
<1>3. T = Nat
  <2> HIDE DEF T
  <2>1. T \in SUBSET Nat
    BY DEF T
  <2> QED BY <1>1, <1>2, <2>1, Induct
<1>4. PICK k \in Nat : i + k = j /\ i + k <= m
  <2>1. j - i \in Nat /\ i + (j - i) = j
    OBVIOUS
  <2> QED BY <2>1
<1>5. k \in T
  BY <1>3
<1> QED BY <1>4, <1>5

-----------------------------------------------------------------------------
LEMMA KeepAlike ==
    ASSUME NEW A, NEW q \in Seq(A), NEW S, NEW R, \A x \in A : x \in S <=> x \in R
    PROVE  Keep(q, S) = Keep(q, R)
<1>1. PICK k : KeepsOf(q, S, Len(q), k) /\ Keep(q, S) = k[Len(q)]
  BY KeepDef
<1>2. PICK r : KeepsOf(q, R, Len(q), r) /\ Keep(q, R) = r[Len(q)]
  BY KeepDef
<1>3. /\ k[0] = <<>> /\ r[0] = <<>>
      /\ \A n \in Nat : n + 1 <= Len(q) =>
            /\ k[n + 1] = IF q[n + 1] \in S THEN Append(k[n], q[n + 1]) ELSE k[n]
            /\ r[n + 1] = IF q[n + 1] \in R THEN Append(r[n], q[n + 1]) ELSE r[n]
  BY <1>1, <1>2, KeptNext
<1> DEFINE T == {n \in Nat : n <= Len(q) => k[n] = r[n]}
<1>4. 0 \in T
  BY <1>3
<1>5. ASSUME NEW n \in T PROVE n + 1 \in T
  <2> SUFFICES ASSUME n + 1 <= Len(q) PROVE k[n + 1] = r[n + 1]
    OBVIOUS
  <2>1. n \in Nat /\ Len(q) \in Nat /\ k[n] = r[n] /\ q[n + 1] \in A
    OBVIOUS
  <2> QED BY <1>3, <2>1
<1> HIDE DEF T
<1>6. T = Nat
  <2>1. T \in SUBSET Nat
    BY DEF T
  <2> QED BY <1>4, <1>5, <2>1, Induct
<1> QED BY <1>1, <1>2, <1>6 DEF T

LEMMA KeepAll == ASSUME NEW A, NEW q \in Seq(A), NEW S, A \subseteq S PROVE Keep(q, S) = q
<1>1. PICK k : KeepsOf(q, S, Len(q), k) /\ Keep(q, S) = k[Len(q)]
  BY KeepDef
<1>2. /\ k[0] = <<>>
      /\ \A n \in Nat : n + 1 <= Len(q) =>
            k[n + 1] = IF q[n + 1] \in S THEN Append(k[n], q[n + 1]) ELSE k[n]
  BY <1>1, KeptNext
<1> DEFINE T == {n \in Nat : n <= Len(q) => k[n] = SubSeq(q, 1, n)}
<1>3. 0 \in T
  <2>1. SubSeq(q, 1, 0) = <<>>
    OBVIOUS
  <2> QED BY <1>2, <2>1
<1>4. ASSUME NEW n \in T PROVE n + 1 \in T
  <2> SUFFICES ASSUME n + 1 <= Len(q) PROVE k[n + 1] = SubSeq(q, 1, n + 1)
    OBVIOUS
  <2>1. n \in Nat /\ Len(q) \in Nat /\ k[n] = SubSeq(q, 1, n) /\ q[n + 1] \in S
    OBVIOUS
  <2>2. SubSeq(q, 1, n + 1) = Append(SubSeq(q, 1, n), q[n + 1])
    BY <2>1
  <2> QED BY <1>2, <2>1, <2>2
<1> HIDE DEF T
<1>5. T = Nat
  <2>1. T \in SUBSET Nat
    BY DEF T
  <2> QED BY <1>3, <1>4, <2>1, Induct
<1>6. Len(q) \in Nat /\ SubSeq(q, 1, Len(q)) = q
  OBVIOUS
<1> QED BY <1>1, <1>5, <1>6 DEF T

LEMMA ElementsIn ==
    ASSUME NEW A, NEW q \in Seq(A), NEW S, \A i \in 1 .. Len(q) : q[i] \in S
    PROVE  q \in Seq(S)
OBVIOUS

(* What is left when one is taken out of a sequence without duplicates. *)
LEMMA KeepOthers ==
    ASSUME NEW A, NEW q \in Seq(A), IsInjective(q), q # <<>>
    PROVE  Keep(q, A \ {q[1]}) = Tail(q)
<1>1. q[1] = Head(q) /\ Tail(q) \in Seq(A \ {q[1]})
  <2>1. Tail(q) \in Seq(A) /\ Len(q) \in Nat \ {0} /\ Len(Tail(q)) = Len(q) - 1
        /\ (\A i \in 1 .. Len(q) - 1 : Tail(q)[i] = q[i + 1]) /\ Head(q) = q[1]
    OBVIOUS
  <2>2. ASSUME NEW i \in 1 .. Len(q) - 1 PROVE q[i + 1] \in A \ {q[1]}
    BY <2>1 DEF IsInjective
  <2>3. \A i \in 1 .. Len(Tail(q)) : Tail(q)[i] \in A \ {q[1]}
    BY <2>1, <2>2
  <2> QED BY <2>1, <2>3, ElementsIn
<1>2. Keep(Tail(q), A \ {q[1]}) = Tail(q)
  BY <1>1, KeepAll
<1>3. Tail(q) \in Seq(A) /\ Head(q) \notin A \ {q[1]}
  BY <1>1
<1> QED BY <1>2, <1>3, KeepTail
LEMMA KeepLonger ==
    ASSUME NEW A, NEW q \in Seq(A), NEW x \in A, NEW S
    PROVE  /\ x \in S => Keep(Append(q, x), S) = Append(Keep(q, S), x)
           /\ x \notin S => Keep(Append(q, x), S) = Keep(q, S)
<1>1. Keep(Append(q, x), S) = IF x \in S THEN Append(Keep(q, S), x) ELSE Keep(q, S)
  BY KeepAppend
<1>2. CASE x \in S
  BY <1>1, <1>2
<1>3. CASE x \notin S
  BY <1>1, <1>3
<1> QED BY <1>2, <1>3

-----------------------------------------------------------------------------
(* k is q, a sequence without duplicates, with x taken out: the others stay, in
   their order. *)
LeftOf(k, q, x) ==
    /\ \A t : (\E i \in DOMAIN k : k[i] = t) <=> (\E i \in DOMAIN q : q[i] = t) /\ t # x
    /\ \E f : /\ f \in [DOMAIN k -> DOMAIN q]
              /\ \A i \in DOMAIN k : k[i] = q[f[i]]
              /\ \A i, j \in DOMAIN k : i < j => f[i] < f[j]

LEMMA OneLess ==
    ASSUME NEW A, NEW q \in Seq(A), IsInjective(q), NEW x, NEW k, k = Keep(q, A \ {x})
    PROVE  k \in Seq(A) /\ IsInjective(k) /\ LeftOf(k, q, x)
<1>1. k \in Seq(A \cap (A \ {x})) /\ \E f : PlacesOf(f, q, A \ {x}, Len(q), k)
  BY KeptPlaces
<1>2. /\ k \in Seq(A) /\ DOMAIN k = 1 .. Len(k) /\ DOMAIN q = 1 .. Len(q)
      /\ Len(k) \in Nat /\ Len(q) \in Nat
      /\ \A i \in DOMAIN q : q[i] \in A
  <2>1. A \cap (A \ {x}) \subseteq A
    OBVIOUS
  <2> QED BY <1>1, <2>1
<1>3. PICK f : /\ f \in [DOMAIN k -> DOMAIN q]
               /\ \A i \in DOMAIN k : k[i] = q[f[i]] /\ q[f[i]] \in A \ {x}
               /\ \A i, j \in DOMAIN k : i < j => f[i] < f[j]
               /\ \A n \in DOMAIN q : q[n] \in A \ {x} => \E i \in DOMAIN k : f[i] = n
  <2>1. PICK f : PlacesOf(f, q, A \ {x}, Len(q), k)
    BY <1>1
  <2>2. /\ f \in [DOMAIN k -> DOMAIN q]
        /\ \A i \in DOMAIN k : k[i] = q[f[i]] /\ q[f[i]] \in A \ {x}
    BY <1>2, <2>1 DEF PlacesOf
  <2>3. \A i, j \in DOMAIN k : i < j => f[i] < f[j]
    BY <1>2, <2>1 DEF PlacesOf
  <2>4. \A n \in DOMAIN q : q[n] \in A \ {x} => \E i \in DOMAIN k : f[i] = n
    BY <1>2, <2>1 DEF PlacesOf
  <2> QED BY <2>2, <2>3, <2>4
<1>4. IsInjective(k)
  <2> SUFFICES ASSUME NEW i \in DOMAIN k, NEW j \in DOMAIN k, k[i] = k[j] PROVE i = j
    BY DEF IsInjective
  <2>1. f[i] \in DOMAIN q /\ f[j] \in DOMAIN q /\ q[f[i]] = q[f[j]]
    BY <1>3
  <2>2. f[i] = f[j]
    BY <2>1 DEF IsInjective
  <2>3. f[i] \in Nat /\ i \in Nat /\ j \in Nat
    BY <1>2, <2>1
  <2>4. (i < j => f[i] < f[j]) /\ (j < i => f[j] < f[i])
    BY <1>3
  <2> QED BY <2>2, <2>3, <2>4
<1>5. \A t : (\E i \in DOMAIN k : k[i] = t) <=> (\E i \in DOMAIN q : q[i] = t) /\ t # x
  <2> TAKE t
  <2>1. ASSUME NEW i \in DOMAIN k, k[i] = t PROVE (\E j \in DOMAIN q : q[j] = t) /\ t # x
    BY <1>3, <2>1
  <2>2. ASSUME NEW j \in DOMAIN q, q[j] = t, t # x PROVE \E i \in DOMAIN k : k[i] = t
    <3>1. q[j] \in A \ {x}
      BY <1>2, <2>2
    <3>2. PICK i \in DOMAIN k : f[i] = j
      BY <1>3, <3>1
    <3> QED BY <1>3, <2>2, <3>2
  <2> QED BY <2>1, <2>2
<1> QED BY <1>2, <1>3, <1>4, <1>5 DEF LeftOf

-----------------------------------------------------------------------------
(* The function that FlattenSeq is defined by: it exists, and what it is made of. *)
FlattensOf(f, ss, m) == f = [i \in 1 .. m |-> IF i = 1 THEN ss[i] ELSE f[i - 1] \o ss[i]]

LEMMA FlattensExist ==
    ASSUME NEW ss, NEW m \in Nat
    PROVE  \E f : FlattensOf(f, ss, m)
<1> DEFINE T == {n \in Nat : \E f : FlattensOf(f, ss, n)}
<1>1. 0 \in T
  <2> DEFINE f0 == [i \in 1 .. 0 |-> <<>>]
  <2>1. FlattensOf(f0, ss, 0)
    BY DEF FlattensOf
  <2> QED BY <2>1
<1>2. ASSUME NEW n \in T PROVE n + 1 \in T
  <2>1. PICK f : FlattensOf(f, ss, n)
    OBVIOUS
  <2> DEFINE last == IF n = 0 THEN ss[1] ELSE f[n] \o ss[n + 1]
             more == [i \in 1 .. n + 1 |-> IF i = n + 1 THEN last ELSE f[i]]
  <2>2. ASSUME NEW i \in 1 .. n + 1
        PROVE  more[i] = IF i = 1 THEN ss[i] ELSE more[i - 1] \o ss[i]
    <3>1. CASE i = n + 1 /\ n = 0
      BY <3>1
    <3>2. CASE i = n + 1 /\ n # 0
      <4>1. i # 1 /\ i - 1 = n /\ n \in 1 .. n + 1 /\ n # n + 1 /\ n \in Nat
        BY <3>2
      <4>2. more[i] = f[n] \o ss[i] /\ more[i - 1] = f[n]
        BY <3>2, <4>1
      <4> QED BY <4>1, <4>2
    <3>3. CASE i # n + 1
      <4>1. i \in 1 .. n /\ (i # 1 => i - 1 \in 1 .. n + 1 /\ i - 1 # n + 1)
        BY <3>3
      <4>2. more[i] = f[i] /\ (i # 1 => more[i - 1] = f[i - 1])
        BY <3>3, <4>1
      <4> QED BY <2>1, <4>1, <4>2 DEF FlattensOf
    <3> QED BY <3>1, <3>2, <3>3
  <2>3. FlattensOf(more, ss, n + 1)
    BY <2>2 DEF FlattensOf
  <2> QED BY <2>3
<1>3. T = Nat
  <2> HIDE DEF T
  <2>1. T \in SUBSET Nat
    BY DEF T
  <2> QED BY <1>1, <1>2, <2>1, Induct
<1> QED BY <1>3

LEMMA FlattenDef ==
    ASSUME NEW ss, NEW m \in Nat, m = Len(ss), m # 0
    PROVE  \E f : FlattensOf(f, ss, m) /\ FlattenSeq(ss) = f[m]
<1>1. FlattensOf(CHOOSE f : FlattensOf(f, ss, m), ss, m)
  BY FlattensExist
<1>2. FlattenSeq(ss) = (CHOOSE f : FlattensOf(f, ss, m))[m]
  BY DEF FlattenSeq, FlattensOf
<1> QED BY <1>1, <1>2

LEMMA FlattensNext ==
    ASSUME NEW ss, NEW m \in Nat, NEW f, FlattensOf(f, ss, m)
    PROVE  \A n \in 1 .. m : f[n] = IF n = 1 THEN ss[1] ELSE f[n - 1] \o ss[n]
<1> DEFINE F == [i \in 1 .. m |-> IF i = 1 THEN ss[i] ELSE f[i - 1] \o ss[i]]
<1>1. f = F
  BY DEF FlattensOf
<1>2. \A n \in 1 .. m : F[n] = IF n = 1 THEN ss[1] ELSE f[n - 1] \o ss[n]
  OBVIOUS
<1> HIDE DEF F
<1> QED BY <1>1, <1>2

(* A sequence of sequences put together: of none, and of one more. *)
LEMMA FlattenNone == FlattenSeq(<<>>) = <<>>
BY DEF FlattenSeq

LEMMA FlattenAppend ==
    ASSUME NEW A, NEW ss \in Seq(Seq(A)), NEW x \in Seq(A)
    PROVE  /\ FlattenSeq(ss) \in Seq(A)
           /\ FlattenSeq(Append(ss, x)) = FlattenSeq(ss) \o x
<1>1. PICK m \in Nat : m = Len(ss)
  OBVIOUS
<1> DEFINE r == Append(ss, x)
<1>2. /\ r \in Seq(Seq(A)) /\ Len(r) = m + 1 /\ r[m + 1] = x
      /\ \A i \in 1 .. m : r[i] = ss[i] /\ ss[i] \in Seq(A)
  BY <1>1
<1> HIDE DEF r
<1>3. PICK g : FlattensOf(g, r, m + 1) /\ FlattenSeq(r) = g[m + 1]
  <2>1. m + 1 \in Nat /\ m + 1 = Len(r) /\ m + 1 # 0
    BY <1>2
  <2> QED BY <2>1, FlattenDef
<1>4. \A n \in 1 .. m + 1 : g[n] = IF n = 1 THEN r[1] ELSE g[n - 1] \o r[n]
  <2>1. m + 1 \in Nat
    OBVIOUS
  <2> QED BY <1>3, <2>1, FlattensNext
<1>5. CASE m = 0
  <2>1. ss = <<>>
    <3>1. ss \in Seq(Seq(A)) /\ Len(ss) = 0
      BY <1>1, <1>5
    <3> HIDE DEF r
    <3> QED BY <3>1
  <2>5. FlattenSeq(ss) = <<>> /\ <<>> \in Seq(A)
    BY <2>1, FlattenNone
  <2>2. g[m + 1] = x
    BY <1>2, <1>4, <1>5
  <2>3. <<>> \o x = x
    OBVIOUS
  <2>4. FlattenSeq(r) = FlattenSeq(ss) \o x
    BY <1>3, <2>5, <2>2, <2>3
  <2> QED BY <2>5, <2>4 DEF r
<1>6. CASE m # 0
  <2>1. PICK f : FlattensOf(f, ss, m) /\ FlattenSeq(ss) = f[m]
    BY <1>1, <1>6, FlattenDef
  <2>2. \A n \in 1 .. m : f[n] = IF n = 1 THEN ss[1] ELSE f[n - 1] \o ss[n]
    BY <2>1, FlattensNext
  <2> DEFINE T == {n \in Nat : n + 1 <= m => f[n + 1] = g[n + 1] /\ f[n + 1] \in Seq(A)}
  <2>3. 0 \in T
    <3>1. 1 \in 1 .. m /\ 1 \in 1 .. m + 1
      BY <1>6
    <3>2. f[1] = ss[1] /\ g[1] = r[1]
      BY <1>4, <2>2, <3>1
    <3> QED BY <1>2, <3>1, <3>2
  <2>4. ASSUME NEW n \in T PROVE n + 1 \in T
    <3> SUFFICES ASSUME n + 2 <= m PROVE f[n + 2] = g[n + 2] /\ f[n + 2] \in Seq(A)
      OBVIOUS
    <3>1. f[n + 1] = g[n + 1] /\ f[n + 1] \in Seq(A) /\ n \in Nat
      OBVIOUS
    <3> HIDE DEF T
    <3>2. PICK j \in Nat : j = n + 2
      BY <3>1
    <3>3. j \in 1 .. m /\ j \in 1 .. m + 1 /\ j # 1 /\ j - 1 = n + 1
      BY <3>1, <3>2
    <3>4. f[j] = f[j - 1] \o ss[j] /\ g[j] = g[j - 1] \o r[j]
      BY <1>4, <2>2, <3>3
    <3>5. r[j] = ss[j] /\ ss[j] \in Seq(A)
      BY <1>2, <3>3
    <3>6. PICK a \in Seq(A) : a = f[n + 1] /\ a = g[n + 1]
      BY <3>1
    <3>7. PICK b \in Seq(A) : b = ss[j] /\ b = r[j]
      BY <3>5
    <3>8. f[j - 1] = a /\ g[j - 1] = a
      BY <3>1, <3>3, <3>6
    <3>9. f[j] = a \o b /\ g[j] = a \o b
      BY <3>4, <3>7, <3>8
    <3>10. a \o b \in Seq(A)
      OBVIOUS
    <3> QED BY <3>2, <3>9, <3>10
  <2>5. T = Nat
    <3> HIDE DEF T
    <3>1. T \in SUBSET Nat
      BY DEF T
    <3> QED BY <2>3, <2>4, <3>1, Induct
  <2>6. f[m] = g[m] /\ f[m] \in Seq(A)
    <3>1. m - 1 \in Nat /\ (m - 1) + 1 = m
      BY <1>6
    <3>2. m - 1 \in T
      BY <2>5, <3>1
    <3> QED BY <3>1, <3>2
  <2> HIDE DEF T
  <2>7. g[m + 1] = g[m] \o r[m + 1]
    <3>1. PICK j \in Nat : j = m + 1
      OBVIOUS
    <3>2. j \in 1 .. m + 1 /\ j # 1 /\ j - 1 = m
      BY <1>6, <3>1
    <3>3. g[j] = g[j - 1] \o r[j]
      BY <1>4, <3>2
    <3> QED BY <3>1, <3>2, <3>3
  <2> QED BY <1>2, <1>3, <2>1, <2>6, <2>7 DEF r
<1> QED BY <1>5, <1>6
=============================================================================
