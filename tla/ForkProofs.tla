----------------------------- MODULE ForkProofs -----------------------------
(***************************************************************************)
(* Proofs about Fork.tla: what each of the six joins lets out is what its  *)
(* rule names, in order, and it ends exactly when nothing more can come.   *)
(* First Join.tla (Merge, Concat, Chain, Switch), then ZipJoin.tla.        *)
(***************************************************************************)
EXTENDS Fork, Functions, FiniteSetTheorems, SequenceLemmas, TLAPS

-----------------------------------------------------------------------------
(* What is behind the joins of Join, until a listener makes the loop of a chain fail.  The
   sources that are followed are those that are connected, without duplicates and,
   but for a Switch, in the order in which they were added.  What was added and is
   followed no more has ended, or was dropped by a Switch. *)
AddedHere == [src : Source, at : Nat]
SentHere == [src : Source, first : BOOLEAN]

IsAdded(s) == \E k \in DOMAIN added : added[k].src = s
Follows(s) == \E i \in DOMAIN followed : followed[i] = s

JoinTypes ==
    /\ kind \in Kinds /\ kind \in {"merge", "concat", "chain", "switch"}
    /\ parent \in BOOLEAN /\ ended \in BOOLEAN /\ torn = FALSE
    /\ followed \in Seq(Source) /\ IsInjective(followed)
    /\ wire \in [Source -> {"none", "queue", "out"}]
    /\ q \in [Source -> Seq(Nat)]
    /\ draining \in Source \cup {None} /\ active \in Source \cup {None}
    /\ added \in Seq(AddedHere) /\ sent \in Seq(SentHere) /\ outs \in Seq(Nat)

Wiring ==
    /\ \A s \in Source : wire[s] # "none" <=> Follows(s)
    /\ \A s \in Source : wire[s] = "out" => s \notin over
    /\ \A s \in Source : Follows(s) => IsAdded(s)
    /\ kind # "switch" => \A s \in Source : IsAdded(s) /\ ~Follows(s) => s \in over
    /\ kind # "chain" => draining = None /\ \A s \in Source : wire[s] # "queue"
    /\ ended <=> ~parent /\ followed = <<>>

Numbers ==
    /\ \A k \in DOMAIN added : added[k].at <= Len(sent)
    /\ \A i \in DOMAIN outs : outs[i] \in 1 .. Len(sent)
    /\ kind # "chain" => \A i, j \in DOMAIN outs : i < j => outs[i] < outs[j]

AddedOnce ==
    kind # "switch" => \A k, l \in DOMAIN added : added[k].src = added[l].src => k = l

InTurn ==
    kind = "concat" =>
        \A i, j \in DOMAIN followed : i < j =>
            \A k, l \in DOMAIN added :
                added[k].src = followed[i] /\ added[l].src = followed[j] => k < l

IsOut(n) == \E i \in DOMAIN outs : outs[i] = n
MergeOuts ==
    /\ kind = "merge" => \A n \in DOMAIN sent : IsOut(n) <=> n \in Addable!Known
    /\ kind = "concat" => \A n \in DOMAIN sent : IsOut(n) <=> n \in Addable!Known /\ sent[n].first

(* A Switch has dropped a source that lives if another one has come out after it. *)
Dropped(s) ==
    \E i \in 2 .. Len(outs) :
        /\ sent[outs[i - 1]].src = s /\ sent[outs[i]].src # s
        /\ \A k \in DOMAIN added : added[k].src = s => added[k].at < outs[i]
SwitchOuts ==
    kind = "switch" =>
        /\ \A n \in DOMAIN sent : IsOut(n) <=> n \in Addable!Known /\ ~Addable!SwitchedAway(n)
        /\ \A s \in Source : s \notin over /\ IsAdded(s) => (wire[s] = "out" <=> ~Dropped(s))
        /\ ~ended => active = (IF outs = <<>> THEN None ELSE sent[outs[Len(outs)]].src)

(* A chain follows the last of the sources added; the first of those is out or its
   queue is emptied, the others wait with all their values in their queues. *)
Gone == Len(added) - Len(followed)
InQueue(s, n) == \E i \in DOMAIN q[s] : q[s][i] = n
ChainQueues ==
    kind = "chain" =>
        /\ Gone \in Nat
        /\ \A i \in DOMAIN followed : followed[i] = added[Gone + i].src
        /\ followed # <<>> =>
              IF draining = None THEN wire[followed[1]] = "out"
              ELSE draining = followed[1] /\ wire[draining] = "queue"
        /\ followed = <<>> => draining = None
        /\ \A i \in DOMAIN followed : i > 1 => wire[followed[i]] = "queue"
ChainOuts ==
    kind = "chain" =>
        /\ \A s \in Source : wire[s] # "queue" => q[s] = <<>>
        /\ \A s \in Source : \A i \in DOMAIN q[s] :
              q[s][i] \in Addable!Known /\ sent[q[s][i]].src = s
        /\ \A s \in Source : \A i, j \in DOMAIN q[s] : i < j => q[s][i] < q[s][j]
        /\ \A n \in Addable!Known : IsOut(n) \/ InQueue(sent[n].src, n)
        /\ \A i \in DOMAIN outs :
              /\ outs[i] \in Addable!Known
              /\ \A k \in DOMAIN added : added[k].src = sent[outs[i]].src => k <= Gone + 1
              /\ \A j \in DOMAIN q[sent[outs[i]].src] : outs[i] < q[sent[outs[i]].src][j]
        /\ \A i, j \in DOMAIN outs : i < j =>
              \A k, l \in DOMAIN added :
                  added[k].src = sent[outs[i]].src /\ added[l].src = sent[outs[j]].src =>
                      k < l \/ (k = l /\ outs[i] < outs[j])

JoinHolds ==
    /\ JoinTypes /\ Wiring /\ Numbers /\ AddedOnce /\ InTurn
    /\ MergeOuts /\ SwitchOuts /\ ChainQueues /\ ChainOuts

JoinInv ==
    kind \in Kinds =>
        /\ torn \in BOOLEAN /\ (kind # "chain" => torn = FALSE)
        /\ ~torn => JoinHolds

LEMMA JoinKinds == kind \in Kinds => kind \in {"merge", "concat", "chain", "switch"} /\ kind \notin ZipKinds
BY KindAssumption DEF Addable!AllKinds, Zipping!AllZipKinds

(* What only depends on the histories stays as they do. *)
LEMMA HistoryStays ==
    ASSUME kind' = kind, added' = added, sent' = sent, outs' = outs
    PROVE  /\ Addable!Known' = Addable!Known
           /\ \A s : IsAdded(s)' <=> IsAdded(s)
           /\ \A s : Dropped(s)' <=> Dropped(s)
           /\ \A n : IsOut(n)' <=> IsOut(n)
           /\ \A n : Addable!SwitchedAway(n)' <=> Addable!SwitchedAway(n)
           /\ Numbers' <=> Numbers
           /\ AddedOnce' <=> AddedOnce
           /\ MergeOuts' <=> MergeOuts
<1>1. Addable!Known' = Addable!Known
  BY DEF Addable!Known
<1>2. \A s : IsAdded(s)' <=> IsAdded(s)
  BY DEF IsAdded
<1>3. \A s : Dropped(s)' <=> Dropped(s)
  BY DEF Dropped
<1>4. \A n : IsOut(n)' <=> IsOut(n)
  BY DEF IsOut
<1>5. \A n : Addable!SwitchedAway(n)' <=> Addable!SwitchedAway(n)
  BY DEF Addable!SwitchedAway
<1>6. (Numbers' <=> Numbers) /\ (AddedOnce' <=> AddedOnce)
  BY DEF Numbers, AddedOnce
<1>7. MergeOuts' <=> MergeOuts
  BY <1>1, <1>4 DEF MergeOuts
<1> QED BY <1>1, <1>2, <1>3, <1>4, <1>5, <1>6, <1>7

LEMMA JoinInit == Init => JoinInv
<1> SUFFICES ASSUME Init, kind \in Kinds
             PROVE  /\ torn = FALSE
                    /\ JoinTypes /\ Wiring /\ Numbers /\ AddedOnce /\ InTurn
                    /\ MergeOuts /\ SwitchOuts /\ ChainQueues /\ ChainOuts
  BY DEF JoinInv, JoinHolds
<1>1. Addable!Init
  BY JoinKinds DEF Init, Zipping!Init
<1>2. /\ parent = TRUE /\ ended = FALSE /\ torn = FALSE /\ followed = <<>> /\ added = <<>>
      /\ sent = <<>> /\ outs = <<>> /\ draining = None /\ active = None /\ over = {}
      /\ wire = [s \in Source |-> "none"] /\ q = [s \in Source |-> <<>>]
  BY <1>1 DEF Addable!Init
<1>3. /\ followed \in Seq(Source) /\ added \in Seq(AddedHere) /\ sent \in Seq(SentHere) /\ outs \in Seq(Nat)
      /\ DOMAIN followed = {} /\ DOMAIN added = {} /\ DOMAIN sent = {} /\ DOMAIN outs = {}
      /\ Len(followed) = 0 /\ Len(added) = 0 /\ Len(outs) = 0 /\ Len(sent) = 0
      /\ IsInjective(followed)
  BY <1>2 DEF IsInjective
<1>4. \A s \in Source : wire[s] = "none" /\ q[s] = <<>> /\ DOMAIN q[s] = {}
  <2>1. DOMAIN <<>> = {}
    OBVIOUS
  <2>2. \A s \in Source : wire[s] = "none" /\ q[s] = <<>>
    BY <1>2
  <2> QED BY <2>1, <2>2
<1>5. JoinTypes
  <2>1. ended \in BOOLEAN /\ parent \in BOOLEAN
    BY <1>2, Zenon
  <2>2. wire \in [Source -> {"none", "queue", "out"}]
    BY <1>2
  <2>3. q \in [Source -> Seq(Nat)]
    <3>1. <<>> \in Seq(Nat)
      OBVIOUS
    <3> QED BY <1>2, <3>1
  <2> QED BY <1>2, <1>3, <2>1, <2>2, <2>3, JoinKinds DEF JoinTypes
<1>6. Addable!Known = {} /\ \A s \in Source : ~IsAdded(s) /\ ~Follows(s)
  BY <1>3 DEF Addable!Known, IsAdded, Follows
<1>7. Wiring
  BY <1>2, <1>4, <1>6, <1>5 DEF Wiring, JoinTypes
<1>8. Numbers /\ AddedOnce /\ InTurn
  BY <1>3 DEF Numbers, AddedOnce, InTurn
<1>9. MergeOuts /\ SwitchOuts
  BY <1>2, <1>3, <1>6 DEF MergeOuts, SwitchOuts
<1>10. ChainQueues /\ ChainOuts
  BY <1>2, <1>3, <1>4, <1>6 DEF ChainQueues, ChainOuts, Gone
<1> QED BY <1>2, <1>5, <1>7, <1>8, <1>9, <1>10

LEMMA JoinEnded ==
    ASSUME JoinHolds, kind' = kind, Addable!ParentDone
    PROVE  JoinHolds'
<1>1. /\ parent = TRUE /\ parent' = FALSE /\ ended' = (followed = <<>>)
      /\ UNCHANGED <<over, followed, wire, q, active, draining, torn, added, sent, outs>>
      /\ JoinTypes /\ Wiring /\ Numbers /\ AddedOnce /\ InTurn
      /\ MergeOuts /\ SwitchOuts /\ ChainQueues /\ ChainOuts
  BY DEF JoinHolds, JoinTypes, Addable!ParentDone, Addable!EndsIf
<1>2. ended = FALSE
  <2>1. ended \in BOOLEAN /\ ~ended
    BY <1>1 DEF Wiring, JoinTypes
  <2> QED BY <2>1
<1>3. JoinTypes'
  <2>1. ended' \in BOOLEAN /\ parent' \in BOOLEAN
    BY <1>1, Zenon
  <2> QED BY <1>1, <2>1 DEF JoinTypes
<1>4. \A s : Follows(s)' <=> Follows(s)
  BY <1>1 DEF Follows
<1>5. Wiring'
  BY <1>1, <1>4, HistoryStays DEF Wiring
<1>6. Numbers' /\ AddedOnce' /\ MergeOuts'
  BY <1>1, HistoryStays
<1>7. InTurn'
  BY <1>1 DEF InTurn
<1>8. SwitchOuts'
  BY <1>1, <1>2, HistoryStays DEF SwitchOuts
<1>9. ChainQueues'
  BY <1>1 DEF ChainQueues, Gone
<1>10. ChainOuts'
  <2>1. (\A n : IsOut(n)' <=> IsOut(n)) /\ Addable!Known' = Addable!Known /\ Gone' = Gone
    BY <1>1, HistoryStays DEF Gone
  <2> QED BY <1>1, <2>1 DEF ChainOuts, InQueue
<1> QED BY <1>3, <1>5, <1>6, <1>7, <1>8, <1>9, <1>10 DEF JoinHolds

-----------------------------------------------------------------------------
LEMMA OneMore ==
    ASSUME NEW A, NEW f \in Seq(A), IsInjective(f), NEW x \in A, \A i \in DOMAIN f : f[i] # x
    PROVE  IsInjective(Append(f, x))
<1>1. /\ DOMAIN Append(f, x) = 1 .. Len(f) + 1 /\ DOMAIN f = 1 .. Len(f) /\ Len(f) \in Nat
      /\ \A i \in 1 .. Len(f) : Append(f, x)[i] = f[i]
      /\ Append(f, x)[Len(f) + 1] = x
  BY Grown
<1>2. ASSUME NEW i \in 1 .. Len(f) + 1, NEW j \in 1 .. Len(f) + 1, Append(f, x)[i] = Append(f, x)[j]
      PROVE  i = j
  <2>1. CASE i \in 1 .. Len(f) /\ j \in 1 .. Len(f)
    BY <1>1, <1>2, <2>1 DEF IsInjective
  <2>2. CASE i = Len(f) + 1 \/ j = Len(f) + 1
    BY <1>1, <1>2, <2>2
  <2> QED BY <1>1, <2>1, <2>2
<1> QED BY <1>1, <1>2 DEF IsInjective

(* A live source that is not followed is added. *)
LEMMA JoinAdds ==
    ASSUME JoinHolds, kind' = kind, NEW s \in Source, parent, Addable!AddSource(s)
    PROVE  JoinHolds'
<1>1. /\ s \notin over /\ ~Follows(s)
      /\ followed' = Append(followed, s)
      /\ wire' = [wire EXCEPT ![s] = Addable!NewWire]
      /\ added' = Append(added, [src |-> s, at |-> Len(sent)])
      /\ UNCHANGED <<parent, over, q, active, draining, torn, ended, sent, outs>>
      /\ JoinTypes /\ Wiring /\ Numbers /\ AddedOnce /\ InTurn
      /\ MergeOuts /\ SwitchOuts /\ ChainQueues /\ ChainOuts
  BY DEF JoinHolds, Addable!AddSource, Follows, Addable!ToSet
<1>2. /\ followed \in Seq(Source) /\ added \in Seq(AddedHere) /\ sent \in Seq(SentHere)
      /\ outs \in Seq(Nat) /\ Len(sent) \in Nat /\ kind \in {"merge", "concat", "chain", "switch"}
      /\ wire \in [Source -> {"none", "queue", "out"}] /\ IsInjective(followed)
      /\ ended \in BOOLEAN /\ parent \in BOOLEAN /\ q \in [Source -> Seq(Nat)]
  BY <1>1 DEF JoinTypes
<1>3. PICK m \in Nat : m = Len(added)
  BY <1>2
<1>4. PICK h \in Nat : h = Len(followed)
  BY <1>2
<1>5. /\ added' \in Seq(AddedHere) /\ DOMAIN added = 1 .. m /\ DOMAIN added' = 1 .. m + 1
      /\ \A k \in 1 .. m : added'[k] = added[k]
      /\ added'[m + 1].src = s /\ added'[m + 1].at = Len(sent)
      /\ Len(added') = m + 1
  <2> DEFINE r == [src |-> s, at |-> Len(sent)]
  <2>1. r \in AddedHere /\ r.src = s /\ r.at = Len(sent) /\ added' = Append(added, r)
    BY <1>1, <1>2 DEF AddedHere
  <2> HIDE DEF r
  <2> QED BY <1>2, <1>3, <2>1
<1>6. /\ followed' \in Seq(Source) /\ DOMAIN followed = 1 .. h /\ DOMAIN followed' = 1 .. h + 1
      /\ \A i \in 1 .. h : followed'[i] = followed[i]
      /\ followed'[h + 1] = s /\ Len(followed') = h + 1 /\ IsInjective(followed')
      /\ (h = 0 <=> followed = <<>>) /\ followed' # <<>>
  <2>1. \A i \in DOMAIN followed : followed[i] # s
    BY <1>1 DEF Follows
  <2>2. IsInjective(followed')
    BY <1>1, <1>2, <2>1, OneMore
  <2>3. /\ followed' \in Seq(Source) /\ DOMAIN followed = 1 .. h /\ DOMAIN followed' = 1 .. h + 1
        /\ Len(followed') = h + 1 /\ followed'[h + 1] = s
        /\ \A i \in 1 .. h : followed'[i] = followed[i]
    BY <1>1, <1>2, <1>4, Grown
  <2>4. (h = 0 <=> followed = <<>>) /\ followed' # <<>>
    <3>1. Len(followed') # 0
      BY <2>3
    <3> QED BY <1>2, <1>4, <3>1
  <2> QED BY <2>2, <2>3, <2>4
<1>20. \A i \in 1 .. h : followed[i] \in Source /\ followed[i] # s
  <2>1. \A i \in DOMAIN followed : followed[i] # s
    BY <1>1 DEF Follows
  <2>2. \A i \in DOMAIN followed : followed[i] \in Source
    BY <1>2
  <2> QED BY <1>6, <2>1, <2>2
<1>7. /\ \A t \in Source : t # s => wire'[t] = wire[t]
      /\ wire'[s] = Addable!NewWire /\ wire' \in [Source -> {"none", "queue", "out"}]
      /\ Addable!NewWire = IF kind = "chain" /\ h # 0 THEN "queue" ELSE "out"
  BY <1>1, <1>2, <1>6 DEF Addable!NewWire
<1>8. /\ \A t : Follows(t)' <=> Follows(t) \/ t = s
      /\ \A t : IsAdded(t)' <=> IsAdded(t) \/ t = s
  <2>1. \A t : Follows(t)' <=> Follows(t) \/ t = s
    BY <1>6 DEF Follows
  <2>2. \A t : IsAdded(t)' <=> IsAdded(t) \/ t = s
    BY <1>5 DEF IsAdded
  <2> QED BY <2>1, <2>2
<1>9. kind # "switch" => ~IsAdded(s)
  BY <1>1 DEF Wiring
<1>10. Addable!Known' = Addable!Known
  <2>1. DOMAIN sent' = DOMAIN sent /\ DOMAIN sent = 1 .. Len(sent)
    BY <1>1, <1>2
  <2>2. ASSUME NEW n \in DOMAIN sent
        PROVE  (\E k \in DOMAIN added' : added'[k].src = sent[n].src /\ added'[k].at < n) <=>
               (\E k \in DOMAIN added : added[k].src = sent[n].src /\ added[k].at < n)
    <3>1. n \in Nat /\ ~(Len(sent) < n)
      BY <1>2, <2>1
    <3>2. \A k : k \in DOMAIN added' <=> k \in DOMAIN added \/ k = m + 1
      BY <1>5
    <3>3. ~(added'[m + 1].at < n)
      BY <1>5, <3>1
    <3>4. \A k \in DOMAIN added : added'[k] = added[k]
      BY <1>5
    <3> QED BY <3>2, <3>3, <3>4
  <2> QED BY <1>1, <2>1, <2>2 DEF Addable!Known
<1>11. JoinTypes'
  BY <1>1, <1>2, <1>5, <1>6, <1>7 DEF JoinTypes
<1>12. Wiring'
  <2>1. ended = FALSE /\ ~(~parent /\ followed' = <<>>)
    BY <1>1, <1>2, <1>6 DEF Wiring
  <2>2. ended' <=> ~parent' /\ followed' = <<>>
    BY <1>1, <2>1
  <2>3. kind # "chain" => draining' = None /\ \A t \in Source : wire'[t] # "queue"
    BY <1>1, <1>7 DEF Wiring
  <2>4. \A t \in Source : wire'[t] # "none" <=> Follows(t)'
    BY <1>1, <1>7, <1>8 DEF Wiring
  <2>5. \A t \in Source : wire'[t] = "out" => t \notin over'
    BY <1>1, <1>7 DEF Wiring
  <2>6. \A t \in Source : Follows(t)' => IsAdded(t)'
    BY <1>1, <1>8 DEF Wiring
  <2>7. kind # "switch" => \A t \in Source : IsAdded(t)' /\ ~Follows(t)' => t \in over'
    BY <1>1, <1>8 DEF Wiring
  <2> QED BY <2>2, <2>3, <2>4, <2>5, <2>6, <2>7 DEF Wiring
<1>13. Numbers'
  <2>1. \A k \in DOMAIN added' : added'[k].at <= Len(sent)
    BY <1>1, <1>2, <1>5 DEF Numbers
  <2> QED BY <1>1, <2>1 DEF Numbers
<1>14. AddedOnce'
  BY <1>1, <1>5, <1>9 DEF AddedOnce, IsAdded
<1>15. InTurn'
  <2> SUFFICES ASSUME kind = "concat", NEW i \in 1 .. h + 1, NEW j \in 1 .. h + 1, i < j,
                      NEW k \in 1 .. m + 1, NEW l \in 1 .. m + 1,
                      added'[k].src = followed'[i], added'[l].src = followed'[j]
               PROVE  k < l
    BY <1>5, <1>6 DEF InTurn
  <2>1. i \in 1 .. h /\ followed'[i] = followed[i] /\ followed[i] # s
    BY <1>1, <1>6 DEF Follows
  <2>2. k \in 1 .. m /\ added[k].src = followed[i]
    BY <1>5, <2>1
  <2>3. CASE j = h + 1
    <3>1. added'[l].src = s
      BY <1>6, <2>3
    <3>2. l \notin 1 .. m
      BY <1>5, <1>9, <3>1 DEF IsAdded
    <3> QED BY <2>2, <3>2
  <2>4. CASE j \in 1 .. h
    <3>1. followed'[j] = followed[j] /\ followed[j] # s
      BY <1>1, <1>6, <2>4 DEF Follows
    <3>2. l \in 1 .. m /\ added[l].src = followed[j]
      BY <1>5, <3>1
    <3>3. i \in DOMAIN followed /\ j \in DOMAIN followed /\ k \in DOMAIN added /\ l \in DOMAIN added
      BY <1>5, <1>6, <2>1, <2>2, <2>4, <3>2
    <3> QED BY <1>1, <2>2, <3>2, <3>3 DEF InTurn
  <2> QED BY <1>6, <2>3, <2>4
<1>16. MergeOuts'
  <2>1. \A n : IsOut(n)' <=> IsOut(n)
    BY <1>1 DEF IsOut
  <2> QED BY <1>1, <1>10, <2>1 DEF MergeOuts
<1>17. SwitchOuts'
  <2>1. \A n : IsOut(n)' <=> IsOut(n)
    BY <1>1 DEF IsOut
  <2>2. /\ \A i \in DOMAIN outs : outs[i] \in 1 .. Len(sent)
        /\ DOMAIN sent = 1 .. Len(sent) /\ DOMAIN outs = 1 .. Len(outs) /\ Len(outs) \in Nat
    BY <1>1, <1>2 DEF Numbers
  <2>3. ASSUME NEW n \in DOMAIN sent PROVE Addable!SwitchedAway(n)' <=> Addable!SwitchedAway(n)
    <3>1. Len(sent) >= n
      BY <1>2, <2>2
    <3>2. ASSUME NEW i \in 2 .. Len(outs)
          PROVE  (\A k \in DOMAIN added' :
                    added'[k].src = sent[n].src => added'[k].at < outs[i] \/ added'[k].at >= n) <=>
                 (\A k \in DOMAIN added :
                    added[k].src = sent[n].src => added[k].at < outs[i] \/ added[k].at >= n)
      BY <1>5, <3>1
    <3> QED BY <1>1, <3>2 DEF Addable!SwitchedAway
  <2>4. ~Dropped(s)'
    <3>1. ASSUME NEW i \in 2 .. Len(outs) PROVE ~(Len(sent) < outs[i])
      <4>1. i \in DOMAIN outs
        BY <2>2
      <4> QED BY <1>2, <2>2, <4>1
    <3>2. m + 1 \in DOMAIN added'
      BY <1>5
    <3> QED BY <1>1, <1>5, <3>1, <3>2 DEF Dropped
  <2>5. \A t : t # s => (Dropped(t)' <=> Dropped(t))
    <3> SUFFICES ASSUME NEW t, t # s PROVE Dropped(t)' <=> Dropped(t)
      OBVIOUS
    <3>1. ASSUME NEW i
          PROVE  (\A k \in DOMAIN added' : added'[k].src = t => added'[k].at < outs[i]) <=>
                 (\A k \in DOMAIN added : added[k].src = t => added[k].at < outs[i])
      BY <1>5
    <3> QED BY <1>1, <3>1 DEF Dropped
  <2>6. kind = "switch" => wire'[s] = "out"
    BY <1>7
  <2> QED BY <1>1, <1>7, <1>8, <1>10, <2>1, <2>3, <2>4, <2>5, <2>6 DEF SwitchOuts
<1>18. ChainQueues'
  <2> SUFFICES ASSUME kind = "chain" PROVE ChainQueues'
    BY DEF ChainQueues
  <2>1. Gone' = Gone /\ Gone \in Nat /\ Gone = m - h
    BY <1>1, <1>3, <1>4, <1>5, <1>6 DEF Gone, ChainQueues
  <2>2. \A i \in DOMAIN followed' : followed'[i] = added'[Gone + i].src
    <3> SUFFICES ASSUME NEW i \in 1 .. h + 1 PROVE followed'[i] = added'[(m - h) + i].src
      BY <1>6, <2>1
    <3>1. CASE i \in 1 .. h
      <4>1. (m - h) + i \in 1 .. m
        BY <2>1, <3>1
      <4>2. followed[i] = added[(m - h) + i].src
        BY <1>1, <1>6, <2>1, <3>1 DEF ChainQueues
      <4> QED BY <1>5, <1>6, <3>1, <4>1, <4>2
    <3>2. CASE i = h + 1
      <4>1. (m - h) + i = m + 1
        BY <3>2
      <4> QED BY <1>5, <1>6, <3>2, <4>1
    <3> QED BY <3>1, <3>2
  <2>3. IF draining = None THEN wire'[followed'[1]] = "out"
        ELSE draining = followed'[1] /\ wire'[draining] = "queue"
    <3>1. CASE h = 0
      BY <1>1, <1>6, <1>7, <3>1 DEF ChainQueues
    <3>2. CASE h # 0
      <4>1. 1 \in 1 .. h /\ followed[1] \in Source /\ followed[1] # s
        BY <1>20, <3>2
      <4> QED BY <1>1, <1>6, <1>7, <3>2, <4>1 DEF ChainQueues
    <3> QED BY <3>1, <3>2
  <2>4. ASSUME NEW i \in 1 .. h + 1, i > 1 PROVE wire'[followed'[i]] = "queue"
    <3>1. CASE i \in 1 .. h
      <4>1. followed[i] \in Source /\ followed[i] # s
        BY <1>20, <3>1
      <4> QED BY <1>1, <1>6, <1>7, <2>4, <3>1, <4>1 DEF ChainQueues
    <3>2. CASE i = h + 1
      BY <1>6, <1>7, <2>4, <3>2
    <3> QED BY <3>1, <3>2
  <2> QED BY <1>1, <1>6, <2>1, <2>2, <2>3, <2>4 DEF ChainQueues
<1>19. ChainOuts'
  <2> SUFFICES ASSUME kind = "chain" PROVE ChainOuts'
    BY DEF ChainOuts
  <2>1. Gone' = Gone
    BY <1>1, <1>3, <1>4, <1>5, <1>6 DEF Gone
  <2>2. (\A n : IsOut(n)' <=> IsOut(n)) /\ \A t, n : InQueue(t, n)' <=> InQueue(t, n)
    BY <1>1 DEF IsOut, InQueue
  <2>3. \A n \in Addable!Known : sent[n].src # s
    BY <1>9 DEF Addable!Known, IsAdded
  <2>4. \A n \in Addable!Known, k \in DOMAIN added' :
            added'[k].src = sent[n].src => k \in DOMAIN added /\ added[k].src = sent[n].src
    BY <1>5, <2>3
  <2>5. wire[s] = "none"
    BY <1>1, <1>2 DEF Wiring
  <2>6. \A t \in Source : wire'[t] # "queue" => q[t] = <<>>
    BY <1>1, <1>7, <2>5 DEF ChainOuts
  <2>7. \A i \in DOMAIN outs :
              /\ outs[i] \in Addable!Known
              /\ \A k \in DOMAIN added' : added'[k].src = sent[outs[i]].src => k <= Gone + 1
              /\ \A j \in DOMAIN q[sent[outs[i]].src] : outs[i] < q[sent[outs[i]].src][j]
    BY <1>1, <2>4 DEF ChainOuts
  <2>8. \A i, j \in DOMAIN outs : i < j =>
              \A k, l \in DOMAIN added' :
                  added'[k].src = sent[outs[i]].src /\ added'[l].src = sent[outs[j]].src =>
                      k < l \/ (k = l /\ outs[i] < outs[j])
    <3> SUFFICES ASSUME NEW i \in DOMAIN outs, NEW j \in DOMAIN outs, i < j,
                        NEW k \in DOMAIN added', NEW l \in DOMAIN added',
                        added'[k].src = sent[outs[i]].src, added'[l].src = sent[outs[j]].src
                 PROVE  k < l \/ (k = l /\ outs[i] < outs[j])
      OBVIOUS
    <3>1. /\ k \in DOMAIN added /\ added[k].src = sent[outs[i]].src
          /\ l \in DOMAIN added /\ added[l].src = sent[outs[j]].src
      BY <2>4, <2>7
    <3> QED BY <1>1, <3>1 DEF ChainOuts
  <2>9. \A n \in Addable!Known' : IsOut(n)' \/ InQueue(sent[n].src, n)'
    BY <1>1, <1>10, <2>2 DEF ChainOuts, InQueue
  <2>10. \A t \in Source : /\ \A i \in DOMAIN q[t] : q[t][i] \in Addable!Known' /\ sent'[q[t][i]].src = t
                           /\ \A i, j \in DOMAIN q[t] : i < j => q[t][i] < q[t][j]
    BY <1>1, <1>10 DEF ChainOuts
  <2>11. q' = q /\ sent' = sent /\ outs' = outs
    BY <1>1
  <2> QED BY <1>10, <2>1, <2>6, <2>7, <2>8, <2>9, <2>10, <2>11 DEF ChainOuts
<1> QED BY <1>11, <1>12, <1>13, <1>14, <1>15, <1>16, <1>17, <1>18, <1>19 DEF JoinHolds

-----------------------------------------------------------------------------
(* A value of a live source, heard or not. *)
LEMMA OneSent ==
    ASSUME JoinTypes, NEW s \in Source, NEW b \in BOOLEAN, added' = added,
           sent' = Append(sent, [src |-> s, first |-> b])
    PROVE  \E n \in Nat :
              /\ n = Len(sent) /\ Len(sent') = n + 1
              /\ sent' \in Seq(SentHere) /\ DOMAIN sent = 1 .. n /\ DOMAIN sent' = 1 .. n + 1
              /\ \A i \in 1 .. n : sent'[i] = sent[i]
              /\ sent'[n + 1].src = s /\ sent'[n + 1].first = b
<1> DEFINE r == [src |-> s, first |-> b]
<1>1. r \in SentHere /\ r.src = s /\ r.first = b /\ sent' = Append(sent, r) /\ sent \in Seq(SentHere)
  BY DEF SentHere, JoinTypes
<1> HIDE DEF r
<1>2. /\ Append(sent, r) \in Seq(SentHere)
      /\ Len(sent) \in Nat /\ DOMAIN sent = 1 .. Len(sent)
      /\ Len(Append(sent, r)) = Len(sent) + 1
      /\ DOMAIN Append(sent, r) = 1 .. Len(sent) + 1
      /\ \A i \in 1 .. Len(sent) : Append(sent, r)[i] = sent[i]
      /\ Append(sent, r)[Len(sent) + 1] = r
  BY <1>1, Grown
<1> DEFINE n == Len(sent)
<1>3. /\ n \in Nat /\ n = Len(sent) /\ Len(sent') = n + 1
      /\ sent' \in Seq(SentHere) /\ DOMAIN sent = 1 .. n /\ DOMAIN sent' = 1 .. n + 1
      /\ \A i \in 1 .. n : sent'[i] = sent[i]
      /\ sent'[n + 1].src = s /\ sent'[n + 1].first = b
  BY <1>1, <1>2
<1> HIDE DEF n
<1> QED BY <1>3

(* Which of the values are known to the join after one more. *)
LEMMA KnownGrows ==
    ASSUME JoinTypes, Numbers, NEW s, added' = added, NEW n \in Nat, n = Len(sent),
           DOMAIN sent = 1 .. n, DOMAIN sent' = 1 .. n + 1,
           \A i \in 1 .. n : sent'[i] = sent[i], sent'[n + 1].src = s
    PROVE  /\ \A i \in 1 .. n : i \in Addable!Known' <=> i \in Addable!Known
           /\ n + 1 \in Addable!Known' <=> IsAdded(s)
           /\ Addable!Known \subseteq Addable!Known'
           /\ Addable!Known' \subseteq 1 .. n + 1
<1>1. \A i \in 1 .. n : i \in Addable!Known' <=> i \in Addable!Known
  BY DEF Addable!Known
<1>2. ASSUME NEW k \in DOMAIN added PROVE added[k].at < n + 1
  <2>1. added[k] \in AddedHere
    BY DEF JoinTypes
  <2>2. added[k].at \in Nat /\ added[k].at <= n
    BY <2>1 DEF AddedHere, Numbers
  <2> QED BY <2>2
<1>3. n + 1 \in Addable!Known' <=> IsAdded(s)
  BY <1>2 DEF Addable!Known, IsAdded
<1>4. Addable!Known \subseteq 1 .. n /\ Addable!Known' \subseteq 1 .. n + 1
  BY DEF Addable!Known
<1> QED BY <1>1, <1>3, <1>4

(* The first source that a Concat follows is the first that lives. *)
LEMMA FirstIsFollowed ==
    ASSUME JoinTypes, Wiring, AddedOnce, InTurn, kind = "concat", NEW s \in Source, s \notin over
    PROVE  (Follows(s) /\ followed[1] = s) <=> (IsAdded(s) /\ Addable!LivesFirst(s))
<1>1. /\ followed \in Seq(Source) /\ added \in Seq(AddedHere)
      /\ DOMAIN followed = 1 .. Len(followed) /\ DOMAIN added = 1 .. Len(added)
      /\ Len(followed) \in Nat /\ Len(added) \in Nat
      /\ \A k \in DOMAIN added : added[k].src \in Source
      /\ \A i \in DOMAIN followed : followed[i] \in Source
  <2>1. \A k \in DOMAIN added : added[k] \in AddedHere
    BY DEF JoinTypes
  <2> QED BY <2>1 DEF JoinTypes, AddedHere
<1>2. ASSUME NEW t \in Source
      PROVE  /\ Follows(t) => t \notin over
             /\ IsAdded(t) /\ t \notin over => Follows(t)
             /\ Follows(t) => IsAdded(t)
  <2>1. /\ wire[t] # "none" <=> Follows(t)
        /\ wire[t] = "out" => t \notin over
        /\ wire[t] # "queue" /\ wire[t] \in {"none", "queue", "out"}
    BY DEF Wiring, JoinTypes
  <2> QED BY <2>1 DEF Wiring
<1>3. ASSUME Follows(s), followed[1] = s PROVE IsAdded(s) /\ Addable!LivesFirst(s)
  <2>1. PICK k \in DOMAIN added : added[k].src = s
    BY <1>2, <1>3 DEF IsAdded
  <2>2. ASSUME NEW i \in 1 .. k - 1, added[i].src \notin over PROVE FALSE
    <3>1. i \in DOMAIN added /\ i < k /\ k \in Nat
      BY <1>1
    <3>2. PICK j \in DOMAIN followed : followed[j] = added[i].src
      BY <1>1, <1>2, <2>2, <3>1 DEF Follows, IsAdded
    <3>3. added[i].src # s
      BY <2>1, <3>1 DEF AddedOnce
    <3>4. 1 \in DOMAIN followed /\ 1 < j
      BY <1>1, <1>3, <3>2, <3>3
    <3>5. k < i
      BY <1>3, <2>1, <3>1, <3>2, <3>4 DEF InTurn
    <3> QED BY <3>1, <3>5, <1>1
  <2> QED BY <1>2, <1>3, <2>1, <2>2 DEF Addable!LivesFirst
<1>4. ASSUME Addable!LivesFirst(s) PROVE Follows(s) /\ followed[1] = s
  <2>1. PICK k \in DOMAIN added : added[k].src = s /\ \A i \in 1 .. k - 1 : added[i].src \in over
    BY <1>4 DEF Addable!LivesFirst
  <2>2. PICK j \in DOMAIN followed : followed[j] = s
    BY <1>2, <2>1 DEF IsAdded, Follows
  <2>3. 1 \in DOMAIN followed
    BY <1>1, <2>2
  <2>4. followed[1] \in Source /\ Follows(followed[1])
    BY <1>1, <2>3 DEF Follows
  <2>5. PICK l \in DOMAIN added : added[l].src = followed[1]
    BY <1>2, <2>4 DEF IsAdded
  <2>6. ASSUME followed[1] # s PROVE FALSE
    <3>1. 1 < j
      BY <1>1, <2>2, <2>6
    <3>2. l < k
      BY <2>1, <2>2, <2>3, <2>5, <3>1 DEF InTurn
    <3>3. l \in 1 .. k - 1
      BY <1>1, <3>2
    <3> QED BY <1>2, <2>1, <2>4, <2>5, <3>3
  <2> QED BY <1>2, <2>1, <2>6 DEF IsAdded
<1> QED BY <1>2, <1>3, <1>4

-----------------------------------------------------------------------------
(* A value is heard if its source is connected to the output and, of a Concat, first. *)
Heard(s) == wire[s] = "out" /\ Addable!Passes(s)

LEMMA OutsGrow ==
    ASSUME JoinTypes, Numbers, NEW n \in Nat, n = Len(sent), NEW s,
           outs' = IF Heard(s) THEN Append(outs, n + 1) ELSE outs,
           Len(sent') = n + 1, added' = added, kind' = kind
    PROVE  /\ outs' \in Seq(Nat) /\ DOMAIN outs = 1 .. Len(outs) /\ Len(outs) \in Nat
           /\ Heard(s) => DOMAIN outs' = 1 .. Len(outs) + 1 /\ outs'[Len(outs) + 1] = n + 1
           /\ ~Heard(s) => DOMAIN outs' = 1 .. Len(outs)
           /\ \A i \in DOMAIN outs' : i \in 1 .. Len(outs) \/ (Heard(s) /\ i = Len(outs) + 1)
           /\ \A i \in 1 .. Len(outs) : outs'[i] = outs[i] /\ outs[i] \in 1 .. n
           /\ \A i \in 1 .. n : IsOut(i)' <=> IsOut(i)
           /\ IsOut(n + 1)' <=> Heard(s)
           /\ Numbers'
<1>1. outs \in Seq(Nat) /\ DOMAIN outs = 1 .. Len(outs) /\ Len(outs) \in Nat
  BY DEF JoinTypes
<1>2. \A i \in 1 .. Len(outs) : outs[i] \in 1 .. n
  BY <1>1 DEF Numbers
<1>3. /\ outs' \in Seq(Nat)
      /\ Heard(s) => DOMAIN outs' = 1 .. Len(outs) + 1 /\ outs'[Len(outs) + 1] = n + 1
      /\ ~Heard(s) => DOMAIN outs' = 1 .. Len(outs)
      /\ \A i \in DOMAIN outs' : i \in 1 .. Len(outs) \/ (Heard(s) /\ i = Len(outs) + 1)
      /\ \A i \in 1 .. Len(outs) : outs'[i] = outs[i]
  <2>1. CASE Heard(s)
    <3>1. outs' = Append(outs, n + 1) /\ n + 1 \in Nat
      BY <2>1
    <3>2. /\ outs' \in Seq(Nat) /\ DOMAIN outs' = 1 .. Len(outs) + 1
          /\ \A i \in 1 .. Len(outs) : outs'[i] = outs[i]
          /\ outs'[Len(outs) + 1] = n + 1
      BY <1>1, <3>1, Grown
    <3> QED BY <1>1, <2>1, <3>2
  <2>2. CASE ~Heard(s)
    <3>1. outs' = outs
      BY <2>2
    <3> HIDE DEF Heard
    <3> QED BY <1>1, <2>2, <3>1, Zenon
  <2> QED BY <2>1, <2>2
<1>4. \A i \in 1 .. n : IsOut(i)' <=> IsOut(i)
  <2>1. CASE Heard(s)
    BY <1>1, <1>3, <2>1 DEF IsOut
  <2>2. CASE ~Heard(s)
    BY <2>2 DEF IsOut
  <2> QED BY <2>1, <2>2
<1>5. IsOut(n + 1)' <=> Heard(s)
  <2>1. CASE Heard(s)
    <3>1. Len(outs) + 1 \in DOMAIN outs'
      BY <1>1, <1>3, <2>1
    <3> QED BY <1>3, <2>1, <3>1 DEF IsOut
  <2>2. CASE ~Heard(s)
    <3>1. DOMAIN outs' = 1 .. Len(outs)
      BY <1>3, <2>2, Zenon
    <3>2. ASSUME NEW i \in DOMAIN outs' PROVE outs'[i] # n + 1
      BY <1>2, <1>3, <3>1
    <3> QED BY <2>2, <3>2 DEF IsOut
  <2> QED BY <2>1, <2>2
<1>6. Numbers'
  <2>1. ASSUME NEW k \in DOMAIN added PROVE added[k].at <= n + 1
    <3>1. added[k] \in AddedHere
      BY DEF JoinTypes
    <3>2. added[k].at \in Nat /\ added[k].at <= n
      BY <3>1 DEF AddedHere, Numbers
    <3> QED BY <3>2
  <2>2. ASSUME NEW i \in DOMAIN outs' PROVE outs'[i] \in 1 .. n + 1
    <3>1. i \in 1 .. Len(outs) \/ (Heard(s) /\ i = Len(outs) + 1)
      BY <1>1, <1>3
    <3> QED BY <1>2, <1>3, <3>1
  <2>3. ASSUME kind # "chain", NEW i \in DOMAIN outs', NEW j \in DOMAIN outs', i < j
        PROVE  outs'[i] < outs'[j]
    <3>1. i \in 1 .. Len(outs)
      BY <1>1, <1>3, <2>3
    <3>2. CASE j \in 1 .. Len(outs)
      BY <1>1, <1>3, <2>3, <3>1, <3>2 DEF Numbers
    <3>3. CASE Heard(s) /\ j = Len(outs) + 1
      BY <1>2, <1>3, <3>1, <3>3
    <3> QED BY <1>1, <1>3, <3>2, <3>3
  <2> QED BY <2>1, <2>2, <2>3 DEF Numbers
<1> QED BY <1>1, <1>2, <1>3, <1>4, <1>5, <1>6

LEMMA JoinHears ==
    ASSUME JoinHolds, kind' = kind, NEW s \in Source, draining # s, Addable!SourceEmits(s),
           kind # "switch"
    PROVE  JoinHolds'
<1>1. /\ s \notin over
      /\ sent' = Append(sent, [src |-> s, first |-> Addable!LivesFirst(s)])
      /\ q' = Addable!Queued(s)
      /\ torn' = (torn \/ draining = s)
      /\ outs' = IF Heard(s) THEN Append(outs, Len(sent) + 1) ELSE outs
      /\ UNCHANGED <<parent, over, followed, wire, active, draining, ended, added>>
      /\ JoinTypes /\ Wiring /\ Numbers /\ AddedOnce /\ InTurn
      /\ MergeOuts /\ SwitchOuts /\ ChainQueues /\ ChainOuts
  BY DEF JoinHolds, Addable!SourceEmits, Heard
<1>2. Addable!LivesFirst(s) \in BOOLEAN
  BY DEF Addable!LivesFirst
<1>3. PICK n \in Nat :
              /\ n = Len(sent) /\ Len(sent') = n + 1
              /\ sent' \in Seq(SentHere) /\ DOMAIN sent = 1 .. n /\ DOMAIN sent' = 1 .. n + 1
              /\ \A i \in 1 .. n : sent'[i] = sent[i]
              /\ sent'[n + 1].src = s /\ sent'[n + 1].first = Addable!LivesFirst(s)
  BY <1>1, <1>2, OneSent
<1>4. /\ \A i \in 1 .. n : i \in Addable!Known' <=> i \in Addable!Known
      /\ n + 1 \in Addable!Known' <=> IsAdded(s)
      /\ Addable!Known \subseteq Addable!Known'
      /\ Addable!Known' \subseteq 1 .. n + 1
  BY <1>1, <1>3, KnownGrows
<1>5. /\ outs' \in Seq(Nat) /\ DOMAIN outs = 1 .. Len(outs) /\ Len(outs) \in Nat
      /\ Heard(s) => DOMAIN outs' = 1 .. Len(outs) + 1 /\ outs'[Len(outs) + 1] = n + 1
      /\ ~Heard(s) => DOMAIN outs' = 1 .. Len(outs)
      /\ \A i \in DOMAIN outs' : i \in 1 .. Len(outs) \/ (Heard(s) /\ i = Len(outs) + 1)
      /\ \A i \in 1 .. Len(outs) : outs'[i] = outs[i] /\ outs[i] \in 1 .. n
      /\ \A i \in 1 .. n : IsOut(i)' <=> IsOut(i)
      /\ IsOut(n + 1)' <=> Heard(s)
      /\ Numbers'
  BY <1>1, <1>3, OutsGrow
<1>6. /\ wire[s] \in {"none", "queue", "out"} /\ q \in [Source -> Seq(Nat)]
      /\ wire[s] # "none" <=> Follows(s)
      /\ Follows(s) <=> IsAdded(s)
      /\ kind # "chain" => wire[s] # "queue"
      /\ kind \in {"merge", "concat", "chain"}
  BY <1>1 DEF JoinTypes, Wiring
<1>7. /\ q' \in [Source -> Seq(Nat)]
      /\ \A t \in Source : t # s => q'[t] = q[t]
      /\ q'[s] = IF wire[s] = "queue" THEN Append(q[s], n + 1) ELSE q[s]
  BY <1>1, <1>3, <1>6 DEF Addable!Queued
<1>8. JoinTypes'
  <2>1. torn' = FALSE
    <3>1. torn = FALSE
      BY <1>1 DEF JoinTypes
    <3> QED BY <1>1, <3>1
  <2> QED BY <1>1, <1>3, <1>5, <1>7, <2>1 DEF JoinTypes
<1>9. Wiring' /\ AddedOnce' /\ InTurn' /\ ChainQueues' /\ SwitchOuts'
  <2>1. \A t : (Follows(t)' <=> Follows(t)) /\ (IsAdded(t)' <=> IsAdded(t))
    BY <1>1 DEF Follows, IsAdded
  <2>2. Wiring'
    BY <1>1, <2>1 DEF Wiring
  <2>3. AddedOnce' /\ InTurn'
    BY <1>1 DEF AddedOnce, InTurn
  <2>4. ChainQueues'
    BY <1>1 DEF ChainQueues, Gone
  <2>5. SwitchOuts'
    BY DEF SwitchOuts
  <2> QED BY <2>2, <2>3, <2>4, <2>5
<1>10. MergeOuts'
  <2>1. ASSUME kind = "merge", NEW m \in 1 .. n + 1 PROVE IsOut(m)' <=> m \in Addable!Known'
    <3>1. Heard(s) <=> IsAdded(s)
      BY <1>6, <2>1 DEF Heard, Addable!Passes
    <3>2. CASE m = n + 1
      BY <1>4, <1>5, <3>1, <3>2
    <3>3. CASE m \in 1 .. n
      BY <1>1, <1>3, <1>4, <1>5, <2>1, <3>3 DEF MergeOuts
    <3> QED BY <3>2, <3>3
  <2>2. ASSUME kind = "concat", NEW m \in 1 .. n + 1
        PROVE  IsOut(m)' <=> m \in Addable!Known' /\ sent'[m].first
    <3>1. Heard(s) <=> Follows(s) /\ followed[1] = s
      BY <1>6, <2>2 DEF Heard, Addable!Passes
    <3>2. Heard(s) <=> IsAdded(s) /\ Addable!LivesFirst(s)
      BY <1>1, <2>2, <3>1, FirstIsFollowed
    <3>3. CASE m = n + 1
      BY <1>3, <1>4, <1>5, <3>2, <3>3
    <3>4. CASE m \in 1 .. n
      BY <1>1, <1>3, <1>4, <1>5, <2>2, <3>4 DEF MergeOuts
    <3> QED BY <3>3, <3>4
  <2> QED BY <1>3, <2>1, <2>2 DEF MergeOuts
<1>11. ChainOuts'
  <2> SUFFICES ASSUME kind = "chain" PROVE ChainOuts'
    BY DEF ChainOuts
  <2>1. Heard(s) <=> wire[s] = "out"
    BY DEF Heard, Addable!Passes
  <2>2. /\ \A t \in Source : wire[t] # "queue" => q[t] = <<>>
        /\ \A t \in Source : \A i \in DOMAIN q[t] :
              q[t][i] \in Addable!Known /\ sent[q[t][i]].src = t
        /\ \A t \in Source : \A i, j \in DOMAIN q[t] : i < j => q[t][i] < q[t][j]
        /\ \A m \in Addable!Known : IsOut(m) \/ InQueue(sent[m].src, m)
        /\ \A i \in DOMAIN outs :
              /\ outs[i] \in Addable!Known
              /\ \A k \in DOMAIN added : added[k].src = sent[outs[i]].src => k <= Gone + 1
              /\ \A j \in DOMAIN q[sent[outs[i]].src] : outs[i] < q[sent[outs[i]].src][j]
        /\ \A i, j \in DOMAIN outs : i < j =>
              \A k, l \in DOMAIN added :
                  added[k].src = sent[outs[i]].src /\ added[l].src = sent[outs[j]].src =>
                      k < l \/ (k = l /\ outs[i] < outs[j])
    BY <1>1 DEF ChainOuts
  <2>3. Gone' = Gone /\ Gone \in Nat
    BY <1>1 DEF Gone, ChainQueues
  <2>4. Addable!Known \subseteq 1 .. n
    BY <1>3 DEF Addable!Known
  <2>5. \A t \in Source : wire'[t] # "queue" => q'[t] = <<>>
    BY <1>1, <1>7, <2>2
  <2>6. ASSUME NEW t \in Source
        PROVE  /\ \A i \in DOMAIN q'[t] : q'[t][i] \in Addable!Known' /\ sent'[q'[t][i]].src = t
               /\ \A i, j \in DOMAIN q'[t] : i < j => q'[t][i] < q'[t][j]
               /\ \A m : InQueue(t, m) => InQueue(t, m)'
    <3>1. CASE q'[t] = q[t]
      <4>1. \A i \in DOMAIN q[t] : q[t][i] \in 1 .. n /\ sent'[q[t][i]] = sent[q[t][i]]
        BY <1>3, <2>2, <2>4
      <4> QED BY <1>4, <2>2, <3>1, <4>1 DEF InQueue
    <3>2. CASE t = s /\ wire[s] = "queue"
      <4>1. /\ q[s] \in Seq(Nat) /\ q'[s] = Append(q[s], n + 1) /\ n + 1 \in Nat
        BY <1>6, <1>7, <3>2
      <4>2. /\ Len(q[s]) \in Nat /\ DOMAIN q[s] = 1 .. Len(q[s])
            /\ DOMAIN q'[s] = 1 .. Len(q[s]) + 1
            /\ \A i \in 1 .. Len(q[s]) : q'[s][i] = q[s][i]
            /\ q'[s][Len(q[s]) + 1] = n + 1
        BY <4>1, Grown
      <4>3. \A i \in DOMAIN q[s] : q[s][i] \in 1 .. n /\ sent'[q[s][i]] = sent[q[s][i]]
        BY <1>3, <2>2, <2>4
      <4>4. n + 1 \in Addable!Known' /\ sent'[n + 1].src = s
        BY <1>3, <1>4, <1>6, <3>2
      <4>5. \A i \in DOMAIN q'[s] : q'[s][i] \in Addable!Known' /\ sent'[q'[s][i]].src = s
        <5> SUFFICES ASSUME NEW i \in DOMAIN q'[s]
                     PROVE  q'[s][i] \in Addable!Known' /\ sent'[q'[s][i]].src = s
          OBVIOUS
        <5>1. CASE i \in DOMAIN q[s]
          <6>1. q'[s][i] = q[s][i]
            BY <4>2, <5>1
          <6>2. q[s][i] \in Addable!Known /\ sent[q[s][i]].src = s
            BY <2>2, <5>1
          <6>3. q[s][i] \in Addable!Known'
            BY <1>4, <6>2
          <6> QED BY <4>3, <5>1, <6>1, <6>2, <6>3
        <5>2. CASE i = Len(q[s]) + 1
          BY <4>2, <4>4, <5>2
        <5> QED BY <4>2, <5>1, <5>2
      <4>6. \A i, j \in DOMAIN q'[s] : i < j => q'[s][i] < q'[s][j]
        <5> SUFFICES ASSUME NEW i \in DOMAIN q'[s], NEW j \in DOMAIN q'[s], i < j
                     PROVE  q'[s][i] < q'[s][j]
          OBVIOUS
        <5>1. i \in DOMAIN q[s] /\ q'[s][i] = q[s][i]
          BY <4>2
        <5>2. CASE j \in DOMAIN q[s]
          BY <2>2, <4>2, <5>1, <5>2
        <5>3. CASE j = Len(q[s]) + 1
          BY <4>2, <4>3, <5>1, <5>3
        <5> QED BY <4>2, <5>2, <5>3
      <4>7. \A m : InQueue(s, m) => InQueue(s, m)'
        BY <4>2 DEF InQueue
      <4> QED BY <3>2, <4>5, <4>6, <4>7
    <3> QED BY <1>7, <3>1, <3>2
  <2>7. ASSUME NEW m \in Addable!Known' PROVE IsOut(m)' \/ InQueue(sent[m].src, m)'
    <3>1. CASE m \in 1 .. n
      <4>1. m \in Addable!Known /\ sent'[m] = sent[m] /\ sent[m].src \in Source
        <5>1. sent[m] \in SentHere
          BY <1>1, <1>3, <3>1 DEF JoinTypes
        <5> QED BY <1>3, <1>4, <3>1, <5>1 DEF SentHere
      <4>2. IsOut(m) => IsOut(m)'
        BY <1>5, <3>1
      <4>3. ASSUME InQueue(sent[m].src, m) PROVE InQueue(sent[m].src, m)'
        <5>1. PICK t \in Source : t = sent[m].src
          BY <4>1
        <5>2. InQueue(t, m)'
          BY <2>6, <4>3, <5>1
        <5> QED BY <4>1, <5>1, <5>2 DEF InQueue
      <4> QED BY <2>2, <4>1, <4>2, <4>3
    <3>2. CASE m = n + 1
      <4>1. wire[s] \in {"queue", "out"}
        BY <1>4, <1>6, <3>2
      <4>2. CASE wire[s] = "out"
        BY <1>5, <2>1, <3>2, <4>2
      <4>3. CASE wire[s] = "queue"
        <5>1. q'[s] = Append(q[s], n + 1) /\ q[s] \in Seq(Nat)
          BY <1>6, <1>7, <4>3
        <5>2. Len(q[s]) + 1 \in DOMAIN q'[s] /\ q'[s][Len(q[s]) + 1] = n + 1
          BY <5>1
        <5>3. \E i \in DOMAIN q'[s] : q'[s][i] = n + 1
          BY <5>2
        <5> QED BY <1>3, <3>2, <5>3 DEF InQueue
      <4> QED BY <4>1, <4>2, <4>3
    <3> QED BY <1>4, <3>1, <3>2
  <2>8. ASSUME NEW i \in 1 .. Len(outs)
        PROVE  /\ outs'[i] \in Addable!Known' /\ outs'[i] \in 1 .. n
               /\ sent'[outs'[i]].src = sent[outs[i]].src
               /\ \A k \in DOMAIN added : added[k].src = sent'[outs'[i]].src => k <= Gone + 1
               /\ \A j \in DOMAIN q'[sent'[outs'[i]].src] : outs'[i] < q'[sent'[outs'[i]].src][j]
    <3>1. /\ outs'[i] = outs[i] /\ outs[i] \in 1 .. n /\ sent'[outs[i]] = sent[outs[i]]
          /\ i \in DOMAIN outs
      BY <1>3, <1>5
    <3>2. PICK t \in Source : t = sent[outs[i]].src
      <4>1. sent[outs[i]] \in SentHere
        BY <1>1, <1>3, <3>1 DEF JoinTypes
      <4> QED BY <4>1 DEF SentHere
    <3>3. \A j \in DOMAIN q'[t] : outs[i] < q'[t][j]
      <4>1. \A j \in DOMAIN q[t] : outs[i] < q[t][j]
        BY <2>2, <3>1, <3>2
      <4>2. CASE q'[t] = q[t]
        BY <4>1, <4>2
      <4>3. CASE t = s /\ q'[t] = Append(q[t], n + 1)
        <5>1. q[t] \in Seq(Nat) /\ n + 1 \in Nat
          BY <1>6
        <5>2. /\ Len(q[t]) \in Nat /\ DOMAIN q[t] = 1 .. Len(q[t])
              /\ DOMAIN q'[t] = 1 .. Len(q[t]) + 1
              /\ \A j \in 1 .. Len(q[t]) : q'[t][j] = q[t][j]
              /\ q'[t][Len(q[t]) + 1] = n + 1
          BY <4>3, <5>1, Grown
        <5>3. outs[i] < n + 1
          BY <3>1
        <5>4. ASSUME NEW j \in 1 .. Len(q[t]) + 1 PROVE outs[i] < q'[t][j]
          <6>1. CASE j = Len(q[t]) + 1
            BY <5>2, <5>3, <6>1
          <6>2. CASE j \in 1 .. Len(q[t])
            BY <4>1, <5>2, <6>2
          <6> QED BY <5>2, <6>1, <6>2
        <5> QED BY <5>2, <5>4, Zenon
      <4> QED BY <1>7, <4>2, <4>3
    <3> QED BY <1>4, <2>2, <3>1, <3>2, <3>3
  <2>9. ASSUME Heard(s)
        PROVE  /\ n + 1 \in Addable!Known' /\ sent'[n + 1].src = s
               /\ \A k \in DOMAIN added : added[k].src = s => k = Gone + 1
               /\ q'[s] = <<>>
    <3>1. wire[s] = "out" /\ Follows(s) /\ IsAdded(s)
      BY <1>6, <2>1, <2>9
    <3>2. PICK i \in DOMAIN followed : followed[i] = s
      BY <3>1 DEF Follows
    <3>3. i = 1
      <4>1. i \in Nat \ {0} /\ ~(i > 1)
        <5>1. followed \in Seq(Source)
          BY <1>1 DEF JoinTypes
        <5> QED BY <1>1, <3>1, <3>2, <5>1 DEF ChainQueues
      <4> QED BY <4>1
    <3>4. added[Gone + 1].src = s
      BY <1>1, <3>2, <3>3 DEF ChainQueues
    <3>5. Gone + 1 \in DOMAIN added
      <4>1. /\ Gone = Len(added) - Len(followed) /\ Len(followed) \in Nat \ {0} /\ Len(added) \in Nat
            /\ DOMAIN added = 1 .. Len(added)
        BY <1>1, <3>2 DEF Gone, JoinTypes
      <4> QED BY <2>3, <4>1
    <3> QED BY <1>1, <1>3, <1>4, <2>5, <3>1, <3>4, <3>5 DEF AddedOnce
  <2>10. ASSUME NEW i \in DOMAIN outs'
         PROVE  /\ outs'[i] \in Addable!Known'
                /\ \A k \in DOMAIN added : added[k].src = sent'[outs'[i]].src => k <= Gone + 1
                /\ \A j \in DOMAIN q'[sent'[outs'[i]].src] : outs'[i] < q'[sent'[outs'[i]].src][j]
    <3>1. CASE i \in 1 .. Len(outs)
      BY <2>8, <3>1
    <3>2. CASE Heard(s) /\ i = Len(outs) + 1
      <4>1. outs'[i] = n + 1 /\ DOMAIN q'[s] = {}
        BY <1>5, <2>9, <3>2
      <4> QED BY <2>3, <2>9, <3>2, <4>1
    <3> QED BY <1>5, <3>1, <3>2
  <2>11. ASSUME NEW i \in DOMAIN outs', NEW j \in DOMAIN outs', i < j,
                NEW k \in DOMAIN added, NEW l \in DOMAIN added,
                added[k].src = sent'[outs'[i]].src, added[l].src = sent'[outs'[j]].src
         PROVE  k < l \/ (k = l /\ outs'[i] < outs'[j])
    <3>1. i \in 1 .. Len(outs)
      BY <1>5, <2>11
    <3>2. CASE j \in 1 .. Len(outs)
      <4>1. /\ outs'[i] = outs[i] /\ outs'[j] = outs[j]
            /\ i \in DOMAIN outs /\ j \in DOMAIN outs
            /\ added[k].src = sent[outs[i]].src /\ added[l].src = sent[outs[j]].src
        BY <1>5, <2>8, <2>11, <3>1, <3>2
      <4> QED BY <2>2, <2>11, <4>1
    <3>3. CASE Heard(s) /\ j = Len(outs) + 1
      <4>1. outs'[j] = n + 1 /\ l = Gone + 1
        BY <1>5, <2>9, <2>11, <3>3
      <4>2. k <= Gone + 1 /\ outs'[i] \in 1 .. n
        BY <2>8, <2>11, <3>1
      <4>3. k \in Nat
        <5>1. added \in Seq(AddedHere)
          BY <1>1 DEF JoinTypes
        <5> QED BY <5>1
      <4> QED BY <2>3, <4>1, <4>2, <4>3
    <3> QED BY <1>5, <3>2, <3>3
  <2>12. \A t \in Source : /\ \A i \in DOMAIN q'[t] : q'[t][i] \in Addable!Known' /\ sent'[q'[t][i]].src = t
                           /\ \A i, j \in DOMAIN q'[t] : i < j => q'[t][i] < q'[t][j]
    BY <2>6
  <2>13. \A m \in Addable!Known' : IsOut(m)' \/ InQueue(sent[m].src, m)'
    BY <2>7
  <2>14. added' = added /\ wire' = wire
    BY <1>1
  <2> QED BY <2>3, <2>5, <2>10, <2>11, <2>12, <2>13, <2>14 DEF ChainOuts
<1> QED BY <1>5, <1>8, <1>9, <1>10, <1>11 DEF JoinHolds

-----------------------------------------------------------------------------
(* A source has ended, or a chain finds that it has: the join follows it no more. *)
Leaves(s) ==
    /\ Follows(s)
    /\ wire[s] = "out" \/ kind = "chain"
    /\ kind = "chain" => s = followed[1] /\ q[s] = <<>>
    /\ kind' = kind /\ over' = over \cup {s}
    /\ followed' = Keep(followed, Source \ {s})
    /\ wire' = [wire EXCEPT ![s] = "none"]
    /\ ended' = (followed' = <<>> /\ ~parent)
    /\ active' = active \/ (ended' /\ active' = None)
    /\ draining' = IF kind = "chain" /\ followed' # <<>> THEN followed'[1] ELSE None
    /\ UNCHANGED <<parent, q, torn, added, sent, outs>>

LEMMA JoinLeaves ==
    ASSUME JoinHolds, NEW s \in Source, Leaves(s)
    PROVE  JoinHolds'
<1>1. /\ JoinTypes /\ Wiring /\ Numbers /\ AddedOnce /\ InTurn
      /\ MergeOuts /\ SwitchOuts /\ ChainQueues /\ ChainOuts
      /\ parent' = parent /\ q' = q /\ torn' = torn /\ added' = added /\ sent' = sent /\ outs' = outs
      /\ kind' = kind /\ over' = over \cup {s} /\ wire' = [wire EXCEPT ![s] = "none"] /\ Follows(s)
      /\ kind = "chain" => s = followed[1] /\ q[s] = <<>>
      /\ wire[s] = "out" \/ kind = "chain"
  BY DEF JoinHolds, Leaves
<1>2. followed' = Keep(followed, Source \ {s})
  BY DEF Leaves
<1>4. /\ followed \in Seq(Source) /\ IsInjective(followed) /\ kind \in {"merge", "concat", "chain", "switch"}
      /\ added \in Seq(AddedHere)
      /\ wire \in [Source -> {"none", "queue", "out"}]
      /\ ended \in BOOLEAN /\ parent \in BOOLEAN /\ q \in [Source -> Seq(Nat)]
      /\ active \in Source \cup {None} /\ draining \in Source \cup {None}
  BY <1>1 DEF JoinTypes
<1>5. /\ followed' \in Seq(Source) /\ IsInjective(followed')
      /\ \A t : Follows(t)' <=> Follows(t) /\ t # s
      /\ \E f : /\ f \in [DOMAIN followed' -> DOMAIN followed]
                /\ \A i \in DOMAIN followed' : followed'[i] = followed[f[i]]
                /\ \A i, j \in DOMAIN followed' : i < j => f[i] < f[j]
  <2>1. followed' \in Seq(Source) /\ IsInjective(followed') /\ LeftOf(followed', followed, s)
    BY <1>2, <1>4, OneLess
  <2> QED BY <2>1 DEF Follows, LeftOf
<1>6. /\ \A t \in Source : t # s => wire'[t] = wire[t]
      /\ wire'[s] = "none" /\ wire' \in [Source -> {"none", "queue", "out"}]
  BY <1>1, <1>4
<1>7. followed # <<>> /\ ~ended
  <2>1. followed # <<>>
    BY <1>1, <1>4 DEF Follows
  <2> QED BY <1>1, <2>1 DEF Wiring
<1>8. (ended' <=> ~parent' /\ followed' = <<>>) /\ ended' \in BOOLEAN
  <2>1. ended' = (followed' = <<>> /\ ~parent)
    BY DEF Leaves
  <2>2. ended' \in BOOLEAN
    BY <2>1, Zenon
  <2> QED BY <1>1, <2>1, <2>2
<1>9. draining' = IF kind = "chain" /\ followed' # <<>> THEN followed'[1] ELSE None
  BY DEF Leaves
<1>10. active' \in {active, None} /\ (~ended' => active' = active)
  BY DEF Leaves
<1>11. JoinTypes'
  <2>1. followed' # <<>> => followed'[1] \in Source
    BY <1>5
  <2>2. draining' \in Source \cup {None} /\ active' \in Source \cup {None}
    BY <1>4, <1>9, <1>10, <2>1
  <2>3. kind' \in Kinds /\ kind' \in {"merge", "concat", "chain", "switch"}
        /\ parent' \in BOOLEAN /\ torn' = FALSE /\ q' \in [Source -> Seq(Nat)]
        /\ added' \in Seq(AddedHere) /\ sent' \in Seq(SentHere) /\ outs' \in Seq(Nat)
    BY <1>1 DEF JoinTypes
  <2> QED BY <1>5, <1>6, <1>8, <2>2, <2>3 DEF JoinTypes
<1>12. /\ \A t : IsAdded(t)' <=> IsAdded(t)
       /\ \A n : IsOut(n)' <=> IsOut(n)
       /\ \A t : Dropped(t)' <=> Dropped(t)
       /\ \A n : Addable!SwitchedAway(n)' <=> Addable!SwitchedAway(n)
       /\ Addable!Known' = Addable!Known
       /\ Numbers' /\ AddedOnce' /\ MergeOuts'
  BY <1>1, HistoryStays
<1>13. Wiring'
  <2>1. \A t \in Source : /\ wire'[t] # "none" <=> Follows(t)'
                          /\ wire'[t] = "out" => t \notin over'
                          /\ Follows(t)' => IsAdded(t)'
    BY <1>1, <1>5, <1>6, <1>12 DEF Wiring
  <2>2. kind # "switch" => \A t \in Source : IsAdded(t)' /\ ~Follows(t)' => t \in over'
    BY <1>1, <1>5, <1>12 DEF Wiring
  <2>3. kind # "chain" => draining' = None /\ \A t \in Source : wire'[t] # "queue"
    BY <1>1, <1>6, <1>9 DEF Wiring
  <2> QED BY <1>1, <1>8, <2>1, <2>2, <2>3 DEF Wiring
<1>14. InTurn'
  <2> SUFFICES ASSUME kind = "concat", NEW i \in DOMAIN followed', NEW j \in DOMAIN followed', i < j,
                      NEW k \in DOMAIN added, NEW l \in DOMAIN added,
                      added[k].src = followed'[i], added[l].src = followed'[j]
               PROVE  k < l
    BY <1>1 DEF InTurn
  <2>1. PICK f : /\ f \in [DOMAIN followed' -> DOMAIN followed]
                 /\ \A h \in DOMAIN followed' : followed'[h] = followed[f[h]]
                 /\ \A g, h \in DOMAIN followed' : g < h => f[g] < f[h]
    BY <1>5
  <2>2. f[i] \in DOMAIN followed /\ f[j] \in DOMAIN followed /\ f[i] < f[j]
        /\ followed'[i] = followed[f[i]] /\ followed'[j] = followed[f[j]]
    BY <2>1
  <2> QED BY <1>1, <2>2 DEF InTurn
<1>15. SwitchOuts'
  <2> SUFFICES ASSUME kind = "switch" PROVE SwitchOuts'
    BY <1>1 DEF SwitchOuts
  <2>1. \A t \in Source : t \notin over' /\ IsAdded(t)' => (wire'[t] = "out" <=> ~Dropped(t)')
    BY <1>1, <1>6, <1>12 DEF SwitchOuts
  <2>2. ~ended' => active' = (IF outs = <<>> THEN None ELSE sent[outs[Len(outs)]].src)
    BY <1>1, <1>7, <1>10 DEF SwitchOuts
  <2> QED BY <1>1, <1>12, <2>1, <2>2 DEF SwitchOuts
<1>16. kind = "chain" =>
          /\ s = followed[1] /\ followed' = Tail(followed)
          /\ Gone \in Nat /\ Gone' = Gone + 1
          /\ Len(followed) \in Nat \ {0} /\ DOMAIN followed = 1 .. Len(followed)
          /\ DOMAIN followed' = 1 .. Len(followed) - 1
          /\ \A i \in DOMAIN followed' : i \in Nat /\ i + 1 \in DOMAIN followed /\ followed'[i] = followed[i + 1]
          /\ followed' # <<>> => 1 \in DOMAIN followed'
          /\ \A i \in DOMAIN followed' : followed'[i] \in Source /\ followed'[i] # s
  <2> SUFFICES ASSUME kind = "chain"
               PROVE  /\ s = followed[1] /\ followed' = Tail(followed)
                      /\ Gone \in Nat /\ Gone' = Gone + 1
                      /\ Len(followed) \in Nat \ {0} /\ DOMAIN followed = 1 .. Len(followed)
                      /\ DOMAIN followed' = 1 .. Len(followed) - 1
                      /\ \A i \in DOMAIN followed' : i \in Nat /\ i + 1 \in DOMAIN followed /\ followed'[i] = followed[i + 1]
                      /\ followed' # <<>> => 1 \in DOMAIN followed'
                      /\ \A i \in DOMAIN followed' : followed'[i] \in Source /\ followed'[i] # s
    OBVIOUS
  <2>2. /\ Len(followed) \in Nat \ {0} /\ DOMAIN followed = 1 .. Len(followed)
        /\ Len(Tail(followed)) = Len(followed) - 1 /\ DOMAIN Tail(followed) = 1 .. Len(followed) - 1
        /\ \A i \in 1 .. Len(followed) - 1 : Tail(followed)[i] = followed[i + 1]
    BY <1>4, <1>7, Taken
  <2>3. s = followed[1]
    BY <1>1
  <2>4. followed' = Tail(followed)
    BY <1>2, <1>4, <1>7, <2>3, KeepOthers
  <2>5. Gone \in Nat /\ Gone' = Gone + 1
    <3>1. Len(added) \in Nat /\ Len(added') = Len(added) /\ Len(followed') = Len(followed) - 1
      BY <1>1, <1>4, <2>2, <2>4
    <3>2. Gone \in Nat
      BY <1>1 DEF ChainQueues
    <3> QED BY <2>2, <3>1, <3>2 DEF Gone
  <2>6. \A i \in DOMAIN followed' : i \in Nat /\ i + 1 \in DOMAIN followed /\ followed'[i] = followed[i + 1]
    BY <2>2, <2>4
  <2>7. followed' # <<>> => 1 \in DOMAIN followed'
    BY <1>5
  <2>8. \A i \in DOMAIN followed' : followed'[i] \in Source /\ followed'[i] # s
    <3> TAKE i \in DOMAIN followed'
    <3>1. PICK t \in Source : t = followed'[i]
      BY <1>5
    <3>2. Follows(t)'
      BY <3>1 DEF Follows
    <3> QED BY <1>5, <3>1, <3>2
  <2> QED BY <2>2, <2>3, <2>4, <2>5, <2>6, <2>7, <2>8
<1>17. ChainQueues'
  <2> SUFFICES ASSUME kind = "chain" PROVE ChainQueues'
    BY <1>1 DEF ChainQueues
  <2>1. /\ \A i \in DOMAIN followed : followed[i] = added[Gone + i].src
        /\ \A i \in DOMAIN followed : i > 1 => wire[followed[i]] = "queue"
    BY <1>1 DEF ChainQueues
  <2>2. \A i \in DOMAIN followed' : followed'[i] = added'[Gone' + i].src
    <3> TAKE i \in DOMAIN followed'
    <3>1. followed'[i] = added[Gone + (i + 1)].src /\ i \in Nat /\ Gone \in Nat /\ Gone' = Gone + 1
      BY <1>16, <2>1
    <3>2. Gone + (i + 1) = Gone' + i
      BY <3>1
    <3> QED BY <1>1, <3>1, <3>2
  <2>3. \A i \in DOMAIN followed' : wire'[followed'[i]] = "queue"
    <3> TAKE i \in DOMAIN followed'
    <3>1. wire[followed[i + 1]] = "queue"
      <4>1. i + 1 > 1 /\ i + 1 \in DOMAIN followed
        <5>1. i \in 1 .. Len(followed) - 1 /\ Len(followed) \in Nat
          BY <1>16
        <5> QED BY <1>16, <5>1
      <4> QED BY <2>1, <4>1
    <3> QED BY <1>6, <1>16, <3>1
  <2>4. Gone' \in Nat
    BY <1>16
  <2>5. followed' # <<>> => draining' = followed'[1] /\ draining' # None /\ wire'[draining'] = "queue"
    <3> SUFFICES ASSUME followed' # <<>> PROVE draining' = followed'[1] /\ draining' # None /\ wire'[draining'] = "queue"
      OBVIOUS
    <3>1. 1 \in DOMAIN followed' /\ followed'[1] \in Source /\ draining' = followed'[1]
      BY <1>9, <1>16
    <3> QED BY <2>3, <3>1, NoneAssumption
  <2>6. followed' = <<>> => draining' = None
    BY <1>9
  <2> QED BY <1>1, <2>2, <2>3, <2>4, <2>5, <2>6 DEF ChainQueues
<1>18. ChainOuts'
  <2> SUFFICES ASSUME kind = "chain" PROVE ChainOuts'
    BY <1>1 DEF ChainOuts
  <2>1. /\ \A t \in Source : wire[t] # "queue" => q[t] = <<>>
        /\ \A t \in Source : \A i \in DOMAIN q[t] :
              q[t][i] \in Addable!Known /\ sent[q[t][i]].src = t
        /\ \A t \in Source : \A i, j \in DOMAIN q[t] : i < j => q[t][i] < q[t][j]
        /\ \A n \in Addable!Known : IsOut(n) \/ InQueue(sent[n].src, n)
        /\ \A i \in DOMAIN outs :
              /\ outs[i] \in Addable!Known
              /\ \A k \in DOMAIN added : added[k].src = sent[outs[i]].src => k <= Gone + 1
              /\ \A j \in DOMAIN q[sent[outs[i]].src] : outs[i] < q[sent[outs[i]].src][j]
        /\ \A i, j \in DOMAIN outs : i < j =>
              \A k, l \in DOMAIN added :
                  added[k].src = sent[outs[i]].src /\ added[l].src = sent[outs[j]].src =>
                      k < l \/ (k = l /\ outs[i] < outs[j])
    BY <1>1 DEF ChainOuts
  <2>2. \A t \in Source : wire'[t] # "queue" => q[t] = <<>>
    BY <1>1, <1>6, <2>1
  <2>3. ASSUME NEW i \in DOMAIN outs, NEW k \in DOMAIN added, added[k].src = sent[outs[i]].src
        PROVE  k <= Gone' + 1
    <3>1. k <= Gone + 1 /\ k \in Nat
      BY <1>4, <2>1, <2>3
    <3> QED BY <1>16, <3>1
  <2>4. \A n \in Addable!Known : IsOut(n)' \/ InQueue(sent[n].src, n)'
    BY <1>1, <1>12, <2>1 DEF InQueue
  <2>5. q' = q /\ sent' = sent /\ outs' = outs /\ added' = added
    BY <1>1
  <2> QED BY <1>1, <1>12, <2>1, <2>2, <2>3, <2>4, <2>5 DEF ChainOuts
<1> QED BY <1>11, <1>12, <1>13, <1>14, <1>15, <1>17, <1>18 DEF JoinHolds

-----------------------------------------------------------------------------
(* What one more value of s, heard or not, changes of what a Switch has dropped. *)
LEMMA SwitchedNext ==
    ASSUME JoinTypes, Numbers, NEW n \in Nat, n = Len(sent), NEW s,
           outs' = IF Heard(s) THEN Append(outs, n + 1) ELSE outs,
           Len(sent') = n + 1, added' = added, kind' = kind,
           \A i \in 1 .. n : sent'[i] = sent[i], sent'[n + 1].src = s
    PROVE  /\ \A x \in 1 .. n : Addable!SwitchedAway(x)' <=> Addable!SwitchedAway(x)
           /\ Addable!SwitchedAway(n + 1)' <=> Dropped(s)
           /\ \A t : Dropped(t)' <=>
                 Dropped(t) \/ (Heard(s) /\ outs # <<>> /\ sent[outs[Len(outs)]].src = t /\ t # s)
<1>1. PICK m \in Nat : m = Len(outs)
  BY DEF JoinTypes
<1>2. /\ outs \in Seq(Nat) /\ outs' \in Seq(Nat) /\ DOMAIN outs = 1 .. m
      /\ Heard(s) => DOMAIN outs' = 1 .. m + 1 /\ outs'[m + 1] = n + 1
      /\ ~Heard(s) => DOMAIN outs' = 1 .. m
      /\ \A i \in 1 .. m : outs'[i] = outs[i] /\ outs[i] \in 1 .. n
  <2>1. /\ outs' \in Seq(Nat) /\ DOMAIN outs = 1 .. m
        /\ Heard(s) => DOMAIN outs' = 1 .. m + 1 /\ outs'[m + 1] = n + 1
        /\ ~Heard(s) => DOMAIN outs' = 1 .. m
        /\ \A i \in 1 .. m : outs'[i] = outs[i] /\ outs[i] \in 1 .. n
    BY <1>1, OutsGrow
  <2> QED BY <2>1 DEF JoinTypes
<1>3. Len(outs') = (IF Heard(s) THEN m + 1 ELSE m) /\ (m = 0 <=> outs = <<>>)
  <2>1. CASE Heard(s)
    BY <1>1, <1>2, <2>1, Grown
  <2>2. CASE ~Heard(s)
    BY <1>1, <1>2, <2>2
  <2> QED BY <1>1, <1>2, <2>1, <2>2
<1>4. \A k \in DOMAIN added : added[k].at \in 0 .. n
  <2> TAKE k \in DOMAIN added
  <2>1. added[k] \in AddedHere
    BY DEF JoinTypes
  <2> QED BY <2>1 DEF AddedHere, Numbers
<1>5. /\ \A i \in 2 .. m : /\ i \in 2 .. Len(outs') /\ outs'[i] = outs[i] /\ outs'[i - 1] = outs[i - 1]
                           /\ outs[i] \in 1 .. n /\ sent'[outs[i]] = sent[outs[i]]
                           /\ sent'[outs[i - 1]] = sent[outs[i - 1]]
      /\ \A i \in 2 .. Len(outs') : i \in 2 .. m \/ (Heard(s) /\ i = m + 1 /\ m > 0)
  <2>1. ASSUME NEW i \in 2 .. m
        PROVE  /\ i \in 2 .. Len(outs') /\ outs'[i] = outs[i] /\ outs'[i - 1] = outs[i - 1]
               /\ outs[i] \in 1 .. n /\ sent'[outs[i]] = sent[outs[i]]
               /\ sent'[outs[i - 1]] = sent[outs[i - 1]]
    <3>1. i \in 1 .. m /\ i - 1 \in 1 .. m /\ i \in 2 .. Len(outs')
      BY <1>3
    <3>2. outs[i] \in 1 .. n /\ outs[i - 1] \in 1 .. n /\ outs'[i] = outs[i] /\ outs'[i - 1] = outs[i - 1]
      BY <1>2, <3>1
    <3> QED BY <3>1, <3>2
  <2>2. \A i \in 2 .. Len(outs') : i \in 2 .. m \/ (Heard(s) /\ i = m + 1 /\ m > 0)
    BY <1>3
  <2> QED BY <2>1, <2>2
<1>6. ASSUME NEW x \in 1 .. n PROVE Addable!SwitchedAway(x)' <=> Addable!SwitchedAway(x)
  <2> DEFINE Away(i) == /\ outs[i] < x
                        /\ sent[outs[i - 1]].src = sent[x].src /\ sent[outs[i]].src # sent[x].src
                        /\ \A k \in DOMAIN added :
                              added[k].src = sent[x].src => added[k].at < outs[i] \/ added[k].at >= x
  <2> DEFINE AwayNext(i) == /\ outs'[i] < x
                        /\ sent'[outs'[i - 1]].src = sent'[x].src /\ sent'[outs'[i]].src # sent'[x].src
                        /\ \A k \in DOMAIN added :
                              added[k].src = sent'[x].src => added[k].at < outs'[i] \/ added[k].at >= x
  <2>1. ASSUME NEW i \in 2 .. m PROVE AwayNext(i) <=> Away(i)
    <3>1. sent'[x] = sent[x]
      OBVIOUS
    <3>2. /\ outs'[i] = outs[i] /\ outs'[i - 1] = outs[i - 1]
          /\ sent'[outs[i]] = sent[outs[i]] /\ sent'[outs[i - 1]] = sent[outs[i - 1]]
      BY <1>5
    <3> QED BY <3>1, <3>2, Zenon
  <2>2. ASSUME NEW i \in 2 .. Len(outs'), AwayNext(i) PROVE i \in 2 .. m
    <3>1. ~(n + 1 < x)
      OBVIOUS
    <3>2. i = m + 1 /\ Heard(s) => outs'[i] = n + 1
      BY <1>2
    <3> QED BY <1>5, <2>2, <3>1, <3>2
  <2>3. \A i \in 2 .. m : i \in 2 .. Len(outs')
    BY <1>5
  <2>4. Addable!SwitchedAway(x) <=> \E i \in 2 .. m : Away(i)
    BY <1>1 DEF Addable!SwitchedAway
  <2>5. Addable!SwitchedAway(x)' <=> \E i \in 2 .. Len(outs') : AwayNext(i)
    BY DEF Addable!SwitchedAway
  <2> HIDE DEF Away, AwayNext
  <2> QED BY <2>1, <2>2, <2>3, <2>4, <2>5
<1>7. Addable!SwitchedAway(n + 1)' <=> Dropped(s)
  <2> DEFINE Away(i) == /\ outs'[i] < n + 1
                        /\ sent'[outs'[i - 1]].src = s /\ sent'[outs'[i]].src # s
                        /\ \A k \in DOMAIN added :
                              added[k].src = s => added[k].at < outs'[i] \/ added[k].at >= n + 1
  <2> DEFINE Drops(i) == /\ sent[outs[i - 1]].src = s /\ sent[outs[i]].src # s
                         /\ \A k \in DOMAIN added : added[k].src = s => added[k].at < outs[i]
  <2>1. ASSUME NEW i \in 2 .. m PROVE Away(i) <=> Drops(i)
    <3>1. outs[i] < n + 1 /\ \A k \in DOMAIN added : ~(added[k].at >= n + 1)
      BY <1>4, <1>5
    <3> QED BY <1>5, <3>1
  <2>2. ASSUME NEW i \in 2 .. Len(outs'), Away(i) PROVE i \in 2 .. m
    <3>1. i = m + 1 /\ Heard(s) => outs'[i] = n + 1
      BY <1>2
    <3> QED BY <1>5, <2>2, <3>1
  <2>3. \A i \in 2 .. m : i \in 2 .. Len(outs')
    BY <1>5
  <2>4. Dropped(s) <=> \E i \in 2 .. m : Drops(i)
    BY <1>1 DEF Dropped
  <2>5. Addable!SwitchedAway(n + 1)' <=> \E i \in 2 .. Len(outs') : Away(i)
    BY DEF Addable!SwitchedAway
  <2> HIDE DEF Away, Drops
  <2> QED BY <2>1, <2>2, <2>3, <2>4, <2>5
<1>8. ASSUME NEW t
      PROVE  Dropped(t)' <=>
                 Dropped(t) \/ (Heard(s) /\ outs # <<>> /\ sent[outs[Len(outs)]].src = t /\ t # s)
  <2> DEFINE Drops(i) == /\ sent[outs[i - 1]].src = t /\ sent[outs[i]].src # t
                         /\ \A k \in DOMAIN added : added[k].src = t => added[k].at < outs[i]
  <2> DEFINE DropsNext(i) == /\ sent'[outs'[i - 1]].src = t /\ sent'[outs'[i]].src # t
                         /\ \A k \in DOMAIN added : added[k].src = t => added[k].at < outs'[i]
  <2>1. ASSUME NEW i \in 2 .. m PROVE DropsNext(i) <=> Drops(i)
    BY <1>5
  <2>2. ASSUME Heard(s), m > 0
        PROVE  m + 1 \in 2 .. Len(outs') /\ (DropsNext(m + 1) <=> sent[outs[m]].src = t /\ t # s)
    <3>1. m + 1 \in 2 .. Len(outs') /\ (m + 1) - 1 = m /\ m \in 1 .. m
      BY <1>3, <2>2
    <3>2. outs'[m] = outs[m] /\ outs[m] \in 1 .. n /\ outs'[m + 1] = n + 1
      BY <1>2, <2>2, <3>1
    <3>3. sent'[outs'[m]] = sent[outs[m]] /\ sent'[outs'[m + 1]].src = s
      BY <3>2
    <3>4. \A k \in DOMAIN added : added[k].at < outs'[m + 1]
      <4> TAKE k \in DOMAIN added
      <4>1. added[k].at \in 0 .. n
        BY <1>4
      <4>2. added[k].at < n + 1
        BY <4>1
      <4> QED BY <3>2, <4>2
    <3> QED BY <3>1, <3>3, <3>4
  <2>3. \A i \in 2 .. m : i \in 2 .. Len(outs')
    BY <1>5
  <2>4. Dropped(t) <=> \E i \in 2 .. m : Drops(i)
    BY <1>1 DEF Dropped
  <2>5. Dropped(t)' <=> \E i \in 2 .. Len(outs') : DropsNext(i)
    BY DEF Dropped
  <2>6. \A i \in 2 .. Len(outs') : i \in 2 .. m \/ (Heard(s) /\ i = m + 1 /\ m > 0)
    BY <1>5
  <2>7. outs # <<>> <=> m > 0
    BY <1>3
  <2> HIDE DEF Drops, DropsNext
  <2> QED BY <1>1, <2>1, <2>2, <2>3, <2>4, <2>5, <2>6, <2>7
<1> QED BY <1>6, <1>7, <1>8

-----------------------------------------------------------------------------
(* A Switch hears a value of a source: it drops the one that was active. *)
LEMMA SwitchHears ==
    ASSUME JoinHolds, kind' = kind, NEW s \in Source, Addable!SourceEmits(s),
           kind = "switch"
    PROVE  JoinHolds'
<1>1. /\ s \notin over
      /\ sent' = Append(sent, [src |-> s, first |-> Addable!LivesFirst(s)])
      /\ q' = Addable!Queued(s)
      /\ torn' = (torn \/ draining = s)
      /\ outs' = IF Heard(s) THEN Append(outs, Len(sent) + 1) ELSE outs
      /\ Heard(s) <=> wire[s] = "out"
      /\ UNCHANGED <<parent, over, draining, ended, added>>
      /\ JoinTypes /\ Wiring /\ Numbers /\ AddedOnce /\ InTurn
      /\ MergeOuts /\ SwitchOuts /\ ChainQueues /\ ChainOuts
  BY DEF JoinHolds, Addable!SourceEmits, Heard, Addable!Passes
<1>2. IF Heard(s) THEN Addable!SwitchTo(s) ELSE UNCHANGED <<active, followed, wire>>
  BY <1>1 DEF Addable!SourceEmits
<1>3. Addable!LivesFirst(s) \in BOOLEAN
  BY DEF Addable!LivesFirst
<1>4. PICK n \in Nat :
              /\ n = Len(sent) /\ Len(sent') = n + 1
              /\ sent' \in Seq(SentHere) /\ DOMAIN sent = 1 .. n /\ DOMAIN sent' = 1 .. n + 1
              /\ \A i \in 1 .. n : sent'[i] = sent[i]
              /\ sent'[n + 1].src = s /\ sent'[n + 1].first = Addable!LivesFirst(s)
  BY <1>1, <1>3, OneSent
<1>5. /\ \A i \in 1 .. n : i \in Addable!Known' <=> i \in Addable!Known
      /\ n + 1 \in Addable!Known' <=> IsAdded(s)
  BY <1>1, <1>4, KnownGrows
<1>6. /\ outs' \in Seq(Nat) /\ DOMAIN outs = 1 .. Len(outs) /\ Len(outs) \in Nat
      /\ Heard(s) => DOMAIN outs' = 1 .. Len(outs) + 1 /\ outs'[Len(outs) + 1] = n + 1
      /\ \A i \in 1 .. Len(outs) : outs'[i] = outs[i] /\ outs[i] \in 1 .. n
      /\ \A i \in 1 .. n : IsOut(i)' <=> IsOut(i)
      /\ IsOut(n + 1)' <=> Heard(s)
      /\ Numbers'
  BY <1>1, <1>4, OutsGrow
<1>7. /\ \A x \in 1 .. n : Addable!SwitchedAway(x)' <=> Addable!SwitchedAway(x)
      /\ Addable!SwitchedAway(n + 1)' <=> Dropped(s)
      /\ \A t : Dropped(t)' <=>
            Dropped(t) \/ (Heard(s) /\ outs # <<>> /\ sent[outs[Len(outs)]].src = t /\ t # s)
  BY <1>1, <1>4, SwitchedNext
<1>8. /\ wire \in [Source -> {"none", "queue", "out"}] /\ q \in [Source -> Seq(Nat)]
      /\ followed \in Seq(Source) /\ IsInjective(followed) /\ active \in Source \cup {None}
      /\ wire[s] # "queue" /\ draining = None /\ torn = FALSE
  BY <1>1 DEF JoinTypes, Wiring
<1>9. q' = q
  BY <1>1, <1>8 DEF Addable!Queued
<1>10. Heard(s) =>
          /\ Follows(s) /\ IsAdded(s) /\ ~ended
          /\ active = (IF outs = <<>> THEN None ELSE sent[outs[Len(outs)]].src)
  <2> SUFFICES ASSUME Heard(s)
               PROVE  /\ Follows(s) /\ IsAdded(s) /\ ~ended
                      /\ active = (IF outs = <<>> THEN None ELSE sent[outs[Len(outs)]].src)
    OBVIOUS
  <2>1. Follows(s) /\ IsAdded(s)
    BY <1>1 DEF Wiring
  <2>2. followed # <<>>
    BY <1>8, <2>1 DEF Follows
  <2>3. ~ended
    BY <1>1, <2>2 DEF Wiring
  <2> QED BY <1>1, <2>1, <2>3 DEF SwitchOuts
<1>11. active' = IF Heard(s) THEN s ELSE active
  BY <1>2 DEF Addable!SwitchTo
<1>12. /\ wire' \in [Source -> {"none", "queue", "out"}]
       /\ \A t \in Source : wire'[t] = IF Heard(s) /\ t = active /\ t # s THEN "none" ELSE wire[t]
  BY <1>2, <1>8 DEF Addable!SwitchTo
<1>13. /\ followed' \in Seq(Source) /\ IsInjective(followed')
       /\ \A t \in Source : Follows(t)' <=> Follows(t) /\ ~(Heard(s) /\ t = active /\ t # s)
  <2>1. CASE Heard(s) /\ active # s
    <3>1. followed' = Keep(followed, Source \ {active})
      <4>1. followed' = Addable!Keep(followed, Source \ {active})
        BY <1>2, <2>1 DEF Addable!SwitchTo, Addable!Without
      <4> QED BY <4>1 DEF Addable!Keep, Keep
    <3>2. /\ followed' \in Seq(Source) /\ IsInjective(followed') /\ LeftOf(followed', followed, active)
      BY <1>8, <3>1, OneLess
    <3> QED BY <2>1, <3>2 DEF LeftOf, Follows
  <2>2. CASE ~(Heard(s) /\ active # s)
    <3>1. followed' = followed
      BY <1>2, <2>2 DEF Addable!SwitchTo
    <3> QED BY <1>8, <2>2, <3>1 DEF Follows
  <2> QED BY <2>1, <2>2
<1>14. \A t : IsAdded(t)' <=> IsAdded(t)
  BY <1>1 DEF IsAdded
<1>15. JoinTypes'
  <2>1. torn' = FALSE
    <3>1. draining # s
      BY <1>8, NoneAssumption
    <3> QED BY <1>1, <1>8, <3>1
  <2>2. active' \in Source \cup {None}
    BY <1>8, <1>11
  <2>3. /\ kind' \in Kinds /\ kind' \in {"merge", "concat", "chain", "switch"}
        /\ parent' \in BOOLEAN /\ ended' \in BOOLEAN /\ draining' \in Source \cup {None}
        /\ q' \in [Source -> Seq(Nat)] /\ added' \in Seq(AddedHere)
    BY <1>1, <1>9 DEF JoinTypes
  <2> QED BY <1>4, <1>6, <1>12, <1>13, <2>1, <2>2, <2>3 DEF JoinTypes
<1>16. Wiring'
  <2>1. \A t \in Source : /\ wire'[t] # "none" <=> Follows(t)'
                          /\ wire'[t] = "out" => t \notin over'
                          /\ Follows(t)' => IsAdded(t)'
    BY <1>1, <1>12, <1>13, <1>14 DEF Wiring
  <2>2. draining' = None /\ \A t \in Source : wire'[t] # "queue"
    BY <1>1, <1>8, <1>12 DEF Wiring
  <2>3. ended' <=> ~parent' /\ followed' = <<>>
    <3>1. CASE Heard(s)
      <4>1. Follows(s)'
        BY <1>10, <1>13, <3>1
      <4>2. followed' # <<>>
        BY <1>13, <4>1 DEF Follows
      <4> QED BY <1>1, <1>10, <3>1, <4>2
    <3>2. CASE ~Heard(s)
      BY <1>1, <1>2, <3>2 DEF Wiring
    <3> QED BY <3>1, <3>2
  <2> QED BY <2>1, <2>2, <2>3 DEF Wiring
<1>17. AddedOnce' /\ InTurn' /\ MergeOuts' /\ ChainQueues' /\ ChainOuts'
  BY DEF AddedOnce, InTurn, MergeOuts, ChainQueues, ChainOuts
<1>18. SwitchOuts'
  <2>1. ASSUME NEW x \in 1 .. n + 1
        PROVE  IsOut(x)' <=> x \in Addable!Known' /\ ~Addable!SwitchedAway(x)'
    <3>1. CASE x \in 1 .. n
      <4>1. IsOut(x) <=> x \in Addable!Known /\ ~Addable!SwitchedAway(x)
        BY <1>1, <1>4, <3>1 DEF SwitchOuts
      <4> QED BY <1>5, <1>6, <1>7, <3>1, <4>1
    <3>2. CASE x = n + 1
      <4>1. IsAdded(s) => (Heard(s) <=> ~Dropped(s))
        BY <1>1 DEF SwitchOuts
      <4> QED BY <1>5, <1>6, <1>7, <1>10, <3>2, <4>1
    <3> QED BY <3>1, <3>2
  <2>2. ASSUME NEW t \in Source, t \notin over, IsAdded(t)
        PROVE  wire'[t] = "out" <=> ~Dropped(t)'
    <3>1. wire[t] = "out" <=> ~Dropped(t)
      BY <1>1, <2>2 DEF SwitchOuts
    <3>2. Heard(s) => (t = active <=> outs # <<>> /\ sent[outs[Len(outs)]].src = t)
      BY <1>10, NoneAssumption
    <3> QED BY <1>7, <1>12, <3>1, <3>2
  <2>3. ~ended' => active' = (IF outs' = <<>> THEN None ELSE sent'[outs'[Len(outs')]].src)
    <3>1. CASE Heard(s)
      <4>1. PICK m \in Nat : m = Len(outs)
        BY <1>6
      <4>2. outs' # <<>> /\ Len(outs') = m + 1 /\ outs'[m + 1] = n + 1
        <5>1. outs' = Append(outs, n + 1) /\ outs \in Seq(Nat)
          BY <1>1, <1>4, <3>1 DEF JoinTypes
        <5>2. /\ Len(outs') = Len(outs) + 1 /\ outs'[Len(outs) + 1] = n + 1
              /\ outs' \in Seq(Nat)
          BY <5>1, Grown
        <5> QED BY <4>1, <5>2
      <4>3. sent'[outs'[Len(outs')]].src = s
        BY <1>4, <4>2
      <4>4. active' = s
        BY <1>11, <3>1
      <4>5. (IF outs' = <<>> THEN None ELSE sent'[outs'[Len(outs')]].src) = s
        BY <4>2, <4>3
      <4> QED BY <4>4, <4>5, SMTT(30)
    <3>2. CASE ~Heard(s)
      <4>1. outs' = outs /\ active' = active
        BY <1>1, <1>2, <3>2
      <4>2. CASE outs = <<>>
        BY <1>1, <4>1, <4>2 DEF SwitchOuts
      <4>3. CASE outs # <<>>
        <5>1. Len(outs) \in 1 .. Len(outs)
          <6>1. outs \in Seq(Nat)
            BY <1>1 DEF JoinTypes
          <6> QED BY <4>3, <6>1
        <5>2. sent'[outs[Len(outs)]] = sent[outs[Len(outs)]]
          BY <1>4, <1>6, <5>1
        <5> QED BY <1>1, <4>1, <4>3, <5>2 DEF SwitchOuts
      <4> QED BY <4>2, <4>3
    <3> QED BY <3>1, <3>2
  <2>4. DOMAIN sent' = 1 .. n + 1 /\ over' = over /\ kind' = kind
    BY <1>1, <1>4
  <2> QED BY <1>14, <2>1, <2>2, <2>3, <2>4 DEF SwitchOuts
<1> QED BY <1>6, <1>15, <1>16, <1>17, <1>18 DEF JoinHolds

-----------------------------------------------------------------------------
(* A source ends that the join hears, or does not hear yet or any more. *)
LEMMA JoinDrops ==
    ASSUME JoinHolds, kind' = kind, NEW s \in Source, Addable!SourceEnds(s)
    PROVE  JoinHolds'
<1>1. /\ JoinTypes /\ Wiring /\ Numbers /\ AddedOnce /\ InTurn
      /\ MergeOuts /\ SwitchOuts /\ ChainQueues /\ ChainOuts
      /\ over' = over \cup {s} /\ UNCHANGED <<parent, q, torn, added, sent, outs>>
  BY DEF JoinHolds, Addable!SourceEnds
<1>2. CASE wire[s] = "out"
  <2>1. /\ followed' = Addable!Without(followed, s) /\ wire' = [wire EXCEPT ![s] = "none"]
        /\ ended' = Addable!Exhausted(followed')
        /\ active' = Addable!ActiveAfter(followed') /\ draining' = Addable!NextToDrain(followed')
    BY <1>2 DEF Addable!SourceEnds, Addable!EndsIf
  <2>2. followed' = Keep(followed, Source \ {s})
    BY <2>1 DEF Addable!Without, Addable!Keep, Keep
  <2>3. ended' = (followed' = <<>> /\ ~parent)
    BY <2>1 DEF Addable!Exhausted
  <2>4. draining' = IF kind = "chain" /\ followed' # <<>> THEN followed'[1] ELSE None
    BY <2>1 DEF Addable!NextToDrain
  <2>5. active' = active \/ (ended' /\ active' = None)
    BY <1>1, <2>1, <2>3 DEF Addable!ActiveAfter, Addable!Exhausted
  <2>6. Follows(s)
    BY <1>1, <1>2 DEF Wiring
  <2>7. kind = "chain" => s = followed[1] /\ q[s] = <<>>
    <3> SUFFICES ASSUME kind = "chain" PROVE s = followed[1] /\ q[s] = <<>>
      OBVIOUS
    <3>1. PICK p \in DOMAIN followed : followed[p] = s
      BY <2>6 DEF Follows
    <3>2. ~(p > 1) /\ p \in Nat \ {0}
      <4>1. followed \in Seq(Source)
        BY <1>1 DEF JoinTypes
      <4> QED BY <1>1, <1>2, <3>1, <4>1 DEF ChainQueues
    <3>3. p = 1
      BY <3>2
    <3> QED BY <1>1, <1>2, <3>1, <3>3 DEF ChainOuts
  <2>8. Leaves(s)
    BY <1>1, <1>2, <2>1, <2>2, <2>3, <2>4, <2>5, <2>6, <2>7 DEF Leaves
  <2> QED BY <2>8, JoinLeaves
<1>3. CASE wire[s] # "out"
  <2>1. UNCHANGED <<followed, wire, active, draining, ended>>
    BY <1>3 DEF Addable!SourceEnds
  <2>2. JoinTypes'
    BY <1>1, <2>1 DEF JoinTypes
  <2>3. /\ \A t : IsAdded(t)' <=> IsAdded(t)
        /\ \A t : Follows(t)' <=> Follows(t)
        /\ \A n : IsOut(n)' <=> IsOut(n)
        /\ \A t : Dropped(t)' <=> Dropped(t)
        /\ \A n : Addable!SwitchedAway(n)' <=> Addable!SwitchedAway(n)
        /\ Addable!Known' = Addable!Known
        /\ Numbers' /\ AddedOnce' /\ MergeOuts'
    <3>1. \A t : Follows(t)' <=> Follows(t)
      BY <2>1 DEF Follows
    <3> QED BY <1>1, <3>1, HistoryStays
  <2>4. Wiring'
    BY <1>1, <1>3, <2>1, <2>3 DEF Wiring
  <2>5. InTurn'
    BY <1>1, <2>1 DEF InTurn
  <2>6. SwitchOuts'
    BY <1>1, <2>1, <2>3 DEF SwitchOuts
  <2>7. ChainQueues'
    BY <1>1, <2>1 DEF ChainQueues, Gone
  <2>8. ChainOuts'
    BY <1>1, <2>1, <2>3 DEF ChainOuts, Gone, InQueue
  <2> QED BY <2>2, <2>3, <2>4, <2>5, <2>6, <2>7, <2>8 DEF JoinHolds
<1> QED BY <1>2, <1>3

(* The loop of a chain finds the queue empty. *)
LEMMA JoinDrained ==
    ASSUME JoinHolds, kind' = kind, Addable!Drained
    PROVE  JoinHolds'
<1>1. /\ JoinTypes /\ Wiring /\ Numbers /\ AddedOnce /\ InTurn
      /\ MergeOuts /\ SwitchOuts /\ ChainQueues /\ ChainOuts
      /\ draining # None /\ q[draining] = <<>>
      /\ wire' = [wire EXCEPT ![draining] = Addable!AfterDrain(draining)]
      /\ UNCHANGED <<parent, over, q, active, torn, added, sent, outs>>
  BY DEF JoinHolds, Addable!Drained
<1>2. /\ kind = "chain" /\ draining = followed[1] /\ wire[draining] = "queue" /\ followed # <<>>
      /\ followed \in Seq(Source) /\ IsInjective(followed)
      /\ DOMAIN followed = 1 .. Len(followed) /\ Len(followed) \in Nat \ {0} /\ 1 \in DOMAIN followed
  <2>1. kind = "chain"
    BY <1>1 DEF Wiring
  <2>2. draining = followed[1] /\ wire[draining] = "queue" /\ followed # <<>>
    BY <1>1, <2>1 DEF ChainQueues
  <2>3. followed \in Seq(Source) /\ IsInjective(followed)
    BY <1>1 DEF JoinTypes
  <2> QED BY <2>1, <2>2, <2>3
<1>3. PICK s \in Source : s = draining
  BY <1>2
<1>4. Follows(s)
  BY <1>2, <1>3 DEF Follows
<1>5. CASE s \in over
  <2>1. /\ wire' = [wire EXCEPT ![s] = "none"]
        /\ followed' = Tail(followed)
        /\ draining' = IF Len(followed) > 1 THEN followed[2] ELSE None
        /\ ended' = (Tail(followed) = <<>> /\ ~parent)
    BY <1>1, <1>3, <1>5 DEF Addable!Drained, Addable!AfterDrain, Addable!EndsIf, Addable!Exhausted
  <2>2. followed' = Keep(followed, Source \ {s})
    BY <1>2, <1>3, <2>1, KeepOthers
  <2>3. draining' = IF followed' # <<>> THEN followed'[1] ELSE None
    <3>1. /\ Len(Tail(followed)) = Len(followed) - 1 /\ Tail(followed) \in Seq(Source)
          /\ \A i \in 1 .. Len(followed) - 1 : Tail(followed)[i] = followed[i + 1]
      BY <1>2, Taken
    <3>2. Tail(followed) # <<>> <=> Len(followed) > 1
      BY <1>2, <3>1
    <3>3. Len(followed) > 1 => Tail(followed)[1] = followed[2]
      BY <1>2, <3>1
    <3> QED BY <2>1, <3>2, <3>3
  <2>4. over' = over \cup {s}
    BY <1>1, <1>5
  <2>5. Leaves(s)
    BY <1>1, <1>2, <1>3, <1>4, <2>1, <2>2, <2>3, <2>4 DEF Leaves
  <2> QED BY <2>5, JoinLeaves
<1>6. CASE s \notin over
  <2>1. /\ wire' = [wire EXCEPT ![s] = "out"] /\ draining' = None
        /\ followed' = followed /\ ended' = ended
    BY <1>1, <1>3, <1>6 DEF Addable!Drained, Addable!AfterDrain
  <2>2. /\ wire' \in [Source -> {"none", "queue", "out"}]
        /\ wire'[s] = "out" /\ \A t \in Source : t # s => wire'[t] = wire[t]
    BY <1>1, <2>1 DEF JoinTypes
  <2>3. JoinTypes'
    BY <1>1, <2>1, <2>2 DEF JoinTypes
  <2>4. /\ \A t : IsAdded(t)' <=> IsAdded(t)
        /\ \A t : Follows(t)' <=> Follows(t)
        /\ \A n : IsOut(n)' <=> IsOut(n)
        /\ Addable!Known' = Addable!Known
        /\ Numbers' /\ AddedOnce' /\ MergeOuts'
    <3>1. \A t : Follows(t)' <=> Follows(t)
      BY <2>1 DEF Follows
    <3> QED BY <1>1, <3>1, HistoryStays
  <2>5. Wiring'
    <3>1. \A t \in Source : wire'[t] # "none" <=> Follows(t)'
      BY <1>1, <1>2, <1>3, <2>2, <2>4 DEF Wiring
    <3>2. \A t \in Source : wire'[t] = "out" => t \notin over'
      BY <1>1, <1>6, <2>2 DEF Wiring
    <3>3. \A t \in Source : Follows(t)' => IsAdded(t)'
      BY <1>1, <2>4 DEF Wiring
    <3>4. \A t \in Source : IsAdded(t)' /\ ~Follows(t)' => t \in over'
      BY <1>1, <1>2, <2>4 DEF Wiring
    <3>5. ended' <=> ~parent' /\ followed' = <<>>
      BY <1>1, <2>1 DEF Wiring
    <3> QED BY <1>2, <3>1, <3>2, <3>3, <3>4, <3>5 DEF Wiring
  <2>6. InTurn' /\ SwitchOuts'
    BY <1>2 DEF InTurn, SwitchOuts
  <2>7. ChainQueues'
    <3>1. Gone \in Nat /\ Gone' = Gone /\ \A i \in DOMAIN followed' : followed'[i] = added'[Gone + i].src
      BY <1>1, <1>2, <2>1 DEF ChainQueues, Gone
    <3>2. ASSUME NEW i \in DOMAIN followed, i > 1 PROVE wire'[followed[i]] = "queue"
      <4>1. wire[followed[i]] = "queue" /\ followed[i] \in Source
        BY <1>1, <1>2, <3>2 DEF ChainQueues
      <4>2. followed[i] # s
        BY <1>2, <1>3, <3>2 DEF IsInjective
      <4> QED BY <2>2, <4>1, <4>2
    <3> QED BY <1>2, <1>3, <2>1, <2>2, <3>1, <3>2 DEF ChainQueues
  <2>8. ChainOuts'
    <3>1. \A t \in Source : wire'[t] # "queue" => q'[t] = <<>>
      BY <1>1, <1>2, <1>3, <2>2 DEF ChainOuts
    <3>2. Gone' = Gone /\ q' = q /\ added' = added /\ sent' = sent /\ outs' = outs
      BY <1>1, <2>1 DEF Gone
    <3> QED BY <1>1, <1>2, <2>4, <3>1, <3>2 DEF ChainOuts, InQueue
  <2> QED BY <2>3, <2>4, <2>5, <2>6, <2>7, <2>8 DEF JoinHolds
<1> QED BY <1>5, <1>6

-----------------------------------------------------------------------------
(* The loop of a chain gives out the first value of the queue. *)
LEMMA JoinDrains ==
    ASSUME JoinHolds, kind' = kind, Addable!Drain
    PROVE  JoinHolds'
<1>1. /\ JoinTypes /\ Wiring /\ Numbers /\ AddedOnce /\ InTurn
      /\ MergeOuts /\ SwitchOuts /\ ChainQueues /\ ChainOuts
      /\ draining # None /\ q[draining] # <<>>
      /\ outs' = Append(outs, Head(q[draining])) /\ q' = [q EXCEPT ![draining] = Tail(q[draining])]
      /\ UNCHANGED <<parent, over, followed, wire, active, draining, torn, ended, added, sent>>
  BY DEF JoinHolds, Addable!Drain
<1>2. /\ kind = "chain" /\ draining = followed[1] /\ wire[draining] = "queue" /\ followed # <<>>
      /\ followed \in Seq(Source) /\ q \in [Source -> Seq(Nat)] /\ outs \in Seq(Nat)
      /\ 1 \in DOMAIN followed
  <2>1. kind = "chain"
    BY <1>1 DEF Wiring
  <2>2. draining = followed[1] /\ wire[draining] = "queue" /\ followed # <<>>
    BY <1>1, <2>1 DEF ChainQueues
  <2>3. followed \in Seq(Source) /\ q \in [Source -> Seq(Nat)] /\ outs \in Seq(Nat)
    BY <1>1 DEF JoinTypes
  <2> QED BY <2>1, <2>2, <2>3
<1>3. PICK s \in Source : s = draining
  BY <1>2
<1>4. PICK h \in Nat : h = Len(q[s])
  BY <1>2
<1>5. PICK x \in Nat : x = Head(q[s])
  BY <1>1, <1>2, <1>3, Taken
<1>6. /\ h > 0 /\ DOMAIN q[s] = 1 .. h /\ DOMAIN q'[s] = 1 .. h - 1
      /\ q[s][1] = x /\ \A i \in 1 .. h - 1 : q'[s][i] = q[s][i + 1]
      /\ q' \in [Source -> Seq(Nat)] /\ \A t \in Source : t # s => q'[t] = q[t]
  <2>1. /\ q[s] \in Seq(Nat) /\ q[s] # <<>> /\ q'[s] = Tail(q[s])
    BY <1>1, <1>2, <1>3
  <2>2. /\ Tail(q[s]) \in Seq(Nat) /\ Len(q[s]) \in Nat \ {0} /\ DOMAIN q[s] = 1 .. Len(q[s])
        /\ Head(q[s]) = q[s][1] /\ DOMAIN Tail(q[s]) = 1 .. Len(q[s]) - 1
        /\ \A i \in 1 .. Len(q[s]) - 1 : Tail(q[s])[i] = q[s][i + 1]
    BY <2>1, Taken
  <2>3. q' \in [Source -> Seq(Nat)] /\ \A t \in Source : t # s => q'[t] = q[t]
    BY <1>1, <1>2, <1>3, <2>2
  <2> QED BY <1>4, <1>5, <2>1, <2>2, <2>3
<1>7. PICK m \in Nat : m = Len(outs)
  BY <1>2
<1>8. /\ outs' \in Seq(Nat) /\ DOMAIN outs = 1 .. m /\ DOMAIN outs' = 1 .. m + 1
      /\ \A i \in 1 .. m : outs'[i] = outs[i]
      /\ outs'[m + 1] = x
  <2>1. outs' = Append(outs, x)
    BY <1>1, <1>3, <1>5
  <2> QED BY <1>2, <1>7, <2>1, Grown
<1>9. /\ \A t \in Source : wire[t] # "queue" => q[t] = <<>>
      /\ \A t \in Source : \A i \in DOMAIN q[t] :
            q[t][i] \in Addable!Known /\ sent[q[t][i]].src = t
      /\ \A t \in Source : \A i, j \in DOMAIN q[t] : i < j => q[t][i] < q[t][j]
      /\ \A n \in Addable!Known : IsOut(n) \/ InQueue(sent[n].src, n)
      /\ \A i \in DOMAIN outs :
            /\ outs[i] \in Addable!Known
            /\ \A k \in DOMAIN added : added[k].src = sent[outs[i]].src => k <= Gone + 1
            /\ \A j \in DOMAIN q[sent[outs[i]].src] : outs[i] < q[sent[outs[i]].src][j]
      /\ \A i, j \in DOMAIN outs : i < j =>
            \A k, l \in DOMAIN added :
                added[k].src = sent[outs[i]].src /\ added[l].src = sent[outs[j]].src =>
                    k < l \/ (k = l /\ outs[i] < outs[j])
  BY <1>1, <1>2 DEF ChainOuts
<1>10. x \in Addable!Known /\ sent[x].src = s
  BY <1>6, <1>9
<1>11. Addable!Known' = Addable!Known /\ Addable!Known \subseteq 1 .. Len(sent) /\ Gone' = Gone
       /\ \A n \in Addable!Known : sent[n].src \in Source
  <2>1. Addable!Known' = Addable!Known /\ Gone' = Gone
    BY <1>1 DEF Addable!Known, Gone
  <2>2. sent \in Seq(SentHere) /\ Addable!Known \subseteq DOMAIN sent
    BY <1>1 DEF JoinTypes, Addable!Known
  <2>3. \A n \in DOMAIN sent : sent[n] \in SentHere
    BY <2>2
  <2>4. \A n \in Addable!Known : sent[n].src \in Source
    BY <2>2, <2>3 DEF SentHere
  <2> QED BY <2>1, <2>2, <2>4
<1>12. Gone \in Nat /\ \A k \in DOMAIN added : added[k].src = s => k = Gone + 1
  <2>1. Gone \in Nat /\ followed[1] = added[Gone + 1].src
    BY <1>1, <1>2 DEF ChainQueues
  <2>2. Gone + 1 \in DOMAIN added
    <3>1. /\ Gone = Len(added) - Len(followed) /\ Len(followed) \in Nat \ {0} /\ Len(added) \in Nat
          /\ DOMAIN added = 1 .. Len(added)
      BY <1>1, <1>2 DEF Gone, JoinTypes
    <3> QED BY <2>1, <3>1
  <2> QED BY <1>1, <1>2, <1>3, <2>1, <2>2 DEF AddedOnce
<1>13. JoinTypes'
  BY <1>1, <1>6, <1>8 DEF JoinTypes
<1>14. Wiring' /\ AddedOnce' /\ InTurn' /\ SwitchOuts' /\ MergeOuts' /\ ChainQueues'
  <2>1. \A t : (Follows(t)' <=> Follows(t)) /\ (IsAdded(t)' <=> IsAdded(t))
    BY <1>1 DEF Follows, IsAdded
  <2>2. Wiring'
    BY <1>1, <2>1 DEF Wiring
  <2>3. AddedOnce' /\ ChainQueues'
    BY <1>1, <1>11 DEF AddedOnce, ChainQueues
  <2>4. InTurn' /\ SwitchOuts' /\ MergeOuts'
    BY <1>2 DEF InTurn, SwitchOuts, MergeOuts
  <2> QED BY <2>2, <2>3, <2>4
<1>15. Numbers'
  <2>1. ASSUME NEW i \in DOMAIN outs' PROVE outs'[i] \in 1 .. Len(sent)
    <3>1. CASE i \in 1 .. m
      BY <1>1, <1>8, <3>1 DEF Numbers
    <3>2. CASE i = m + 1
      BY <1>8, <1>10, <1>11, <3>2
    <3> QED BY <1>8, <3>1, <3>2
  <2> QED BY <1>1, <1>2, <2>1 DEF Numbers
<1>16. ChainOuts'
  <2>1. \A t \in Source : wire[t] # "queue" => q'[t] = <<>>
    BY <1>2, <1>3, <1>6, <1>9
  <2>2. ASSUME NEW t \in Source
        PROVE  /\ \A i \in DOMAIN q'[t] : \E j \in DOMAIN q[t] : q'[t][i] = q[t][j] /\ (t = s => j > 1)
               /\ \A i, j \in DOMAIN q'[t] : i < j => q'[t][i] < q'[t][j]
    <3>1. CASE t = s
      <4>1. \A i \in 1 .. h - 1 : i + 1 \in 1 .. h /\ i + 1 > 1 /\ q'[s][i] = q[s][i + 1]
        BY <1>6
      <4>2. \A i, j \in 1 .. h - 1 : i < j => q[s][i + 1] < q[s][j + 1]
        <5> SUFFICES ASSUME NEW i \in 1 .. h - 1, NEW j \in 1 .. h - 1, i < j
                     PROVE  q[s][i + 1] < q[s][j + 1]
          OBVIOUS
        <5>1. i + 1 \in 1 .. h /\ j + 1 \in 1 .. h /\ i + 1 < j + 1
          OBVIOUS
        <5>2. i + 1 \in DOMAIN q[s] /\ j + 1 \in DOMAIN q[s]
          BY <1>6, <5>1
        <5> QED BY <1>9, <5>1, <5>2
      <4>3. \A i, j \in DOMAIN q'[s] : i < j => q'[s][i] < q'[s][j]
        <5> SUFFICES ASSUME NEW i \in DOMAIN q'[s], NEW j \in DOMAIN q'[s], i < j
                     PROVE  q'[s][i] < q'[s][j]
          OBVIOUS
        <5>1. i \in 1 .. h - 1 /\ j \in 1 .. h - 1
          BY <1>6
        <5>2. q'[s][i] = q[s][i + 1] /\ q'[s][j] = q[s][j + 1]
          BY <4>1, <5>1
        <5> QED BY <4>2, <5>1, <5>2
      <4>4. \A i \in DOMAIN q'[s] : \E j \in DOMAIN q[s] : q'[s][i] = q[s][j] /\ j > 1
        <5> TAKE i \in DOMAIN q'[s]
        <5>1. i \in 1 .. h - 1
          BY <1>6
        <5>2. i + 1 \in DOMAIN q[s] /\ q'[s][i] = q[s][i + 1] /\ i + 1 > 1
          BY <1>6, <4>1, <5>1
        <5> QED BY <5>2
      <4> QED BY <3>1, <4>3, <4>4
    <3>2. CASE t # s
      BY <1>6, <1>9, <3>2
    <3> QED BY <3>1, <3>2
  <2>3. \A t \in Source : /\ \A i \in DOMAIN q'[t] : q'[t][i] \in Addable!Known /\ sent[q'[t][i]].src = t
                          /\ \A i, j \in DOMAIN q'[t] : i < j => q'[t][i] < q'[t][j]
    BY <1>9, <2>2
  <2>4. ASSUME NEW n \in Addable!Known PROVE IsOut(n)' \/ InQueue(sent[n].src, n)'
    <3>1. CASE IsOut(n)
      <4>1. PICK i \in 1 .. m : outs[i] = n
        BY <1>8, <3>1 DEF IsOut
      <4>2. i \in DOMAIN outs' /\ outs'[i] = n
        BY <1>8, <4>1
      <4> QED BY <4>2 DEF IsOut
    <3>2. CASE n = x
      <4>1. m + 1 \in DOMAIN outs' /\ outs'[m + 1] = n
        BY <1>8, <3>2
      <4> QED BY <4>1 DEF IsOut
    <3>3. CASE InQueue(sent[n].src, n) /\ n # x
      <4>1. PICK t \in Source : t = sent[n].src
        BY <1>11
      <4>2. PICK j \in DOMAIN q[t] : q[t][j] = n
        BY <3>3, <4>1 DEF InQueue
      <4>3. \E i \in DOMAIN q'[t] : q'[t][i] = n
        <5>1. CASE t = s
          <6>1. j - 1 \in 1 .. h - 1 /\ (j - 1) + 1 = j
            BY <1>6, <3>3, <4>2, <5>1
          <6>2. q'[s][j - 1] = n
            BY <1>6, <4>2, <5>1, <6>1
          <6> QED BY <1>6, <5>1, <6>1, <6>2
        <5>2. CASE t # s
          BY <1>6, <4>2, <5>2
        <5> QED BY <5>1, <5>2
      <4> QED BY <1>1, <4>1, <4>3 DEF InQueue
    <3> QED BY <1>9, <3>1, <3>2, <3>3
  <2>5. ASSUME NEW i \in 1 .. m
        PROVE  /\ i \in DOMAIN outs /\ outs'[i] = outs[i] /\ outs'[i] \in Addable!Known
               /\ \A k \in DOMAIN added : added[k].src = sent[outs'[i]].src => k <= Gone + 1
               /\ \A j \in DOMAIN q'[sent[outs'[i]].src] : outs'[i] < q'[sent[outs'[i]].src][j]
    <3>1. i \in DOMAIN outs /\ outs'[i] = outs[i] /\ outs[i] \in Addable!Known
      BY <1>8, <1>9
    <3>2. PICK t \in Source : t = sent[outs[i]].src
      BY <1>11, <3>1
    <3>3. \A j \in DOMAIN q'[t] : outs[i] < q'[t][j]
      BY <1>9, <2>2, <3>1, <3>2
    <3> QED BY <1>9, <3>1, <3>2, <3>3
  <2>6. \A j \in DOMAIN q'[s] : x < q'[s][j]
    <3> TAKE j \in DOMAIN q'[s]
    <3>1. PICK i \in DOMAIN q[s] : q'[s][j] = q[s][i] /\ i > 1
      BY <2>2
    <3>2. 1 \in DOMAIN q[s] /\ 1 < i
      BY <1>6, <3>1
    <3> QED BY <1>6, <1>9, <3>1, <3>2
  <2>7. ASSUME NEW i \in DOMAIN outs'
        PROVE  /\ outs'[i] \in Addable!Known
               /\ \A k \in DOMAIN added : added[k].src = sent[outs'[i]].src => k <= Gone + 1
               /\ \A j \in DOMAIN q'[sent[outs'[i]].src] : outs'[i] < q'[sent[outs'[i]].src][j]
    <3>1. CASE i \in 1 .. m
      BY <2>5, <3>1
    <3>2. CASE i = m + 1
      BY <1>8, <1>10, <1>12, <2>6, <3>2
    <3> QED BY <1>8, <3>1, <3>2
  <2>8. ASSUME NEW i \in DOMAIN outs', NEW j \in DOMAIN outs', i < j,
               NEW k \in DOMAIN added, NEW l \in DOMAIN added,
               added[k].src = sent[outs'[i]].src, added[l].src = sent[outs'[j]].src
        PROVE  k < l \/ (k = l /\ outs'[i] < outs'[j])
    <3>1. i \in 1 .. m /\ outs'[i] = outs[i] /\ i \in DOMAIN outs
      BY <1>8, <2>8
    <3>2. CASE j \in 1 .. m
      <4>1. j \in DOMAIN outs /\ outs'[j] = outs[j]
        BY <1>8, <3>2
      <4> QED BY <1>9, <2>8, <3>1, <4>1
    <3>3. CASE j = m + 1
      <4>1. outs'[j] = x /\ l = Gone + 1
        BY <1>8, <1>10, <1>12, <2>8, <3>3
      <4>2. k <= Gone + 1 /\ k \in Nat
        <5>1. added \in Seq(AddedHere)
          BY <1>1 DEF JoinTypes
        <5> QED BY <2>5, <2>8, <3>1, <5>1
      <4>3. k = l => outs[i] < x
        <5>1. ASSUME k = l PROVE sent[outs[i]].src = s
          BY <1>10, <2>8, <3>1, <4>1, <5>1
        <5>2. 1 \in DOMAIN q[s]
          BY <1>6
        <5> QED BY <1>6, <1>9, <3>1, <5>1, <5>2
      <4> QED BY <1>12, <3>1, <4>1, <4>2, <4>3
    <3> QED BY <1>8, <3>2, <3>3
  <2>9. sent' = sent /\ added' = added /\ wire' = wire
    BY <1>1
  <2> QED BY <1>2, <1>11, <2>9, <2>1, <2>3, <2>4, <2>7, <2>8 DEF ChainOuts
<1> QED BY <1>13, <1>14, <1>15, <1>16 DEF JoinHolds

-----------------------------------------------------------------------------
LEMMA JoinStays == JoinInv /\ UNCHANGED vars => JoinInv'
<1> SUFFICES ASSUME JoinInv, UNCHANGED vars PROVE JoinInv'
  OBVIOUS
<1>0. kind' = kind /\ torn' = torn
  BY DEF vars, addableVars
<1> SUFFICES ASSUME kind \in Kinds, ~torn PROVE JoinHolds'
  BY <1>0 DEF JoinInv
<1>1. /\ UNCHANGED <<kind, listeners, parent, over, followed, wire, q, active, draining>>
      /\ UNCHANGED <<emitting, torn, ended, added, sent, outs>>
  BY DEF vars, addableVars
<1>2. JoinHolds
  BY <1>1 DEF JoinInv
<1>3. /\ \A t : IsAdded(t)' <=> IsAdded(t)
      /\ \A t : Follows(t)' <=> Follows(t)
      /\ \A n : IsOut(n)' <=> IsOut(n)
      /\ \A t : Dropped(t)' <=> Dropped(t)
      /\ \A n : Addable!SwitchedAway(n)' <=> Addable!SwitchedAway(n)
      /\ Addable!Known' = Addable!Known /\ Gone' = Gone
      /\ (Numbers' <=> Numbers) /\ (AddedOnce' <=> AddedOnce) /\ (MergeOuts' <=> MergeOuts)
  <2>1. (\A t : Follows(t)' <=> Follows(t)) /\ Gone' = Gone
    BY <1>1 DEF Follows, Gone
  <2> QED BY <1>1, <2>1, HistoryStays
<1>4. JoinTypes' /\ Wiring'
  BY <1>1, <1>2, <1>3 DEF JoinHolds, JoinTypes, Wiring
<1>5. Numbers' /\ AddedOnce' /\ MergeOuts' /\ InTurn'
  BY <1>1, <1>2, <1>3 DEF JoinHolds, InTurn
<1>6. SwitchOuts'
  BY <1>1, <1>2, <1>3 DEF JoinHolds, SwitchOuts
<1>7. ChainQueues' /\ ChainOuts'
  BY <1>1, <1>2, <1>3 DEF JoinHolds, ChainQueues, ChainOuts, InQueue
<1> QED BY <1>4, <1>5, <1>6, <1>7 DEF JoinHolds

LEMMA JoinNext == JoinInv /\ Next => JoinInv'
<1> SUFFICES ASSUME JoinInv, Next PROVE JoinInv'
  OBVIOUS
<1>1. CASE ZippingNext
  <2>1. kind' = kind
    BY <1>1 DEF ZippingNext, Zipping!Next, Zipping!SourceEmits, Zipping!SourceEnds, Zipping!Deliver,
                Zipping!Return, Zipping!EndEmit, Zipping!fixed
  <2> QED BY <1>1, <2>1, JoinKinds DEF ZippingNext, JoinInv
<1>2. CASE AddableNext
  <2>1. /\ kind' = kind /\ Addable!Next
        /\ torn' = torn \/ \E s \in Source : Addable!SourceEmits(s) /\ torn' = (torn \/ draining = s)
    BY <1>2 DEF AddableNext, Addable!Next, Addable!ParentEmits, Addable!AddSource, Addable!SourceEmits,
                Addable!SourceEnds, Addable!ParentDone, Addable!DrainStep, Addable!Drain,
                Addable!DrainFails, Addable!Drained, Addable!fixed
  <2> SUFFICES ASSUME kind \in Kinds
               PROVE  /\ torn' \in BOOLEAN /\ (kind # "chain" => torn' = FALSE)
                      /\ ~torn' => JoinHolds'
    BY <2>1 DEF JoinInv
  <2>2. torn \in BOOLEAN /\ (kind # "chain" => torn = FALSE) /\ (~torn => JoinHolds)
    BY DEF JoinInv
  <2>3. torn' \in BOOLEAN /\ (torn => torn')
    <3>1. CASE torn' = torn
      BY <2>2, <3>1
    <3>2. ASSUME NEW s \in Source, torn' = (torn \/ draining = s) PROVE torn' \in BOOLEAN /\ (torn => torn')
      BY <3>2, Zenon
    <3> QED BY <2>1, <3>1, <3>2
  <2>4. kind # "chain" => torn' = FALSE
    <3> SUFFICES ASSUME kind # "chain" PROVE torn' = FALSE
      OBVIOUS
    <3>1. torn = FALSE /\ draining = None
      BY <2>2 DEF JoinHolds, Wiring
    <3> QED BY <2>1, <3>1, NoneAssumption
  <2> SUFFICES ASSUME ~torn' PROVE JoinHolds'
    BY <2>3, <2>4
  <2>5. JoinHolds /\ ~torn
    BY <2>2, <2>3
  <2>6. ASSUME NEW s \in Source, Addable!ParentEmits(s) PROVE JoinHolds'
    BY <2>1, <2>5, <2>6, JoinAdds DEF Addable!ParentEmits
  <2>7. ASSUME NEW s \in Source, Addable!SourceEmits(s) PROVE JoinHolds'
    <3>1. draining # s
      BY <2>7 DEF Addable!SourceEmits
    <3> QED BY <2>1, <2>5, <2>7, <3>1, JoinHears, SwitchHears
  <2>8. ASSUME NEW s \in Source, Addable!SourceEnds(s) PROVE JoinHolds'
    BY <2>1, <2>5, <2>8, JoinDrops
  <2>9. CASE Addable!ParentDone
    BY <2>1, <2>5, <2>9, JoinEnded
  <2>10. CASE Addable!Drain
    BY <2>1, <2>5, <2>10, JoinDrains
  <2>11. CASE Addable!Drained
    BY <2>1, <2>5, <2>11, JoinDrained
  <2>12. ~Addable!DrainFails
    BY <2>5 DEF Addable!DrainFails
  <2> QED BY <2>1, <2>6, <2>7, <2>8, <2>9, <2>10, <2>11, <2>12 DEF Addable!Next, Addable!DrainStep
<1> QED BY <1>1, <1>2 DEF Next

(* Merge, Concat, Chain and Switch, whatever listeners do: what is behind them holds
   until they make the loop of a chain fail (add_source, on_source_s, on_source_done). *)
THEOREM JoinInvariant == Spec => []JoinInv
<1>1. JoinInv /\ [Next]_vars => JoinInv'
  BY JoinNext, JoinStays
<1> QED BY <1>1, JoinInit, PTL DEF Spec
-----------------------------------------------------------------------------
LEMMA OutsAre ==
    ASSUME JoinTypes, Numbers
    PROVE  /\ \A n : n \in Addable!ToSet(outs) <=> IsOut(n)
           /\ Addable!ToSet(outs) \subseteq DOMAIN sent
           /\ Addable!Known \subseteq DOMAIN sent
<1>1. \A n : n \in Addable!ToSet(outs) <=> IsOut(n)
  BY DEF Addable!ToSet, IsOut
<1>2. DOMAIN sent = 1 .. Len(sent)
  BY DEF JoinTypes
<1>3. Addable!ToSet(outs) \subseteq DOMAIN sent
  BY <1>1, <1>2 DEF Numbers, IsOut
<1> QED BY <1>1, <1>3 DEF Addable!Known

(* A chain: where the source of a value stands, and when it is its turn. *)
LEMMA Turns ==
    ASSUME JoinHolds, kind = "chain", NEW n \in Addable!Known
    PROVE  /\ Addable!Turn(n) \in DOMAIN added /\ added[Addable!Turn(n)].src = sent[n].src
           /\ \A k \in DOMAIN added : added[k].src = sent[n].src => k = Addable!Turn(n)
<1>1. \E k \in DOMAIN added : added[k].src = sent[n].src
  BY DEF Addable!Known
<1>2. Addable!Turn(n) \in DOMAIN added /\ added[Addable!Turn(n)].src = sent[n].src
  BY <1>1 DEF Addable!Turn
<1> QED BY <1>2 DEF JoinHolds, AddedOnce

LEMMA ChainedInTurn ==
    ASSUME JoinHolds, kind = "chain"
    PROVE  Addable!ChainRule
<1>1. /\ JoinTypes /\ Wiring /\ AddedOnce /\ Numbers
      /\ followed \in Seq(Source) /\ added \in Seq(AddedHere) /\ DOMAIN followed = 1 .. Len(followed)
      /\ DOMAIN added = 1 .. Len(added) /\ Len(added) \in Nat /\ Len(followed) \in Nat
      /\ sent \in Seq(SentHere) /\ q \in [Source -> Seq(Nat)]
      /\ wire \in [Source -> {"none", "queue", "out"}]
      /\ Gone \in Nat /\ Gone = Len(added) - Len(followed)
      /\ \A i \in DOMAIN followed : followed[i] = added[Gone + i].src
  BY DEF JoinHolds, JoinTypes, ChainQueues, Gone
<1>2. /\ \A s \in Source : wire[s] # "queue" => q[s] = <<>>
      /\ \A n \in Addable!Known : IsOut(n) \/ InQueue(sent[n].src, n)
      /\ \A i \in DOMAIN outs :
            /\ outs[i] \in Addable!Known
            /\ \A k \in DOMAIN added : added[k].src = sent[outs[i]].src => k <= Gone + 1
      /\ \A i, j \in DOMAIN outs : i < j =>
            \A k, l \in DOMAIN added :
                added[k].src = sent[outs[i]].src /\ added[l].src = sent[outs[j]].src =>
                    k < l \/ (k = l /\ outs[i] < outs[j])
  BY DEF JoinHolds, ChainOuts
<1>3. \A k \in DOMAIN added : added[k].src \in Source
  <2>1. \A k \in DOMAIN added : added[k] \in AddedHere
    BY <1>1
  <2> QED BY <2>1 DEF AddedHere
<1>4. ASSUME NEW i \in DOMAIN outs, NEW j \in DOMAIN outs, i < j
      PROVE  \/ Addable!Turn(outs[i]) < Addable!Turn(outs[j])
             \/ Addable!Turn(outs[i]) = Addable!Turn(outs[j]) /\ outs[i] < outs[j]
  BY <1>2, <1>4, Turns
<1>5. ASSUME NEW k \in DOMAIN added, k <= Gone PROVE added[k].src \in over
  <2>1. ~Follows(added[k].src)
    <3> SUFFICES ASSUME NEW i \in DOMAIN followed, followed[i] = added[k].src PROVE FALSE
      BY DEF Follows
    <3>1. added[Gone + i].src = added[k].src /\ Gone + i \in DOMAIN added /\ k < Gone + i
      BY <1>1, <1>5
    <3>2. k = Gone + i
      <4>1. \A l, m \in DOMAIN added : added[l].src = added[m].src => l = m
        BY <1>1 DEF AddedOnce
      <4> QED BY <3>1, <4>1
    <3> QED BY <1>1, <3>1, <3>2
  <2>2. IsAdded(added[k].src)
    BY DEF IsAdded
  <2> QED BY <1>1, <1>3, <2>1, <2>2 DEF Wiring
<1>6. ASSUME NEW i \in DOMAIN outs PROVE Addable!ItsTurn(outs[i])
  <2>1. Addable!Turn(outs[i]) \in DOMAIN added /\ Addable!Turn(outs[i]) <= Gone + 1
    BY <1>2, Turns
  <2>2. \A k \in 1 .. Addable!Turn(outs[i]) - 1 : k \in DOMAIN added /\ k <= Gone
    BY <1>1, <2>1
  <2> QED BY <1>5, <2>2 DEF Addable!ItsTurn
<1>7. ASSUME draining = None, NEW n \in Addable!Known, Addable!ItsTurn(n), ~IsOut(n) PROVE FALSE
  <2>1. PICK s \in Source : s = sent[n].src
    <3>1. sent[n] \in SentHere
      BY <1>1 DEF Addable!Known
    <3> QED BY <3>1 DEF SentHere
  <2>2. q[s] # <<>>
    <3>1. PICK i \in DOMAIN q[s] : q[s][i] = n
      BY <1>2, <1>7, <2>1 DEF InQueue
    <3> QED BY <1>1, <3>1
  <2>3. wire[s] = "queue" /\ Follows(s)
    <3>1. wire[s] = "queue"
      BY <1>2, <2>2
    <3> QED BY <1>1, <3>1 DEF Wiring
  <2>4. PICK i \in DOMAIN followed : followed[i] = s
    BY <2>3 DEF Follows
  <2>5. 1 \in DOMAIN followed /\ wire[followed[1]] = "out" /\ followed[1] \in Source
    <3>1. followed # <<>> /\ 1 \in DOMAIN followed
      BY <1>1, <2>4
    <3> QED BY <1>1, <1>7, <3>1 DEF JoinHolds, ChainQueues
  <2>6. i > 1 /\ i \in Nat
    <3>1. i # 1
      BY <2>3, <2>4, <2>5
    <3> QED BY <1>1, <3>1
  <2>7. Gone + i \in DOMAIN added /\ Gone + 1 \in DOMAIN added
    BY <1>1, <2>4, <2>5
  <2>8. Addable!Turn(n) = Gone + i
    <3>1. added[Gone + i].src = sent[n].src
      BY <1>1, <2>1, <2>4
    <3>2. n \in Addable!Known
      BY <1>7
    <3>3. \A k \in DOMAIN added : added[k].src = sent[n].src => k = Addable!Turn(n)
      BY <3>2, Turns
    <3> QED BY <2>7, <3>1, <3>3
  <2>9. added[Gone + 1].src \in over
    <3>1. Gone + 1 \in 1 .. Addable!Turn(n) - 1
      BY <1>1, <2>6, <2>8
    <3> QED BY <1>7, <3>1 DEF Addable!ItsTurn
  <2> QED BY <1>1, <2>5, <2>9 DEF Wiring
<1>8. draining = None => Addable!ToSet(outs) = {n \in Addable!Known : Addable!ItsTurn(n)}
  <2>1. \A n : n \in Addable!ToSet(outs) <=> IsOut(n)
    BY <1>1, OutsAre
  <2>2. \A n : IsOut(n) => n \in Addable!Known /\ Addable!ItsTurn(n)
    BY <1>2, <1>6 DEF IsOut
  <2> QED BY <1>7, <2>1, <2>2
<1> QED BY <1>4, <1>8 DEF Addable!ChainRule, Addable!InOrder

LEMMA JoinByTheRule ==
    ASSUME JoinInv, kind \in Kinds
    PROVE  Addable!ByTheRule
<1>1. kind \in {"merge", "concat", "switch"} => JoinHolds
  BY DEF JoinInv
<1>2. ASSUME JoinHolds, kind \in {"merge", "concat", "switch"}
      PROVE  /\ \A n : n \in Addable!ToSet(outs) <=> IsOut(n)
             /\ Addable!ToSet(outs) \subseteq DOMAIN sent /\ Addable!Known \subseteq DOMAIN sent
             /\ \A i, j \in DOMAIN outs : i < j => outs[i] < outs[j]
  BY <1>2, OutsAre DEF JoinHolds, Numbers
<1>3. kind = "merge" => Addable!MergeRule
  BY <1>1, <1>2 DEF JoinHolds, MergeOuts, Addable!MergeRule, Addable!InOrder
<1>4. kind = "concat" => Addable!ConcatRule
  BY <1>1, <1>2 DEF JoinHolds, MergeOuts, Addable!ConcatRule, Addable!InOrder
<1>5. kind = "switch" => Addable!SwitchRule
  BY <1>1, <1>2 DEF JoinHolds, SwitchOuts, Addable!SwitchRule, Addable!InOrder
<1>6. kind = "chain" /\ ~torn => Addable!ChainRule
  BY ChainedInTurn DEF JoinInv
<1> QED BY <1>3, <1>4, <1>5, <1>6 DEF Addable!ByTheRule

LEMMA JoinEndsRight ==
    ASSUME JoinInv, kind \in Kinds
    PROVE  Addable!EndsRight
<1> SUFFICES ASSUME draining = None, ~torn
             PROVE  /\ ended <=> ~parent /\ \A k \in DOMAIN added :
                         added[k].src \in over \/ (kind = "switch" /\ wire[added[k].src] = "none")
                    /\ ended => \A s \in Source : wire[s] = "none"
  BY DEF Addable!EndsRight
<1>1. /\ JoinTypes /\ Wiring /\ ChainQueues
      /\ followed \in Seq(Source) /\ wire \in [Source -> {"none", "queue", "out"}]
  BY DEF JoinInv, JoinHolds, JoinTypes
<1>2. \A k \in DOMAIN added : added[k].src \in Source /\ IsAdded(added[k].src)
  <2>1. \A k \in DOMAIN added : added[k] \in AddedHere
    BY <1>1 DEF JoinTypes
  <2> QED BY <2>1 DEF AddedHere, IsAdded
<1>3. ended <=> ~parent /\ followed = <<>>
  BY <1>1 DEF Wiring
<1>4. ASSUME followed = <<>>
      PROVE  /\ \A s \in Source : wire[s] = "none"
             /\ \A k \in DOMAIN added :
                   added[k].src \in over \/ (kind = "switch" /\ wire[added[k].src] = "none")
  <2>1. \A s \in Source : ~Follows(s)
    BY <1>4 DEF Follows
  <2> QED BY <1>1, <1>2, <2>1 DEF Wiring
<1>5. ASSUME followed # <<>>
      PROVE  \E k \in DOMAIN added :
                ~(added[k].src \in over \/ (kind = "switch" /\ wire[added[k].src] = "none"))
  <2>1. 1 \in DOMAIN followed /\ followed[1] \in Source
    BY <1>1, <1>5
  <2>2. PICK s \in Source : s = followed[1] /\ Follows(s)
    BY <2>1 DEF Follows
  <2>3. wire[s] = "out"
    <3>1. wire[s] # "none"
      BY <1>1, <2>2 DEF Wiring
    <3>2. kind = "chain" => wire[s] = "out"
      BY <1>1, <1>5, <2>2 DEF ChainQueues
    <3> QED BY <1>1, <3>1, <3>2 DEF Wiring
  <2>4. IsAdded(s) /\ s \notin over
    BY <1>1, <2>2, <2>3 DEF Wiring
  <2> QED BY <2>3, <2>4 DEF IsAdded
<1> QED BY <1>3, <1>4, <1>5

-----------------------------------------------------------------------------
(* What is behind the joins of ZipJoin.  As long as they live they hear all the
   sources that do, Zip those that have ended, too. *)
WalkHere == [n : Nat, rest : Seq(Zipping!Position), busy : BOOLEAN]
TupleHere == [n : Nat, at : Zipping!Position, tup : [Zipping!Position -> Nat]]

ZipTypes ==
    /\ kind \in ZipKinds /\ kind \in {"zip", "ziplatest", "ziplatestfull"}
    /\ layout \in Seq(Source) /\ layout # <<>>
    /\ over \subseteq Source /\ sent \in Seq(Source) /\ made \in Nat /\ made <= Len(sent)
    /\ results \in [Zipping!Position -> Seq(Nat)] /\ numReady \in Nat
    /\ latest \in [Zipping!Position -> Nat] /\ primed \in BOOLEAN
    /\ ended \in BOOLEAN /\ connected \subseteq Zipping!Position
    /\ walks \in Seq(WalkHere) /\ outs \in Seq(TupleHere)

Links ==
    /\ ended => connected = {}
    /\ ~ended => \A p \in Zipping!Position : kind = "zip" \/ layout[p] \notin over => p \in connected
    /\ kind # "zip" => (ended <=> \A p \in Zipping!Position : layout[p] \in over)

(* Unless the listeners of a Ziplatest feed a source between its callbacks, only the
   latest emit has some left to call: those of the last of the positions. *)
Orderly == kind = "zip" \/ listeners = {} \/ IsInjective(layout)
Rest == IF walks = <<>> THEN <<>> ELSE Zipping!Top.rest
Pending(p) == \E k \in DOMAIN Rest : Rest[k] = p

OneAtATime ==
    Orderly =>
        /\ \A i \in DOMAIN walks : walks[i].rest # <<>> =>
              /\ i = Len(walks) /\ walks[i].n = Len(sent)
              /\ walks[i].busy => kind # "zip" /\ listeners = {}
        /\ Rest # <<>> => Len(sent) > made /\ (kind = "zip" => ~ended)
        /\ \A j, k \in DOMAIN Rest : j < k => Rest[j] < Rest[k]
        /\ \A k \in DOMAIN Rest :
              /\ layout[Rest[k]] = sent[Len(sent)]
              /\ \A p \in Zipping!Position : p > Rest[k] /\ layout[p] = layout[Rest[k]] => Pending(p)

(* A Zip keeps the values that are not yet in a tuple. *)
Vals(p) == Zipping!ValuesOf(layout[p])
PendingNow(p) == IF Pending(p) THEN 1 ELSE 0
Keeps(p) ==
    /\ Len(Vals(p)) = Len(outs) + Len(results[p]) + PendingNow(p)
    /\ \A k \in DOMAIN results[p] : results[p][k] = Vals(p)[Len(outs) + k]
Gave(k) == \A p \in Zipping!Position : k <= Len(Vals(p)) /\ outs[k].tup[p] = Vals(p)[k]
ZipQueues ==
    kind = "zip" =>
        /\ ~ended => \A p \in Zipping!Position : Keeps(p)
        /\ \A k \in DOMAIN outs : Gave(k)
        /\ \A p \in Zipping!Position : Pending(p) =>
              Vals(p) # <<>> /\ Vals(p)[Len(Vals(p))] = Len(sent)

ZipCounts ==
    kind = "zip" =>
        /\ numReady = Zipping!Cardinality({p \in Zipping!Position : results[p] # <<>>})
        /\ \E p \in Zipping!Position : results[p] = <<>>

(* An ended source with nothing kept ends a Zip, at the latest when the listeners of
   the tuple return. *)
ZipEnds ==
    kind = "zip" =>
        /\ ended => \E p \in Zipping!Position :
              layout[p] \in over /\ Len(Vals(p)) = Len(outs)
        /\ ~ended /\ (\A i \in DOMAIN walks : ~walks[i].busy) =>
              \A p \in Zipping!Position : layout[p] \in over => results[p] # <<>>

(* A Ziplatest knows the latest values, but for those still to be called with. *)
ZipLatest ==
    kind # "zip" /\ Orderly =>
        /\ \A p \in Zipping!Position :
              latest[p] = Zipping!LatestOf(layout[p], IF Pending(p) THEN Len(sent) - 1 ELSE Len(sent))
        /\ kind = "ziplatest" => primed
        /\ kind = "ziplatestfull" /\ primed => \A p \in Zipping!Position : latest[p] # 0
        /\ Zipping!Due = outs \o Zipping!Keep(Zipping!TuplesFor(Len(sent), Rest), Zipping!Shown)

ZipHolds ==
    /\ ZipTypes /\ Links /\ OneAtATime
    /\ ZipQueues /\ ZipCounts /\ ZipEnds /\ ZipLatest

ZipInv == kind \in ZipKinds => ZipHolds

LEMMA ZipSorts == kind \in ZipKinds => kind \in {"zip", "ziplatest", "ziplatestfull"} /\ kind \notin Kinds
BY KindAssumption DEF Addable!AllKinds, Zipping!AllZipKinds

Sends(x) == sent' = Append(sent, x)

(* One more value: it is one of its source, when it is sent after the join was made. *)
LEMMA ValuesGrow ==
    ASSUME sent \in Seq(Source), made \in Nat, NEW x \in Source, NEW s \in Source,
           made <= Len(sent), Sends(x), made' = made
    PROVE  /\ Zipping!ValuesOf(s) \in Seq(Nat)
           /\ Zipping!ValuesOf(s)' = IF x = s THEN Append(Zipping!ValuesOf(s), Len(sent) + 1)
                                     ELSE Zipping!ValuesOf(s)
<1> DEFINE S == {i \in DOMAIN sent : i > made /\ sent[i] = s}
           R == {i \in DOMAIN sent' : i > made' /\ sent'[i] = s}
           v == [i \in DOMAIN sent |-> i]
           w == [i \in DOMAIN sent' |-> i]
<1>1. PICK n \in Nat : n = Len(sent)
  OBVIOUS
<1>2. /\ DOMAIN sent = 1 .. n /\ DOMAIN sent' = 1 .. n + 1
      /\ sent'[n + 1] = x /\ \A i \in 1 .. n : sent'[i] = sent[i]
  BY <1>1, Grown DEF Sends
<1>10. PICK A : A = 1 .. n + 1
  OBVIOUS
<1>3. v \in Seq(A) /\ w = Append(v, n + 1) /\ n + 1 \in A
  <2>1. v = [i \in 1 .. n |-> i] /\ w = [i \in 1 .. n + 1 |-> i]
    BY <1>2
  <2> HIDE DEF v, w
  <2>2. v \in Seq(1 .. n + 1) /\ Len(v) = n
    BY <2>1
  <2>3. Append(v, n + 1) = w
    BY <2>1, <2>2
  <2> QED BY <1>10, <2>2, <2>3
<1>4. Zipping!ValuesOf(s) = Keep(v, S) /\ Zipping!ValuesOf(s)' = Keep(w, R)
  BY DEF Zipping!ValuesOf, Zipping!Keep, Keep
<1>5. n + 1 \in R <=> x = s
  BY <1>1, <1>2
<1>6. v \in Seq(1 .. n) /\ \A i \in 1 .. n : i \in S <=> i \in R
  <2>1. v = [i \in 1 .. n |-> i]
    BY <1>2
  <2>2. v \in Seq(1 .. n)
    <3> HIDE DEF v
    <3> QED BY <2>1
  <2>3. \A i \in 1 .. n : i \in S <=> i \in R
    BY <1>2
  <2> QED BY <2>2, <2>3
<1> HIDE DEF S, R, v, w
<1>7. Keep(v, S) = Keep(v, R)
  BY <1>6, KeepAlike
<1>8. /\ n + 1 \in R => Keep(w, R) = Append(Keep(v, R), n + 1)
      /\ n + 1 \notin R => Keep(w, R) = Keep(v, R)
  <2>1. v \in Seq(A) /\ n + 1 \in A
    BY <1>3
  <2>2. /\ n + 1 \in R => Keep(Append(v, n + 1), R) = Append(Keep(v, R), n + 1)
        /\ n + 1 \notin R => Keep(Append(v, n + 1), R) = Keep(v, R)
    BY <2>1, KeepLonger
  <2> QED BY <1>3, <2>2
<1>9. Keep(v, S) \in Seq(Nat)
  <2>1. Keep(v, S) \in Seq(A \cap S)
    BY <1>3, KeptPlaces
  <2>2. A \cap S \subseteq Nat
    BY <1>10
  <2> QED BY <2>1, <2>2
<1> QED BY <1>1, <1>4, <1>5, <1>7, <1>8, <1>9

LEMMA ValuesType ==
    ASSUME sent \in Seq(Source), NEW s
    PROVE  Zipping!ValuesOf(s) \in Seq(Nat)
<1> DEFINE S == {i \in DOMAIN sent : i > made /\ sent[i] = s}
           v == [i \in DOMAIN sent |-> i]
<1>1. Zipping!ValuesOf(s) = Keep(v, S)
  BY DEF Zipping!ValuesOf, Zipping!Keep, Keep
<1>2. v \in Seq(Nat)
  OBVIOUS
<1> HIDE DEF S, v
<1>3. Keep(v, S) \in Seq(Nat \cap S)
  BY <1>2, KeptPlaces
<1> QED BY <1>1, <1>3

(* No value is one sent since the join was made. *)
LEMMA ValuesNone ==
    ASSUME sent \in Seq(Source), made = Len(sent), NEW s
    PROVE  Zipping!ValuesOf(s) = <<>>
<1> DEFINE S == {i \in DOMAIN sent : i > made /\ sent[i] = s}
           v == [i \in DOMAIN sent |-> i]
<1>1. Zipping!ValuesOf(s) = Keep(v, S)
  BY DEF Zipping!ValuesOf, Zipping!Keep, Keep
<1>2. v \in Seq(Nat) /\ S = {}
  <2>1. \A i \in DOMAIN sent : ~(i > made)
    OBVIOUS
  <2> QED BY <2>1
<1> HIDE DEF S, v
<1>3. Keep(v, S) \in Seq(Nat \cap S)
  BY <1>2, KeptPlaces
<1>4. Keep(v, S) = <<>>
  <2>1. Keep(v, S) \in Seq({})
    BY <1>2, <1>3
  <2> HIDE DEF S
  <2> QED BY <2>1
<1> QED BY <1>1, <1>4

(* Which value is the latest of a source. *)
LatestIs(s, n, m) ==
    /\ m \in 0 .. n
    /\ m = 0 \/ sent[m] = s
    /\ \A i \in m + 1 .. n : sent[i] # s

LEMMA LatestOne ==
    ASSUME NEW n \in Nat, NEW s, NEW l, NEW m, LatestIs(s, n, l), LatestIs(s, n, m)
    PROVE  l = m
<1>1. l \in 0 .. n /\ m \in 0 .. n
  BY DEF LatestIs
<1>2. ~(l < m)
  <2> SUFFICES ASSUME l < m PROVE FALSE
    OBVIOUS
  <2>1. m \in l + 1 .. n /\ m # 0
    BY <1>1
  <2> QED BY <2>1 DEF LatestIs
<1>3. ~(m < l)
  <2> SUFFICES ASSUME m < l PROVE FALSE
    OBVIOUS
  <2>1. l \in m + 1 .. n /\ l # 0
    BY <1>1
  <2> QED BY <2>1 DEF LatestIs
<1> QED BY <1>1, <1>2, <1>3

LEMMA LatestExists ==
    ASSUME NEW n \in Nat, NEW s
    PROVE  LatestIs(s, n, Zipping!LatestOf(s, n))
<1> DEFINE T == {k \in Nat : \E m : LatestIs(s, k, m)}
<1>1. 0 \in T
  <2>1. LatestIs(s, 0, 0)
    BY DEF LatestIs
  <2> QED BY <2>1
<1>2. ASSUME NEW k \in T PROVE k + 1 \in T
  <2>1. PICK m : LatestIs(s, k, m)
    OBVIOUS
  <2>2. k \in Nat /\ m \in 0 .. k /\ (m = 0 \/ sent[m] = s) /\ \A i \in m + 1 .. k : sent[i] # s
    BY <2>1 DEF LatestIs
  <2>3. CASE sent[k + 1] = s
    <3>1. LatestIs(s, k + 1, k + 1)
      BY <2>2, <2>3 DEF LatestIs
    <3> QED BY <2>2, <3>1
  <2>4. CASE sent[k + 1] # s
    <3>1. \A i \in m + 1 .. k + 1 : i \in m + 1 .. k \/ i = k + 1
      BY <2>2
    <3>2. LatestIs(s, k + 1, m)
      BY <2>2, <2>4, <3>1 DEF LatestIs
    <3> QED BY <2>2, <3>2
  <2> QED BY <2>3, <2>4
<1>3. T = Nat
  <2> HIDE DEF T
  <2>1. T \in SUBSET Nat
    BY DEF T
  <2> QED BY <1>1, <1>2, <2>1, Induct
<1>4. PICK m : LatestIs(s, n, m)
  BY <1>3
<1> HIDE DEF T
<1>5. \E l \in 0 .. n : /\ l = 0 \/ sent[l] = s
                        /\ \A i \in l + 1 .. n : sent[i] # s
  BY <1>4 DEF LatestIs
<1> QED BY <1>5 DEF Zipping!LatestOf, Zipping!NoValue, LatestIs

LatestAre == \A n \in Nat, s \in Source : LatestIs(s, n, Zipping!LatestOf(s, n))

LEMMA LatestAlways == LatestAre
BY LatestExists DEF LatestAre

LEMMA LatestNext ==
    ASSUME sent \in Seq(Source), NEW x \in Source, Sends(x), NEW s \in Source,
           NEW n \in Nat, n = Len(sent)
    PROVE  /\ \A m \in 0 .. n : Zipping!LatestOf(s, m)' = Zipping!LatestOf(s, m)
           /\ Zipping!LatestOf(s, n + 1)' = IF x = s THEN n + 1 ELSE Zipping!LatestOf(s, n)
           /\ \A m \in 0 .. n : Zipping!LatestOf(s, m) \in 0 .. m
<1>1. n = Len(sent)
  OBVIOUS
<1>2. sent'[n + 1] = x /\ \A i \in 1 .. n : sent'[i] = sent[i]
  BY <1>1, Grown DEF Sends
<1>3. \A m \in Nat : LatestIs(s, m, Zipping!LatestOf(s, m))
  BY LatestAlways DEF LatestAre
<1>4. \A m \in Nat : LatestIs(s, m, Zipping!LatestOf(s, m))'
  <2>1. LatestAre'
    BY LatestAlways, PTL
  <2> QED BY <2>1 DEF LatestAre
<1>5. ASSUME NEW m \in 0 .. n
      PROVE  Zipping!LatestOf(s, m)' = Zipping!LatestOf(s, m) /\ Zipping!LatestOf(s, m) \in 0 .. m
  <2>1. PICK l : l = Zipping!LatestOf(s, m)'
    OBVIOUS
  <2>2. l \in 0 .. m /\ (l = 0 \/ sent'[l] = s) /\ \A i \in l + 1 .. m : sent'[i] # s
    <3>1. m \in Nat
      OBVIOUS
    <3>2. LatestIs(s, m, Zipping!LatestOf(s, m))'
      BY <1>4, <3>1
    <3> QED BY <2>1, <3>2 DEF LatestIs
  <2>3. LatestIs(s, m, l)
    <3>1. l = 0 \/ sent[l] = s
      BY <1>2, <2>2
    <3>2. \A i \in l + 1 .. m : sent[i] # s
      BY <1>2, <2>2
    <3> QED BY <2>2, <3>1, <3>2 DEF LatestIs
  <2>4. LatestIs(s, m, Zipping!LatestOf(s, m)) /\ m \in Nat
    BY <1>3
  <2>5. l = Zipping!LatestOf(s, m)
    BY <2>3, <2>4, LatestOne
  <2> QED BY <2>1, <2>2, <2>5
<1>6. Zipping!LatestOf(s, n + 1)' = IF x = s THEN n + 1 ELSE Zipping!LatestOf(s, n)
  <2>1. PICK l : l = Zipping!LatestOf(s, n + 1)'
    OBVIOUS
  <2>2. l \in 0 .. n + 1 /\ (l = 0 \/ sent'[l] = s) /\ \A i \in l + 1 .. n + 1 : sent'[i] # s
    <3>1. LatestIs(s, n + 1, Zipping!LatestOf(s, n + 1))'
      BY <1>4
    <3> QED BY <2>1, <3>1 DEF LatestIs
  <2>3. CASE x = s
    <3>1. ~(n + 1 \in l + 1 .. n + 1)
      BY <1>2, <2>2, <2>3
    <3>2. l = n + 1
      BY <2>2, <3>1
    <3> QED BY <2>1, <2>3, <3>2
  <2>4. CASE x # s
    <3>1. l # n + 1
      BY <1>2, <2>2, <2>4
    <3>2. l \in 0 .. n
      BY <2>2, <3>1
    <3>3. LatestIs(s, n, l)
      <4>1. l = 0 \/ sent[l] = s
        BY <1>2, <2>2, <3>2
      <4>2. \A i \in l + 1 .. n : sent[i] # s
        BY <1>2, <2>2, <3>2
      <4> QED BY <3>2, <4>1, <4>2 DEF LatestIs
    <3>4. LatestIs(s, n, Zipping!LatestOf(s, n))
      BY <1>3
    <3>5. l = Zipping!LatestOf(s, n)
      BY <3>3, <3>4, LatestOne
    <3> QED BY <2>1, <2>4, <3>5
  <2> QED BY <2>3, <2>4
<1> QED BY <1>5, <1>6

(* The positions of a set, in their order. *)
LEMMA PlacesInOrder ==
    ASSUME layout \in Seq(Source), NEW S
    PROVE  /\ Zipping!InTheirOrder(S) \in Seq(Zipping!Position)
           /\ \A j, k \in DOMAIN Zipping!InTheirOrder(S) :
                 j < k => Zipping!InTheirOrder(S)[j] < Zipping!InTheirOrder(S)[k]
           /\ \A k \in DOMAIN Zipping!InTheirOrder(S) : Zipping!InTheirOrder(S)[k] \in S
           /\ \A p \in Zipping!Position : p \in S =>
                 \E k \in DOMAIN Zipping!InTheirOrder(S) : Zipping!InTheirOrder(S)[k] = p
<1> DEFINE v == [p \in Zipping!Position |-> p]
           r == Zipping!InTheirOrder(S)
<1>1. PICK n \in Nat : n = Len(layout) /\ Zipping!Position = 1 .. n
  BY DEF Zipping!Position
<1>2. r = Keep(v, S)
  BY DEF Zipping!InTheirOrder, Zipping!Keep, Keep
<1>3. v \in Seq(Zipping!Position) /\ Len(v) = n /\ \A p \in 1 .. n : v[p] = p
  <2>1. v = [p \in 1 .. n |-> p]
    BY <1>1
  <2> HIDE DEF v
  <2> QED BY <1>1, <2>1
<1> HIDE DEF v, r
<1>4. r \in Seq(Zipping!Position \cap S) /\ \E f : PlacesOf(f, v, S, n, r)
  BY <1>2, <1>3, KeptPlaces
<1>5. r \in Seq(Zipping!Position) /\ DOMAIN r = 1 .. Len(r)
  <2>1. Zipping!Position \cap S \subseteq Zipping!Position
    OBVIOUS
  <2> QED BY <1>4, <2>1
<1>6. PICK f : PlacesOf(f, v, S, n, r)
  BY <1>4
<1>7. \A i \in DOMAIN r : f[i] \in 1 .. n /\ r[i] = f[i] /\ r[i] \in S
  BY <1>3, <1>5, <1>6 DEF PlacesOf
<1>8. \A j, k \in DOMAIN r : j < k => r[j] < r[k]
  BY <1>5, <1>6, <1>7 DEF PlacesOf
<1>9. \A p \in Zipping!Position : p \in S => \E k \in DOMAIN r : r[k] = p
  <2> SUFFICES ASSUME NEW p \in 1 .. n, p \in S PROVE \E k \in DOMAIN r : r[k] = p
    BY <1>1
  <2>1. PICK k \in 1 .. Len(r) : f[k] = p
    BY <1>3, <1>6 DEF PlacesOf
  <2> QED BY <1>5, <1>7, <2>1
<1> QED BY <1>5, <1>7, <1>8, <1>9 DEF r

-----------------------------------------------------------------------------
(* What only depends on the history stays as it does. *)
LEMMA ZipHistory ==
    ASSUME UNCHANGED <<kind, layout, made, sent>>
    PROVE  /\ Zipping!Position' = Zipping!Position
           /\ \A p : Vals(p)' = Vals(p)
           /\ \A s, n : Zipping!LatestOf(s, n)' = Zipping!LatestOf(s, n)
           /\ \A n, ps : Zipping!TuplesFor(n, ps)' = Zipping!TuplesFor(n, ps)
           /\ Zipping!Shown' = Zipping!Shown
           /\ Zipping!Due' = Zipping!Due
<1>1. Zipping!Position' = Zipping!Position
  BY DEF Zipping!Position
<1>2. \A s : Zipping!ValuesOf(s)' = Zipping!ValuesOf(s)
  BY DEF Zipping!ValuesOf
<1>3. \A s, n : Zipping!LatestOf(s, n)' = Zipping!LatestOf(s, n)
  BY DEF Zipping!LatestOf
<1>4. \A n, p : Zipping!TupleAt(n, p)' = Zipping!TupleAt(n, p)
  BY <1>1, <1>3 DEF Zipping!TupleAt
<1>5. \A n, ps : Zipping!TuplesFor(n, ps)' = Zipping!TuplesFor(n, ps)
  BY <1>4 DEF Zipping!TuplesFor
<1>6. Zipping!Shown' = Zipping!Shown
  BY <1>1 DEF Zipping!Shown
<1>7. \A S : Zipping!InTheirOrder(S)' = Zipping!InTheirOrder(S)
  BY <1>1 DEF Zipping!InTheirOrder
<1>8. Zipping!Due' = Zipping!Due
  BY <1>1, <1>5, <1>6, <1>7 DEF Zipping!Due
<1>9. \A p : Vals(p)' = Vals(p)
  BY <1>2 DEF Vals
<1> QED BY <1>1, <1>3, <1>5, <1>6, <1>8, <1>9

(* ... and what is kept, while no position is called. *)
LEMMA ZipKept ==
    ASSUME ZipHolds,
           UNCHANGED <<kind, listeners, layout, made, sent, outs>>,
           UNCHANGED <<results, numReady, latest, primed>>,
           Rest' = Rest, ended => ended'
    PROVE  ZipQueues' /\ ZipCounts' /\ ZipLatest'
<1>1. \A p : Pending(p)' <=> Pending(p)
  BY DEF Pending
<1>2. \A p : PendingNow(p)' = PendingNow(p)
  BY <1>1 DEF PendingNow
<1>3. /\ Zipping!Position' = Zipping!Position /\ \A p : Vals(p)' = Vals(p)
      /\ \A s, n : Zipping!LatestOf(s, n)' = Zipping!LatestOf(s, n)
      /\ \A n, ps : Zipping!TuplesFor(n, ps)' = Zipping!TuplesFor(n, ps)
      /\ Zipping!Shown' = Zipping!Shown /\ Zipping!Due' = Zipping!Due
  BY ZipHistory
<1>4. /\ \A p : Keeps(p) => Keeps(p)'
      /\ \A k : Gave(k) => Gave(k)'
  BY <1>2, <1>3 DEF Keeps, Gave
<1>5. ZipQueues'
  <2>1. ZipQueues
    BY DEF ZipHolds
  <2> QED BY <1>1, <1>3, <1>4, <2>1 DEF ZipQueues
<1>6. ZipCounts'
  <2>1. ZipCounts
    BY DEF ZipHolds
  <2> QED BY <1>3, <2>1 DEF ZipCounts
<1>7. ZipLatest'
  <2>1. ZipLatest /\ (Orderly' <=> Orderly)
    BY DEF ZipHolds, Orderly
  <2>2. Zipping!TuplesFor(Len(sent), Rest)' = Zipping!TuplesFor(Len(sent), Rest)
    BY <1>3
  <2>3. Zipping!Keep(Zipping!TuplesFor(Len(sent), Rest), Zipping!Shown)'
           = Zipping!Keep(Zipping!TuplesFor(Len(sent), Rest), Zipping!Shown)
    BY <1>3, <2>2
  <2>4. \A p : Zipping!LatestOf(layout[p], IF Pending(p) THEN Len(sent) - 1 ELSE Len(sent))'
             = Zipping!LatestOf(layout[p], IF Pending(p) THEN Len(sent) - 1 ELSE Len(sent))
    BY <1>1, <1>3
  <2> QED BY <1>3, <2>1, <2>3, <2>4 DEF ZipLatest
<1> QED BY <1>5, <1>6, <1>7

LEMMA ZipStays == ASSUME ZipHolds, UNCHANGED vars PROVE ZipHolds'
<1>1. UNCHANGED <<kind, listeners, layout, made, sent, outs, results, numReady, latest, primed>>
      /\ UNCHANGED <<walks, ended, over, connected>>
  BY DEF vars, zippingVars
<1>2. Rest' = Rest /\ Zipping!Position' = Zipping!Position /\ (Orderly' <=> Orderly)
      /\ (\A p : Pending(p)' <=> Pending(p)) /\ \A p : Vals(p)' = Vals(p)
  <2>1. Rest' = Rest
    BY <1>1 DEF Rest, Zipping!Top
  <2> QED BY <1>1, <2>1, ZipHistory DEF Pending, Orderly
<1>3. ZipTypes' /\ Links'
  BY <1>1, <1>2 DEF ZipHolds, ZipTypes, Links, WalkHere, TupleHere
<1>4. OneAtATime'
  BY <1>1, <1>2 DEF ZipHolds, OneAtATime
<1>5. ZipQueues' /\ ZipCounts' /\ ZipLatest'
  BY <1>1, <1>2, ZipKept
<1>6. ZipEnds'
  BY <1>1, <1>2 DEF ZipHolds, ZipEnds
<1> QED BY <1>3, <1>4, <1>5, <1>6 DEF ZipHolds
-----------------------------------------------------------------------------
(* While the program's listeners run, no position waits to be called. *)
LEMMA NoneWaits ==
    ASSUME ZipHolds, Orderly, Zipping!InUserCode
    PROVE  Rest = <<>> /\ \A i \in DOMAIN walks : walks[i].rest = <<>>
<1>1. OneAtATime /\ walks \in Seq(WalkHere)
  BY DEF ZipHolds, ZipTypes
<1>2. ASSUME NEW i \in DOMAIN walks, walks[i].rest # <<>> PROVE FALSE
  <2>1. i = Len(walks) /\ (walks[i].busy => kind # "zip" /\ listeners = {})
    BY <1>1, <1>2 DEF OneAtATime
  <2>2. walks # <<>>
    BY <1>1
  <2> QED BY <2>1, <2>2 DEF Zipping!InUserCode, Zipping!Top
<1>3. Rest = <<>>
  BY <1>1, <1>2 DEF Rest, Zipping!Top
<1> QED BY <1>2, <1>3

Replaces(v, w, x) == v = [w EXCEPT ![Len(w)] = x]

OtherEnd(v, w, x, A) ==
    /\ v \in Seq(A) /\ Len(v) = Len(w) /\ DOMAIN v = DOMAIN w
    /\ v # <<>> /\ v[Len(w)] = x /\ \A i \in DOMAIN w : i # Len(w) => v[i] = w[i]

LEMMA LastReplaced ==
    ASSUME NEW A, NEW w \in Seq(A), w # <<>>, NEW x \in A, NEW v, Replaces(v, w, x)
    PROVE  OtherEnd(v, w, x, A)
BY DEF Replaces, OtherEnd

LEMMA ZipReturns == ASSUME ZipHolds, Zipping!Return, kind \in ZipKinds PROVE ZipHolds'
<1>1. /\ UNCHANGED <<kind, listeners, layout, made, sent, outs, results, numReady, latest, primed>>
      /\ over' = over /\ walks # <<>> /\ Zipping!Top.busy
      /\ walks' = [walks EXCEPT ![Len(walks)].busy = FALSE]
  BY DEF Zipping!Return, Zipping!fixed
<1>2. walks \in Seq(WalkHere) /\ Len(walks) \in DOMAIN walks
  BY <1>1 DEF ZipHolds, ZipTypes
<1>3. /\ walks' \in Seq(WalkHere) /\ DOMAIN walks' = DOMAIN walks /\ Len(walks') = Len(walks)
      /\ \A i \in DOMAIN walks : walks'[i].n = walks[i].n /\ walks'[i].rest = walks[i].rest
      /\ \A i \in DOMAIN walks : walks'[i].busy => walks[i].busy
  <2> DEFINE w == [walks[Len(walks)] EXCEPT !.busy = FALSE]
  <2>1. walks[Len(walks)] \in WalkHere
    BY <1>2
  <2>2. w \in WalkHere /\ w.n = walks[Len(walks)].n /\ w.rest = walks[Len(walks)].rest /\ ~w.busy
    BY <2>1 DEF WalkHere
  <2>3. Replaces(walks', walks, w)
    BY <1>1 DEF Replaces
  <2> HIDE DEF w
  <2>4. /\ walks' \in Seq(WalkHere) /\ Len(walks') = Len(walks) /\ DOMAIN walks' = DOMAIN walks
        /\ walks'[Len(walks)] = w /\ \A i \in DOMAIN walks : i # Len(walks) => walks'[i] = walks[i]
    <3>1. OtherEnd(walks', walks, w, WalkHere)
      BY <1>1, <1>2, <2>2, <2>3, LastReplaced
    <3> QED BY <3>1 DEF OtherEnd
  <2> QED BY <1>2, <2>2, <2>4
<1>4. Rest' = Rest /\ Zipping!Position' = Zipping!Position /\ (Orderly' <=> Orderly)
      /\ (\A p : Pending(p)' <=> Pending(p)) /\ \A p : Vals(p)' = Vals(p)
  <2>1. Rest' = Rest
    <3>1. walks' # <<>>
      BY <1>2, <1>3
    <3> QED BY <1>1, <1>2, <1>3, <3>1 DEF Rest, Zipping!Top
  <2> QED BY <1>1, <2>1, ZipHistory DEF Pending, Orderly
<1>5. /\ kind # "zip" => ended' = ended /\ connected' = connected
      /\ kind = "zip" => /\ ended' = (ended \/ \E p \in Zipping!Position : layout[p] \in over /\ results[p] = <<>>)
                         /\ connected' = IF ended' THEN {} ELSE connected
  BY DEF Zipping!Return, Zipping!ReturnToZip, Zipping!EndIfExhausted, Zipping!ExhaustedBy
<1>6. kind = "zip" => Rest = <<>>
  <2> SUFFICES ASSUME kind = "zip", Rest # <<>> PROVE FALSE
    OBVIOUS
  <2>1. OneAtATime /\ Orderly
    BY DEF ZipHolds, Orderly
  <2>2. walks[Len(walks)].rest # <<>> /\ walks[Len(walks)].busy
    BY <1>1 DEF Rest, Zipping!Top
  <2> QED BY <1>2, <2>1, <2>2 DEF OneAtATime
<1>7. \A p : ~Pending(p) \/ kind # "zip"
  BY <1>6 DEF Pending
<1>8. ZipTypes'
  <2>1. ended' \in BOOLEAN /\ connected' \subseteq Zipping!Position
    BY <1>5 DEF ZipHolds, ZipTypes
  <2> QED BY <1>1, <1>3, <1>4, <2>1 DEF ZipHolds, ZipTypes, WalkHere, TupleHere
<1>9. Links'
  <2>1. Links
    BY DEF ZipHolds
  <2>2. CASE kind = "zip"
    <3>1. ended' => connected' = {}
      BY <1>5, <2>2
    <3>2. ~ended' => ~ended /\ connected' = connected
      BY <1>5, <2>2
    <3> QED BY <1>1, <1>4, <2>1, <2>2, <3>1, <3>2 DEF Links
  <2>3. CASE kind # "zip"
    BY <1>1, <1>4, <1>5, <2>1, <2>3 DEF Links
  <2> QED BY <2>2, <2>3
<1>10. OneAtATime'
  BY <1>1, <1>3, <1>4, <1>5, <1>6 DEF ZipHolds, OneAtATime
<1>11. ZipQueues' /\ ZipCounts' /\ ZipLatest'
  <2>1. ended => ended'
    BY <1>5
  <2> QED BY <1>1, <1>4, <2>1, ZipKept
<1>12. ZipEnds'
  <2> SUFFICES ASSUME kind = "zip"
               PROVE  /\ ended' => \E p \in Zipping!Position : layout[p] \in over /\ Len(Vals(p)) = Len(outs)
                      /\ ~ended' => \A p \in Zipping!Position : layout[p] \in over => results[p] # <<>>
    BY <1>1, <1>4 DEF ZipEnds
  <2>1. CASE ended
    BY <1>5, <2>1 DEF ZipHolds, ZipEnds
  <2>2. ASSUME ~ended, NEW p \in Zipping!Position, layout[p] \in over, results[p] = <<>>
        PROVE  Len(Vals(p)) = Len(outs)
    <3>1. Keeps(p) /\ outs \in Seq(TupleHere)
      BY <2>2 DEF ZipHolds, ZipQueues, ZipTypes
    <3> QED BY <1>7, <2>2, <3>1 DEF Keeps, PendingNow
  <2> QED BY <1>5, <2>1, <2>2
<1> QED BY <1>8, <1>9, <1>10, <1>11, <1>12 DEF ZipHolds

-----------------------------------------------------------------------------
LEMMA ZipEmitted == ASSUME ZipHolds, Zipping!EndEmit, kind \in ZipKinds PROVE ZipHolds'
<1>1. /\ UNCHANGED <<kind, listeners, layout, made, sent, outs, results, numReady, latest, primed>>
      /\ over' = over /\ ended' = ended /\ connected' = connected /\ walks # <<>>
      /\ ~Zipping!Top.busy /\ Zipping!Top.rest = <<>> /\ walks' = Zipping!Front(walks)
  BY DEF Zipping!EndEmit, Zipping!fixed
<1>2. walks \in Seq(WalkHere) /\ Len(walks) \in DOMAIN walks /\ DOMAIN walks = 1 .. Len(walks)
  BY <1>1 DEF ZipHolds, ZipTypes
<1>3. /\ walks' \in Seq(WalkHere) /\ DOMAIN walks' = 1 .. Len(walks) - 1 /\ Len(walks') = Len(walks) - 1
      /\ \A i \in DOMAIN walks' : walks'[i] = walks[i] /\ i \in DOMAIN walks
  BY <1>1, <1>2 DEF Zipping!Front
<1>4. Rest = <<>>
  BY <1>1 DEF Rest, Zipping!Top
<1>5. Orderly => \A i \in DOMAIN walks : walks[i].rest = <<>>
  <2> SUFFICES ASSUME Orderly, NEW i \in DOMAIN walks, walks[i].rest # <<>> PROVE FALSE
    OBVIOUS
  <2>1. i = Len(walks)
    BY DEF ZipHolds, OneAtATime
  <2> QED BY <1>1, <2>1 DEF Zipping!Top
<1>6. Orderly => Rest' = <<>>
  <2> SUFFICES ASSUME Orderly, walks' # <<>> PROVE walks'[Len(walks')].rest = <<>>
    BY DEF Rest, Zipping!Top
  <2>1. Len(walks') \in DOMAIN walks'
    BY <1>3
  <2> QED BY <1>3, <1>5, <2>1
<1>7. Zipping!Position' = Zipping!Position /\ (Orderly' <=> Orderly) /\ \A p : Vals(p)' = Vals(p)
  BY <1>1, ZipHistory DEF Orderly
<1>8. ZipTypes' /\ Links'
  <2>1. ZipTypes'
    BY <1>1, <1>3, <1>7 DEF ZipHolds, ZipTypes, WalkHere, TupleHere
  <2>2. Links'
    BY <1>1, <1>7 DEF ZipHolds, Links
  <2> QED BY <2>1, <2>2
<1>9. OneAtATime'
  <2> SUFFICES ASSUME Orderly PROVE OneAtATime'
    BY <1>7 DEF OneAtATime
  <2>1. \A i \in DOMAIN walks' : walks'[i].rest = <<>>
    BY <1>3, <1>5
  <2> QED BY <1>6, <2>1 DEF OneAtATime
<1>10. ZipQueues' /\ ZipCounts' /\ ZipLatest'
  <2>1. CASE Orderly
    BY <1>1, <1>4, <1>6, <2>1, ZipKept
  <2>2. CASE ~Orderly
    BY <1>1, <1>7, <2>2 DEF Orderly, ZipQueues, ZipCounts, ZipLatest
  <2> QED BY <2>1, <2>2
<1>11. ZipEnds'
  <2>1. (\A i \in DOMAIN walks' : ~walks'[i].busy) => \A i \in DOMAIN walks : ~walks[i].busy
    <3> SUFFICES ASSUME \A i \in DOMAIN walks' : ~walks'[i].busy, NEW i \in DOMAIN walks PROVE ~walks[i].busy
      OBVIOUS
    <3>1. CASE i = Len(walks)
      BY <1>1, <3>1 DEF Zipping!Top
    <3>2. CASE i # Len(walks)
      <4>1. i \in DOMAIN walks'
        BY <1>2, <1>3, <3>2
      <4> QED BY <1>3, <4>1
    <3> QED BY <3>1, <3>2
  <2> QED BY <1>1, <1>7, <2>1 DEF ZipHolds, ZipEnds
<1> QED BY <1>8, <1>9, <1>10, <1>11 DEF ZipHolds

LEMMA ZipHearsEnd ==
    ASSUME ZipHolds, NEW s \in Source, Zipping!SourceEnds(s), kind \in ZipKinds
    PROVE  ZipHolds'
<1>1. /\ UNCHANGED <<kind, listeners, layout, made, sent, outs, results, numReady, latest, primed>>
      /\ walks' = walks /\ over' = over \cup {s} /\ s \notin over /\ Zipping!InUserCode
  BY DEF Zipping!SourceEnds, Zipping!fixed
<1>2. IF \E p \in connected : layout[p] = s
      THEN /\ ended' = (ended \/ IF kind = "zip"
                                 THEN \E p \in Zipping!Position : layout[p] \in over' /\ results[p] = <<>>
                                 ELSE \A p \in Zipping!Position : layout[p] \in over')
           /\ connected' = IF ended' THEN {} ELSE connected
      ELSE ended' = ended /\ connected' = connected
  BY <1>1 DEF Zipping!SourceEnds, Zipping!EndIfExhausted, Zipping!ExhaustedBy
<1>3. Rest' = Rest /\ Zipping!Position' = Zipping!Position /\ (Orderly' <=> Orderly)
      /\ (\A p : Pending(p)' <=> Pending(p)) /\ \A p : Vals(p)' = Vals(p)
  <2>1. Rest' = Rest
    BY <1>1 DEF Rest, Zipping!Top
  <2> QED BY <1>1, <2>1, ZipHistory DEF Pending, Orderly
<1>4. ZipTypes /\ Links /\ OneAtATime /\ ended \in BOOLEAN /\ connected \subseteq Zipping!Position
  BY DEF ZipHolds, ZipTypes
<1>5. ended' \in BOOLEAN /\ connected' \subseteq Zipping!Position /\ (ended => ended')
      /\ (ended' => connected' = {}) /\ (~ended' => ~ended /\ connected' = connected)
  <2>1. ended => connected = {}
    BY <1>4 DEF Links
  <2> QED BY <1>2, <1>4, <2>1
<1>6. ZipTypes'
  BY <1>1, <1>3, <1>4, <1>5 DEF ZipTypes, WalkHere, TupleHere
<1>7. kind # "zip" => (ended' <=> \A p \in Zipping!Position : layout[p] \in over')
  <2> SUFFICES ASSUME kind # "zip" PROVE ended' <=> \A p \in Zipping!Position : layout[p] \in over'
    OBVIOUS
  <2>1. /\ ended <=> \A p \in Zipping!Position : layout[p] \in over
        /\ ~ended => \A p \in Zipping!Position : layout[p] \notin over => p \in connected
        /\ ended => connected = {}
    BY <1>4 DEF Links
  <2>2. CASE \E p \in connected : layout[p] = s
    BY <1>2, <2>1, <2>2
  <2>3. CASE ~\E p \in connected : layout[p] = s
    <3>1. ended' = ended
      BY <1>2, <2>3
    <3>2. CASE ended
      BY <1>1, <2>1, <3>1, <3>2
    <3>3. CASE ~ended
      <4>1. PICK p \in Zipping!Position : layout[p] \notin over
        BY <2>1, <3>3
      <4>2. p \in connected /\ layout[p] # s
        BY <2>1, <2>3, <3>3, <4>1
      <4> QED BY <1>1, <3>1, <3>3, <4>1, <4>2
    <3> QED BY <3>2, <3>3
  <2> QED BY <2>2, <2>3
<1>8. Links'
  <2>1. ~ended' => \A p \in Zipping!Position : kind = "zip" \/ layout[p] \notin over' => p \in connected'
    BY <1>1, <1>4, <1>5 DEF Links
  <2> QED BY <1>1, <1>3, <1>5, <1>7, <2>1 DEF Links
<1>9. OneAtATime'
  <2>1. Orderly => Rest = <<>>
    BY <1>1, NoneWaits
  <2> QED BY <1>1, <1>3, <1>4, <2>1 DEF OneAtATime
<1>10. ZipQueues' /\ ZipCounts' /\ ZipLatest'
  BY <1>1, <1>3, <1>5, ZipKept
<1>11. ZipEnds'
  <2> SUFFICES ASSUME kind = "zip"
               PROVE  /\ ended' => \E p \in Zipping!Position : layout[p] \in over' /\ Len(Vals(p)) = Len(outs)
                      /\ ~ended' /\ (\A i \in DOMAIN walks : ~walks[i].busy) =>
                            \A p \in Zipping!Position : layout[p] \in over' => results[p] # <<>>
    BY <1>1, <1>3 DEF ZipEnds
  <2>1. CASE ended
    <3>1. PICK p \in Zipping!Position : layout[p] \in over /\ Len(Vals(p)) = Len(outs)
      BY <2>1 DEF ZipHolds, ZipEnds
    <3> QED BY <1>1, <1>5, <2>1, <3>1
  <2>2. CASE ~ended
    <3>1. ASSUME NEW p \in Zipping!Position, results[p] = <<>>
          PROVE  Len(Vals(p)) = Len(outs)
      <4>1. Keeps(p) /\ outs \in Seq(TupleHere)
        BY <2>2, <1>4 DEF ZipHolds, ZipQueues, ZipTypes
      <4>2. ~Pending(p)
        BY <1>1, NoneWaits DEF Pending, Orderly
      <4> QED BY <3>1, <4>1, <4>2 DEF Keeps, PendingNow
    <3>2. ended' => \E p \in Zipping!Position : layout[p] \in over' /\ Len(Vals(p)) = Len(outs)
      BY <1>2, <2>2, <3>1
    <3>3. ASSUME ~ended', \A i \in DOMAIN walks : ~walks[i].busy,
                 NEW p \in Zipping!Position, layout[p] \in over'
          PROVE  results[p] # <<>>
      <4>1. CASE layout[p] \in over
        BY <2>2, <3>3, <4>1 DEF ZipHolds, ZipEnds
      <4>2. CASE layout[p] = s
        <5>1. p \in connected
          BY <1>4, <2>2 DEF Links
        <5> QED BY <1>2, <3>3, <4>2, <5>1
      <4> QED BY <1>1, <3>3, <4>1, <4>2
    <3> QED BY <3>2, <3>3
  <2> QED BY <2>1, <2>2
<1> QED BY <1>6, <1>8, <1>9, <1>10, <1>11 DEF ZipHolds

-----------------------------------------------------------------------------
(* Nothing is due before the first value. *)
LEMMA NothingDue ==
    ASSUME layout \in Seq(Source), sent \in Seq(Source), made = Len(sent), Len(sent) \in 0 .. 1
    PROVE  Zipping!Due = <<>>
<1>1. PICK n \in 0 .. 1 : n = Len(sent) /\ DOMAIN sent = 1 .. n
  OBVIOUS
<1> DEFINE entry(k) ==
             Zipping!Keep(Zipping!TuplesFor(k, Zipping!InTheirOrder({p \in Zipping!Position : layout[p] = sent[k]})),
                          Zipping!Shown)
           ss == [k \in DOMAIN sent |-> IF k > made THEN entry(k) ELSE <<>>]
<1>2. Zipping!Due = Zipping!FlattenSeq(ss)
  BY DEF Zipping!Due
<1>3. \A k \in DOMAIN sent : ~(k > made)
  BY <1>1
<1>4. ss = [k \in 1 .. n |-> <<>>]
  BY <1>1, <1>3
<1> HIDE DEF ss
<1>5. Zipping!FlattenSeq(ss) = FlattenSeq(ss)
  BY DEF Zipping!FlattenSeq, FlattenSeq
<1>6. CASE n = 0
  <2>1. ss = <<>>
    BY <1>4, <1>6
  <2> QED BY <1>2, <1>5, <2>1, FlattenNone
<1>7. CASE n = 1
  <2>1. ss = Append(<<>>, <<>>)
    BY <1>4, <1>7
  <2>2. PICK A : A = Source
    OBVIOUS
  <2>3. <<>> \in Seq(Seq(A)) /\ <<>> \in Seq(A)
    OBVIOUS
  <2>4. FlattenSeq(Append(<<>>, <<>>)) = FlattenSeq(<<>>) \o <<>>
    BY <2>3, FlattenAppend
  <2>5. FlattenSeq(ss) = <<>>
    BY <2>1, <2>4, FlattenNone
  <2> QED BY <1>2, <1>5, <2>5
<1> QED BY <1>1, <1>6, <1>7

LEMMA ZipInit == Init => ZipInv
<1> SUFFICES ASSUME Init, kind \in ZipKinds PROVE ZipHolds
  BY DEF ZipInv
<1>1. Zipping!Init
  BY ZipSorts DEF Init, Addable!Init
<1>2. /\ kind \in {"zip", "ziplatest", "ziplatestfull"} /\ layout \in Layouts /\ over \subseteq Source
      /\ sent \in {<<>>} \cup {<<s>> : s \in Source} /\ made = Len(sent)
      /\ ended = IF kind = "zip" THEN Zipping!Live # Zipping!Position ELSE Zipping!Live = {}
      /\ connected = IF ended THEN {} ELSE Zipping!Live
      /\ results = [p \in Zipping!Position |-> <<>>] /\ numReady = 0
      /\ primed = (kind = "ziplatest") /\ walks = <<>> /\ outs = <<>>
  BY <1>1, ZipSorts DEF Zipping!Init
<1>3. /\ layout \in Seq(Source) /\ layout # <<>> /\ Zipping!Position = 1 .. Len(layout)
      /\ Len(layout) \in Nat \ {0}
  BY <1>2, LayoutAssumption DEF Zipping!Position
<1>4. sent \in Seq(Source) /\ made \in 0 .. 1 /\ Len(sent) \in 0 .. 1
  <2>1. CASE sent = <<>>
    BY <1>2, <2>1
  <2>2. ASSUME NEW s \in Source, sent = <<s>>
        PROVE  sent \in Seq(Source) /\ Len(sent) = 1
    BY <2>2
  <2> QED BY <1>2, <2>1, <2>2
<1>5. \A p \in Zipping!Position :
         latest[p] = IF kind = "zip" THEN 0 ELSE Zipping!LatestOf(layout[p], made)
  BY <1>1 DEF Zipping!Init, Zipping!NoValue
<1>6. latest \in [Zipping!Position -> Nat]
  <2>1. \A s : Zipping!LatestOf(s, made) \in Nat
    <3> SUFFICES ASSUME NEW s PROVE Zipping!LatestOf(s, made) \in Nat
      OBVIOUS
    <3>1. made \in Nat
      BY <1>4
    <3>2. LatestIs(s, made, Zipping!LatestOf(s, made))
      BY <3>1, LatestExists
    <3> QED BY <3>1, <3>2 DEF LatestIs
  <2>2. latest = [p \in Zipping!Position |-> IF kind = "zip" THEN 0 ELSE Zipping!LatestOf(layout[p], made)]
    BY <1>1 DEF Zipping!Init, Zipping!NoValue
  <2> QED BY <2>1, <2>2
<1>7. ZipTypes
  <2>1. Zipping!Live \subseteq Zipping!Position
    BY DEF Zipping!Live
  <2>2. results \in [Zipping!Position -> Seq(Nat)]
    BY <1>2
  <2>3. ended \in BOOLEAN /\ connected \subseteq Zipping!Position /\ primed \in BOOLEAN
    BY <1>2, <2>1
  <2>4. walks \in Seq(WalkHere) /\ outs \in Seq(TupleHere)
    BY <1>2
  <2> QED BY <1>2, <1>3, <1>4, <1>6, <2>2, <2>3, <2>4 DEF ZipTypes
<1>8. Links
  BY <1>2 DEF Links, Zipping!Live
<1>9. Rest = <<>> /\ \A p : ~Pending(p)
  BY <1>2 DEF Rest, Pending
<1>10. OneAtATime
  BY <1>2, <1>9 DEF OneAtATime
<1>11. \A p \in Zipping!Position : Vals(p) = <<>>
  BY <1>2, <1>4, ValuesNone DEF Vals
<1>12. ZipQueues
  <2>1. \A p \in Zipping!Position : Keeps(p)
    BY <1>2, <1>9, <1>11 DEF Keeps, PendingNow
  <2> QED BY <1>2, <1>9, <2>1 DEF ZipQueues
<1>13. ZipCounts
  <2>1. {p \in Zipping!Position : results[p] # <<>>} = {}
    BY <1>2
  <2>2. Zipping!Cardinality({}) = 0
    BY FS_EmptySet DEF Zipping!Cardinality, Cardinality
  <2>3. 1 \in Zipping!Position /\ results[1] = <<>>
    BY <1>2, <1>3
  <2> QED BY <1>2, <2>1, <2>2, <2>3 DEF ZipCounts
<1>14. ZipEnds
  BY <1>2, <1>11 DEF ZipEnds, Zipping!Live
<1>15. ZipLatest
  <2>1. Zipping!Due = <<>>
    BY <1>2, <1>3, <1>4, NothingDue
  <2>2. Zipping!Keep(Zipping!TuplesFor(Len(sent), <<>>), Zipping!Shown) = <<>>
    <3>1. Zipping!TuplesFor(Len(sent), <<>>) = <<>>
      BY DEF Zipping!TuplesFor
    <3>2. Keep(<<>>, Zipping!Shown) = <<>>
      BY KeepNone
    <3>3. Zipping!Keep(<<>>, Zipping!Shown) = Keep(<<>>, Zipping!Shown)
      BY DEF Zipping!Keep, Keep
    <3> QED BY <3>1, <3>2, <3>3
  <2>3. outs \o Zipping!Keep(Zipping!TuplesFor(Len(sent), Rest), Zipping!Shown) = <<>>
    BY <1>2, <1>9, <2>2
  <2> QED BY <1>2, <1>5, <1>9, <2>1, <2>3 DEF ZipLatest
<1> QED BY <1>7, <1>8, <1>10, <1>12, <1>13, <1>14, <1>15 DEF ZipHolds

-----------------------------------------------------------------------------
(* What is due for a value are tuples. *)
Entry(n, ps) == Zipping!Keep(Zipping!TuplesFor(n, ps), Zipping!Shown)
AreTuples ==
    \A n \in Nat \ {0}, ps \in Seq(Zipping!Position) :
        /\ Zipping!TuplesFor(n, ps) \in Seq(TupleHere)
        /\ Entry(n, ps) \in Seq(TupleHere)
        /\ \A p \in Zipping!Position : Zipping!TupleAt(n, p) \in [Zipping!Position -> Nat]

LEMMA TuplesType == layout \in Seq(Source) => AreTuples
<1> SUFFICES ASSUME layout \in Seq(Source), NEW n \in Nat \ {0}, NEW ps \in Seq(Zipping!Position)
             PROVE  /\ Zipping!TuplesFor(n, ps) \in Seq(TupleHere)
                    /\ Entry(n, ps) \in Seq(TupleHere)
                    /\ \A p \in Zipping!Position : Zipping!TupleAt(n, p) \in [Zipping!Position -> Nat]
  BY DEF AreTuples
<1>1. \A s, m : m \in Nat => Zipping!LatestOf(s, m) \in Nat
  <2> SUFFICES ASSUME NEW s, NEW m \in Nat PROVE Zipping!LatestOf(s, m) \in Nat
    OBVIOUS
  <2>1. LatestIs(s, m, Zipping!LatestOf(s, m))
    BY LatestExists
  <2> QED BY <2>1 DEF LatestIs
<1>2. ASSUME NEW p \in Zipping!Position
      PROVE  Zipping!TupleAt(n, p) \in [Zipping!Position -> Nat]
  <2>1. n - 1 \in Nat
    OBVIOUS
  <2>2. \A i : Zipping!LatestOf(layout[i], IF layout[i] = layout[p] /\ i > p THEN n - 1 ELSE n) \in Nat
    BY <1>1, <2>1
  <2> QED BY <2>2 DEF Zipping!TupleAt
<1>3. Zipping!TuplesFor(n, ps) \in Seq(TupleHere)
  <2>1. \A k \in DOMAIN ps : [n |-> n, at |-> ps[k], tup |-> Zipping!TupleAt(n, ps[k])] \in TupleHere
    <3> SUFFICES ASSUME NEW k \in DOMAIN ps
                 PROVE  [n |-> n, at |-> ps[k], tup |-> Zipping!TupleAt(n, ps[k])] \in TupleHere
      OBVIOUS
    <3>1. ps[k] \in Zipping!Position
      OBVIOUS
    <3>2. PICK t : t = Zipping!TupleAt(n, ps[k]) /\ t \in [Zipping!Position -> Nat]
      BY <1>2, <3>1
    <3> QED BY <3>1, <3>2 DEF TupleHere
  <2>2. PICK m \in Nat : DOMAIN ps = 1 .. m
    OBVIOUS
  <2>3. Zipping!TuplesFor(n, ps)
           = [k \in 1 .. m |-> [n |-> n, at |-> ps[k], tup |-> Zipping!TupleAt(n, ps[k])]]
    BY <2>2 DEF Zipping!TuplesFor
  <2>4. PICK A : A = TupleHere
    OBVIOUS
  <2> DEFINE t(k) == [n |-> n, at |-> ps[k], tup |-> Zipping!TupleAt(n, ps[k])]
  <2>5. \A k \in 1 .. m : t(k) \in A
    BY <2>1, <2>2, <2>4
  <2>6. Zipping!TuplesFor(n, ps) = [k \in 1 .. m |-> t(k)]
    BY <2>3
  <2> HIDE DEF t
  <2>7. [k \in 1 .. m |-> t(k)] \in Seq(A)
    BY <2>5
  <2> QED BY <2>4, <2>6, <2>7
<1>4. Entry(n, ps) \in Seq(TupleHere)
  <2>1. PICK u : u = Zipping!TuplesFor(n, ps) /\ u \in Seq(TupleHere)
    BY <1>3
  <2>2. Keep(u, Zipping!Shown) \in Seq(TupleHere \cap Zipping!Shown)
    BY <2>1, KeptPlaces
  <2>3. Keep(u, Zipping!Shown) \in Seq(TupleHere)
    BY <2>2
  <2>4. Entry(n, ps) = Keep(u, Zipping!Shown)
    BY <2>1 DEF Entry, Zipping!Keep, Keep
  <2> QED BY <2>3, <2>4
<1> QED BY <1>2, <1>3, <1>4

(* One more value makes due what it gives. *)
AllCalled(s) == Zipping!InTheirOrder({p \in Zipping!Position : layout[p] = s})

LEMMA OlderTuples ==
    ASSUME layout \in Seq(Source), sent \in Seq(Source), NEW x \in Source, Sends(x),
           layout' = layout, kind' = kind, NEW n \in Nat, n = Len(sent)
    PROVE  \A k \in 1 .. n, ps \in Seq(Zipping!Position) : Entry(k, ps)' = Entry(k, ps)
<1>1. Zipping!Position' = Zipping!Position /\ Zipping!Shown' = Zipping!Shown
  BY DEF Zipping!Position, Zipping!Shown
<1>2. \A s \in Source, m \in 0 .. n : Zipping!LatestOf(s, m)' = Zipping!LatestOf(s, m)
  BY LatestNext
<1>3. ASSUME NEW k \in 1 .. n, NEW p \in Zipping!Position
      PROVE  Zipping!TupleAt(k, p)' = Zipping!TupleAt(k, p)
  <2>1. k \in 0 .. n /\ k - 1 \in 0 .. n
    OBVIOUS
  <2>2. ASSUME NEW i \in Zipping!Position
        PROVE  Zipping!LatestOf(layout[i], IF layout[i] = layout[p] /\ i > p THEN k - 1 ELSE k)'
               = Zipping!LatestOf(layout[i], IF layout[i] = layout[p] /\ i > p THEN k - 1 ELSE k)
    <3>1. PICK s \in Source : s = layout[i]
      BY DEF Zipping!Position
    <3>2. PICK m \in 0 .. n : m = IF layout[i] = layout[p] /\ i > p THEN k - 1 ELSE k
      BY <2>1
    <3>3. Zipping!LatestOf(s, m)' = Zipping!LatestOf(s, m)
      BY <1>2
    <3> QED BY <3>1, <3>2, <3>3
  <2> QED BY <1>1, <2>2 DEF Zipping!TupleAt
<1>4. ASSUME NEW k \in 1 .. n, NEW ps \in Seq(Zipping!Position)
      PROVE  Zipping!TuplesFor(k, ps)' = Zipping!TuplesFor(k, ps)
  <2>1. \A j \in DOMAIN ps : Zipping!TupleAt(k, ps[j])' = Zipping!TupleAt(k, ps[j])
    BY <1>3
  <2> QED BY <2>1 DEF Zipping!TuplesFor
<1> QED BY <1>1, <1>4 DEF Entry

OneLonger(v, u, e, n) ==
    /\ v = [k \in 1 .. n + 1 |-> v[k]]
    /\ v[n + 1] = e /\ \A k \in 1 .. n : v[k] = u[k]

LEMMA AppendedIs ==
    ASSUME NEW B, NEW u \in Seq(B), NEW e \in B, NEW n \in Nat, n = Len(u), NEW v, OneLonger(v, u, e, n)
    PROVE  v = Append(u, e)
<1> DEFINE r == Append(u, e)
<1>2. /\ DOMAIN r = 1 .. n + 1 /\ r[n + 1] = e /\ r \in Seq(B)
      /\ \A k \in 1 .. n : r[k] = u[k]
  BY Grown
<1> HIDE DEF r
<1>3. r = [k \in 1 .. n + 1 |-> r[k]]
  BY <1>2
<1>4. ASSUME NEW k \in 1 .. n + 1 PROVE r[k] = v[k]
  <2>1. v[n + 1] = e /\ \A j \in 1 .. n : v[j] = u[j]
    BY DEF OneLonger
  <2>2. k \in 1 .. n \/ k = n + 1
    OBVIOUS
  <2> QED BY <1>2, <2>1, <2>2
<1>5. v = [k \in 1 .. n + 1 |-> v[k]]
  BY DEF OneLonger
<1>6. v = r
  BY <1>3, <1>4, <1>5
<1> QED BY <1>6 DEF r

LEMMA DueGrows ==
    ASSUME layout \in Seq(Source), sent \in Seq(Source), NEW x \in Source, Sends(x), made <= Len(sent),
           layout' = layout, kind' = kind, made' = made, made \in Nat, NEW n \in Nat, n = Len(sent)
    PROVE  Zipping!Due' = Zipping!Due \o Entry(n + 1, AllCalled(x))'
<1> DEFINE ss == [k \in DOMAIN sent |-> IF k > made THEN Entry(k, AllCalled(sent[k])) ELSE <<>>]
<1>1. Zipping!Due = Zipping!FlattenSeq(ss) /\ Zipping!Due' = Zipping!FlattenSeq(ss')
  BY DEF Zipping!Due, Entry, AllCalled
<1>2. Zipping!Position' = Zipping!Position /\ \A s : AllCalled(s)' = AllCalled(s)
  BY DEF Zipping!Position, AllCalled, Zipping!InTheirOrder
<1>3. \A s : AllCalled(s) \in Seq(Zipping!Position)
  <2>1. \A S : Zipping!InTheirOrder(S) \in Seq(Zipping!Position)
    BY PlacesInOrder
  <2> QED BY <2>1 DEF AllCalled
<1>4. /\ DOMAIN sent = 1 .. n /\ DOMAIN sent' = 1 .. n + 1
      /\ sent'[n + 1] = x /\ \A i \in 1 .. n : sent'[i] = sent[i]
  BY Grown DEF Sends
<1>5. PICK A : A = TupleHere
  OBVIOUS
<1>6. AreTuples /\ AreTuples'
  <2>1. (layout \in Seq(Source))'
    OBVIOUS
  <2>2. AreTuples'
    BY <2>1, TuplesType, PTL
  <2> QED BY <2>2, TuplesType
<1>7. ASSUME NEW k \in 1 .. n
      PROVE  /\ ss[k] \in Seq(A) /\ ss'[k] = ss[k]
  <2>1. ss[k] = IF k > made THEN Entry(k, AllCalled(sent[k])) ELSE <<>>
    BY <1>4
  <2>2. ss'[k] = IF k > made THEN Entry(k, AllCalled(sent[k]))' ELSE <<>>
    BY <1>4
  <2>3. PICK ps \in Seq(Zipping!Position) : ps = AllCalled(sent[k])
    BY <1>3
  <2>4. Entry(k, ps)' = Entry(k, ps) /\ Entry(k, ps) \in Seq(A)
    <3>1. Entry(k, ps) \in Seq(A)
      BY <1>5, <1>6 DEF AreTuples
    <3>2. \A j \in 1 .. n, qs \in Seq(Zipping!Position) : Entry(j, qs)' = Entry(j, qs)
      BY OlderTuples
    <3> QED BY <3>1, <3>2
  <2>5. ps = AllCalled(sent[k])'
    BY <1>2, <1>4, <2>3
  <2> QED BY <2>1, <2>2, <2>3, <2>4, <2>5
<1>8. PICK e : e = Entry(n + 1, AllCalled(x))' /\ e \in Seq(A)
  <2>1. PICK ps \in Seq(Zipping!Position) : ps = AllCalled(x) /\ ps = AllCalled(x)'
    BY <1>2, <1>3
  <2>2. Entry(n + 1, ps)' \in Seq(TupleHere')
    BY <1>2, <1>6 DEF AreTuples
  <2>3. TupleHere' = TupleHere
    BY <1>2 DEF TupleHere
  <2> QED BY <1>5, <2>1, <2>2, <2>3
<1>9. ss'[n + 1] = e
  BY <1>4, <1>8
<1>10. /\ ss = [k \in 1 .. n |-> ss[k]] /\ ss' = [k \in 1 .. n + 1 |-> ss'[k]]
  BY <1>4
<1> HIDE DEF ss
<1>11. PICK u : u = ss
  OBVIOUS
<1>12. u \in Seq(Seq(A)) /\ Len(u) = n
  BY <1>7, <1>10, <1>11
<1>13. ss' = Append(u, e)
  <2>1. PICK v : v = ss'
    OBVIOUS
  <2>2. OneLonger(v, u, e, n)
    BY <1>7, <1>9, <1>10, <1>11, <2>1 DEF OneLonger
  <2>3. PICK B : B = Seq(A)
    OBVIOUS
  <2>4. u \in Seq(B) /\ Len(u) = n /\ e \in B
    BY <1>8, <1>12, <2>3
  <2>5. v = Append(u, e)
    BY <2>2, <2>4, AppendedIs
  <2> QED BY <2>1, <2>5
<1>14. FlattenSeq(Append(u, e)) = FlattenSeq(u) \o e
  BY <1>8, <1>12, FlattenAppend
<1>15. Zipping!FlattenSeq(u) = FlattenSeq(u) /\ Zipping!FlattenSeq(Append(u, e)) = FlattenSeq(Append(u, e))
  BY DEF Zipping!FlattenSeq, FlattenSeq
<1> QED BY <1>1, <1>8, <1>11, <1>13, <1>14, <1>15

-----------------------------------------------------------------------------
(* All that listens to a source that lives is called, in the order of the positions. *)
Called(s) == Zipping!InTheirOrder({p \in connected : layout[p] = s})
Emits(s) ==
    walks' = IF Called(s) = <<>> THEN walks
             ELSE Append(walks, [n |-> Len(sent) + 1, rest |-> Called(s), busy |-> FALSE])

LEMMA AllAreCalled ==
    ASSUME ZipTypes, Links, NEW s \in Source, s \notin over
    PROVE  /\ Called(s) \in Seq(Zipping!Position)
           /\ kind # "zip" => Called(s) = AllCalled(s)
           /\ Called(s) # <<>> => ~ended
           /\ \A j, k \in DOMAIN Called(s) : j < k => Called(s)[j] < Called(s)[k]
           /\ \A p \in Zipping!Position :
                 layout[p] = s /\ (kind # "zip" \/ ~ended) => \E k \in DOMAIN Called(s) : Called(s)[k] = p
           /\ \A k \in DOMAIN Called(s) : layout[Called(s)[k]] = s
<1> DEFINE S == {p \in connected : layout[p] = s}
           R == {p \in Zipping!Position : layout[p] = s}
<1>1. layout \in Seq(Source) /\ connected \subseteq Zipping!Position /\ ended \in BOOLEAN
  BY DEF ZipTypes
<1>2. kind # "zip" => \A p \in Zipping!Position : layout[p] = s => ~ended
  BY DEF Links
<1>3. \A p \in Zipping!Position : layout[p] = s /\ (kind # "zip" \/ ~ended) => p \in connected
  BY <1>2 DEF Links
<1>4. S \subseteq connected /\ (ended => S = {})
  BY DEF Links
<1>5. kind # "zip" => S = R
  BY <1>1, <1>3
<1>6. Called(s) = Zipping!InTheirOrder(S) /\ AllCalled(s) = Zipping!InTheirOrder(R)
  BY DEF Called, AllCalled
<1>7. PICK c : c = Zipping!InTheirOrder(S)
  OBVIOUS
<1>8. /\ c \in Seq(Zipping!Position)
      /\ \A j, k \in DOMAIN c : j < k => c[j] < c[k]
      /\ \A k \in DOMAIN c : c[k] \in S
      /\ \A p \in Zipping!Position : p \in S => \E k \in DOMAIN c : c[k] = p
  <2> HIDE DEF S
  <2> QED BY <1>1, <1>7, PlacesInOrder
<1>9. c # <<>> => ~ended
  <2> HIDE DEF S
  <2> SUFFICES ASSUME c # <<>>, ended PROVE FALSE
    OBVIOUS
  <2>1. 1 \in DOMAIN c
    BY <1>8
  <2> QED BY <1>4, <1>8, <2>1
<1>10. \A k \in DOMAIN c : layout[c[k]] = s
  BY <1>8
<1>11. \A p \in Zipping!Position : layout[p] = s /\ (kind # "zip" \/ ~ended) => \E k \in DOMAIN c : c[k] = p
  BY <1>3, <1>8
<1>12. c = Called(s) /\ (kind # "zip" => c = AllCalled(s))
  BY <1>5, <1>6, <1>7
<1> HIDE DEF S, R
<1> QED BY <1>8, <1>9, <1>10, <1>11, <1>12

LEMMA WalkAdded ==
    ASSUME ZipTypes, Links, OneAtATime, NEW s \in Source, s \notin over, Emits(s), Sends(s),
           Zipping!InUserCode, Orderly, NEW n \in Nat, n = Len(sent)
    PROVE  /\ Rest' = Called(s) /\ Rest = <<>>
           /\ walks' \in Seq(WalkHere)
           /\ \A i \in DOMAIN walks' : walks'[i].rest # <<>> =>
                 i = Len(walks') /\ walks'[i].n = n + 1 /\ ~walks'[i].busy
           /\ (\A i \in DOMAIN walks' : ~walks'[i].busy) => \A i \in DOMAIN walks : ~walks[i].busy
<1>1. walks \in Seq(WalkHere) /\ Called(s) \in Seq(Zipping!Position)
  BY AllAreCalled DEF ZipTypes
<1>2. \A i \in DOMAIN walks : walks[i].rest = <<>>
  <2> SUFFICES ASSUME NEW i \in DOMAIN walks, walks[i].rest # <<>> PROVE FALSE
    OBVIOUS
  <2>1. i = Len(walks) /\ (walks[i].busy => kind # "zip" /\ listeners = {}) /\ walks # <<>>
    BY <1>1 DEF OneAtATime
  <2> QED BY <2>1 DEF Zipping!InUserCode, Zipping!Top
<1>3. Rest = <<>>
  BY <1>1, <1>2 DEF Rest, Zipping!Top
<1>4. CASE Called(s) = <<>>
  <2>1. walks' = walks
    BY <1>4 DEF Emits
  <2>2. Rest' = Rest
    BY <2>1 DEF Rest, Zipping!Top
  <2> QED BY <1>1, <1>2, <1>3, <1>4, <2>1, <2>2
<1>5. CASE Called(s) # <<>>
  <2>1. PICK w : w = [n |-> n + 1, rest |-> Called(s), busy |-> FALSE]
    OBVIOUS
  <2>2. w \in WalkHere /\ w.n = n + 1 /\ w.rest = Called(s) /\ ~w.busy
    BY <1>1, <2>1 DEF WalkHere
  <2>3. PICK m \in Nat : m = Len(walks)
    BY <1>1
  <2>4. PICK u : u = walks'
    OBVIOUS
  <2>5. u = Append(walks, w)
    BY <1>5, <2>1, <2>4 DEF Emits
  <2>6. /\ u \in Seq(WalkHere) /\ Len(u) = m + 1 /\ DOMAIN u = 1 .. m + 1
        /\ u[m + 1] = w /\ (\A i \in 1 .. m : u[i] = walks[i]) /\ DOMAIN walks = 1 .. m
    <3>1. Append(walks, w) \in Seq(WalkHere)
      BY <1>1, <2>2
    <3> QED BY <1>1, <2>2, <2>3, <2>5, <3>1, Grown
  <2>7. Rest' = w.rest
    <3>1. u # <<>>
      BY <2>6
    <3> QED BY <2>4, <2>6, <3>1 DEF Rest, Zipping!Top
  <2>8. \A i \in DOMAIN u : i \in 1 .. m \/ i = m + 1
    BY <2>6
  <2>9. \A i \in DOMAIN u : u[i].rest # <<>> => i = Len(u) /\ u[i].n = n + 1 /\ ~u[i].busy
    BY <1>2, <2>2, <2>6, <2>8
  <2>10. (\A i \in DOMAIN u : ~u[i].busy) => \A i \in DOMAIN walks : ~walks[i].busy
    BY <2>6
  <2> QED BY <1>3, <2>2, <2>4, <2>6, <2>7, <2>9, <2>10
<1> QED BY <1>4, <1>5

-----------------------------------------------------------------------------
LEMMA ZipHears ==
    ASSUME ZipHolds, NEW s \in Source, Zipping!SourceEmits(s), kind \in ZipKinds
    PROVE  ZipHolds'
<1>1. /\ UNCHANGED <<kind, listeners, layout, made, outs, results, numReady, latest, primed>>
      /\ UNCHANGED <<over, ended, connected>>
      /\ s \notin over /\ Zipping!InUserCode
  BY DEF Zipping!SourceEmits, Zipping!fixed
<1>2. Sends(s) /\ Emits(s)
  BY DEF Zipping!SourceEmits, Sends, Emits, Called
<1>3. /\ ZipTypes /\ Links /\ OneAtATime /\ sent \in Seq(Source) /\ layout \in Seq(Source)
      /\ made \in Nat /\ made <= Len(sent) /\ kind \in {"zip", "ziplatest", "ziplatestfull"}
      /\ outs \in Seq(TupleHere) /\ results \in [Zipping!Position -> Seq(Nat)]
  BY DEF ZipHolds, ZipTypes
<1>4. PICK n \in Nat : n = Len(sent)
  BY <1>3
<1>5. /\ sent' \in Seq(Source) /\ Len(sent') = n + 1 /\ sent'[n + 1] = s
  BY <1>2, <1>3, <1>4, Grown DEF Sends
<1>6. /\ Zipping!Position' = Zipping!Position /\ (Orderly' <=> Orderly)
      /\ WalkHere' = WalkHere /\ TupleHere' = TupleHere
  <2>1. Zipping!Position' = Zipping!Position
    BY <1>1 DEF Zipping!Position
  <2> QED BY <1>1, <2>1 DEF Orderly, WalkHere, TupleHere
<1>7. ASSUME NEW p \in Zipping!Position
      PROVE  /\ Vals(p) \in Seq(Nat)
             /\ Vals(p)' = IF layout[p] = s THEN Append(Vals(p), n + 1) ELSE Vals(p)
  <2>1. PICK t \in Source : t = layout[p] /\ t = layout'[p]
    BY <1>1, <1>3 DEF Zipping!Position
  <2>2. /\ Zipping!ValuesOf(t) \in Seq(Nat)
        /\ Zipping!ValuesOf(t)' = IF s = t THEN Append(Zipping!ValuesOf(t), Len(sent) + 1)
                                  ELSE Zipping!ValuesOf(t)
    BY <1>1, <1>2, <1>3, ValuesGrow
  <2>3. Vals(p) = Zipping!ValuesOf(t) /\ Vals(p)' = Zipping!ValuesOf(t)'
    BY <2>1 DEF Vals
  <2> QED BY <1>4, <2>1, <2>2, <2>3
<1>8. /\ Called(s) \in Seq(Zipping!Position)
      /\ kind # "zip" => Called(s) = AllCalled(s)
      /\ Called(s) # <<>> => ~ended
      /\ \A j, k \in DOMAIN Called(s) : j < k => Called(s)[j] < Called(s)[k]
      /\ \A p \in Zipping!Position :
            layout[p] = s /\ (kind # "zip" \/ ~ended) => \E k \in DOMAIN Called(s) : Called(s)[k] = p
      /\ \A k \in DOMAIN Called(s) : layout[Called(s)[k]] = s
  BY <1>1, <1>3, AllAreCalled
<1>9. Orderly =>
         /\ Rest' = Called(s) /\ Rest = <<>>
         /\ \A i \in DOMAIN walks' : walks'[i].rest # <<>> =>
               i = Len(walks') /\ walks'[i].n = n + 1 /\ ~walks'[i].busy
         /\ (\A i \in DOMAIN walks' : ~walks'[i].busy) => \A i \in DOMAIN walks : ~walks[i].busy
  BY <1>1, <1>2, <1>3, <1>4, WalkAdded
<1>10. walks' \in Seq(WalkHere)
  <2>1. walks \in Seq(WalkHere)
    BY <1>3 DEF ZipTypes
  <2>2. PICK w : w = [n |-> n + 1, rest |-> Called(s), busy |-> FALSE]
    OBVIOUS
  <2>3. w \in WalkHere
    BY <1>8, <2>2 DEF WalkHere
  <2>4. walks' = walks \/ walks' = Append(walks, w)
    BY <1>2, <1>4, <2>2 DEF Emits
  <2>5. Append(walks, w) \in Seq(WalkHere)
    BY <2>1, <2>3
  <2> QED BY <2>1, <2>4, <2>5
<1>11. Orderly => \A p : Pending(p)' <=> \E k \in DOMAIN Called(s) : Called(s)[k] = p
  BY <1>9 DEF Pending
<1>12. Orderly => \A p : ~Pending(p)
  BY <1>9 DEF Pending
<1>13. ZipTypes'
  BY <1>1, <1>3, <1>4, <1>5, <1>6, <1>10 DEF ZipTypes
<1>14. Links'
  BY <1>1, <1>3, <1>6 DEF Links
<1>15. OneAtATime'
  <2> SUFFICES ASSUME Orderly PROVE OneAtATime'
    BY <1>6 DEF OneAtATime
  <2>1. \A i \in DOMAIN walks' : walks'[i].rest # <<>> =>
           /\ i = Len(walks') /\ walks'[i].n = Len(sent')
           /\ walks'[i].busy => kind' # "zip" /\ listeners' = {}
    BY <1>5, <1>9
  <2>2. Rest' # <<>> => Len(sent') > made' /\ (kind' = "zip" => ~ended')
    BY <1>1, <1>3, <1>4, <1>5, <1>8, <1>9
  <2>3. \A j, k \in DOMAIN Rest' : j < k => Rest'[j] < Rest'[k]
    BY <1>8, <1>9
  <2>4. \A k \in DOMAIN Rest' : layout'[Rest'[k]] = sent'[Len(sent')]
    BY <1>1, <1>5, <1>8, <1>9
  <2>5. ASSUME NEW k \in DOMAIN Rest', NEW p \in Zipping!Position, layout[p] = layout[Rest'[k]]
        PROVE  Pending(p)'
    <3>1. layout[p] = s /\ ~ended
      BY <1>8, <1>9, <2>5
    <3>2. \E j \in DOMAIN Called(s) : Called(s)[j] = p
      BY <1>8, <3>1
    <3> QED BY <1>11, <3>2
  <2> QED BY <1>1, <1>6, <2>1, <2>2, <2>3, <2>4, <2>5 DEF OneAtATime
<1>16. ZipQueues'
  <2> SUFFICES ASSUME kind = "zip" PROVE ZipQueues'
    BY <1>1 DEF ZipQueues
  <2>1. Orderly /\ ZipQueues
    BY DEF Orderly, ZipHolds
  <2>2. ASSUME ~ended, NEW p \in Zipping!Position PROVE Keeps(p)'
    <3>1. Keeps(p) /\ PendingNow(p) = 0
      BY <1>12, <2>1, <2>2 DEF ZipQueues, PendingNow
    <3>2. PICK v \in Seq(Nat) : v = Vals(p)
      BY <1>7
    <3>3. PICK o \in Nat : o = Len(outs)
      BY <1>3
    <3>4. PICK r \in Seq(Nat) : r = results[p]
      BY <1>3
    <3>5. Len(v) = o + Len(r) /\ \A k \in DOMAIN r : r[k] = v[o + k]
      BY <3>1, <3>2, <3>3, <3>4 DEF Keeps
    <3>6. CASE layout[p] = s
      <4>1. Pending(p)'
        BY <1>8, <1>11, <2>1, <2>2, <3>6
      <4>2. PICK u : u = Append(v, n + 1)
        OBVIOUS
      <4>3. Len(u) = Len(v) + 1 /\ \A i \in 1 .. Len(v) : u[i] = v[i]
        BY <3>2, <4>2, Grown
      <4>4. \A k \in DOMAIN r : o + k \in 1 .. Len(v)
        BY <3>5
      <4>5. Vals(p)' = u
        BY <1>7, <3>2, <3>6, <4>2
      <4> QED BY <1>1, <3>3, <3>4, <3>5, <4>1, <4>3, <4>4, <4>5 DEF Keeps, PendingNow
    <3>7. CASE layout[p] # s
      <4>1. ~Pending(p)'
        BY <1>8, <1>11, <2>1, <3>7
      <4>2. Vals(p)' = v
        BY <1>7, <3>2, <3>7
      <4> QED BY <1>1, <3>3, <3>4, <3>5, <4>1, <4>2 DEF Keeps, PendingNow
    <3> QED BY <3>6, <3>7
  <2>3. ASSUME NEW k \in DOMAIN outs PROVE Gave(k)'
    <3>1. Gave(k) /\ k \in Nat \ {0}
      BY <1>3, <2>1 DEF ZipQueues
    <3>2. ASSUME NEW p \in Zipping!Position
          PROVE  k <= Len(Vals(p)') /\ outs[k].tup[p] = Vals(p)'[k]
      <4>1. PICK v \in Seq(Nat) : v = Vals(p)
        BY <1>7
      <4>2. k \in 1 .. Len(v) /\ outs[k].tup[p] = v[k]
        BY <3>1, <4>1 DEF Gave
      <4>3. Len(Append(v, n + 1)) = Len(v) + 1 /\ \A i \in 1 .. Len(v) : Append(v, n + 1)[i] = v[i]
        BY <4>1, Grown
      <4>4. Vals(p)' = v \/ Vals(p)' = Append(v, n + 1)
        BY <1>7, <4>1
      <4> QED BY <4>2, <4>3, <4>4
    <3> QED BY <1>1, <1>6, <3>2 DEF Gave
  <2>4. ASSUME NEW p \in Zipping!Position, Pending(p)'
        PROVE  Vals(p)' # <<>> /\ Vals(p)'[Len(Vals(p)')] = Len(sent')
    <3>1. layout[p] = s
      BY <1>8, <1>11, <2>1, <2>4
    <3>2. PICK v \in Seq(Nat) : v = Vals(p)
      BY <1>7
    <3>3. Vals(p)' = Append(v, n + 1)
      BY <1>7, <3>1, <3>2
    <3>4. Append(v, n + 1) # <<>> /\ Append(v, n + 1)[Len(Append(v, n + 1))] = n + 1
      BY <3>2
    <3> QED BY <1>5, <3>3, <3>4
  <2> QED BY <1>1, <1>6, <2>2, <2>3, <2>4 DEF ZipQueues
<1>17. ZipCounts'
  <2>1. ZipCounts
    BY DEF ZipHolds
  <2> QED BY <1>1, <1>6, <2>1 DEF ZipCounts
<1>18. ZipEnds'
  <2> SUFFICES ASSUME kind = "zip" PROVE ZipEnds'
    BY <1>1 DEF ZipEnds
  <2>1. Orderly /\ ZipEnds
    BY DEF Orderly, ZipHolds
  <2>2. ASSUME NEW p \in Zipping!Position, layout[p] \in over PROVE Vals(p)' = Vals(p)
    BY <1>1, <1>7, <2>2
  <2> QED BY <1>1, <1>6, <1>9, <2>1, <2>2 DEF ZipEnds
<1>19. ZipLatest'
  <2> SUFFICES ASSUME kind # "zip", Orderly PROVE ZipLatest'
    BY <1>1, <1>6 DEF ZipLatest
  <2>1. ZipLatest
    BY DEF ZipHolds
  <2>2. ASSUME NEW p \in Zipping!Position
        PROVE  latest[p] = Zipping!LatestOf(layout[p], IF Pending(p) THEN Len(sent) - 1 ELSE Len(sent))'
    <3>1. PICK t \in Source : t = layout[p] /\ t = layout'[p]
      BY <1>1, <1>3 DEF Zipping!Position
    <3>2. latest[p] = Zipping!LatestOf(t, n)
      BY <1>4, <1>12, <2>1, <3>1 DEF ZipLatest
    <3>3. /\ Zipping!LatestOf(t, n)' = Zipping!LatestOf(t, n)
          /\ t # s => Zipping!LatestOf(t, n + 1)' = Zipping!LatestOf(t, n)
      BY <1>2, <1>3, <1>4, LatestNext
    <3>4. Pending(p)' <=> t = s
      BY <1>8, <1>11, <3>1
    <3>5. PICK m \in Nat : m = IF Pending(p)' THEN Len(sent)' - 1 ELSE Len(sent)'
      BY <1>4, <1>5
    <3>6. latest[p] = Zipping!LatestOf(t, m)'
      BY <1>4, <1>5, <3>2, <3>3, <3>4, <3>5
    <3> QED BY <3>1, <3>5, <3>6
  <2>3. Zipping!Due' = Zipping!Due \o Entry(n + 1, AllCalled(s))'
    BY <1>1, <1>2, <1>3, <1>4, DueGrows
  <2>4. Zipping!Due = outs
    <3>1. Zipping!TuplesFor(Len(sent), <<>>) = <<>>
      BY DEF Zipping!TuplesFor
    <3>2. Keep(<<>>, Zipping!Shown) = <<>>
      BY KeepNone
    <3>3. Zipping!Keep(<<>>, Zipping!Shown) = Keep(<<>>, Zipping!Shown)
      BY DEF Zipping!Keep, Keep
    <3>4. Zipping!Due = outs \o Zipping!Keep(Zipping!TuplesFor(Len(sent), Rest), Zipping!Shown)
      BY <2>1 DEF ZipLatest
    <3> QED BY <1>3, <1>9, <3>1, <3>2, <3>3, <3>4
  <2>5. Entry(n + 1, AllCalled(s))' = Entry(Len(sent), Rest)'
    <3>1. AllCalled(s)' = AllCalled(s)
      BY <1>1, <1>6 DEF AllCalled, Zipping!InTheirOrder
    <3> QED BY <1>5, <1>8, <1>9, <3>1
  <2>6. Zipping!Due' = outs' \o Zipping!Keep(Zipping!TuplesFor(Len(sent), Rest), Zipping!Shown)'
    BY <1>1, <2>3, <2>4, <2>5 DEF Entry
  <2>7. \A p \in Zipping!Position' :
           latest'[p] = Zipping!LatestOf(layout[p], IF Pending(p) THEN Len(sent) - 1 ELSE Len(sent))'
    BY <1>1, <1>6, <2>2
  <2>8. /\ kind = "ziplatest" => primed'
        /\ kind = "ziplatestfull" /\ primed' => \A p \in Zipping!Position : latest'[p] # 0
    BY <1>1, <2>1 DEF ZipLatest
  <2> QED BY <1>1, <1>6, <2>6, <2>7, <2>8 DEF ZipLatest
<1> QED BY <1>13, <1>14, <1>15, <1>16, <1>17, <1>18, <1>19 DEF ZipHolds

-----------------------------------------------------------------------------
Calls(p, n) ==
    /\ walks # <<>> /\ Rest # <<>> /\ Rest = Zipping!Top.rest
    /\ ~Zipping!Top.busy
    /\ p = Head(Rest) /\ n = Zipping!Top.n

LEMMA TheCalled ==
    ASSUME ZipTypes, Zipping!Deliver
    PROVE  /\ \E p \in Zipping!Position, n \in Nat : Calls(p, n)
           /\ Rest \in Seq(Zipping!Position) /\ Rest' = Tail(Rest) /\ Rest # <<>>
           /\ walks' \in Seq(WalkHere) /\ Len(walks') = Len(walks)
           /\ DOMAIN walks' = 1 .. Len(walks) /\ DOMAIN walks = 1 .. Len(walks) /\ Len(walks) \in DOMAIN walks
           /\ \A i \in DOMAIN walks : i # Len(walks) => walks'[i] = walks[i]
           /\ walks'[Len(walks)].n = Zipping!Top.n /\ walks'[Len(walks)].rest = Rest'
           /\ walks'[Len(walks)].busy <=> outs' # outs
<1>0. PICK b \in BOOLEAN : b = (outs' # outs)
  OBVIOUS
<1> DEFINE w == [Zipping!Top EXCEPT !.rest = Tail(@), !.busy = b]
<1>1. /\ walks # <<>> /\ Zipping!Top.rest # <<>> /\ ~Zipping!Top.busy
      /\ walks' = [walks EXCEPT ![Len(walks)] = w]
  <2>1. walks # <<>> /\ Zipping!Top.rest # <<>> /\ ~Zipping!Top.busy
    BY DEF Zipping!Deliver
  <2>2. walks' = [walks EXCEPT ![Len(walks)] = [Zipping!Top EXCEPT !.rest = Tail(@), !.busy = (outs' # outs)]]
    BY DEF Zipping!Deliver
  <2>3. walks' = [walks EXCEPT ![Len(walks)] = [Zipping!Top EXCEPT !.rest = Tail(@), !.busy = b]]
    BY <1>0, <2>2
  <2> QED BY <2>1, <2>3
<1>2. walks \in Seq(WalkHere) /\ Len(walks) \in DOMAIN walks /\ DOMAIN walks = 1 .. Len(walks)
  BY <1>1 DEF ZipTypes
<1>3. Zipping!Top \in WalkHere /\ Zipping!Top = walks[Len(walks)]
  BY <1>2 DEF Zipping!Top
<1>4. Rest = Zipping!Top.rest /\ Rest \in Seq(Zipping!Position) /\ Zipping!Top.n \in Nat
  BY <1>1, <1>3 DEF Rest, WalkHere
<1>5. Head(Rest) \in Zipping!Position /\ Tail(Rest) \in Seq(Zipping!Position)
  BY <1>1, <1>4
<1>6. w \in WalkHere /\ w.n = Zipping!Top.n /\ w.rest = Tail(Rest) /\ (w.busy <=> outs' # outs)
  <2>2. PICK t : t = Zipping!Top
    OBVIOUS
  <2>3. PICK r \in Seq(Zipping!Position) : r = Tail(Rest)
    BY <1>5
  <2>4. t \in [n : Nat, rest : Seq(Zipping!Position), busy : BOOLEAN]
    BY <1>3, <2>2 DEF WalkHere
  <2>5. w = [t EXCEPT !.rest = r, !.busy = b]
    BY <1>3, <1>4, <2>2, <2>3
  <2>6. [t EXCEPT !.rest = r, !.busy = b] \in [n : Nat, rest : Seq(Zipping!Position), busy : BOOLEAN]
    BY <2>4
  <2>7. /\ [t EXCEPT !.rest = r, !.busy = b].n = t.n
        /\ [t EXCEPT !.rest = r, !.busy = b].rest = r
        /\ [t EXCEPT !.rest = r, !.busy = b].busy = b
    BY <2>4
  <2> HIDE DEF w
  <2> QED BY <1>0, <2>2, <2>3, <2>5, <2>6, <2>7 DEF WalkHere
<1>7. OtherEnd(walks', walks, w, WalkHere)
  <2>1. Replaces(walks', walks, w)
    BY <1>1 DEF Replaces
  <2> HIDE DEF w
  <2> QED BY <1>1, <1>2, <1>6, <2>1, LastReplaced
<1> HIDE DEF w
<1>8. /\ walks' \in Seq(WalkHere) /\ Len(walks') = Len(walks) /\ DOMAIN walks' = DOMAIN walks
      /\ walks' # <<>> /\ walks'[Len(walks)] = w
      /\ \A i \in DOMAIN walks : i # Len(walks) => walks'[i] = walks[i]
  BY <1>7 DEF OtherEnd
<1>9. Rest' = Tail(Rest)
  BY <1>6, <1>8 DEF Rest, Zipping!Top
<1>10. \E p \in Zipping!Position, n \in Nat : Calls(p, n)
  BY <1>1, <1>4, <1>5 DEF Calls
<1> QED BY <1>1, <1>2, <1>4, <1>6, <1>8, <1>9, <1>10

LEMMA NextWaiting ==
    ASSUME ZipTypes, OneAtATime, Orderly, Zipping!Deliver, NEW p \in Zipping!Position, NEW n \in Nat,
           Calls(p, n)
    PROVE  /\ n = Len(sent) /\ n > made /\ Pending(p) /\ layout[p] = sent[n] /\ (kind = "zip" => ~ended)
           /\ \A i \in DOMAIN walks : i # Len(walks) => walks[i].rest = <<>>
           /\ \A i \in DOMAIN walks' : walks'[i].rest # <<>> =>
                 i = Len(walks') /\ walks'[i].n = Len(sent) /\ (walks'[i].busy => outs' # outs)
           /\ \A i \in Zipping!Position : Pending(i)' <=> Pending(i) /\ i # p
           /\ \A i \in Zipping!Position : Pending(i) /\ i # p => layout[i] = layout[p] /\ i > p
           /\ \A i \in Zipping!Position : layout[i] = layout[p] /\ i > p => Pending(i)
           /\ \A j, k \in DOMAIN Rest' : j < k => Rest'[j] < Rest'[k]
           /\ \A k \in DOMAIN Rest' : layout[Rest'[k]] = layout[p]
<1>0. Zipping!Position \subseteq Nat
  <2>1. layout \in Seq(Source)
    BY DEF ZipTypes
  <2> QED BY <2>1 DEF Zipping!Position
<1>1. /\ Rest \in Seq(Zipping!Position) /\ Rest' = Tail(Rest) /\ Rest # <<>>
      /\ Len(walks') = Len(walks) /\ DOMAIN walks' = 1 .. Len(walks)
      /\ DOMAIN walks = 1 .. Len(walks) /\ Len(walks) \in DOMAIN walks
      /\ \A i \in DOMAIN walks : i # Len(walks) => walks'[i] = walks[i]
      /\ walks'[Len(walks)].n = Zipping!Top.n /\ walks'[Len(walks)].rest = Rest'
      /\ walks'[Len(walks)].busy <=> outs' # outs
  BY TheCalled
<1>2. PICK r \in Seq(Zipping!Position) : r = Rest
  BY <1>1
<1>3. PICK t : t = Tail(r) /\ t = Rest'
  BY <1>1, <1>2
<1>4. /\ Len(r) \in Nat \ {0} /\ DOMAIN r = 1 .. Len(r) /\ p = r[1]
      /\ t \in Seq(Zipping!Position) /\ Len(t) = Len(r) - 1 /\ DOMAIN t = 1 .. Len(r) - 1
      /\ \A i \in 1 .. Len(r) - 1 : t[i] = r[i + 1]
  BY <1>1, <1>2, <1>3, Taken DEF Calls
<1>5. /\ walks[Len(walks)].rest # <<>> /\ walks[Len(walks)].n = n /\ walks[Len(walks)].rest = Rest
  BY <1>1 DEF Calls, Zipping!Top
<1>6. /\ \A i \in DOMAIN walks : walks[i].rest # <<>> => i = Len(walks) /\ walks[i].n = Len(sent)
      /\ Len(sent) > made /\ (kind = "zip" => ~ended)
      /\ \A j, k \in DOMAIN r : j < k => r[j] < r[k]
      /\ \A k \in DOMAIN r : layout[r[k]] = sent[Len(sent)]
      /\ \A k \in DOMAIN r, i \in Zipping!Position : i > r[k] /\ layout[i] = layout[r[k]] => Pending(i)
  BY <1>1, <1>2 DEF OneAtATime
<1>7. n = Len(sent)
  BY <1>1, <1>5, <1>6
<1>8. /\ \A i : Pending(i) <=> \E k \in DOMAIN r : r[k] = i
      /\ \A i : Pending(i)' <=> \E k \in DOMAIN t : t[k] = i
  BY <1>2, <1>3 DEF Pending
<1>9. 1 \in DOMAIN r
  BY <1>4
<1>10. \A k \in DOMAIN t : k + 1 \in DOMAIN r /\ k + 1 > 1 /\ t[k] = r[k + 1]
  BY <1>4
<1>11. ASSUME NEW i \in Zipping!Position PROVE Pending(i)' <=> Pending(i) /\ i # p
  <2>1. ASSUME NEW k \in DOMAIN t, t[k] = i PROVE Pending(i) /\ i # p
    <3>1. k + 1 \in DOMAIN r /\ r[k + 1] = i /\ r[1] < r[k + 1]
      BY <1>6, <1>9, <1>10, <2>1
    <3>2. i \in Nat /\ p \in Nat
      BY <1>0
    <3> QED BY <1>4, <1>8, <3>1, <3>2
  <2>2. ASSUME NEW k \in DOMAIN r, r[k] = i, i # p PROVE Pending(i)'
    <3>1. k - 1 \in DOMAIN t /\ t[k - 1] = i
      BY <1>4, <2>2
    <3> QED BY <1>8, <3>1
  <2> QED BY <1>8, <2>1, <2>2
<1>12. ASSUME NEW i \in Zipping!Position, Pending(i), i # p PROVE layout[i] = layout[p] /\ i > p
  <2>1. PICK k \in DOMAIN r : r[k] = i
    BY <1>8, <1>12
  <2>2. 1 < k
    BY <1>4, <1>12, <2>1
  <2>3. r[1] < r[k] /\ layout[r[k]] = layout[r[1]]
    BY <1>6, <1>9, <2>2
  <2>4. i \in Nat /\ p \in Nat
    BY <1>0
  <2> QED BY <1>4, <2>1, <2>3, <2>4
<1>13. Pending(p) /\ layout[p] = sent[n]
  BY <1>4, <1>6, <1>7, <1>8, <1>9
<1>14. ASSUME NEW i \in DOMAIN walks', walks'[i].rest # <<>>
       PROVE  i = Len(walks') /\ walks'[i].n = Len(sent) /\ (walks'[i].busy => outs' # outs)
  <2>1. CASE i = Len(walks)
    BY <1>1, <1>5, <1>7, <2>1 DEF Calls
  <2>2. CASE i # Len(walks)
    BY <1>1, <1>6, <1>14, <2>2
  <2> QED BY <2>1, <2>2
<1>15. \A j, k \in DOMAIN t : j < k => t[j] < t[k]
  <2> SUFFICES ASSUME NEW j \in DOMAIN t, NEW k \in DOMAIN t, j < k PROVE t[j] < t[k]
    OBVIOUS
  <2>1. j + 1 \in DOMAIN r /\ k + 1 \in DOMAIN r /\ j + 1 < k + 1
    BY <1>4
  <2> QED BY <1>6, <1>10, <2>1
<1>16. \A k \in DOMAIN t : layout[t[k]] = layout[p]
  BY <1>4, <1>6, <1>9, <1>10
<1>17. \A i \in Zipping!Position : layout[i] = layout[p] /\ i > p => Pending(i)
  BY <1>4, <1>6, <1>9
<1> QED BY <1>3, <1>6, <1>7, <1>11, <1>12, <1>13, <1>14, <1>15, <1>16, <1>17

-----------------------------------------------------------------------------
LEMMA CountOf ==
    ASSUME layout \in Seq(Source), NEW S \in SUBSET Zipping!Position, NEW p \in Zipping!Position
    PROVE  /\ Zipping!Cardinality(S) \in Nat
           /\ Zipping!Cardinality(S) = Len(layout) => S = Zipping!Position
           /\ p \notin S => Zipping!Cardinality(S \cup {p}) = Zipping!Cardinality(S) + 1
<1>1. \A T : Zipping!Cardinality(T) = Cardinality(T)
  BY DEF Zipping!Cardinality, Cardinality
<1>2. PICK n \in Nat : n = Len(layout) /\ Zipping!Position = 1 .. n
  BY DEF Zipping!Position
<1>3. IsFiniteSet(1 .. n) /\ Cardinality(1 .. n) = n
  BY FS_Interval
<1>4. IsFiniteSet(S) /\ (Cardinality(1 .. n) = Cardinality(S) => 1 .. n = S)
  BY <1>2, <1>3, FS_Subset
<1>5. Cardinality(S) \in Nat
  BY <1>4, FS_CardinalityType
<1>6. Cardinality(S \cup {p}) = IF p \in S THEN Cardinality(S) ELSE Cardinality(S) + 1
  BY <1>4, FS_AddElement
<1> QED BY <1>1, <1>2, <1>3, <1>4, <1>5, <1>6

(* A value is put in the queue of a position, and a tuple taken when all have one. *)
Filled(p, n) == [results EXCEPT ![p] = Append(@, n)]
Ready(p) == results[p] = <<>> /\ numReady + 1 = Len(layout)
Nonempty(r) == {i \in Zipping!Position : r[i] # <<>>}

LEMMA FillsOne ==
    ASSUME ZipTypes, ZipCounts, kind = "zip", NEW p \in Zipping!Position, NEW n \in Nat
    PROVE  /\ Filled(p, n) \in [Zipping!Position -> Seq(Nat)]
           /\ Filled(p, n)[p] = Append(results[p], n)
           /\ \A i \in Zipping!Position : i # p => Filled(p, n)[i] = results[i]
           /\ Ready(p) => \A i \in Zipping!Position : Filled(p, n)[i] # <<>>
           /\ ~Ready(p) =>
                 /\ \E i \in Zipping!Position : Filled(p, n)[i] = <<>>
                 /\ Zipping!Cardinality(Nonempty(Filled(p, n)))
                       = IF results[p] = <<>> THEN numReady + 1 ELSE numReady
<1>1. /\ results \in [Zipping!Position -> Seq(Nat)] /\ layout \in Seq(Source) /\ numReady \in Nat
      /\ numReady = Zipping!Cardinality(Nonempty(results))
      /\ \E i \in Zipping!Position : results[i] = <<>>
  BY DEF ZipTypes, ZipCounts, Nonempty
<1>2. /\ Filled(p, n) \in [Zipping!Position -> Seq(Nat)]
      /\ Filled(p, n)[p] = Append(results[p], n) /\ Append(results[p], n) # <<>>
      /\ \A i \in Zipping!Position : i # p => Filled(p, n)[i] = results[i]
  <2>1. Append(results[p], n) \in Seq(Nat) /\ Append(results[p], n) # <<>>
    <3>1. results[p] \in Seq(Nat)
      BY <1>1
    <3>2. /\ Append(results[p], n) \in Seq(Nat) /\ Len(results[p]) \in Nat
          /\ Len(Append(results[p], n)) = Len(results[p]) + 1
      BY <3>1, Grown
    <3> QED BY <3>2
  <2>2. p \in DOMAIN results
    BY <1>1
  <2>3. Filled(p, n)[p] = Append(results[p], n)
    BY <2>2 DEF Filled
  <2>4. \A i \in Zipping!Position : i # p => Filled(p, n)[i] = results[i]
    BY <1>1 DEF Filled
  <2>5. Filled(p, n) \in [Zipping!Position -> Seq(Nat)]
    BY <1>1, <2>1 DEF Filled
  <2> QED BY <2>1, <2>3, <2>4, <2>5
<1>3. Nonempty(Filled(p, n)) = Nonempty(results) \cup {p}
  BY <1>2 DEF Nonempty
<1>4. Nonempty(results) \subseteq Zipping!Position /\ (p \in Nonempty(results) <=> results[p] # <<>>)
  BY DEF Nonempty
<1>5. PICK S \in SUBSET Zipping!Position : S = Nonempty(results)
  BY <1>4
<1>6. /\ p \notin S => Zipping!Cardinality(S \cup {p}) = numReady + 1
      /\ p \in S => S \cup {p} = S
  BY <1>1, <1>5, CountOf
<1>7. S \cup {p} \in SUBSET Zipping!Position
  OBVIOUS
<1>8. Zipping!Cardinality(S \cup {p}) = Len(layout) => S \cup {p} = Zipping!Position
  BY <1>1, <1>7, CountOf
<1>9. Zipping!Cardinality(Nonempty(Filled(p, n))) = IF results[p] = <<>> THEN numReady + 1 ELSE numReady
  BY <1>1, <1>3, <1>4, <1>5, <1>6
<1>10. ASSUME Ready(p) PROVE \A i \in Zipping!Position : Filled(p, n)[i] # <<>>
  <2>1. S \cup {p} = Zipping!Position
    BY <1>4, <1>5, <1>6, <1>8, <1>10 DEF Ready
  <2> QED BY <1>3, <1>5, <2>1 DEF Nonempty
<1>11. ASSUME ~Ready(p) PROVE \E i \in Zipping!Position : Filled(p, n)[i] = <<>>
  <2>1. CASE results[p] # <<>>
    <3>1. PICK i \in Zipping!Position : results[i] = <<>>
      BY <1>1
    <3> QED BY <1>2, <2>1, <3>1
  <2>2. CASE results[p] = <<>>
    <3>1. ASSUME S \cup {p} = Zipping!Position PROVE FALSE
      <4>1. PICK m \in Nat : m = Len(layout) /\ Zipping!Position = 1 .. m
        BY <1>1 DEF Zipping!Position
      <4>2. Zipping!Cardinality(S \cup {p}) = m
        <5>1. Cardinality(1 .. m) = m
          BY FS_Interval
        <5> QED BY <3>1, <4>1, <5>1 DEF Zipping!Cardinality, Cardinality
      <4> QED BY <1>4, <1>5, <1>6, <1>11, <2>2, <4>1, <4>2 DEF Ready
    <3>2. PICK i \in Zipping!Position : i \notin S \cup {p}
      BY <3>1
    <3> QED BY <1>3, <1>5, <3>2 DEF Nonempty
  <2> QED BY <2>1, <2>2
<1> QED BY <1>2, <1>9, <1>10, <1>11

-----------------------------------------------------------------------------
Taking(p, n) ==
    /\ results' = [i \in Zipping!Position |-> Tail(Filled(p, n)[i])]
    /\ numReady' = Zipping!Cardinality(Nonempty(results'))
    /\ outs' = Append(outs, [n |-> n, at |-> p, tup |-> [i \in Zipping!Position |-> Head(Filled(p, n)[i])]])
Keeping(p, n) ==
    /\ results' = Filled(p, n)
    /\ numReady' = IF results[p] = <<>> THEN numReady + 1 ELSE numReady
    /\ outs' = outs

LEMMA Puts ==
    ASSUME NEW p \in Zipping!Position, NEW n \in Nat, Zipping!ZipPut(p, n)
    PROVE  /\ Ready(p) => Taking(p, n)
           /\ ~Ready(p) => Keeping(p, n)
           /\ latest' = latest /\ primed' = primed
<1>1. latest' = latest /\ primed' = primed
  BY DEF Zipping!ZipPut
<1>2. /\ results' = IF Ready(p) THEN [i \in Zipping!Position |-> Tail(Filled(p, n)[i])] ELSE Filled(p, n)
      /\ outs' = IF Ready(p)
                 THEN Append(outs, [n |-> n, at |-> p, tup |-> [i \in Zipping!Position |-> Head(Filled(p, n)[i])]])
                 ELSE outs
  BY DEF Zipping!ZipPut, Ready, Filled
<1>3. numReady' = IF Ready(p)
                  THEN Zipping!Cardinality({i \in Zipping!Position :
                           [j \in Zipping!Position |-> Tail(Filled(p, n)[j])][i] # <<>>})
                  ELSE IF results[p] = <<>> THEN numReady + 1 ELSE numReady
  BY DEF Zipping!ZipPut, Ready, Filled
<1>4. Ready(p) => Taking(p, n)
  BY <1>2, <1>3 DEF Taking, Nonempty
<1>5. ~Ready(p) => Keeping(p, n)
  BY <1>2, <1>3 DEF Keeping
<1> QED BY <1>1, <1>4, <1>5

(* The first of the queues with the new value are the values of the next tuple. *)
WellFilled(i, p, n) ==
    /\ Vals(i) \in Seq(Nat) /\ Filled(p, n)[i] \in Seq(Nat)
    /\ Len(Vals(i)) = Len(outs) + Len(Filled(p, n)[i]) + (IF Pending(i) /\ i # p THEN 1 ELSE 0)
    /\ \A k \in DOMAIN Filled(p, n)[i] : Filled(p, n)[i][k] = Vals(i)[Len(outs) + k]

LEMMA QueuesRight ==
    ASSUME ZipTypes, ZipQueues, ZipCounts, kind = "zip", ~ended, NEW p \in Zipping!Position, NEW n \in Nat,
           Pending(p), n = Len(sent)
    PROVE  \A i \in Zipping!Position : WellFilled(i, p, n)
<1>1. /\ Filled(p, n) \in [Zipping!Position -> Seq(Nat)]
      /\ Filled(p, n)[p] = Append(results[p], n)
      /\ \A i \in Zipping!Position : i # p => Filled(p, n)[i] = results[i]
  BY FillsOne
<1>2. results \in [Zipping!Position -> Seq(Nat)] /\ Len(outs) \in Nat /\ sent \in Seq(Source)
  BY DEF ZipTypes
<1>3. TAKE i \in Zipping!Position
<1>4. Vals(i) \in Seq(Nat) /\ Filled(p, n)[i] \in Seq(Nat)
  BY <1>1, <1>2, ValuesType DEF Vals
<1>5. Keeps(i) /\ Keeps(p)
  BY DEF ZipQueues
<1>6. CASE i # p
  BY <1>1, <1>4, <1>5, <1>6 DEF Keeps, PendingNow, WellFilled
<1>7. CASE i = p
  <2>1. PICK v \in Seq(Nat) : v = Vals(p)
    BY <1>4, <1>7
  <2>2. PICK r \in Seq(Nat) : r = results[p]
    BY <1>2
  <2>3. PICK o \in Nat : o = Len(outs)
    BY <1>2
  <2>4. Len(v) = o + Len(r) + 1 /\ \A k \in DOMAIN r : r[k] = v[o + k]
    BY <1>5, <2>1, <2>2, <2>3 DEF Keeps, PendingNow
  <2>5. v[Len(v)] = n
    BY <2>1 DEF ZipQueues
  <2>6. PICK f : f = Append(r, n)
    OBVIOUS
  <2>7. /\ f \in Seq(Nat) /\ Len(f) = Len(r) + 1 /\ DOMAIN f = 1 .. Len(r) + 1
        /\ f[Len(r) + 1] = n /\ \A k \in 1 .. Len(r) : f[k] = r[k]
    BY <2>2, <2>6, Grown
  <2>8. \A k \in DOMAIN f : f[k] = v[o + k]
    <3> SUFFICES ASSUME NEW k \in 1 .. Len(r) + 1 PROVE f[k] = v[o + k]
      BY <2>7
    <3>1. CASE k = Len(r) + 1
      <4>1. o + k = Len(v)
        BY <2>4, <3>1
      <4> QED BY <2>5, <2>7, <3>1, <4>1
    <3>2. CASE k \in 1 .. Len(r)
      <4>1. k \in DOMAIN r
        BY <2>2, <3>2
      <4> QED BY <2>4, <2>7, <3>2, <4>1
    <3> QED BY <3>1, <3>2
  <2>9. Len(v) = o + Len(f)
    BY <2>4, <2>7
  <2>10. Filled(p, n)[i] = f /\ Vals(i) = v /\ Len(outs) = o
    BY <1>1, <1>7, <2>1, <2>2, <2>3, <2>6
  <2>11. Len(v) = o + Len(f) + (IF Pending(i) /\ i # p THEN 1 ELSE 0)
    BY <1>7, <2>7, <2>9
  <2> QED BY <2>1, <2>7, <2>8, <2>10, <2>11 DEF WellFilled
<1> QED BY <1>6, <1>7

-----------------------------------------------------------------------------
LEMMA DeliverLeaves ==
    ASSUME Zipping!Deliver
    PROVE  /\ UNCHANGED <<kind, listeners, layout, made, over, connected, ended, sent>>
           /\ Zipping!Position' = Zipping!Position /\ (Orderly' <=> Orderly)
           /\ WalkHere' = WalkHere /\ TupleHere' = TupleHere
           /\ \A p : Vals(p)' = Vals(p)
<1>1. UNCHANGED <<kind, listeners, layout, made, over, connected, ended, sent>>
  BY DEF Zipping!Deliver, Zipping!fixed
<1>2. Zipping!Position' = Zipping!Position /\ \A p : Vals(p)' = Vals(p)
  BY <1>1, ZipHistory
<1> QED BY <1>1, <1>2 DEF Orderly, WalkHere, TupleHere

(* What is left of a queue whose first value is taken. *)
Shifted(r, g) ==
    /\ Len(g) \in Nat \ {0} /\ Len(r) = Len(g) - 1 /\ DOMAIN r = 1 .. Len(g) - 1
    /\ \A k \in DOMAIN r : r[k] = g[k + 1] /\ k + 1 \in DOMAIN g

LEMMA ZipDelivers ==
    ASSUME ZipHolds, Zipping!Deliver, kind = "zip", kind \in ZipKinds
    PROVE  ZipHolds'
<1>1. /\ UNCHANGED <<kind, listeners, layout, made, over, connected, ended, sent>>
      /\ Zipping!Position' = Zipping!Position /\ (Orderly' <=> Orderly)
      /\ WalkHere' = WalkHere /\ TupleHere' = TupleHere
      /\ \A p : Vals(p)' = Vals(p)
  BY DeliverLeaves
<1>2. /\ ZipTypes /\ Links /\ OneAtATime /\ ZipQueues /\ ZipCounts /\ ZipEnds /\ Orderly
      /\ layout \in Seq(Source) /\ outs \in Seq(TupleHere) /\ numReady \in Nat
      /\ results \in [Zipping!Position -> Seq(Nat)]
  BY DEF ZipHolds, ZipTypes, Orderly
<1>3. PICK p \in Zipping!Position, n \in Nat : Calls(p, n)
  BY <1>2, TheCalled
<1>4. /\ walks' \in Seq(WalkHere) /\ Len(walks') = Len(walks)
      /\ DOMAIN walks' = 1 .. Len(walks) /\ DOMAIN walks = 1 .. Len(walks) /\ Len(walks) \in DOMAIN walks
      /\ \A i \in DOMAIN walks : i # Len(walks) => walks'[i] = walks[i]
      /\ walks'[Len(walks)].rest = Rest'
      /\ walks'[Len(walks)].busy <=> outs' # outs
      /\ Rest' \in Seq(Zipping!Position)
  <2>1. Rest' = Tail(Rest) /\ Rest \in Seq(Zipping!Position) /\ Rest # <<>>
    BY <1>2, TheCalled
  <2>2. Rest' \in Seq(Zipping!Position)
    BY <2>1, Taken
  <2> QED BY <1>2, <2>2, TheCalled
<1>5. /\ n = Len(sent) /\ n > made /\ Pending(p) /\ layout[p] = sent[n] /\ ~ended
      /\ \A i \in DOMAIN walks' : walks'[i].rest # <<>> =>
            i = Len(walks') /\ walks'[i].n = Len(sent) /\ (walks'[i].busy => outs' # outs)
      /\ \A i \in Zipping!Position : Pending(i)' <=> Pending(i) /\ i # p
      /\ \A i \in Zipping!Position : Pending(i) /\ i # p => layout[i] = layout[p] /\ i > p
      /\ \A i \in Zipping!Position : layout[i] = layout[p] /\ i > p => Pending(i)
      /\ \A j, k \in DOMAIN Rest' : j < k => Rest'[j] < Rest'[k]
      /\ \A k \in DOMAIN Rest' : layout[Rest'[k]] = layout[p]
  BY <1>2, <1>3, NextWaiting
<1>6. /\ Ready(p) => Taking(p, n)
      /\ ~Ready(p) => Keeping(p, n)
      /\ latest' = latest /\ primed' = primed
  <2>1. Zipping!ZipPut(p, n)
    BY <1>3 DEF Zipping!Deliver, Calls
  <2> QED BY <2>1, Puts
<1>7. /\ Filled(p, n) \in [Zipping!Position -> Seq(Nat)]
      /\ Filled(p, n)[p] = Append(results[p], n)
      /\ Ready(p) => \A i \in Zipping!Position : Filled(p, n)[i] # <<>>
      /\ ~Ready(p) =>
            /\ \E i \in Zipping!Position : Filled(p, n)[i] = <<>>
            /\ Zipping!Cardinality(Nonempty(Filled(p, n)))
                  = IF results[p] = <<>> THEN numReady + 1 ELSE numReady
  BY <1>2, FillsOne
<1>8. PICK f \in [Zipping!Position -> Seq(Nat)] : f = Filled(p, n)
  BY <1>7
<1>9. \A i \in Zipping!Position :
         /\ Vals(i) \in Seq(Nat)
         /\ Len(Vals(i)) = Len(outs) + Len(f[i]) + (IF Pending(i)' THEN 1 ELSE 0)
         /\ \A k \in DOMAIN f[i] : f[i][k] = Vals(i)[Len(outs) + k]
  <2> TAKE i \in Zipping!Position
  <2>1. WellFilled(i, p, n)
    BY <1>2, <1>5, QueuesRight
  <2>2. Pending(i)' <=> Pending(i) /\ i # p
    BY <1>5
  <2> QED BY <1>8, <2>1, <2>2 DEF WellFilled
<1>10. PICK o \in Nat : o = Len(outs)
  BY <1>2
<1>11. Ready(p) =>
          /\ results' \in [Zipping!Position -> Seq(Nat)]
          /\ \A i \in Zipping!Position : Shifted(results'[i], f[i])
          /\ outs' \in Seq(TupleHere) /\ Len(outs') = o + 1 /\ outs' # outs
          /\ \A k \in 1 .. o : outs'[k] = outs[k]
          /\ \A i \in Zipping!Position : outs'[o + 1].tup[i] = f[i][1]
          /\ results'[p] = <<>>
  <2> SUFFICES ASSUME Ready(p)
               PROVE  /\ results' \in [Zipping!Position -> Seq(Nat)]
                      /\ \A i \in Zipping!Position : Shifted(results'[i], f[i])
                      /\ outs' \in Seq(TupleHere) /\ Len(outs') = o + 1 /\ outs' # outs
                      /\ \A k \in 1 .. o : outs'[k] = outs[k]
                      /\ \A i \in Zipping!Position : outs'[o + 1].tup[i] = f[i][1]
                      /\ results'[p] = <<>>
    OBVIOUS
  <2>1. \A i \in Zipping!Position : f[i] \in Seq(Nat) /\ f[i] # <<>>
    BY <1>7, <1>8
  <2>2. results' = [i \in Zipping!Position |-> Tail(f[i])]
    BY <1>6, <1>8 DEF Taking
  <2>3. ASSUME NEW i \in Zipping!Position
        PROVE  /\ results'[i] = Tail(f[i]) /\ Tail(f[i]) \in Seq(Nat) /\ Head(f[i]) = f[i][1] /\ f[i][1] \in Nat
               /\ Shifted(results'[i], f[i])
    <3>1. PICK g \in Seq(Nat) : g = f[i] /\ g # <<>>
      BY <2>1
    <3>2. /\ Tail(g) \in Seq(Nat) /\ Len(g) \in Nat \ {0} /\ DOMAIN g = 1 .. Len(g)
          /\ Head(g) = g[1] /\ g[1] \in Nat
          /\ Len(Tail(g)) = Len(g) - 1 /\ DOMAIN Tail(g) = 1 .. Len(g) - 1
          /\ \A k \in 1 .. Len(g) - 1 : Tail(g)[k] = g[k + 1]
      BY <3>1, Taken
    <3>3. \A k \in 1 .. Len(g) - 1 : k + 1 \in 1 .. Len(g)
      BY <3>2
    <3>4. results'[i] = Tail(g)
      BY <2>2, <3>1
    <3> QED BY <3>1, <3>2, <3>3, <3>4 DEF Shifted
  <2>4. results' \in [Zipping!Position -> Seq(Nat)]
    BY <2>2, <2>3
  <2>5. PICK t : t = [i \in Zipping!Position |-> Head(f[i])]
    OBVIOUS
  <2>6. t \in [Zipping!Position -> Nat] /\ \A i \in Zipping!Position : t[i] = f[i][1]
    BY <2>3, <2>5
  <2>7. PICK e \in TupleHere : e = [n |-> n, at |-> p, tup |-> t] /\ e.tup = t
    <3>1. PICK e : e = [n |-> n, at |-> p, tup |-> t]
      OBVIOUS
    <3>2. e \in [n : Nat, at : Zipping!Position, tup : [Zipping!Position -> Nat]]
      BY <2>6, <3>1
    <3>3. e.tup = t
      BY <3>1
    <3> QED BY <3>1, <3>2, <3>3 DEF TupleHere
  <2>8. PICK u : u = outs'
    OBVIOUS
  <2>9. u = Append(outs, e)
    BY <1>6, <1>8, <2>5, <2>7, <2>8 DEF Taking
  <2>10. /\ u \in Seq(TupleHere) /\ Len(u) = o + 1 /\ u[o + 1] = e
         /\ \A k \in 1 .. o : u[k] = outs[k]
    <3>1. PICK A : A = TupleHere
      OBVIOUS
    <3>2. outs \in Seq(A) /\ e \in A
      BY <1>2, <3>1
    <3>3. /\ Append(outs, e) \in Seq(A) /\ Len(Append(outs, e)) = Len(outs) + 1
          /\ Append(outs, e)[Len(outs) + 1] = e
          /\ \A k \in 1 .. Len(outs) : Append(outs, e)[k] = outs[k]
      BY <3>2, Grown
    <3> QED BY <1>10, <2>9, <3>1, <3>3
  <2>11. outs' # outs
    BY <1>10, <2>8, <2>10
  <2>12. results'[p] = <<>>
    <3>1. Filled(p, n)[p] = Append(<<>>, n)
      BY <1>7 DEF Ready
    <3>2. Tail(Append(<<>>, n)) = <<>>
      OBVIOUS
    <3> QED BY <1>8, <2>3, <3>1, <3>2
  <2> QED BY <2>3, <2>4, <2>6, <2>7, <2>8, <2>10, <2>11, <2>12
<1>12. ~Ready(p) => results' = f /\ outs' = outs
  BY <1>6, <1>8 DEF Keeping
<1>13. results' \in [Zipping!Position -> Seq(Nat)] /\ outs' \in Seq(TupleHere)
  BY <1>2, <1>11, <1>12
<1>14. numReady' = Zipping!Cardinality(Nonempty(results'))
  BY <1>6, <1>7 DEF Taking, Keeping
<1>15. ASSUME Ready(p), NEW i \in Zipping!Position, Pending(i)' PROVE FALSE
  <2>1. /\ Pending(i) /\ i # p /\ layout[i] = layout[p]
    BY <1>5, <1>15
  <2>2. Vals(i) = Vals(p) /\ ~Pending(p)'
    BY <1>5, <2>1 DEF Vals
  <2>3. Len(f[p]) = 1
    <3>1. f[p] = Append(<<>>, n)
      BY <1>7, <1>8, <1>15 DEF Ready
    <3> QED BY <3>1
  <2>4. Len(f[i]) \in Nat \ {0}
    BY <1>11, <1>15 DEF Shifted
  <2>5. Len(Vals(p)) = o + 1
    <3>1. Len(Vals(p)) = Len(outs) + Len(f[p]) + (IF Pending(p)' THEN 1 ELSE 0)
      BY <1>9
    <3> QED BY <1>10, <2>2, <2>3, <3>1
  <2>6. Len(Vals(i)) = o + Len(f[i]) + 1
    BY <1>9, <1>10, <1>15, <2>4
  <2> QED BY <2>2, <2>4, <2>5, <2>6
<1>16. Ready(p) => Rest' = <<>>
  <2> SUFFICES ASSUME Ready(p), Rest' # <<>> PROVE FALSE
    OBVIOUS
  <2>1. PICK r \in Seq(Zipping!Position) : r = Rest'
    BY <1>4
  <2>2. 1 \in DOMAIN r /\ r[1] \in Zipping!Position
    BY <2>1
  <2>3. Pending(r[1])'
    BY <2>1, <2>2 DEF Pending
  <2> QED BY <1>15, <2>2, <2>3
<1>17. ZipTypes'
  <2>1. numReady' \in Nat
    <3>1. Nonempty(results') \in SUBSET Zipping!Position
      BY DEF Nonempty
    <3> QED BY <1>2, <1>3, <1>14, <3>1, CountOf
  <2> QED BY <1>1, <1>2, <1>4, <1>6, <1>13, <2>1 DEF ZipTypes
<1>18. Links'
  BY <1>1, <1>2 DEF Links
<1>19. OneAtATime'
  <2>1. \A i \in DOMAIN walks' : walks'[i].rest # <<>> =>
           /\ i = Len(walks') /\ walks'[i].n = Len(sent') /\ ~walks'[i].busy
    <3> SUFFICES ASSUME NEW i \in DOMAIN walks', walks'[i].rest # <<>>
                 PROVE  i = Len(walks') /\ walks'[i].n = Len(sent') /\ ~walks'[i].busy
      OBVIOUS
    <3>1. i = Len(walks) /\ walks'[i].n = Len(sent') /\ Rest' # <<>>
      BY <1>1, <1>4, <1>5
    <3>2. outs' = outs
      BY <1>12, <1>16, <3>1
    <3> QED BY <1>4, <3>1, <3>2
  <2>2. Len(sent') > made' /\ ~ended'
    BY <1>1, <1>5
  <2>3. \A k \in DOMAIN Rest' :
           /\ layout'[Rest'[k]] = sent'[Len(sent')]
           /\ \A i \in Zipping!Position : i > Rest'[k] /\ layout'[i] = layout'[Rest'[k]] => Pending(i)'
    <3> SUFFICES ASSUME NEW k \in DOMAIN Rest'
                 PROVE  /\ layout[Rest'[k]] = sent[n]
                        /\ \A i \in Zipping!Position : i > Rest'[k] /\ layout[i] = layout[Rest'[k]] => Pending(i)'
      BY <1>1, <1>5
    <3>1. PICK j \in Zipping!Position : j = Rest'[k]
      BY <1>4
    <3>2. Pending(j)'
      BY <3>1 DEF Pending
    <3>3. j > p /\ layout[j] = layout[p]
      BY <1>5, <3>2
    <3>4. Zipping!Position \subseteq Nat
      BY <1>2 DEF Zipping!Position
    <3>5. ASSUME NEW i \in Zipping!Position, i > j, layout[i] = layout[j] PROVE Pending(i)'
      <4>1. i > p /\ i # p
        BY <3>3, <3>4, <3>5
      <4> QED BY <1>5, <3>3, <3>5, <4>1
    <3> QED BY <1>5, <3>1, <3>3, <3>5
  <2> QED BY <1>1, <1>5, <2>1, <2>2, <2>3 DEF OneAtATime
<1>20. \A i \in Zipping!Position : Keeps(i)'
  <2> SUFFICES ASSUME NEW i \in Zipping!Position
               PROVE  /\ Len(Vals(i)) = Len(outs') + Len(results'[i]) + (IF Pending(i)' THEN 1 ELSE 0)
                      /\ \A k \in DOMAIN results'[i] : results'[i][k] = Vals(i)[Len(outs') + k]
    BY <1>1 DEF Keeps, PendingNow
  <2>1. CASE ~Ready(p)
    BY <1>9, <1>12, <2>1
  <2>2. CASE Ready(p)
    <3>1. Len(Vals(i)) = o + Len(f[i]) /\ \A k \in DOMAIN f[i] : f[i][k] = Vals(i)[o + k]
      BY <1>9, <1>10, <1>15, <2>2
    <3>2. Shifted(results'[i], f[i]) /\ Len(outs') = o + 1
      BY <1>11, <2>2
    <3>3. PICK v : v = Vals(i)
      OBVIOUS
    <3>4. PICK r : r = results'[i]
      OBVIOUS
    <3>5. PICK g : g = f[i]
      OBVIOUS
    <3>11. Shifted(r, g)
      BY <3>2, <3>4, <3>5
    <3>6. ASSUME NEW k \in DOMAIN r PROVE r[k] = v[(o + 1) + k]
      <4>1. r[k] = g[k + 1] /\ k + 1 \in DOMAIN g /\ k \in Nat
        BY <3>11 DEF Shifted
      <4>2. g[k + 1] = v[o + (k + 1)]
        BY <3>1, <3>3, <3>5, <4>1
      <4>3. o + (k + 1) = (o + 1) + k
        BY <4>1
      <4> QED BY <4>1, <4>2, <4>3
    <3>7. Len(v) = (o + 1) + Len(r)
      <4>1. Len(v) = o + Len(g)
        BY <3>1, <3>3, <3>5
      <4>2. Len(g) \in Nat /\ Len(r) = Len(g) - 1
        BY <3>11 DEF Shifted
      <4> QED BY <4>1, <4>2
    <3>8. Len(r) \in Nat
      BY <3>11 DEF Shifted
    <3>9. ~Pending(i)'
      BY <1>15, <2>2
    <3>10. Len(v) = (o + 1) + Len(r) + (IF Pending(i)' THEN 1 ELSE 0)
      BY <3>7, <3>8, <3>9
    <3> QED BY <3>2, <3>3, <3>4, <3>6, <3>10
  <2> QED BY <2>1, <2>2
<1>21. \A k \in DOMAIN outs' : Gave(k)'
  <2> SUFFICES ASSUME NEW k \in DOMAIN outs', NEW i \in Zipping!Position
               PROVE  k <= Len(Vals(i)) /\ outs'[k].tup[i] = Vals(i)[k]
    BY <1>1 DEF Gave
  <2>1. CASE k \in DOMAIN outs /\ outs'[k] = outs[k]
    BY <1>2, <2>1 DEF ZipQueues, Gave
  <2>2. CASE Ready(p) /\ k = o + 1
    <3>1. 1 \in DOMAIN f[i] /\ Len(f[i]) \in Nat \ {0} /\ outs'[k].tup[i] = f[i][1]
      <4>1. Len(f[i]) \in Nat \ {0} /\ outs'[o + 1].tup[i] = f[i][1]
        BY <1>11, <2>2 DEF Shifted
      <4>2. f[i] \in Seq(Nat)
        BY <1>8
      <4> QED BY <2>2, <4>1, <4>2
    <3>2. f[i][1] = Vals(i)[o + 1]
      BY <1>9, <1>10, <3>1
    <3>3. o + 1 <= Len(Vals(i))
      BY <1>9, <1>10, <1>15, <2>2, <3>1
    <3> QED BY <2>2, <3>1, <3>2, <3>3
  <2>3. \/ k \in DOMAIN outs /\ outs'[k] = outs[k]
        \/ Ready(p) /\ k = o + 1
    <3>1. CASE ~Ready(p)
      BY <1>12, <3>1
    <3>2. CASE Ready(p)
      <4>1. DOMAIN outs' = 1 .. o + 1 /\ DOMAIN outs = 1 .. o
        BY <1>2, <1>10, <1>11, <3>2
      <4> QED BY <1>11, <3>2, <4>1
    <3> QED BY <3>1, <3>2
  <2> QED BY <2>1, <2>2, <2>3
<1>22. ZipQueues'
  <2>1. \A i \in Zipping!Position : Pending(i)' => Vals(i)' # <<>> /\ Vals(i)'[Len(Vals(i)')] = Len(sent')
    BY <1>1, <1>2, <1>5 DEF ZipQueues
  <2> QED BY <1>1, <1>20, <1>21, <2>1 DEF ZipQueues
<1>23. ZipCounts'
  <2>1. \E i \in Zipping!Position : results'[i] = <<>>
    BY <1>7, <1>8, <1>11, <1>12
  <2> QED BY <1>1, <1>14, <2>1 DEF ZipCounts, Nonempty
<1>24. ZipEnds'
  <2> SUFFICES ASSUME \A i \in DOMAIN walks' : ~walks'[i].busy, NEW i \in Zipping!Position, layout[i] \in over
               PROVE  results'[i] # <<>>
    BY <1>1, <1>5 DEF ZipEnds
  <2>1. outs' = outs /\ ~Ready(p)
    BY <1>4, <1>11
  <2>2. \A j \in DOMAIN walks : ~walks[j].busy
    <3> SUFFICES ASSUME NEW j \in DOMAIN walks PROVE ~walks[j].busy
      OBVIOUS
    <3>1. CASE j = Len(walks)
      BY <1>3, <3>1 DEF Calls, Zipping!Top
    <3>2. CASE j # Len(walks)
      BY <1>4, <3>2
    <3> QED BY <3>1, <3>2
  <2>3. results[i] # <<>>
    BY <1>2, <1>5, <2>2 DEF ZipEnds
  <2>4. f[i] # <<>>
    <3>1. CASE i # p
      BY <1>2, <1>8, <2>3, <3>1, FillsOne
    <3>2. CASE i = p
      <4>1. results[p] \in Seq(Nat) /\ f[p] = Append(results[p], n)
        BY <1>2, <1>7, <1>8
      <4> QED BY <3>2, <4>1
    <3> QED BY <3>1, <3>2
  <2> QED BY <1>12, <2>1, <2>4
<1>25. ZipLatest'
  BY <1>1 DEF ZipLatest
<1> QED BY <1>17, <1>18, <1>19, <1>22, <1>23, <1>24, <1>25 DEF ZipHolds

-----------------------------------------------------------------------------
Now(p, n) == [latest EXCEPT ![p] = n]

LEMMA SameSeq ==
    ASSUME NEW A, NEW u \in Seq(A), NEW v \in Seq(A), Len(u) = Len(v),
           \A i \in 1 .. Len(u) : u[i] = v[i]
    PROVE  u = v
OBVIOUS

LEMMA TuplesTail ==
    ASSUME NEW A, NEW n, NEW r \in Seq(Zipping!Position), r # <<>>,
           Zipping!TuplesFor(n, r) \in Seq(A), Zipping!TuplesFor(n, Tail(r)) \in Seq(A)
    PROVE  /\ Zipping!TuplesFor(n, r) # <<>>
           /\ Head(Zipping!TuplesFor(n, r)) = [n |-> n, at |-> Head(r), tup |-> Zipping!TupleAt(n, Head(r))]
           /\ Tail(Zipping!TuplesFor(n, r)) = Zipping!TuplesFor(n, Tail(r))
<1> DEFINE of(p) == [n |-> n, at |-> p, tup |-> Zipping!TupleAt(n, p)]
           t == Tail(r)
           u == Zipping!TuplesFor(n, r)
           v == Zipping!TuplesFor(n, t)
<1>1. u = [k \in DOMAIN r |-> of(r[k])] /\ v = [k \in DOMAIN t |-> of(t[k])]
  BY DEF Zipping!TuplesFor
<1>2. u \in Seq(A) /\ v \in Seq(A)
  OBVIOUS
<1>3. /\ t \in Seq(Zipping!Position) /\ Len(r) \in Nat \ {0} /\ DOMAIN r = 1 .. Len(r)
      /\ Head(r) = r[1] /\ Len(t) = Len(r) - 1 /\ DOMAIN t = 1 .. Len(r) - 1
      /\ \A i \in 1 .. Len(r) - 1 : t[i] = r[i + 1]
  BY Taken
<1> HIDE DEF of, t, u, v
<1>4. DOMAIN u = 1 .. Len(r) /\ \A k \in 1 .. Len(r) : u[k] = of(r[k])
  BY <1>1, <1>3
<1>5. DOMAIN v = 1 .. Len(t) /\ \A k \in 1 .. Len(t) : v[k] = of(t[k])
  <2>1. DOMAIN t = 1 .. Len(t)
    BY <1>3
  <2> QED BY <1>1, <2>1
<1>6. Len(u) = Len(r)
  <2>1. PICK m \in Nat : m = Len(r)
    BY <1>3
  <2>2. PICK l \in Nat : l = Len(u) /\ DOMAIN u = 1 .. l
    BY <1>2
  <2>3. 1 .. l = 1 .. m
    BY <1>4, <2>1, <2>2, Zenon
  <2> QED BY <2>1, <2>2, <2>3, SMTT(30)
<1>7. Len(v) = Len(t)
  <2>0. Len(t) \in Nat
    BY <1>3
  <2>1. PICK m \in Nat : m = Len(t)
    BY <2>0
  <2> QED BY <1>2, <1>5, <2>1
<1>8. u # <<>> /\ Head(u) = of(Head(r))
  BY <1>2, <1>3, <1>4, <1>6
<1> DEFINE w == Tail(u)
<1>9. w \in Seq(A) /\ Len(w) = Len(r) - 1 /\ \A i \in 1 .. Len(r) - 1 : w[i] = u[i + 1]
  BY <1>2, <1>6, <1>8, Taken
<1> HIDE DEF w
<1>10. ASSUME NEW i \in 1 .. Len(r) - 1 PROVE w[i] = v[i]
  <2>1. i + 1 \in 1 .. Len(r) /\ i \in 1 .. Len(t) /\ t[i] = r[i + 1]
    BY <1>3
  <2> QED BY <1>4, <1>5, <1>9, <2>1
<1>11. w = v
  <2>1. Len(w) = Len(v) /\ \A i \in 1 .. Len(w) : w[i] = v[i]
    BY <1>3, <1>7, <1>9, <1>10
  <2> QED BY <1>2, <1>9, <2>1, SameSeq
<1>12. u # <<>> /\ Head(u) = [n |-> n, at |-> Head(r), tup |-> Zipping!TupleAt(n, Head(r))] /\ Tail(u) = v
  BY <1>8, <1>11 DEF of, w
<1> QED BY <1>12 DEF u, v, t

LEMMA LatestDelivers ==
    ASSUME ZipHolds, Zipping!Deliver, kind # "zip", kind \in ZipKinds
    PROVE  ZipHolds'
<1>1. /\ UNCHANGED <<kind, listeners, layout, made, over, connected, ended, sent>>
      /\ Zipping!Position' = Zipping!Position /\ (Orderly' <=> Orderly)
      /\ WalkHere' = WalkHere /\ TupleHere' = TupleHere
  BY DeliverLeaves
<1>2. /\ ZipTypes /\ Links /\ OneAtATime /\ ZipLatest
      /\ layout \in Seq(Source) /\ sent \in Seq(Source) /\ outs \in Seq(TupleHere) /\ primed \in BOOLEAN
      /\ latest \in [Zipping!Position -> Nat] /\ kind \in {"ziplatest", "ziplatestfull"} /\ made \in Nat
  BY DEF ZipHolds, ZipTypes
<1>3. PICK p \in Zipping!Position, n \in Nat : Calls(p, n)
  BY <1>2, TheCalled
<1>4. /\ results' = results /\ numReady' = numReady
      /\ latest' = Now(p, n)
      /\ primed' = (primed \/ \A i \in Zipping!Position : Now(p, n)[i] # 0)
      /\ outs' = IF primed' THEN Append(outs, [n |-> n, at |-> p, tup |-> Now(p, n)]) ELSE outs
  <2>1. Zipping!LatestPut(p, n)
    BY <1>3 DEF Zipping!Deliver, Calls
  <2> QED BY <2>1 DEF Zipping!LatestPut, Zipping!NoValue, Now
<1>5. PICK now \in [Zipping!Position -> Nat] : now = Now(p, n)
  BY <1>2 DEF Now
<1>6. now[p] = n /\ \A i \in Zipping!Position : i # p => now[i] = latest[i]
  BY <1>2, <1>5 DEF Now
<1>7. PICK e \in TupleHere : e = [n |-> n, at |-> p, tup |-> now] /\ e.tup = now
  <2>1. PICK e : e = [n |-> n, at |-> p, tup |-> now]
    OBVIOUS
  <2>2. e \in [n : Nat, at : Zipping!Position, tup : [Zipping!Position -> Nat]]
    BY <2>1
  <2>3. e.tup = now
    BY <2>1
  <2> QED BY <2>1, <2>2, <2>3 DEF TupleHere
<1>8. /\ primed' => outs' = Append(outs, e)
      /\ ~primed' => outs' = outs
      /\ primed' <=> primed \/ \A i \in Zipping!Position : now[i] # 0
      /\ primed' \in BOOLEAN
  BY <1>4, <1>5, <1>7
<1>9. outs' \in Seq(TupleHere)
  <2>1. PICK A : A = TupleHere
    OBVIOUS
  <2>2. outs \in Seq(A) /\ e \in A
    BY <1>2, <2>1
  <2>3. Append(outs, e) \in Seq(A)
    BY <2>2
  <2> QED BY <1>2, <1>8, <2>1, <2>3
<1>10. /\ walks' \in Seq(WalkHere) /\ Rest' \in Seq(Zipping!Position)
       /\ Rest' = Tail(Rest) /\ Rest \in Seq(Zipping!Position) /\ Rest # <<>>
  <2>1. Rest' = Tail(Rest) /\ Rest \in Seq(Zipping!Position) /\ Rest # <<>>
    BY <1>2, TheCalled
  <2>2. Rest' \in Seq(Zipping!Position)
    BY <2>1, Taken
  <2> QED BY <1>2, <2>1, <2>2, TheCalled
<1>11. ZipTypes'
  BY <1>1, <1>2, <1>4, <1>5, <1>8, <1>9, <1>10 DEF ZipTypes
<1>12. Links'
  BY <1>1, <1>2 DEF Links
<1>13. ZipQueues' /\ ZipCounts' /\ ZipEnds'
  BY <1>1 DEF ZipQueues, ZipCounts, ZipEnds
<1> SUFFICES ASSUME Orderly PROVE OneAtATime' /\ ZipLatest'
  <2>1. ~Orderly => OneAtATime' /\ ZipLatest'
    BY <1>1 DEF OneAtATime, ZipLatest
  <2> QED BY <1>11, <1>12, <1>13, <2>1 DEF ZipHolds
<1>14. /\ n = Len(sent) /\ n > made /\ Pending(p) /\ layout[p] = sent[n]
       /\ \A i \in DOMAIN walks' : walks'[i].rest # <<>> =>
             i = Len(walks') /\ walks'[i].n = Len(sent) /\ (walks'[i].busy => outs' # outs)
       /\ \A i \in Zipping!Position : Pending(i)' <=> Pending(i) /\ i # p
       /\ \A i \in Zipping!Position : Pending(i) /\ i # p => layout[i] = layout[p] /\ i > p
       /\ \A i \in Zipping!Position : layout[i] = layout[p] /\ i > p => Pending(i)
       /\ \A j, k \in DOMAIN Rest' : j < k => Rest'[j] < Rest'[k]
       /\ \A k \in DOMAIN Rest' : layout[Rest'[k]] = layout[p]
  BY <1>2, <1>3, NextWaiting
<1>15. Zipping!Position \subseteq Nat
  BY <1>2 DEF Zipping!Position
<1>16. OneAtATime'
  <2>1. Rest' # <<>> => listeners = {}
    <3> SUFFICES ASSUME Rest' # <<>>, listeners # {} PROVE FALSE
      OBVIOUS
    <3>1. PICK r \in Seq(Zipping!Position) : r = Rest'
      BY <1>10
    <3>2. 1 \in DOMAIN r /\ r[1] \in Zipping!Position
      BY <3>1
    <3>3. Pending(r[1])'
      BY <3>1, <3>2 DEF Pending
    <3>4. r[1] # p /\ layout[r[1]] = layout[p]
      BY <1>14, <3>2, <3>3
    <3>5. IsInjective(layout)
      BY DEF Orderly
    <3> QED BY <3>2, <3>4, <3>5 DEF IsInjective, Zipping!Position
  <2>2. \A i \in DOMAIN walks' : walks'[i].rest # <<>> =>
           /\ i = Len(walks') /\ walks'[i].n = Len(sent') /\ listeners = {}
    <3> SUFFICES ASSUME NEW i \in DOMAIN walks', walks'[i].rest # <<>>
                 PROVE  i = Len(walks') /\ walks'[i].n = Len(sent') /\ listeners = {}
      OBVIOUS
    <3>1. i = Len(walks') /\ walks'[i].n = Len(sent')
      BY <1>1, <1>14
    <3>2. Rest' = walks'[i].rest
      BY <3>1, <1>10 DEF Rest, Zipping!Top
    <3> QED BY <2>1, <3>1, <3>2
  <2>3. Len(sent') > made'
    BY <1>1, <1>14
  <2>4. \A k \in DOMAIN Rest' :
           /\ layout'[Rest'[k]] = sent'[Len(sent')]
           /\ \A i \in Zipping!Position : i > Rest'[k] /\ layout'[i] = layout'[Rest'[k]] => Pending(i)'
    <3> SUFFICES ASSUME NEW k \in DOMAIN Rest'
                 PROVE  /\ layout[Rest'[k]] = sent[n]
                        /\ \A i \in Zipping!Position : i > Rest'[k] /\ layout[i] = layout[Rest'[k]] => Pending(i)'
      BY <1>1, <1>14
    <3>1. PICK j \in Zipping!Position : j = Rest'[k]
      BY <1>10
    <3>2. Pending(j)'
      BY <3>1 DEF Pending
    <3>3. j > p /\ layout[j] = layout[p]
      BY <1>14, <3>2
    <3>4. ASSUME NEW i \in Zipping!Position, i > j, layout[i] = layout[j] PROVE Pending(i)'
      <4>1. i > p /\ i # p
        BY <1>15, <3>3, <3>4
      <4> QED BY <1>14, <3>3, <3>4, <4>1
    <3> QED BY <1>14, <3>1, <3>3, <3>4
  <2> QED BY <1>1, <1>14, <2>2, <2>3, <2>4 DEF OneAtATime
<1>17. ASSUME NEW i \in Zipping!Position
       PROVE  /\ now[i] = Zipping!LatestOf(layout[i], IF Pending(i)' THEN n - 1 ELSE n)
              /\ Zipping!TupleAt(n, p)[i] = now[i]
  <2>1. Zipping!TupleAt(n, p)[i] = Zipping!LatestOf(layout[i], IF layout[i] = layout[p] /\ i > p THEN n - 1 ELSE n)
    BY DEF Zipping!TupleAt
  <2>2. CASE i = p
    <3>1. ~Pending(i)' /\ ~(i > p)
      BY <1>14, <1>15, <2>2
    <3>2. Zipping!LatestOf(layout[p], n) = n
      <4>1. PICK s : s = layout[p]
        OBVIOUS
      <4>2. LatestIs(s, n, Zipping!LatestOf(s, n))
        BY LatestExists
      <4>3. LatestIs(s, n, n)
        BY <1>14, <4>1 DEF LatestIs
      <4> QED BY <4>1, <4>2, <4>3, LatestOne
    <3> QED BY <1>6, <2>1, <2>2, <3>1, <3>2
  <2>3. CASE i # p
    <3>1. Pending(i)' <=> Pending(i)
      BY <1>14, <2>3
    <3>2. Pending(i) <=> layout[i] = layout[p] /\ i > p
      BY <1>14, <2>3
    <3>3. latest[i] = Zipping!LatestOf(layout[i], IF Pending(i) THEN n - 1 ELSE n)
      BY <1>2, <1>14 DEF ZipLatest
    <3> QED BY <1>6, <2>1, <2>3, <3>1, <3>2, <3>3
  <2> QED BY <2>2, <2>3
<1>18. Zipping!TupleAt(n, p) = now
  <2>1. Zipping!TupleAt(n, p) = [i \in Zipping!Position |-> Zipping!TupleAt(n, p)[i]]
    BY DEF Zipping!TupleAt
  <2>2. now = [i \in Zipping!Position |-> now[i]]
    OBVIOUS
  <2>3. \A i \in Zipping!Position : Zipping!TupleAt(n, p)[i] = now[i]
    BY <1>17
  <2> QED BY <2>1, <2>2, <2>3
<1>19. e \in Zipping!Shown <=> primed'
  <2>1. e \in Zipping!Shown <=> kind = "ziplatest" \/ 0 \notin Zipping!Range(now)
    BY <1>7 DEF Zipping!Shown, TupleHere, Zipping!NoValue
  <2>2. 0 \notin Zipping!Range(now) <=> \A i \in Zipping!Position : now[i] # 0
    BY DEF Zipping!Range
  <2>3. kind = "ziplatest" => primed
    BY <1>2 DEF ZipLatest
  <2>4. kind # "ziplatest" /\ primed => \A i \in Zipping!Position : now[i] # 0
    <3>1. kind # "ziplatest" /\ primed => \A i \in Zipping!Position : latest[i] # 0
      BY <1>2 DEF ZipLatest
    <3>2. n # 0
      BY <1>2, <1>14
    <3> QED BY <1>6, <3>1, <3>2
  <2> QED BY <1>8, <2>1, <2>2, <2>3, <2>4
<1>20. Entry(n, Rest) = IF primed' THEN <<e>> \o Entry(n, Rest') ELSE Entry(n, Rest')
  <2>1. PICK r \in Seq(Zipping!Position) : r = Rest /\ r # <<>>
    BY <1>10
  <2>2. Tail(r) = Rest' /\ Head(r) = p
    BY <1>3, <1>10, <2>1 DEF Calls
  <2>4. PICK A : A = TupleHere
    OBVIOUS
  <2>5. AreTuples
    BY <1>2, TuplesType
  <2>6. n \in Nat \ {0}
    BY <1>2, <1>14
  <2>7. PICK u \in Seq(A) : u = Zipping!TuplesFor(n, r)
    BY <2>4, <2>5, <2>6 DEF AreTuples
  <2>8. PICK v \in Seq(A) : v = Zipping!TuplesFor(n, Rest')
    BY <1>10, <2>4, <2>5, <2>6 DEF AreTuples
  <2>9. u # <<>> /\ Head(u) = [n |-> n, at |-> p, tup |-> Zipping!TupleAt(n, p)] /\ Tail(u) = v
    <3>1. r \in Seq(Zipping!Position) /\ r # <<>>
      BY <2>1
    <3>2. Zipping!TuplesFor(n, r) \in Seq(A) /\ Zipping!TuplesFor(n, Tail(r)) \in Seq(A)
      BY <2>2, <2>7, <2>8
    <3>3. /\ Zipping!TuplesFor(n, r) # <<>>
          /\ Head(Zipping!TuplesFor(n, r)) = [n |-> n, at |-> Head(r), tup |-> Zipping!TupleAt(n, Head(r))]
          /\ Tail(Zipping!TuplesFor(n, r)) = Zipping!TuplesFor(n, Tail(r))
      BY <3>1, <3>2, TuplesTail
    <3> QED BY <2>2, <2>7, <2>8, <3>3
  <2>10. u # <<>> /\ Head(u) = e
    BY <1>7, <1>18, <2>9
  <2>11. Tail(u) = v
    BY <2>9
  <2>12. Keep(u, Zipping!Shown)
            = IF e \in Zipping!Shown THEN <<e>> \o Keep(v, Zipping!Shown) ELSE Keep(v, Zipping!Shown)
    BY <2>7, <2>10, <2>11, KeepTail
  <2>13. Entry(n, r) = Keep(u, Zipping!Shown) /\ Entry(n, Rest') = Keep(v, Zipping!Shown)
    BY <2>7, <2>8 DEF Entry, Zipping!Keep, Keep
  <2> QED BY <1>19, <2>1, <2>12, <2>13
<1>21. Zipping!Due' = outs' \o Entry(n, Rest')
  <2>1. Zipping!Due' = Zipping!Due
    BY <1>1, ZipHistory
  <2>2. Zipping!Due = outs \o Entry(n, Rest)
    BY <1>2, <1>14 DEF ZipLatest, Entry
  <2>3. PICK A : A = TupleHere
    OBVIOUS
  <2>4. PICK t \in Seq(A) : t = Entry(n, Rest')
    <3>1. AreTuples /\ n \in Nat \ {0}
      BY <1>2, <1>14, TuplesType
    <3> QED BY <1>10, <2>3, <3>1 DEF AreTuples
  <2>5. outs \in Seq(A) /\ e \in A
    BY <1>2, <2>3
  <2>6. outs \o (<<e>> \o t) = Append(outs, e) \o t
    BY <2>4, <2>5
  <2>7. CASE primed'
    BY <1>8, <1>20, <2>1, <2>2, <2>4, <2>6, <2>7
  <2>8. CASE ~primed'
    BY <1>8, <1>20, <2>1, <2>2, <2>8
  <2> QED BY <2>7, <2>8
<1>22. ZipLatest'
  <2>1. latest' = now
    BY <1>4, <1>5
  <2>2. \A i \in Zipping!Position :
           latest'[i] = Zipping!LatestOf(layout[i], IF Pending(i) THEN Len(sent) - 1 ELSE Len(sent))'
    <3>1. \A s, m : Zipping!LatestOf(s, m)' = Zipping!LatestOf(s, m)
      BY <1>1, ZipHistory
    <3> QED BY <1>1, <1>14, <1>17, <2>1, <3>1
  <2>3. Zipping!Keep(Zipping!TuplesFor(Len(sent), Rest), Zipping!Shown)' = Entry(n, Rest')
    <3>1. \A m, ps : Zipping!TuplesFor(m, ps)' = Zipping!TuplesFor(m, ps)
      BY <1>1, ZipHistory
    <3>2. Zipping!Shown' = Zipping!Shown
      BY <1>1, ZipHistory
    <3> QED BY <1>1, <1>14, <3>1, <3>2 DEF Entry
  <2>4. kind = "ziplatest" => primed'
    BY <1>2, <1>8 DEF ZipLatest
  <2>5. kind = "ziplatestfull" /\ primed' => \A i \in Zipping!Position : latest'[i] # 0
    <3>1. n # 0
      BY <1>2, <1>14
    <3>2. kind = "ziplatestfull" /\ primed => \A i \in Zipping!Position : latest[i] # 0
      BY <1>2 DEF ZipLatest
    <3> QED BY <1>6, <1>8, <2>1, <3>1, <3>2
  <2> QED BY <1>1, <1>21, <2>2, <2>3, <2>4, <2>5 DEF ZipLatest
<1> QED BY <1>16, <1>22

-----------------------------------------------------------------------------
LEMMA ZipNext == ZipInv /\ Next => ZipInv'
<1> SUFFICES ASSUME ZipInv, Next, (kind \in ZipKinds)' PROVE ZipHolds'
  BY DEF ZipInv
<1>1. CASE AddableNext
  <2>1. kind' = kind
    BY <1>1 DEF AddableNext, Addable!Next, Addable!ParentEmits, Addable!AddSource, Addable!SourceEmits,
                Addable!SourceEnds, Addable!ParentDone, Addable!DrainStep, Addable!Drain,
                Addable!DrainFails, Addable!Drained, Addable!fixed
  <2> QED BY <1>1, <2>1, ZipSorts DEF AddableNext
<1>2. CASE ZippingNext
  <2>1. kind \in ZipKinds /\ Zipping!Next /\ ZipHolds
    BY <1>2 DEF ZippingNext, ZipInv
  <2>2. CASE kind = "zip" /\ Zipping!Deliver
    BY <2>1, <2>2, ZipDelivers
  <2>3. CASE kind # "zip" /\ Zipping!Deliver
    BY <2>1, <2>3, LatestDelivers
  <2> QED BY <2>1, <2>2, <2>3, ZipHears, ZipHearsEnd, ZipReturns, ZipEmitted DEF Zipping!Next
<1> QED BY <1>1, <1>2 DEF Next

(* Zip and Ziplatest, whatever their listeners do: what is behind them holds always
   (_on_source_i, on_source_done). *)
THEOREM ZipInvariant == Spec => []ZipInv
<1>1. ZipInv /\ UNCHANGED vars => ZipInv'
  <2> SUFFICES ASSUME ZipInv, UNCHANGED vars, (kind \in ZipKinds)' PROVE ZipHolds'
    BY DEF ZipInv
  <2>1. kind' = kind
    BY DEF vars
  <2> QED BY <2>1, ZipStays DEF ZipInv
<1>2. ZipInv /\ [Next]_vars => ZipInv'
  BY <1>1, ZipNext
<1> QED BY <1>2, ZipInit, PTL DEF Spec
-----------------------------------------------------------------------------
LEMMA TuplesFollow ==
    ASSUME ZipInv, kind \in ZipKinds
    PROVE  Zipping!TupleRule
<1>1. /\ ZipHolds /\ ZipTypes /\ outs \in Seq(TupleHere) /\ sent \in Seq(Source)
      /\ results \in [Zipping!Position -> Seq(Nat)]
  BY DEF ZipInv, ZipHolds, ZipTypes
<1>2. walks = <<>> => Rest = <<>> /\ \A p : ~Pending(p)
  BY DEF Rest, Pending
<1>3. ASSUME kind = "zip" PROVE Zipping!ZipRule
  <2>1. ASSUME NEW k \in DOMAIN outs
        PROVE  outs[k].tup = [p \in Zipping!Position |-> Vals(p)[k]]
    <3>1. Gave(k) /\ outs[k].tup \in [Zipping!Position -> Nat]
      <4>1. outs[k] \in TupleHere
        BY <1>1
      <4> QED BY <1>1, <1>3, <4>1 DEF ZipHolds, ZipQueues, TupleHere
    <3> QED BY <3>1 DEF Gave
  <2>2. walks = <<>> => \E p \in Zipping!Position : Len(Vals(p)) = Len(outs)
    <3> SUFFICES ASSUME walks = <<>> PROVE \E p \in Zipping!Position : Len(Vals(p)) = Len(outs)
      OBVIOUS
    <3>1. CASE ended
      BY <1>1, <1>3, <3>1 DEF ZipHolds, ZipEnds
    <3>2. CASE ~ended
      <4>1. PICK p \in Zipping!Position : results[p] = <<>>
        BY <1>1, <1>3 DEF ZipHolds, ZipCounts
      <4>2. Keeps(p)
        BY <1>1, <1>3, <3>2 DEF ZipHolds, ZipQueues
      <4> QED BY <1>1, <1>2, <4>1, <4>2 DEF Keeps, PendingNow
    <3> QED BY <3>1, <3>2
  <2> QED BY <2>1, <2>2 DEF Zipping!ZipRule, Vals
<1>4. ASSUME kind # "zip", listeners = {} \/ IsInjective(layout) PROVE Zipping!LatestRule
  <2>1. Zipping!Due = outs \o Entry(Len(sent), Rest)
    BY <1>1, <1>4 DEF ZipHolds, ZipLatest, Orderly, Entry
  <2>2. Entry(Len(sent), Rest) \in Seq(TupleHere) /\ (Rest = <<>> => Entry(Len(sent), Rest) = <<>>)
    <3>1. Entry(Len(sent), <<>>) = <<>>
      <4>1. Zipping!TuplesFor(Len(sent), <<>>) = <<>>
        BY DEF Zipping!TuplesFor
      <4>2. Keep(<<>>, Zipping!Shown) = <<>>
        BY KeepNone
      <4>3. Zipping!Keep(<<>>, Zipping!Shown) = Keep(<<>>, Zipping!Shown)
        BY DEF Zipping!Keep, Keep
      <4> QED BY <4>1, <4>2, <4>3 DEF Entry
    <3>2. CASE Rest = <<>>
      <4>1. Entry(Len(sent), Rest) = <<>>
        BY <3>1, <3>2
      <4>2. <<>> \in Seq(TupleHere)
        OBVIOUS
      <4> QED BY <4>1, <4>2
    <3>3. CASE Rest # <<>>
      <4>1. walks # <<>> /\ Rest = Zipping!Top.rest
        BY <3>3 DEF Rest
      <4>2. Zipping!Top \in WalkHere
        BY <1>1, <4>1 DEF ZipTypes, Zipping!Top
      <4>3. Rest \in Seq(Zipping!Position)
        BY <4>1, <4>2 DEF WalkHere
      <4>4. Len(sent) > made /\ made \in Nat /\ layout \in Seq(Source) /\ Orderly
        BY <1>1, <1>4, <3>3 DEF ZipHolds, OneAtATime, ZipTypes, Orderly
      <4>5. AreTuples /\ Len(sent) \in Nat \ {0}
        BY <1>1, <4>4, TuplesType
      <4> QED BY <3>3, <4>3, <4>5 DEF AreTuples
    <3> QED BY <3>2, <3>3
  <2>3. PICK A : A = TupleHere
    OBVIOUS
  <2>4. PICK e \in Seq(A) : e = Entry(Len(sent), Rest)
    BY <2>2, <2>3
  <2>5. outs \in Seq(A)
    BY <1>1, <2>3
  <2>6. Zipping!IsPrefix(outs, outs \o e)
    BY <2>4, <2>5 DEF Zipping!IsPrefix
  <2>7. walks = <<>> => outs \o e = outs
    BY <1>2, <2>2, <2>4, <2>5
  <2> QED BY <2>1, <2>4, <2>6, <2>7 DEF Zipping!LatestRule
<1>5. Zipping!IsInjective(layout) <=> IsInjective(layout)
  BY DEF Zipping!IsInjective, IsInjective
<1> QED BY <1>3, <1>4, <1>5 DEF Zipping!TupleRule

LEMMA TuplesEnd ==
    ASSUME ZipInv, kind \in ZipKinds
    PROVE  Zipping!EndsInTime
<1> SUFFICES ASSUME walks = <<>>
             PROVE  /\ ended <=>
                         IF kind = "zip"
                         THEN \E p \in Zipping!Position : layout[p] \in over /\ Len(Vals(p)) = Len(outs)
                         ELSE \A p \in Zipping!Position : layout[p] \in over
                    /\ ended => connected = {}
  BY DEF Zipping!EndsInTime, Vals
<1>1. /\ ZipHolds /\ ZipTypes /\ Links /\ outs \in Seq(TupleHere)
      /\ results \in [Zipping!Position -> Seq(Nat)]
  BY DEF ZipInv, ZipHolds, ZipTypes
<1>2. \A p : ~Pending(p)
  BY DEF Rest, Pending
<1>3. ASSUME kind = "zip", ~ended, NEW p \in Zipping!Position, layout[p] \in over PROVE Len(Vals(p)) # Len(outs)
  <2>1. results[p] # <<>>
    BY <1>1, <1>3 DEF ZipHolds, ZipEnds
  <2>2. Len(Vals(p)) = Len(outs) + Len(results[p])
    BY <1>1, <1>2, <1>3 DEF ZipHolds, ZipQueues, Keeps, PendingNow
  <2>3. Len(results[p]) \in Nat \ {0} /\ Len(outs) \in Nat
    BY <1>1, <2>1
  <2> QED BY <2>2, <2>3
<1>4. kind = "zip" /\ ended => \E p \in Zipping!Position : layout[p] \in over /\ Len(Vals(p)) = Len(outs)
  BY <1>1 DEF ZipHolds, ZipEnds
<1> QED BY <1>1, <1>3, <1>4 DEF Links

(* What the joins let out, and with which values, is what their rules name, also
   when listeners feed the sources (on_source_s, _on_source_i).  Left out are a chain
   whose source has emitted while its queue was being emptied, and a Ziplatest with
   a source at several positions when listeners feed it. *)
THEOREM JoinsFollowTheirRules == Spec => []ByTheRule
<1>1. JoinInv /\ ZipInv => ByTheRule
  BY JoinByTheRule, TuplesFollow DEF ByTheRule
<1> QED BY <1>1, JoinInvariant, ZipInvariant, PTL

(* They end neither too early nor too late, and let go of their sources then
   (_end_if_exhausted, on_source_done); a chain whose loop has failed is left out. *)
THEOREM JoinsEndRight == Spec => []EndsRight
<1>1. JoinInv /\ ZipInv => EndsRight
  BY JoinEndsRight, TuplesEnd DEF EndsRight
<1> QED BY <1>1, JoinInvariant, ZipInvariant, PTL
=============================================================================
