-------------------------- MODULE ConsumersProofs --------------------------
(***************************************************************************)
(* emit_threadsafe, proved for every number of workers, loops and calls:   *)
(* what is handed over comes out in order and once, or with its loop not   *)
(* at all.  Then the iteration and the await of an event, for every number *)
(* of values: what comes out is what was told.  Last, run, on every finite *)
(* pipeline: what others listen to is not cancelled, what only the         *)
(* pipeline uses is found, and nothing of it is left.                      *)
(***************************************************************************)
EXTENDS Consumers, SequenceLemmas, FiniteSetTheorems

Loop == Threads!Loop
Call == Worker \X Nat
Fates == {"handed", "refused", "dropped", "emitted"}

(* The loops: a loop that is run, recorded or looked up is one of the main
   thread's. *)
LoopTypes ==
    /\ owner \in [Loop -> Threads!Thread \cup {None}]
    /\ closed \subseteq Loop
    /\ current \in [Threads!Thread -> Loop \cup {None}]
    /\ looked \in [Worker -> Loop \cup {None}]
    /\ recorded \in Loop \cup {None} /\ runs \in Loop \cup {None}
    /\ used \in BOOLEAN

OfMain(l) == l # None => owner[l] = "main"

MainLoops ==
    /\ OfMain(recorded) /\ OfMain(runs) /\ OfMain(current["main"])
    /\ \A w \in Worker : OfMain(looked[w])
    /\ runs # None => runs \notin closed
    /\ used => runs # None /\ recorded = runs

(* The calls: each has one place, and its fate says which. *)
CallTypes ==
    /\ ready \in [Loop -> Seq(Call)] /\ emitted \in Seq(Call)
    /\ fate \in [Worker -> Seq(Fates)]

Waits == \A l \in Loop : ready[l] # <<>> => owner[l] = "main" /\ l \notin closed

Has(f, c, what) == c[2] \in DOMAIN f[c[1]] /\ f[c[1]][c[2]] = what

Places ==
    /\ \A l \in Loop : \A i \in DOMAIN ready[l] : Has(fate, ready[l][i], "handed")
    /\ \A i \in DOMAIN emitted : Has(fate, emitted[i], "emitted")
    /\ \A c \in Call :
          /\ Has(fate, c, "handed") => \E l \in Loop : \E i \in DOMAIN ready[l] : ready[l][i] = c
          /\ Has(fate, c, "emitted") => \E i \in DOMAIN emitted : emitted[i] = c

Apart ==
    \A l, k \in Loop : \A i \in DOMAIN ready[l], j \in DOMAIN ready[k] :
        ready[l][i] = ready[k][j] => l = k

Ordered ==
    \A l \in Loop : \A i, j \in DOMAIN ready[l] :
        i < j /\ ready[l][i][1] = ready[l][j][1] => ready[l][i][2] < ready[l][j][2]

CallInv == CallTypes /\ Waits /\ Places /\ Apart /\ Ordered /\ IsInjective(emitted)

ThreadInv == use = "threads" => LoopTypes /\ MainLoops /\ CallInv

LEMMA LoopsAreNumbers == Loop \subseteq Nat /\ None \notin Loop /\ "main" # None
BY NoneAssumption, BoundAssumption DEF Loop, Threads!Loop

LEMMA ThreadsInit == Init => ThreadInv
<1> SUFFICES ASSUME Init, use = "threads" PROVE ThreadInv
  BY DEF ThreadInv
<1>1. Threads!Init
  BY DEF Init
<1>2. LoopTypes /\ MainLoops
  <2>1. "main" \in Threads!Thread /\ Worker \subseteq Threads!Thread
    BY DEF Threads!Thread, Threads!Main
  <2> QED
    BY <1>1, <2>1 DEF Threads!Init, LoopTypes, MainLoops, OfMain, Loop
<1>3. CallInv
  <2>1. /\ \A l \in Loop : ready[l] = <<>>
        /\ \A w \in Worker : fate[w] = <<>>
        /\ emitted = <<>>
    BY <1>1 DEF Threads!Init, Loop
  <2>2. CallTypes
    BY <1>1 DEF Threads!Init, Loop, CallTypes
  <2>3. Waits /\ Apart /\ Ordered /\ IsInjective(emitted)
    BY <2>1 DEF Waits, Apart, Ordered, IsInjective
  <2>4. Places
    BY <2>1 DEF Places, Has, Call
  <2> QED
    BY <2>2, <2>3, <2>4 DEF CallInv
<1> QED
  BY <1>2, <1>3 DEF ThreadInv

(* A loop that is made for a thread was nobody's before. *)
LEMMA Made ==
    ASSUME LoopTypes, MainLoops, CallInv, NEW t \in Threads!Thread, NEW l \in Loop,
           owner[l] = None, owner' = [owner EXCEPT ![l] = t],
           UNCHANGED <<closed, runs, looked, used, fate, ready, emitted>>
    PROVE  /\ owner' \in [Loop -> Threads!Thread \cup {None}]
           /\ \A k \in Loop : owner[k] = "main" => owner'[k] = "main"
           /\ CallInv'
<1>1. /\ owner' \in [Loop -> Threads!Thread \cup {None}]
      /\ \A k \in Loop : owner[k] = "main" => owner'[k] = "main"
  BY LoopsAreNumbers DEF LoopTypes
<1>2. Waits'
  BY <1>1 DEF CallInv, Waits
<1>3. CallTypes' /\ Places' /\ Apart' /\ Ordered' /\ IsInjective(emitted)'
  BY DEF CallInv, CallTypes, Places, Has, Apart, Ordered, IsInjective
<1> QED
  BY <1>1, <1>2, <1>3 DEF CallInv

LEMMA GetEventLoopKeeps ==
    ASSUME LoopTypes, MainLoops, CallInv, NEW t \in Threads!Thread, Threads!GetEventLoop(t)
    PROVE  LoopTypes' /\ MainLoops' /\ CallInv'
<1>1. UNCHANGED <<closed, runs, looked, fate, ready, emitted>>
  BY DEF Threads!GetEventLoop
<1>2. ASSUME UNCHANGED <<owner, current>>,
             \/ recorded' = recorded
             \/ t = "main" /\ recorded' = runs /\ runs # None
             \/ t = "main" /\ recorded' = current[t] /\ runs = None,
             used' \in BOOLEAN,
             used' => used \/ (recorded' = runs /\ runs # None)
      PROVE  LoopTypes' /\ MainLoops' /\ CallInv'
  <2>1. LoopTypes'
    BY <1>1, <1>2 DEF LoopTypes
  <2>2. MainLoops'
    BY <1>1, <1>2 DEF MainLoops, OfMain
  <2>3. CallInv'
    BY <1>1, <1>2 DEF CallInv, CallTypes, Waits, Places, Has, Apart, Ordered, IsInjective
  <2> QED BY <2>1, <2>2, <2>3
<1>3. CASE t = "main" /\ runs # None
  <2>1. recorded' = runs /\ used' = TRUE /\ UNCHANGED <<owner, current>>
    BY <1>3 DEF Threads!GetEventLoop, Threads!Records, Threads!Main
  <2>2. used' \in BOOLEAN
    BY <2>1
  <2> QED BY <1>2, <1>3, <2>1, <2>2
<1>4. CASE (t = "main" => runs = None) /\ Threads!Usable(current[t])
  <2>1. /\ recorded' = IF t = "main" THEN current[t] ELSE recorded
        /\ UNCHANGED <<owner, current, used>>
    BY <1>4 DEF Threads!GetEventLoop, Threads!Records, Threads!Main
  <2>2. used' \in BOOLEAN
    BY <2>1 DEF LoopTypes
  <2> QED BY <1>2, <1>4, <2>1, <2>2
<1>5. CASE (t = "main" => runs = None) /\ ~Threads!Usable(current[t])
  <2>1. PICK l \in Loop :
           /\ owner[l] = None
           /\ owner' = [owner EXCEPT ![l] = t]
           /\ current' = [current EXCEPT ![t] = l]
           /\ recorded' = IF t = "main" THEN l ELSE recorded
           /\ used' = used
    BY <1>5 DEF Threads!GetEventLoop, Threads!Records, Threads!Main, Threads!Make,
       Threads!Unmade, Loop
  <2>2. /\ owner' \in [Loop -> Threads!Thread \cup {None}]
        /\ \A k \in Loop : owner[k] = "main" => owner'[k] = "main"
        /\ CallInv'
    BY <1>1, <2>1, Made
  <2>3. LoopTypes'
    BY <1>1, <2>1, <2>2 DEF LoopTypes
  <2>4. t = "main" => owner'[l] = "main"
    BY <2>1 DEF LoopTypes
  <2>5. OfMain(current["main"])'
    BY <2>1, <2>2, <2>4 DEF LoopTypes, MainLoops, OfMain, Threads!Thread, Threads!Main
  <2>6. OfMain(recorded)' /\ OfMain(runs)' /\ \A w \in Worker : OfMain(looked[w])'
    BY <1>1, <2>1, <2>2, <2>4 DEF LoopTypes, MainLoops, OfMain
  <2>7. /\ runs' # None => runs' \notin closed'
        /\ used' => runs' # None /\ recorded' = runs'
    BY <1>1, <1>5, <2>1 DEF MainLoops
  <2> QED BY <2>2, <2>3, <2>5, <2>6, <2>7 DEF MainLoops
<1> QED
  BY <1>3, <1>4, <1>5 DEF Threads!GetEventLoop, Threads!Main

LEMMA NewLoopKeeps ==
    ASSUME LoopTypes, MainLoops, CallInv, NEW set \in BOOLEAN, Threads!NewLoop(set)
    PROVE  LoopTypes' /\ MainLoops' /\ CallInv'
<1>0. UNCHANGED <<closed, recorded, runs, used, looked, fate, ready, emitted>>
  BY DEF Threads!NewLoop
<1>1. PICK l \in Loop :
         /\ owner[l] = None
         /\ owner' = [owner EXCEPT ![l] = "main"]
         /\ current' = [current EXCEPT !["main"] = l] \/ current' = current
  BY DEF Threads!NewLoop, Threads!Make, Threads!Main, Threads!Unmade, Loop
<1>2. "main" \in Threads!Thread
  BY DEF Threads!Thread, Threads!Main
<1>3. /\ owner' \in [Loop -> Threads!Thread \cup {None}]
      /\ \A k \in Loop : owner[k] = "main" => owner'[k] = "main"
      /\ CallInv'
  BY <1>0, <1>1, <1>2, Made
<1>4. owner'[l] = "main"
  BY <1>1 DEF LoopTypes
<1>5. LoopTypes'
  BY <1>0, <1>1, <1>2, <1>3 DEF LoopTypes
<1>6. OfMain(current["main"])'
  BY <1>1, <1>2, <1>3, <1>4 DEF LoopTypes, MainLoops, OfMain
<1>7. MainLoops'
  BY <1>0, <1>3, <1>6 DEF LoopTypes, MainLoops, OfMain
<1> QED
  BY <1>3, <1>5, <1>7

(* A run begins or ends, and a worker finds a loop: no call moves. *)
LEMMA RunKeeps ==
    ASSUME LoopTypes, MainLoops, CallInv,
           Threads!Stop \/ \E l \in Loop : Threads!Start(l)
    PROVE  LoopTypes' /\ MainLoops' /\ CallInv'
<1>1. UNCHANGED <<owner, closed, current, recorded, looked, fate, ready, emitted>>
      /\ used' = FALSE
  BY DEF Threads!Stop, Threads!Start
<1>2. runs' = None \/ \E l \in Loop : runs' = l /\ owner[l] = "main" /\ l \notin closed
  BY DEF Threads!Stop, Threads!Start, Threads!Usable, Threads!Main
<1>3. LoopTypes' /\ MainLoops'
  BY <1>1, <1>2 DEF LoopTypes, MainLoops, OfMain
<1>4. CallInv'
  BY <1>1 DEF CallInv, CallTypes, Waits, Places, Has, Apart, Ordered, IsInjective
<1> QED
  BY <1>3, <1>4

(* A call whose fate is known from the beginning. *)
LEMMA Counted ==
    ASSUME CallInv, NEW w \in Worker, NEW what \in Fates,
           fate' = [fate EXCEPT ![w] = Append(@, what)]
    PROVE  /\ fate' \in [Worker -> Seq(Fates)]
           /\ <<w, Len(fate[w]) + 1>> \in Call
           /\ Has(fate', <<w, Len(fate[w]) + 1>>, what)
           /\ \A c \in Call : \A f \in Fates :
                 Has(fate', c, f) <=> Has(fate, c, f) \/ (c = <<w, Len(fate[w]) + 1>> /\ f = what)
           /\ \A f \in Fates : ~Has(fate, <<w, Len(fate[w]) + 1>>, f)
<1>1. fate[w] \in Seq(Fates) /\ fate \in [Worker -> Seq(Fates)]
  BY DEF CallInv, CallTypes
<1>2. /\ Append(fate[w], what) \in Seq(Fates)
      /\ DOMAIN fate[w] = 1 .. Len(fate[w]) /\ Len(fate[w]) \in Nat
      /\ DOMAIN Append(fate[w], what) = 1 .. Len(fate[w]) + 1
      /\ \A i \in 1 .. Len(fate[w]) : Append(fate[w], what)[i] = fate[w][i]
      /\ Append(fate[w], what)[Len(fate[w]) + 1] = what
  BY <1>1, Grown
<1>3. /\ fate' \in [Worker -> Seq(Fates)]
      /\ fate'[w] = Append(fate[w], what)
      /\ \A v \in Worker \ {w} : fate'[v] = fate[v]
  BY <1>1, <1>2
<1>4. <<w, Len(fate[w]) + 1>> \in Call
  BY <1>2 DEF Call
<1>5. \A f \in Fates : ~Has(fate, <<w, Len(fate[w]) + 1>>, f)
  BY <1>2 DEF Has
<1>6. ASSUME NEW c \in Call, NEW f \in Fates
      PROVE  Has(fate', c, f) <=> Has(fate, c, f) \/ (c = <<w, Len(fate[w]) + 1>> /\ f = what)
  <2>1. c[1] \in Worker /\ c[2] \in Nat /\ c = <<c[1], c[2]>>
    BY DEF Call
  <2>2. CASE c[1] # w
    BY <1>3, <2>1, <2>2 DEF Has
  <2>3. CASE c[1] = w /\ c[2] # Len(fate[w]) + 1
    BY <1>2, <1>3, <2>1, <2>3 DEF Has
  <2>4. CASE c[1] = w /\ c[2] = Len(fate[w]) + 1
    BY <1>2, <1>3, <2>1, <2>4 DEF Has
  <2> QED BY <2>2, <2>3, <2>4
<1>7. Has(fate', <<w, Len(fate[w]) + 1>>, what)
  BY <1>2, <1>3 DEF Has
<1> QED
  BY <1>3, <1>4, <1>5, <1>6, <1>7

(* A call that is refused is in no place. *)
LEMMA RefusedKeeps ==
    ASSUME CallInv, NEW w \in Worker, fate' = [fate EXCEPT ![w] = Append(@, "refused")],
           UNCHANGED <<owner, closed, ready, emitted>>
    PROVE  CallInv'
<1>1. /\ fate' \in [Worker -> Seq(Fates)]
      /\ \A c \in Call : \A f \in {"handed", "emitted"} : Has(fate', c, f) <=> Has(fate, c, f)
  BY Counted DEF Fates
<1>2. /\ \A l \in Loop : \A i \in DOMAIN ready[l] : ready[l][i] \in Call
      /\ \A i \in DOMAIN emitted : emitted[i] \in Call
  BY DEF CallInv, CallTypes
<1>3. Places'
  BY <1>1, <1>2 DEF CallInv, Places
<1>4. CallTypes' /\ Waits' /\ Apart' /\ Ordered' /\ IsInjective(emitted)'
  BY <1>1 DEF CallInv, CallTypes, Waits, Apart, Ordered, IsInjective
<1> QED
  BY <1>3, <1>4 DEF CallInv

LEMMA LookKeeps ==
    ASSUME LoopTypes, MainLoops, CallInv, NEW w \in Worker, Threads!Look(w)
    PROVE  LoopTypes' /\ MainLoops' /\ CallInv'
<1>1. UNCHANGED <<owner, closed, current, recorded, runs, used, ready, emitted>>
  BY DEF Threads!Look
<1>2. CASE looked' = [looked EXCEPT ![w] = recorded] /\ UNCHANGED fate
  <2>1. LoopTypes' /\ MainLoops'
    BY <1>1, <1>2 DEF LoopTypes, MainLoops, OfMain
  <2>2. CallInv'
    BY <1>1, <1>2 DEF CallInv, CallTypes, Waits, Places, Has, Apart, Ordered, IsInjective
  <2> QED BY <2>1, <2>2
<1>3. CASE fate' = [fate EXCEPT ![w] = Append(@, "refused")] /\ UNCHANGED looked
  <2>1. LoopTypes' /\ MainLoops'
    BY <1>1, <1>3 DEF LoopTypes, MainLoops, OfMain
  <2>2. CallInv'
    BY <1>1, <1>3, RefusedKeeps
  <2> QED BY <2>1, <2>2
<1> QED
  BY <1>2, <1>3 DEF Threads!Look, Threads!Called

(* The call that is handed over is the worker's last, behind its others. *)
LEMMA HandedKeeps ==
    ASSUME CallInv, NEW w \in Worker, NEW l \in Loop, owner[l] = "main", l \notin closed,
           fate' = [fate EXCEPT ![w] = Append(@, "handed")],
           ready' = [ready EXCEPT ![l] = Append(@, <<w, Len(fate[w]) + 1>>)],
           UNCHANGED <<owner, closed, emitted>>
    PROVE  CallInv'
<1> DEFINE c == <<w, Len(fate[w]) + 1>>
           n == Len(ready[l]) + 1
<1>1. /\ fate' \in [Worker -> Seq(Fates)] /\ c \in Call /\ Has(fate', c, "handed")
      /\ \A d \in Call : Has(fate', d, "handed") <=> Has(fate, d, "handed") \/ d = c
      /\ \A d \in Call : Has(fate', d, "emitted") <=> Has(fate, d, "emitted")
      /\ ~Has(fate, c, "handed")
  BY Counted DEF Fates
<1>2. /\ ready[l] \in Seq(Call) /\ ready \in [Loop -> Seq(Call)]
      /\ Len(fate[w]) \in Nat /\ DOMAIN fate[w] = 1 .. Len(fate[w])
  BY DEF CallInv, CallTypes
<1>9. c[1] = w /\ c[2] = Len(fate[w]) + 1
  OBVIOUS
<1>10. ready' = [ready EXCEPT ![l] = Append(@, c)]
  OBVIOUS
<1> HIDE DEF c
<1>3. /\ Append(ready[l], c) \in Seq(Call)
      /\ n \in Nat /\ DOMAIN ready[l] = 1 .. n - 1
      /\ DOMAIN Append(ready[l], c) = 1 .. n
      /\ \A i \in 1 .. n - 1 : Append(ready[l], c)[i] = ready[l][i]
      /\ Append(ready[l], c)[n] = c
  BY <1>1, <1>2, Grown
<1>12. /\ ready'[l] = Append(ready[l], c)
       /\ \A k \in Loop \ {l} : ready'[k] = ready[k]
       /\ ready' \in [Loop -> Seq(Call)]
  BY <1>2, <1>3, <1>10
<1>13. n \notin DOMAIN ready[l] /\ \A i \in DOMAIN ready[l] : i \in Nat /\ i < n
  BY <1>3
<1> HIDE DEF n
<1>4. /\ ready' \in [Loop -> Seq(Call)]
      /\ DOMAIN ready'[l] = DOMAIN ready[l] \cup {n} /\ n \notin DOMAIN ready[l]
      /\ \A i \in DOMAIN ready[l] : i \in Nat /\ i < n /\ ready'[l][i] = ready[l][i]
      /\ ready'[l][n] = c
      /\ \A k \in Loop \ {l} : ready'[k] = ready[k]
  BY <1>3, <1>12, <1>13
<1>5. \A k \in Loop : \A i \in DOMAIN ready[k] :
         /\ ready[k][i] \in Call /\ Has(fate, ready[k][i], "handed") /\ ready[k][i] # c
  BY <1>1, <1>2 DEF CallInv, Places
<1>6. CallTypes' /\ Waits' /\ IsInjective(emitted)'
  BY <1>1, <1>4 DEF CallInv, CallTypes, Waits, IsInjective
<1>7. Places'
  <2>1. ASSUME NEW k \in Loop, NEW i \in DOMAIN ready'[k] PROVE Has(fate', ready'[k][i], "handed")
    <3>1. ready'[k][i] = c \/ (i \in DOMAIN ready[k] /\ ready'[k][i] = ready[k][i])
      BY <1>4, <2>1
    <3>2. Has(fate', ready'[k][i], "handed")
      BY <1>1, <1>5, <3>1
    <3> QED BY <3>2 DEF Has
  <2>2. ASSUME NEW i \in DOMAIN emitted PROVE Has(fate', emitted[i], "emitted")
    <3>1. emitted[i] \in Call /\ Has(fate, emitted[i], "emitted")
      BY <2>2 DEF CallInv, CallTypes, Places
    <3> QED BY <1>1, <3>1
  <2>3. ASSUME NEW d \in Call, Has(fate', d, "handed")
        PROVE  \E k \in Loop : \E i \in DOMAIN ready'[k] : ready'[k][i] = d
    <3>1. CASE d = c
      BY <1>4, <3>1
    <3>2. CASE d # c
      <4>1. PICK k \in Loop : \E i \in DOMAIN ready[k] : ready[k][i] = d
        BY <1>1, <2>3, <3>2 DEF CallInv, Places
      <4>2. PICK i \in DOMAIN ready[k] : ready[k][i] = d
        BY <4>1
      <4>3. i \in DOMAIN ready'[k] /\ ready'[k][i] = d
        BY <1>4, <4>2
      <4> QED BY <4>3
    <3> QED BY <3>1, <3>2
  <2>4. ASSUME NEW d \in Call, Has(fate', d, "emitted") PROVE \E i \in DOMAIN emitted : emitted[i] = d
    BY <1>1, <2>4 DEF CallInv, Places
  <2>5. emitted' = emitted
    OBVIOUS
  <2> QED BY <2>1, <2>2, <2>3, <2>4, <2>5 DEF Places
<1>8. Apart'
  <2> SUFFICES ASSUME NEW k \in Loop, NEW m \in Loop, NEW i \in DOMAIN ready'[k],
                      NEW j \in DOMAIN ready'[m], ready'[k][i] = ready'[m][j], k # m
               PROVE  FALSE
    BY DEF Apart
  <2>1. k # l => i \in DOMAIN ready[k] /\ ready'[k][i] = ready[k][i]
    BY <1>4
  <2>2. m # l => j \in DOMAIN ready[m] /\ ready'[m][j] = ready[m][j]
    BY <1>4
  <2>3. k = l => ready'[k][i] = c \/ (i \in DOMAIN ready[k] /\ ready'[k][i] = ready[k][i])
    BY <1>4
  <2>4. m = l => ready'[m][j] = c \/ (j \in DOMAIN ready[m] /\ ready'[m][j] = ready[m][j])
    BY <1>4
  <2> QED BY <1>5, <2>1, <2>2, <2>3, <2>4 DEF CallInv, Apart
<1>11. Ordered'
  <2> SUFFICES ASSUME NEW k \in Loop, NEW i \in DOMAIN ready'[k], NEW j \in DOMAIN ready'[k],
                      i < j, ready'[k][i][1] = ready'[k][j][1]
               PROVE  ready'[k][i][2] < ready'[k][j][2]
    BY DEF Ordered
  <2>1. CASE k # l
    BY <1>4, <2>1 DEF CallInv, Ordered
  <2>2. CASE k = l /\ j # n
    <3>1. i # n
      BY <1>3, <1>4, <2>2
    <3> QED BY <1>4, <2>2, <3>1 DEF CallInv, Ordered
  <2>3. CASE k = l /\ j = n
    <3>1. i \in DOMAIN ready[l] /\ ready'[k][i] = ready[l][i] /\ ready'[k][j] = c
      BY <1>3, <1>4, <2>3
    <3>2. ready[l][i][1] = w /\ ready[l][i][2] \in DOMAIN fate[w]
      BY <1>5, <1>9, <3>1 DEF Has
    <3>3. ready[l][i][2] < c[2]
      BY <1>2, <1>9, <3>2
    <3> QED BY <3>1, <3>3
  <2> QED BY <2>1, <2>2, <2>3
<1> QED
  BY <1>6, <1>7, <1>8, <1>11 DEF CallInv

LEMMA HandOverKeeps ==
    ASSUME LoopTypes, MainLoops, CallInv, NEW w \in Worker, Threads!HandOver(w)
    PROVE  LoopTypes' /\ MainLoops' /\ CallInv'
<1>1. /\ UNCHANGED <<owner, closed, current, recorded, runs, used, emitted>>
      /\ looked' = [looked EXCEPT ![w] = None] /\ looked[w] \in Loop
  BY DEF Threads!HandOver, LoopTypes
<1>2. LoopTypes' /\ MainLoops'
  BY <1>1 DEF LoopTypes, MainLoops, OfMain
<1>3. CASE looked[w] \in closed
  <2>1. fate' = [fate EXCEPT ![w] = Append(@, "refused")] /\ UNCHANGED ready
    BY <1>3 DEF Threads!HandOver, Threads!Called
  <2> QED BY <1>1, <1>2, <2>1, RefusedKeeps
<1>4. CASE looked[w] \notin closed
  <2>1. /\ fate' = [fate EXCEPT ![w] = Append(@, "handed")]
        /\ ready' = [ready EXCEPT ![looked[w]] = Append(@, <<w, Len(fate[w]) + 1>>)]
    BY <1>4 DEF Threads!HandOver, Threads!Called
  <2>2. owner[looked[w]] = "main"
    BY <1>1, LoopsAreNumbers DEF MainLoops, OfMain
  <2> QED BY <1>1, <1>2, <1>4, <2>1, <2>2, HandedKeeps
<1> QED
  BY <1>3, <1>4

(* Calls change their fate. *)
LEMMA Becomes ==
    ASSUME CallInv, NEW S \in SUBSET Call, NEW what \in Fates, fate' = Threads!Become(S, what)
    PROVE  /\ fate' \in [Worker -> Seq(Fates)]
           /\ \A c \in Call : \A f \in Fates :
                 Has(fate', c, f) <=> IF c \in S THEN f = what /\ \E g \in Fates : Has(fate, c, g)
                                ELSE Has(fate, c, f)
<1>1. fate \in [Worker -> Seq(Fates)]
  BY DEF CallInv, CallTypes
<1>2. fate' = [w \in Worker |->
                  [n \in DOMAIN fate[w] |-> IF <<w, n>> \in S THEN what ELSE fate[w][n]]]
  BY DEF Threads!Become
<1>3. \A w \in Worker : DOMAIN fate'[w] = DOMAIN fate[w]
  BY <1>2
<1>4. ASSUME NEW w \in Worker PROVE fate'[w] \in Seq(Fates)
  <2>1. fate[w] \in Seq(Fates) /\ Len(fate[w]) \in Nat /\ DOMAIN fate[w] = 1 .. Len(fate[w])
        /\ \A n \in 1 .. Len(fate[w]) : fate[w][n] \in Fates
    BY <1>1
  <2>2. fate'[w] \in [1 .. Len(fate[w]) -> Fates]
    BY <1>2, <2>1
  <2> QED BY <2>1, <2>2
<1>5. ASSUME NEW c \in Call, NEW f \in Fates
      PROVE  Has(fate', c, f) <=> IF c \in S THEN f = what /\ \E g \in Fates : Has(fate, c, g) ELSE Has(fate, c, f)
  <2>1. c[1] \in Worker /\ c = <<c[1], c[2]>>
    BY DEF Call
  <2>2. \A n \in DOMAIN fate[c[1]] : fate[c[1]][n] \in Fates
    BY <1>1, <2>1
  <2>3. \A n \in DOMAIN fate[c[1]] :
           fate'[c[1]][n] = IF <<c[1], n>> \in S THEN what ELSE fate[c[1]][n]
    BY <1>2, <2>1
  <2>4. c[2] \in DOMAIN fate[c[1]] =>
           fate'[c[1]][c[2]] = IF c \in S THEN what ELSE fate[c[1]][c[2]]
    BY <2>1, <2>3
  <2> QED BY <1>3, <2>1, <2>2, <2>4 DEF Has
<1>6. fate' \in [Worker -> Seq(Fates)]
  BY <1>2, <1>4
<1> QED
  BY <1>5, <1>6

(* What is scheduled goes down with its loop. *)
LEMMA CloseKeeps ==
    ASSUME LoopTypes, MainLoops, CallInv, NEW l \in Loop, Threads!Close(l)
    PROVE  LoopTypes' /\ MainLoops' /\ CallInv'
<1>1. /\ UNCHANGED <<owner, current, recorded, runs, used, looked, emitted>>
      /\ closed' = closed \cup {l} /\ runs # l
      /\ ready' = [ready EXCEPT ![l] = <<>>]
      /\ fate' = Threads!Become(ToSet(ready[l]), "dropped")
  BY DEF Threads!Close, Threads!ToSet, ToSet, Threads!Main
<1>2. LoopTypes' /\ MainLoops'
  BY <1>1 DEF LoopTypes, MainLoops, OfMain
<1>3. /\ ready \in [Loop -> Seq(Call)] /\ ready[l] \in Seq(Call)
      /\ \A k \in Loop : \A i \in DOMAIN ready[k] : ready[k][i] \in Call
      /\ \A i \in DOMAIN emitted : emitted[i] \in Call
  BY DEF CallInv, CallTypes
<1>4. ToSet(ready[l]) \in SUBSET Call
  BY <1>3 DEF ToSet
<1>5. /\ fate' \in [Worker -> Seq(Fates)]
      /\ \A c \in Call : \A f \in {"handed", "emitted"} :
            Has(fate', c, f) <=> c \notin ToSet(ready[l]) /\ Has(fate, c, f)
  BY <1>1, <1>4, Becomes DEF Fates
<1>6. /\ ready' \in [Loop -> Seq(Call)] /\ ready'[l] = <<>> /\ DOMAIN ready'[l] = {}
      /\ \A k \in Loop \ {l} : ready'[k] = ready[k]
  BY <1>1, <1>3
<1>7. CallTypes' /\ Waits' /\ Apart' /\ Ordered' /\ IsInjective(emitted)'
  BY <1>1, <1>5, <1>6 DEF CallInv, CallTypes, Waits, Apart, Ordered, IsInjective
<1>8. Places'
  <2>1. ASSUME NEW k \in Loop, NEW i \in DOMAIN ready'[k] PROVE Has(fate', ready'[k][i], "handed")
    <3>1. k # l /\ ready'[k] = ready[k] /\ i \in DOMAIN ready[k]
      BY <1>6, <2>1
    <3>2. ready[k][i] \notin ToSet(ready[l])
      BY <3>1 DEF CallInv, Apart, ToSet
    <3>3. Has(fate, ready[k][i], "handed") /\ ready[k][i] \in Call
      BY <1>3, <3>1 DEF CallInv, Places
    <3> QED BY <1>5, <3>1, <3>2, <3>3
  <2>2. ASSUME NEW i \in DOMAIN emitted PROVE Has(fate', emitted[i], "emitted")
    <3>1. Has(fate, emitted[i], "emitted") /\ emitted[i] \in Call
      BY <1>3 DEF CallInv, Places
    <3>2. emitted[i] \notin ToSet(ready[l])
      BY <3>1 DEF CallInv, Places, ToSet, Has
    <3> QED BY <1>5, <3>1, <3>2
  <2>3. ASSUME NEW c \in Call, Has(fate', c, "handed")
        PROVE  \E k \in Loop : \E i \in DOMAIN ready'[k] : ready'[k][i] = c
    <3>1. c \notin ToSet(ready[l]) /\ Has(fate, c, "handed")
      BY <1>5, <2>3
    <3>2. PICK k \in Loop : \E i \in DOMAIN ready[k] : ready[k][i] = c
      BY <3>1 DEF CallInv, Places
    <3>3. k # l
      BY <3>1, <3>2 DEF ToSet
    <3> QED BY <1>6, <3>2, <3>3
  <2>4. ASSUME NEW c \in Call, Has(fate', c, "emitted") PROVE \E i \in DOMAIN emitted : emitted[i] = c
    BY <1>5, <2>4 DEF CallInv, Places
  <2> QED BY <1>1, <2>1, <2>2, <2>3, <2>4 DEF Places
<1> QED
  BY <1>2, <1>7, <1>8 DEF CallInv

(* The first call of the loop that runs is emitted. *)
LEMMA TurnKeeps ==
    ASSUME LoopTypes, MainLoops, CallInv, Threads!Turn
    PROVE  LoopTypes' /\ MainLoops' /\ CallInv'
<1> DEFINE c == Head(ready[runs])
<1>1. /\ UNCHANGED <<owner, closed, current, recorded, runs, used, looked>>
      /\ runs \in Loop /\ ready[runs] # <<>>
      /\ ready' = [ready EXCEPT ![runs] = Tail(@)]
      /\ fate' = Threads!Become({c}, "emitted")
      /\ emitted' = Append(emitted, c)
  BY DEF Threads!Turn, LoopTypes
<1>2. LoopTypes' /\ MainLoops'
  BY <1>1 DEF LoopTypes, MainLoops, OfMain
<1>3. /\ ready \in [Loop -> Seq(Call)] /\ ready[runs] \in Seq(Call) /\ emitted \in Seq(Call)
      /\ \A k \in Loop : \A i \in DOMAIN ready[k] : ready[k][i] \in Call
      /\ \A i \in DOMAIN emitted : emitted[i] \in Call
  BY <1>1 DEF CallInv, CallTypes
<1>4. /\ Tail(ready[runs]) \in Seq(Call) /\ Len(ready[runs]) \in Nat \ {0}
      /\ DOMAIN ready[runs] = 1 .. Len(ready[runs])
      /\ c = ready[runs][1] /\ c \in Call
      /\ DOMAIN Tail(ready[runs]) = 1 .. Len(ready[runs]) - 1
      /\ \A i \in 1 .. Len(ready[runs]) - 1 : Tail(ready[runs])[i] = ready[runs][i + 1]
  BY <1>1, <1>3, Taken
<1> HIDE DEF c
<1>5. /\ ready' \in [Loop -> Seq(Call)]
      /\ \A k \in Loop \ {runs} : ready'[k] = ready[k]
      /\ \A i \in DOMAIN ready'[runs] : /\ i \in Nat /\ i + 1 \in DOMAIN ready[runs]
                                        /\ ready'[runs][i] = ready[runs][i + 1]
      /\ \A i \in DOMAIN ready[runs] : i = 1 \/ (/\ i - 1 \in DOMAIN ready'[runs]
                                                 /\ ready'[runs][i - 1] = ready[runs][i])
  BY <1>1, <1>3, <1>4
<1>6. Has(fate, c, "handed") /\ ~Has(fate, c, "emitted")
  BY <1>1, <1>4 DEF CallInv, Places, Has
<1>7. /\ fate' \in [Worker -> Seq(Fates)]
      /\ \A d \in Call : Has(fate', d, "handed") <=> d # c /\ Has(fate, d, "handed")
      /\ \A d \in Call : Has(fate', d, "emitted") <=> d = c \/ Has(fate, d, "emitted")
  <2>1. {c} \in SUBSET Call /\ "emitted" \in Fates /\ "handed" \in Fates
    BY <1>4 DEF Fates
  <2>2. /\ fate' \in [Worker -> Seq(Fates)]
        /\ \A d \in Call : \A f \in Fates :
              Has(fate', d, f) <=> IF d \in {c} THEN f = "emitted" /\ \E g \in Fates : Has(fate, d, g)
                                 ELSE Has(fate, d, f)
    BY <1>1, <2>1, Becomes
  <2> QED BY <1>6, <2>1, <2>2
<1>8. /\ emitted' \in Seq(Call)
      /\ DOMAIN emitted' = DOMAIN emitted \cup {Len(emitted) + 1}
      /\ Len(emitted) + 1 \notin DOMAIN emitted
      /\ \A i \in DOMAIN emitted : emitted'[i] = emitted[i]
      /\ emitted'[Len(emitted) + 1] = c
  BY <1>1, <1>3, <1>4, Grown
<1>9. \A i \in DOMAIN emitted : emitted[i] # c
  BY <1>6 DEF CallInv, Places
<1>10. \A i \in DOMAIN ready[runs] : i # 1 => ready[runs][i] # c
  <2> SUFFICES ASSUME NEW i \in DOMAIN ready[runs], i # 1, ready[runs][i] = c PROVE FALSE
    OBVIOUS
  <2>1. 1 \in DOMAIN ready[runs] /\ 1 < i /\ ready[runs][1] = ready[runs][i]
    BY <1>4
  <2>2. ready[runs][1][2] < ready[runs][1][2]
    BY <1>1, <2>1 DEF CallInv, Ordered
  <2>3. ready[runs][1][2] \in Nat
    BY <1>4 DEF Call
  <2> QED BY <2>2, <2>3
<1>11. IsInjective(emitted)'
  BY <1>8, <1>9 DEF CallInv, IsInjective
<1>12. CallTypes'
  BY <1>5, <1>7, <1>8 DEF CallTypes
<1>13. Waits'
  BY <1>1, <1>5 DEF CallInv, Waits
<1>14. ASSUME NEW k \in Loop, NEW i \in DOMAIN ready'[k]
       PROVE  \E j \in DOMAIN ready[k] :
                 ready[k][j] = ready'[k][i] /\ ready'[k][i] # c /\ (k = runs => j = i + 1)
                                            /\ (k # runs => j = i)
  <2>1. CASE k = runs
    <3>1. i \in Nat /\ i + 1 \in DOMAIN ready[k] /\ ready'[k][i] = ready[k][i + 1] /\ i # 0
      BY <1>1, <1>4, <1>5, <2>1
    <3>2. i + 1 # 1
      BY <3>1
    <3> QED BY <1>10, <2>1, <3>1, <3>2
  <2>2. CASE k # runs
    <3>1. ready'[k] = ready[k]
      BY <1>5, <2>2
    <3>2. ready[k][i] # c
      BY <1>1, <1>4, <2>2, <3>1 DEF CallInv, Apart
    <3> QED BY <2>2, <3>1, <3>2
  <2> QED BY <2>1, <2>2
<1>15. Apart'
  <2> SUFFICES ASSUME NEW k \in Loop, NEW m \in Loop, NEW i \in DOMAIN ready'[k],
                      NEW j \in DOMAIN ready'[m], ready'[k][i] = ready'[m][j]
               PROVE  k = m
    BY DEF Apart
  <2>1. /\ \E p \in DOMAIN ready[k] : ready[k][p] = ready'[k][i]
        /\ \E p \in DOMAIN ready[m] : ready[m][p] = ready'[m][j]
    BY <1>14
  <2> QED BY <2>1 DEF CallInv, Apart
<1>16. Ordered'
  <2> SUFFICES ASSUME NEW k \in Loop, NEW i \in DOMAIN ready'[k], NEW j \in DOMAIN ready'[k],
                      i < j, ready'[k][i][1] = ready'[k][j][1]
               PROVE  ready'[k][i][2] < ready'[k][j][2]
    BY DEF Ordered
  <2>1. CASE k = runs
    <3>1. /\ i + 1 \in DOMAIN ready[k] /\ ready[k][i + 1] = ready'[k][i]
          /\ j + 1 \in DOMAIN ready[k] /\ ready[k][j + 1] = ready'[k][j]
          /\ i + 1 < j + 1
      BY <1>5, <2>1
    <3> QED BY <3>1 DEF CallInv, Ordered
  <2>2. CASE k # runs
    BY <1>5, <2>2 DEF CallInv, Ordered
  <2> QED BY <2>1, <2>2
<1>17. Places'
  <2>1. ASSUME NEW k \in Loop, NEW i \in DOMAIN ready'[k] PROVE Has(fate', ready'[k][i], "handed")
    <3>1. PICK j \in DOMAIN ready[k] : ready[k][j] = ready'[k][i] /\ ready'[k][i] # c
      BY <1>14
    <3>2. Has(fate, ready'[k][i], "handed") /\ ready'[k][i] \in Call
      BY <1>3, <3>1 DEF CallInv, Places
    <3> QED BY <1>7, <3>1, <3>2
  <2>2. ASSUME NEW i \in DOMAIN emitted' PROVE Has(fate', emitted'[i], "emitted")
    <3>1. emitted'[i] = c \/ (i \in DOMAIN emitted /\ emitted'[i] = emitted[i])
      BY <1>8
    <3>2. emitted'[i] \in Call /\ (emitted'[i] = c \/ Has(fate, emitted'[i], "emitted"))
      BY <1>3, <1>4, <3>1 DEF CallInv, Places
    <3> QED BY <1>7, <3>2
  <2>3. ASSUME NEW d \in Call, Has(fate', d, "handed")
        PROVE  \E k \in Loop : \E i \in DOMAIN ready'[k] : ready'[k][i] = d
    <3>1. d # c /\ Has(fate, d, "handed")
      BY <1>7, <2>3
    <3>2. PICK k \in Loop : \E i \in DOMAIN ready[k] : ready[k][i] = d
      BY <3>1 DEF CallInv, Places
    <3>3. PICK i \in DOMAIN ready[k] : ready[k][i] = d
      BY <3>2
    <3>4. CASE k # runs
      BY <1>5, <3>3, <3>4
    <3>5. CASE k = runs
      <4>1. i # 1
        BY <1>4, <3>1, <3>3, <3>5
      <4> QED BY <1>5, <3>3, <3>5, <4>1
    <3> QED BY <3>4, <3>5
  <2>4. ASSUME NEW d \in Call, Has(fate', d, "emitted") PROVE \E i \in DOMAIN emitted' : emitted'[i] = d
    <3>1. d = c \/ \E i \in DOMAIN emitted : emitted[i] = d
      BY <1>7, <2>4 DEF CallInv, Places
    <3> QED BY <1>8, <3>1
  <2> QED BY <2>1, <2>2, <2>3, <2>4 DEF Places
<1> QED
  BY <1>2, <1>11, <1>12, <1>13, <1>15, <1>16, <1>17 DEF CallInv

LEMMA ThreadsNext == ThreadInv /\ [Next]_vars => ThreadInv'
<1> SUFFICES ASSUME ThreadInv, [Next]_vars, (use = "threads")' PROVE (LoopTypes /\ MainLoops /\ CallInv)'
  BY DEF ThreadInv
<1>1. use = "threads" /\ (Threads!Next \/ UNCHANGED threadVars)
  BY DEF Next, vars, InRun, InIterate, InThreads
<1>2. LoopTypes /\ MainLoops /\ CallInv
  BY <1>1 DEF ThreadInv
<1>3. CASE UNCHANGED threadVars
  <2>1. LoopTypes' /\ MainLoops'
    BY <1>2, <1>3 DEF threadVars, LoopTypes, MainLoops, OfMain
  <2>2. CallInv'
    BY <1>2, <1>3 DEF threadVars, CallInv, CallTypes, Waits, Places, Has, Apart, Ordered,
       IsInjective
  <2> QED BY <2>1, <2>2
<1>4. CASE Threads!Next
  BY <1>2, <1>4, GetEventLoopKeeps, NewLoopKeeps, RunKeeps, CloseKeeps, LookKeeps, HandOverKeeps,
     TurnKeeps DEF Threads!Next, Loop
<1> QED
  BY <1>1, <1>3, <1>4
-----------------------------------------------------------------------------
(* The emits that worker threads hand over come out in the loop of the main
   thread, in order and once, whatever loops are made, run and closed meanwhile;
   a loop that the main thread runs and uses is the one that workers find. *)
THEOREM HandsOver == Spec => []HandedOver
<1>1. ThreadInv => HandedOver
  <2> SUFFICES ASSUME LoopTypes, MainLoops, CallInv PROVE Threads!HandedOver
    BY DEF ThreadInv, HandedOver
  <2>1. /\ IsInjective(emitted)
        /\ \A l \in Loop : ready[l] # <<>> => owner[l] = "main" /\ l \notin closed
        /\ \A l \in Loop : \A i, j \in DOMAIN ready[l] :
              i < j /\ ready[l][i][1] = ready[l][j][1] => ready[l][i][2] < ready[l][j][2]
        /\ used => recorded = runs
    BY DEF CallInv, Waits, Ordered, MainLoops
  <2>2. ASSUME NEW w \in Worker, NEW n \in DOMAIN fate[w]
        PROVE  /\ fate[w][n] = "emitted" <=> <<w, n>> \in ToSet(emitted)
               /\ fate[w][n] = "handed" <=> \E l \in Loop : <<w, n>> \in ToSet(ready[l])
    <3>1. <<w, n>> \in Call
      BY DEF CallInv, CallTypes, Call
    <3>2. \A f \in Fates : Has(fate, <<w, n>>, f) <=> fate[w][n] = f
      BY DEF Has
    <3>3. Has(fate, <<w, n>>, "emitted") <=> <<w, n>> \in ToSet(emitted)
      BY <3>1 DEF CallInv, Places, ToSet
    <3>4. Has(fate, <<w, n>>, "handed") <=> \E l \in Loop : <<w, n>> \in ToSet(ready[l])
      BY <3>1 DEF CallInv, Places, ToSet
    <3> QED BY <3>2, <3>3, <3>4 DEF Fates
  <2> QED BY <2>1, <2>2 DEF Threads!HandedOver, Threads!Main, Loop,
     Threads!ToSet, ToSet, Threads!IsInjective, IsInjective
<1> QED
  BY <1>1, ThreadsInit, ThreadsNext, PTL DEF Spec
-----------------------------------------------------------------------------
(* The event and the relay: what is in the queue was told, and the task that
   waits for more is connected. *)
Numbers == Nat \ {Iterate!END}
Tellings == {"value", "error"}
TaskState == {"scheduled", "suspended", "looping", "emitting", "done", "over"}

IterTypes ==
    /\ mode \in Iterate!AllModes /\ task \in TaskState
    /\ told \in Seq(Tellings) /\ from \in Nat /\ from <= Len(told)
    /\ q \in Seq(Nat) /\ \A i \in DOMAIN q : q[i] <= Len(told)
    /\ connected \in BOOLEAN

(* An iteration: what it gave was told, an error at most at last, and then it is
   connected no more. *)
GivenWell ==
    /\ outs \in Seq(Numbers) /\ \A i \in DOMAIN outs : outs[i] <= Len(told)
    /\ \A i \in DOMAIN outs : told[outs[i]] = "error" => i = Len(outs) /\ ~connected
    /\ task = "scheduled" => ~connected /\ outs = <<>> /\ q = <<>>
    /\ task \in {"suspended", "looping"} => connected
    /\ task = "emitting" => outs # <<>> /\ (connected \/ told[outs[Len(outs)]] = "error")
    /\ task # "done" /\ fut = None

AllInOrder ==
    /\ Len(outs) <= Len(told) - from
    /\ \A i \in DOMAIN outs : outs[i] = from + i
    /\ connected => outs \o Keep(q, Numbers) = Iterate!Heard

LatestInOrder ==
    /\ \A i, j \in DOMAIN outs : i < j => outs[i] < outs[j]
    /\ connected => \A j \in DOMAIN q : q[j] \in Numbers =>
          /\ \A i \in DOMAIN outs : outs[i] < q[j]
          /\ \A i \in DOMAIN q : i < j => q[i] < q[j]
          /\ told[q[j]] = "value" => \A k \in q[j] + 1 .. Len(told) : told[k] = "error"

(* An await: the future has the first value since it was connected. *)
FirstAwaited ==
    /\ fut # None => fut = from + 1 /\ fut <= Len(told)
    /\ connected /\ fut = None => Len(told) = from
    /\ task = "scheduled" => ~connected /\ fut = None
    /\ connected <=> task = "suspended"
    /\ task # "looping" /\ (task = "emitting" => outs # <<>>)
    /\ IF task \in {"scheduled", "suspended", "done"} THEN outs = <<>>
       ELSE outs \in Seq(Nat \cup {None}) /\ (outs # <<>> => outs[1] = fut)

IterWell ==
    /\ IterTypes
    /\ mode # "await" => GivenWell
    /\ mode = "aiter" => AllInOrder
    /\ mode = "last" => LatestInOrder
    /\ mode = "await" => FirstAwaited

IterInv == use = "iterate" => IterWell

(* The numbers of what was told after the first f. *)
NumbersAfter(t, f) == SubSeq([n \in DOMAIN t |-> n], f + 1, Len(t))

LEMMA Numbered ==
    ASSUME NEW T, NEW t \in Seq(T), NEW f \in Nat, f <= Len(t)
    PROVE  /\ NumbersAfter(t, f) \in Seq(Numbers) /\ Len(NumbersAfter(t, f)) = Len(t) - f
           /\ \A i \in 1 .. Len(t) - f : NumbersAfter(t, f)[i] = f + i
<1> DEFINE all == [n \in DOMAIN t |-> n]
<1>1. Len(t) \in Nat /\ f \in 0 .. Len(t) /\ DOMAIN t = 1 .. Len(t)
  OBVIOUS
<1>2. all \in Seq(Numbers) /\ Len(all) = Len(t) /\ \A i \in 1 .. Len(t) : all[i] = i
  BY <1>1 DEF Numbers, Iterate!END
<1> DEFINE h == SubSeq(all, f + 1, Len(all))
<1>3. NumbersAfter(t, f) = h
  BY <1>2 DEF NumbersAfter
<1> HIDE DEF all
<1>4. /\ h \in Seq(Numbers)
      /\ Len(h) = Len(all) - f
      /\ \A i \in 1 .. Len(all) - f : h[i] = all[f + i]
  <2>1. f \in 0 .. Len(all) /\ all \in Seq(Numbers)
    BY <1>1, <1>2
  <2> QED BY <2>1, Split
<1> HIDE DEF h
<1>5. \A i \in 1 .. Len(t) - f : f + i \in 1 .. Len(t)
  BY <1>1
<1> QED BY <1>2, <1>3, <1>4, <1>5

LEMMA HeardGrows ==
    ASSUME IterTypes, IterTypes', from' = from, Len(told') = Len(told) + 1
    PROVE  Iterate!Heard' = Append(Iterate!Heard, Len(told) + 1)
<1> DEFINE h == Iterate!Heard
           g == Iterate!Heard'
           more == Append(h, Len(told) + 1)
<1>1. /\ told \in Seq(Tellings) /\ told' \in Seq(Tellings)
      /\ Len(told) \in Nat /\ from \in Nat /\ from <= Len(told) /\ from <= Len(told')
      /\ Len(told) + 1 \in Numbers
  BY DEF IterTypes, Numbers, Iterate!END
<1>2. /\ h \in Seq(Numbers) /\ Len(h) = Len(told) - from
      /\ \A i \in 1 .. Len(told) - from : h[i] = from + i
  <2>1. h = NumbersAfter(told, from)
    BY DEF Iterate!Heard, NumbersAfter
  <2> QED BY <1>1, <2>1, Numbered
<1>3. /\ g \in Seq(Numbers) /\ Len(g) = Len(told') - from
      /\ \A i \in 1 .. Len(told') - from : g[i] = from + i
  <2>1. g = NumbersAfter(told', from)
    BY DEF Iterate!Heard, NumbersAfter
  <2> QED BY <1>1, <2>1, Numbered
<1> HIDE DEF h, g
<1>4. /\ more \in Seq(Numbers) /\ Len(more) = Len(h) + 1
      /\ \A i \in 1 .. Len(h) : more[i] = h[i]
      /\ more[Len(h) + 1] = Len(told) + 1
  BY <1>1, <1>2, Grown
<1> HIDE DEF more
<1>5. \A i \in 1 .. Len(more) : more[i] = g[i]
  <2> SUFFICES ASSUME NEW i \in 1 .. Len(more) PROVE more[i] = g[i]
    OBVIOUS
  <2>1. Len(h) \in Nat /\ Len(told) \in Nat /\ Len(told') = Len(told) + 1
    BY <1>1, <1>2
  <2>2. CASE i \in 1 .. Len(h)
    BY <1>1, <1>2, <1>3, <1>4, <2>1, <2>2
  <2>3. CASE i = Len(h) + 1
    <3>1. from + i = Len(told) + 1 /\ i \in 1 .. Len(told') - from
      BY <1>1, <1>2, <2>1, <2>3
    <3> QED BY <1>3, <1>4, <2>3, <3>1
  <2> QED BY <1>4, <2>1, <2>2, <2>3
<1>6. g = more
  <2>1. Len(g) = Len(more)
    BY <1>1, <1>2, <1>3, <1>4
  <2> QED BY <1>3, <1>4, <1>5, <2>1
<1> QED BY <1>6 DEF g, h, more

LEMMA IterateInit == Init => IterInv
<1> SUFFICES ASSUME Init, use = "iterate" PROVE IterInv
  BY DEF IterInv
<1>1. Iterate!Init /\ Modes \subseteq Iterate!AllModes
  BY ModeAssumption DEF Init
<1>2. /\ told = <<>> /\ q = <<>> /\ outs = <<>> /\ from = 0 /\ task = "scheduled"
      /\ connected = FALSE /\ mode \in Iterate!AllModes /\ fut = None
  BY <1>1 DEF Iterate!Init
<1>3. IterTypes
  <2>1. Len(<<>>) = 0 /\ <<>> \in Seq(Tellings) /\ <<>> \in Seq(Nat) /\ DOMAIN <<>> = {}
    OBVIOUS
  <2>2. told \in Seq(Tellings) /\ from \in Nat /\ from <= Len(told) /\ q \in Seq(Nat)
    BY <1>2, <2>1
  <2>3. \A i \in DOMAIN q : q[i] <= Len(told)
    BY <1>2, <2>1
  <2> QED BY <1>2, <2>2, <2>3 DEF IterTypes, TaskState
<1>4. mode # "await" => GivenWell
  BY <1>2 DEF GivenWell
<1>5. mode = "aiter" => AllInOrder
  BY <1>2 DEF AllInOrder
<1>6. mode = "last" => LatestInOrder
  BY <1>2 DEF LatestInOrder
<1>7. mode = "await" => FirstAwaited
  BY <1>2 DEF FirstAwaited
<1> QED BY <1>3, <1>4, <1>5, <1>6, <1>7 DEF IterInv, IterWell

(* Steps that neither tell nor give: what listens may only let go, and the task go
   on. *)
LEMMA QuietKeeps ==
    ASSUME IterWell, UNCHANGED <<mode, told, q, fut, from, outs>>,
           connected' \in BOOLEAN, connected' => connected, task' \in TaskState,
           task' # "scheduled" \/ task' = task,
           task' \in {"suspended", "looping"} => connected' /\ task' # "emitting",
           mode # "await" => task' # "done" /\ (task' = "emitting" => UNCHANGED <<task, connected>>),
           mode = "await" => task' # "looping" /\ (connected' <=> task' = "suspended")
                             /\ (task' \in {"suspended", "done"} => task \in {"suspended", "done"})
                             /\ (task' = "emitting" => task' = task)
    PROVE  IterWell'
<1>1. IterTypes'
  BY DEF IterWell, IterTypes
<1>2. mode # "await" => GivenWell'
  BY DEF IterWell, GivenWell
<1>3. mode = "aiter" => AllInOrder'
  BY DEF IterWell, AllInOrder, Iterate!Heard
<1>4. mode = "last" => LatestInOrder'
  BY DEF IterWell, LatestInOrder
<1>5. mode = "await" => FirstAwaited'
  <2> SUFFICES ASSUME mode = "await" PROVE FirstAwaited'
    OBVIOUS
  <2>1. FirstAwaited
    BY DEF IterWell
  <2>2. IF task' \in {"scheduled", "suspended", "done"} THEN outs = <<>>
        ELSE outs \in Seq(Nat \cup {None}) /\ (outs # <<>> => outs[1] = fut)
    <3>1. <<>> \in Seq(Nat \cup {None}) /\ <<>> = <<>>
      OBVIOUS
    <3>2. CASE task \in {"scheduled", "suspended", "done"}
      BY <2>1, <3>1, <3>2 DEF FirstAwaited
    <3>3. CASE task \notin {"scheduled", "suspended", "done"}
      BY <2>1, <3>3 DEF FirstAwaited
    <3> QED BY <3>2, <3>3
  <2>3. task' = "scheduled" => ~connected' /\ fut' = None
    BY <2>1 DEF FirstAwaited
  <2> QED BY <2>1, <2>2, <2>3 DEF FirstAwaited
<1> QED BY <1>1, <1>2, <1>3, <1>4, <1>5 DEF IterWell

LEMMA TellsKeeps ==
    ASSUME IterWell, NEW what \in Tellings, Iterate!EventTells(what)
    PROVE  IterWell'
<1> DEFINE n == Len(told) + 1
<1>1. /\ task # "looping" /\ told' = Append(told, what)
      /\ q' = IF connected /\ mode # "await" THEN Iterate!Put(n, what) ELSE q
      /\ fut' = IF connected /\ mode = "await" /\ fut = None THEN n ELSE fut
      /\ UNCHANGED <<mode, done, connected, task, cancel, relayDone, from, outs>>
  BY DEF Iterate!EventTells, Iterate!InUserCode, Iterate!Iterates
<1>2. /\ told \in Seq(Tellings) /\ Len(told) \in Nat /\ n \in Numbers /\ n \in Nat
      /\ q \in Seq(Nat) /\ \A i \in DOMAIN q : q[i] <= Len(told) /\ q[i] \in Nat
  BY DEF IterWell, IterTypes, Numbers, Iterate!END
<1>3. /\ told' \in Seq(Tellings) /\ Len(told') = n /\ told'[n] = what
      /\ \A i \in 1 .. Len(told) : told'[i] = told[i]
  BY <1>1, <1>2
<1> HIDE DEF n
<1>4. CASE mode = "await"
  <2>1. q' = q /\ fut' = (IF connected /\ fut = None THEN n ELSE fut)
    BY <1>1, <1>4
  <2>2. FirstAwaited'
    <3>1. FirstAwaited /\ from \in Nat
      BY <1>4 DEF IterWell, IterTypes
    <3>2. fut' # None => fut' = from + 1 /\ fut' <= Len(told')
      BY <1>2, <1>3, <2>1, <3>1 DEF FirstAwaited, n
    <3>3. connected /\ fut' = None => Len(told') = from
      BY <1>2, <2>1, NoneAssumption
    <3>4. task = "scheduled" => ~connected /\ fut' = None
      BY <2>1, <3>1 DEF FirstAwaited
    <3>5. connected => task = "suspended"
      BY <3>1 DEF FirstAwaited
    <3>6. IF task \in {"scheduled", "suspended", "done"} THEN outs = <<>>
          ELSE outs \in Seq(Nat \cup {None}) /\ (outs # <<>> => outs[1] = fut')
      BY <2>1, <3>1, <3>5 DEF FirstAwaited
    <3> QED BY <1>1, <3>1, <3>2, <3>3, <3>4, <3>6 DEF FirstAwaited
  <2>3. IterTypes'
    BY <1>1, <1>2, <1>3, <2>1 DEF IterWell, IterTypes, n
  <2> QED BY <1>1, <1>4, <2>2, <2>3 DEF IterWell
<1>5. CASE mode # "await"
  <2>1. q' = IF ~connected THEN q ELSE IF mode = "last" /\ what = "value" THEN <<n>> ELSE Append(q, n)
    BY <1>1, <1>2, <1>5 DEF Iterate!Put, Iterate!OnEvent
  <2>2. /\ q' \in Seq(Nat)
        /\ \A i \in DOMAIN q' : (i \in DOMAIN q /\ q'[i] = q[i]) \/ (connected /\ q'[i] = n /\ i = Len(q'))
    BY <1>2, <2>1
  <2>3. IterTypes'
    BY <1>1, <1>2, <1>3, <2>2 DEF IterWell, IterTypes, n
  <2>4. /\ outs \in Seq(Numbers) /\ \A i \in DOMAIN outs : outs[i] \in 1 .. Len(told)
    BY <1>2, <1>5 DEF IterWell, GivenWell, Numbers, Iterate!END
  <2>5. \A i \in DOMAIN outs : told'[outs[i]] = told[outs[i]] /\ outs[i] <= Len(told')
    BY <1>2, <1>3, <2>4 DEF n
  <2>6. GivenWell'
    <3>1. task = "scheduled" => q' = q
      BY <1>5, <2>1 DEF IterWell, GivenWell
    <3>2. outs # <<>> => Len(outs) \in DOMAIN outs
      BY <2>4
    <3> QED BY <1>1, <1>5, <2>4, <2>5, <3>1, <3>2 DEF IterWell, GivenWell
  <2>7. mode = "aiter" => AllInOrder'
    <3> SUFFICES ASSUME mode = "aiter" PROVE AllInOrder'
      OBVIOUS
    <3>1. from \in Nat /\ Len(outs) <= Len(told') - from' /\ \A i \in DOMAIN outs' : outs'[i] = from' + i
      BY <1>1, <1>2, <1>3, <2>4 DEF IterWell, IterTypes, AllInOrder, n
    <3>2. ASSUME connected PROVE outs \o Keep(q', Numbers) = Iterate!Heard'
      <4>1. Iterate!Heard' = Append(Iterate!Heard, n)
        BY <1>1, <1>3, <2>3, HeardGrows DEF IterWell, n
      <4>2. q' = Append(q, n)
        BY <2>1, <3>2
      <4>3. Keep(q, Numbers) \in Seq(Nat \cap Numbers) /\ Keep(q', Numbers) = Append(Keep(q, Numbers), n)
        <5>1. q \in Seq(Nat) /\ n \in Nat
          BY <1>2
        <5>2. /\ Keep(q, Numbers) \in Seq(Nat \cap Numbers)
              /\ Keep(Append(q, n), Numbers)
                   = IF n \in Numbers THEN Append(Keep(q, Numbers), n) ELSE Keep(q, Numbers)
          BY <5>1, KeepAppend
        <5> QED BY <1>2, <4>2, <5>2
      <4>4. outs \o Append(Keep(q, Numbers), n) = Append(outs \o Keep(q, Numbers), n)
        <5> DEFINE k == Keep(q, Numbers)
        <5>1. k \in Seq(Numbers)
          BY <4>3
        <5> HIDE DEF k
        <5>2. outs \o Append(k, n) = Append(outs \o k, n)
          BY <1>2, <2>4, <5>1
        <5> QED BY <5>2 DEF k
      <4>5. outs \o Keep(q, Numbers) = Iterate!Heard
        BY <3>2 DEF IterWell, AllInOrder
      <4> QED BY <4>1, <4>3, <4>4, <4>5
    <3> QED BY <1>1, <3>1, <3>2 DEF AllInOrder
  <2>8. mode = "last" => LatestInOrder'
    <3> SUFFICES ASSUME mode = "last" PROVE LatestInOrder'
      OBVIOUS
    <3>1. LatestInOrder
      BY DEF IterWell
    <3>2. ASSUME connected, NEW j \in DOMAIN q', q'[j] \in Numbers
          PROVE  /\ \A i \in DOMAIN outs : outs[i] < q'[j]
                 /\ \A i \in DOMAIN q' : i < j => q'[i] < q'[j]
                 /\ told'[q'[j]] = "value" => \A k \in q'[j] + 1 .. Len(told') : told'[k] = "error"
      <4>1. \A i \in DOMAIN q' : i \in Nat /\ i <= Len(q') /\ (i < Len(q') => q'[i] = q[i] /\ i \in DOMAIN q)
        BY <2>2
      <4>2. CASE q'[j] = n /\ j = Len(q')
        <5>1. \A i \in DOMAIN q' : i < j => q'[i] <= Len(told) /\ q'[i] \in Nat
          BY <1>2, <4>1, <4>2
        <5>2. n + 1 .. Len(told') = {}
          BY <1>2, <1>3
        <5> QED BY <1>2, <2>4, <4>2, <5>1, <5>2 DEF n
      <4>3. CASE j \in DOMAIN q /\ q'[j] = q[j] /\ ~(q'[j] = n /\ j = Len(q'))
        <5>1. q' = Append(q, n)
          BY <2>1, <3>2, <4>3
        <5>2. \A i \in DOMAIN q : q'[i] = q[i]
          BY <1>2, <5>1
        <5>3. \A i \in DOMAIN q' : i < j => i \in DOMAIN q
          BY <1>2, <4>3, <5>1
        <5>4. /\ \A i \in DOMAIN outs : outs[i] < q[j]
              /\ \A i \in DOMAIN q : i < j => q[i] < q[j]
              /\ told[q[j]] = "value" => \A k \in q[j] + 1 .. Len(told) : told[k] = "error"
          BY <3>1, <3>2, <4>3 DEF LatestInOrder
        <5>5. q[j] \in 1 .. Len(told) /\ told'[q[j]] = told[q[j]]
          BY <1>2, <1>3, <3>2, <4>3 DEF Numbers, Iterate!END
        <5>6. what = "error" 
          BY <1>2, <2>1, <3>2, <4>3 DEF Tellings
        <5>7. \A k \in q[j] + 1 .. Len(told') : k = n \/ (k \in q[j] + 1 .. Len(told) /\ told'[k] = told[k])
          BY <1>2, <1>3, <5>5 DEF n
        <5> QED BY <1>3, <4>3, <5>2, <5>3, <5>4, <5>5, <5>6, <5>7
      <4> QED BY <2>2, <4>2, <4>3
    <3>3. \A i, j \in DOMAIN outs' : i < j => outs'[i] < outs'[j]
      BY <1>1, <3>1 DEF LatestInOrder
    <3> QED BY <1>1, <3>2, <3>3 DEF LatestInOrder
  <2> QED BY <1>1, <1>5, <2>3, <2>6, <2>7, <2>8 DEF IterWell
<1> QED BY <1>4, <1>5

LEMMA EndsKeeps ==
    ASSUME IterWell, Iterate!EventEnds
    PROVE  IterWell'
<1>1. /\ task # "looping"
      /\ q' = IF connected /\ mode # "await" THEN Append(q, 0) ELSE q
      /\ UNCHANGED <<mode, told, connected, fut, task, from, outs>>
  BY DEF Iterate!EventEnds, Iterate!InUserCode, Iterate!Iterates, Iterate!END
<1>2. q \in Seq(Nat) /\ 0 \in Nat /\ 0 \notin Numbers /\ Len(told) \in Nat
  BY DEF IterWell, IterTypes, Numbers, Iterate!END
<1>3. /\ q' \in Seq(Nat)
      /\ \A i \in DOMAIN q : i \in DOMAIN q' /\ q'[i] = q[i]
      /\ \A i \in DOMAIN q' : i \in DOMAIN q \/ (q'[i] = 0 /\ i > Len(q))
  BY <1>1, <1>2
<1>4. IterTypes'
  BY <1>1, <1>2, <1>3 DEF IterWell, IterTypes
<1>5. mode # "await" => GivenWell'
  BY <1>1 DEF IterWell, GivenWell
<1>6. mode = "aiter" => AllInOrder'
  <2>1. Keep(Append(q, 0), Numbers) = Keep(q, Numbers)
    BY <1>2, KeepAppend
  <2>2. Keep(q', Numbers) = Keep(q, Numbers)
    BY <1>1, <2>1
  <2> QED BY <1>1, <2>2 DEF IterWell, AllInOrder, Iterate!Heard
<1>7. mode = "last" => LatestInOrder'
  <2> SUFFICES ASSUME mode = "last" PROVE LatestInOrder'
    OBVIOUS
  <2>1. ASSUME connected, NEW j \in DOMAIN q', q'[j] \in Numbers
        PROVE  /\ \A i \in DOMAIN outs : outs[i] < q'[j]
               /\ \A i \in DOMAIN q' : i < j => q'[i] < q'[j]
               /\ told[q'[j]] = "value" => \A k \in q'[j] + 1 .. Len(told) : told[k] = "error"
    <3>1. j \in DOMAIN q /\ q'[j] = q[j]
      BY <1>2, <1>3, <2>1
    <3>2. \A i \in DOMAIN q' : i < j => i \in DOMAIN q /\ q'[i] = q[i]
      BY <1>2, <1>3, <3>1
    <3> QED BY <2>1, <3>1, <3>2 DEF IterWell, LatestInOrder
  <2> QED BY <1>1, <2>1 DEF IterWell, LatestInOrder
<1>8. mode = "await" => FirstAwaited'
  BY <1>1 DEF IterWell, FirstAwaited
<1> QED BY <1>1, <1>4, <1>5, <1>6, <1>7, <1>8 DEF IterWell

LEMMA StartKeeps ==
    ASSUME IterWell, Iterate!Start
    PROVE  IterWell'
<1>1. /\ task = "scheduled" /\ from' = Len(told)
      /\ UNCHANGED <<mode, told, q, fut, outs>>
      /\ connected' \in BOOLEAN /\ task' \in {"over", "done", "suspended"}
      /\ connected' => task' = "suspended"
      /\ mode # "await" => task' # "done"
      /\ task' = "suspended" => connected'
  <2>1. connected \in BOOLEAN /\ (connected => task # "scheduled")
    BY DEF IterWell, IterTypes, GivenWell, FirstAwaited
  <2> QED BY <2>1 DEF Iterate!Start, Iterate!LooperEnds, Iterate!Iterates
<1>2. told \in Seq(Tellings) /\ Len(told) \in Nat
  BY DEF IterWell, IterTypes
<1>3. IterTypes'
  BY <1>1, <1>2 DEF IterWell, IterTypes, TaskState
<1>4. mode # "await" => outs = <<>> /\ q = <<>>
  BY <1>1 DEF IterWell, GivenWell
<1>5. mode # "await" => GivenWell'
  BY <1>1, <1>4 DEF IterWell, GivenWell
<1>6. mode = "aiter" => AllInOrder'
  <2> SUFFICES ASSUME mode = "aiter" PROVE AllInOrder'
    OBVIOUS
  <2>1. Iterate!Heard' = NumbersAfter(told, Len(told))
    BY <1>1 DEF Iterate!Heard, NumbersAfter
  <2>2. NumbersAfter(told, Len(told)) \in Seq(Numbers) /\ Len(NumbersAfter(told, Len(told))) = 0
    BY <1>2, Numbered
  <2>3. Iterate!Heard' = <<>>
    BY <2>1, <2>2
  <2>4. outs \o Keep(q, Numbers) = <<>>
    BY <1>4, KeepNone
  <2> QED BY <1>1, <1>2, <1>4, <2>3, <2>4 DEF AllInOrder
<1>7. mode = "last" => LatestInOrder'
  BY <1>1, <1>4 DEF LatestInOrder
<1>8. mode = "await" => FirstAwaited'
  <2> SUFFICES ASSUME mode = "await" PROVE FirstAwaited'
    OBVIOUS
  <2>1. fut = None /\ outs = <<>>
    BY <1>1 DEF IterWell, FirstAwaited
  <2>2. outs' \in Seq(Nat \cup {None}) /\ outs' = <<>>
    BY <1>1, <2>1
  <2> QED BY <1>1, <2>1, <2>2 DEF FirstAwaited
<1> QED BY <1>1, <1>3, <1>5, <1>6, <1>7, <1>8 DEF IterWell

LEMMA GetKeeps ==
    ASSUME IterWell, Iterate!Get
    PROVE  IterWell'
<1> DEFINE h == Head(q)
           rest == Tail(q)
<1>1. /\ mode # "await" /\ q # <<>> /\ task \in {"looping", "suspended"}
      /\ UNCHANGED <<mode, told, fut, from>>
      /\ q' = rest
      /\ h = 0 => UNCHANGED outs /\ connected' = FALSE /\ task' = "over"
      /\ h # 0 => /\ outs' = Append(outs, h) /\ task' = "emitting"
                  /\ connected' = IF told[h] = "error" THEN FALSE ELSE connected
  BY DEF Iterate!Get, Iterate!Iterates, Iterate!LooperEnds, Iterate!END
<1>2. /\ q \in Seq(Nat) /\ told \in Seq(Tellings) /\ Len(told) \in Nat /\ from \in Nat
      /\ \A i \in DOMAIN q : q[i] <= Len(told) /\ q[i] \in Nat
  BY DEF IterWell, IterTypes
<1>3. /\ rest \in Seq(Nat) /\ h = q[1] /\ 1 \in DOMAIN q /\ h \in Nat /\ h <= Len(told)
      /\ \A i \in DOMAIN rest : i + 1 \in DOMAIN q /\ rest[i] = q[i + 1] /\ i \in Nat \ {0}
  BY <1>1, <1>2
<1> HIDE DEF h, rest
<1>4. connected = TRUE /\ connected \in BOOLEAN
  BY <1>1 DEF IterWell, IterTypes, GivenWell
<1>5. IterTypes'
  <2>1. connected' \in BOOLEAN /\ task' \in TaskState
    BY <1>1, <1>4 DEF TaskState
  <2> QED BY <1>1, <1>2, <1>3, <2>1 DEF IterWell, IterTypes
<1>6. /\ outs \in Seq(Numbers) /\ Len(outs) \in Nat /\ fut = None
      /\ \A i \in DOMAIN outs : outs[i] <= Len(told) /\ told[outs[i]] # "error"
  BY <1>1, <1>4 DEF IterWell, GivenWell
<1>7. h # 0 => /\ h \in Numbers
               /\ outs' \in Seq(Numbers) /\ Len(outs') = Len(outs) + 1
               /\ \A i \in DOMAIN outs : outs'[i] = outs[i]
               /\ outs'[Len(outs) + 1] = h
               /\ \A i \in DOMAIN outs' : i \in DOMAIN outs \/ i = Len(outs) + 1
  <2> SUFFICES ASSUME h # 0 PROVE /\ h \in Numbers /\ outs' = Append(outs, h)
    <3> HIDE DEF h
    <3> SUFFICES ASSUME h \in Numbers, outs' = Append(outs, h)
                 PROVE  /\ outs' \in Seq(Numbers) /\ Len(outs') = Len(outs) + 1
                        /\ \A i \in DOMAIN outs : outs'[i] = outs[i]
                        /\ outs'[Len(outs) + 1] = h
                        /\ \A i \in DOMAIN outs' : i \in DOMAIN outs \/ i = Len(outs) + 1
      OBVIOUS
    <3> QED BY <1>6, Grown
  <2> QED BY <1>1, <1>3 DEF Numbers, Iterate!END
<1>8. GivenWell'
  <2>1. CASE h = 0
    BY <1>1, <1>6, <2>1 DEF GivenWell
  <2>2. CASE h # 0
    <3>1. told[h] = "error" <=> ~connected'
      BY <1>1, <1>4, <2>2
    <3>2. outs' # <<>> /\ outs'[Len(outs')] = h
      BY <1>6, <1>7, <2>2
    <3> QED BY <1>1, <1>3, <1>6, <1>7, <2>2, <3>1, <3>2 DEF GivenWell
  <2> QED BY <2>1, <2>2
<1>9. mode = "aiter" => AllInOrder'
  <2> SUFFICES ASSUME mode = "aiter" PROVE AllInOrder'
    OBVIOUS
  <2>1. Len(outs) <= Len(told) - from /\ \A i \in DOMAIN outs : outs[i] = from + i
    BY DEF IterWell, AllInOrder
  <2>2. CASE h = 0
    BY <1>1, <2>1, <2>2 DEF AllInOrder
  <2>3. CASE h # 0
    <3> DEFINE k == Keep(rest, Numbers)
               heard == Iterate!Heard
    <3>1. Keep(q, Numbers) = <<h>> \o k
      <4>1. Keep(q, Numbers) = IF Head(q) \in Numbers THEN <<Head(q)>> \o Keep(Tail(q), Numbers)
                               ELSE Keep(Tail(q), Numbers)
        BY <1>1, <1>2, KeepTail
      <4> QED BY <1>7, <2>3, <4>1 DEF h, rest
    <3>2. k \in Seq(Nat \cap Numbers)
      BY <1>3, KeptPlaces
    <3>3. k \in Seq(Numbers)
      BY <3>2
    <3>4. outs \o Keep(q, Numbers) = heard
      BY <1>4 DEF IterWell, AllInOrder
    <3> HIDE DEF k
    <3>5. outs \o (<<h>> \o k) = Append(outs, h) \o k
      BY <1>6, <1>7, <2>3, <3>3
    <3>6. Append(outs, h) \o k = heard
      BY <3>1, <3>4, <3>5
    <3>7. /\ Len(Append(outs, h) \o k) = Len(outs) + 1 + Len(k) /\ Len(k) \in Nat
          /\ (Append(outs, h) \o k)[Len(outs) + 1] = h
      BY <1>6, <1>7, <2>3, <3>3
    <3>8. /\ Len(heard) = Len(told) - from
          /\ \A i \in 1 .. Len(told) - from : heard[i] = from + i
      <4>1. heard = NumbersAfter(told, from)
        BY DEF Iterate!Heard, NumbersAfter
      <4>2. from <= Len(told)
        BY DEF IterWell, IterTypes
      <4> QED BY <1>2, <4>1, <4>2, Numbered
    <3> HIDE DEF heard
    <3>9. Len(outs) + 1 <= Len(told) - from /\ h = from + (Len(outs) + 1)
      <4>1. Len(outs) + 1 + Len(k) = Len(told) - from
        BY <3>6, <3>7, <3>8
      <4>2. Len(outs) + 1 \in 1 .. Len(told) - from
        BY <1>2, <1>6, <3>7, <4>1
      <4>3. heard[Len(outs) + 1] = h
        BY <3>6, <3>7
      <4> QED BY <3>8, <4>2, <4>3
    <3>10. Len(outs') <= Len(told) - from /\ \A i \in DOMAIN outs' : outs'[i] = from + i
      BY <1>7, <2>1, <2>3, <3>9
    <3>11. outs' \o Keep(q', Numbers) = Iterate!Heard'
      BY <1>1, <2>3, <3>6 DEF Iterate!Heard, heard, k
    <3> QED BY <1>1, <3>10, <3>11 DEF AllInOrder
  <2> QED BY <2>2, <2>3
<1>10. mode = "last" => LatestInOrder'
  <2> SUFFICES ASSUME mode = "last" PROVE LatestInOrder'
    OBVIOUS
  <2>1. /\ \A i, j \in DOMAIN outs : i < j => outs[i] < outs[j]
        /\ \A j \in DOMAIN q : q[j] \in Numbers =>
              /\ \A i \in DOMAIN outs : outs[i] < q[j]
              /\ \A i \in DOMAIN q : i < j => q[i] < q[j]
              /\ told[q[j]] = "value" => \A k \in q[j] + 1 .. Len(told) : told[k] = "error"
    BY <1>4 DEF IterWell, LatestInOrder
  <2>2. ASSUME NEW j \in DOMAIN rest, rest[j] \in Numbers
        PROVE  /\ \A i \in DOMAIN outs : outs[i] < rest[j]
               /\ h < rest[j]
               /\ \A i \in DOMAIN rest : i < j => rest[i] < rest[j]
               /\ told[rest[j]] = "value" => \A k \in rest[j] + 1 .. Len(told) : told[k] = "error"
    <3>1. j + 1 \in DOMAIN q /\ rest[j] = q[j + 1] /\ 1 < j + 1
      BY <1>3
    <3>2. \A i \in DOMAIN rest : i < j => i + 1 \in DOMAIN q /\ i + 1 < j + 1 /\ rest[i] = q[i + 1]
      BY <1>3
    <3> QED BY <1>3, <2>1, <2>2, <3>1, <3>2
  <2>3. CASE h = 0
    BY <1>1, <2>1, <2>3 DEF LatestInOrder
  <2>4. CASE h # 0
    <3>1. \A i \in DOMAIN outs : outs[i] < h
      BY <1>3, <1>7, <2>1, <2>4
    <3>2. \A i, j \in DOMAIN outs' : i < j => outs'[i] < outs'[j]
      <4> SUFFICES ASSUME NEW i \in DOMAIN outs', NEW j \in DOMAIN outs', i < j
                   PROVE  outs'[i] < outs'[j]
        OBVIOUS
      <4>1. i \in DOMAIN outs
        BY <1>6, <1>7, <2>4
      <4>2. CASE j \in DOMAIN outs
        BY <1>7, <2>1, <2>4, <4>1, <4>2
      <4>3. CASE j = Len(outs) + 1
        BY <1>7, <2>4, <3>1, <4>1, <4>3
      <4> QED BY <1>7, <2>4, <4>2, <4>3
    <3>3. ASSUME NEW j \in DOMAIN rest, rest[j] \in Numbers, NEW i \in DOMAIN outs'
          PROVE  outs'[i] < rest[j]
      <4>1. CASE i \in DOMAIN outs
        BY <1>7, <2>2, <2>4, <3>3, <4>1
      <4>2. CASE i = Len(outs) + 1
        BY <1>7, <2>2, <2>4, <3>3, <4>2
      <4> QED BY <1>7, <2>4, <4>1, <4>2
    <3> QED BY <1>1, <2>2, <3>2, <3>3 DEF LatestInOrder
  <2> QED BY <2>3, <2>4
<1> QED BY <1>1, <1>5, <1>8, <1>9, <1>10 DEF IterWell

LEMMA EmittedKeeps ==
    ASSUME IterWell, Iterate!Emitted
    PROVE  IterWell'
<1>1. CASE mode # "await"
  <2>1. GivenWell /\ task = "emitting" /\ UNCHANGED outs /\ connected \in BOOLEAN
    BY <1>1 DEF IterWell, IterTypes, Iterate!Emitted, Iterate!Iterates
  <2>2. /\ Iterate!Raised => connected' = FALSE /\ task' = "over"
        /\ ~Iterate!Raised => task' = "looping" /\ UNCHANGED connected
    BY <1>1 DEF Iterate!Emitted, Iterate!Iterates, Iterate!LooperEnds
  <2>3. ~Iterate!Raised => connected
    <3>1. outs # <<>> /\ outs[Len(outs)] \in Numbers
      BY <2>1 DEF GivenWell
    <3> QED BY <2>1, <3>1 DEF GivenWell, Iterate!Raised, Iterate!IsError, Last, Numbers, Iterate!END,
         Iterate!Last
  <2>4. UNCHANGED <<mode, told, q, fut, from, outs>>
    BY <2>1 DEF Iterate!Emitted
  <2>5. /\ connected' \in BOOLEAN /\ task' \in {"over", "looping"}
        /\ connected' => connected
        /\ task' = "looping" => connected'
    <3>1. CASE Iterate!Raised
      BY <2>2, <3>1
    <3>2. CASE ~Iterate!Raised
      BY <2>1, <2>2, <2>3, <3>2
    <3> QED BY <3>1, <3>2
  <2> QED BY <1>1, <2>4, <2>5, QuietKeeps DEF TaskState
<1>2. CASE mode = "await"
  <2>1. FirstAwaited /\ task = "emitting" /\ connected \in BOOLEAN /\ ~connected
    BY <1>2 DEF IterWell, IterTypes, Iterate!Emitted, FirstAwaited
  <2>2. /\ task' \in {"emitting", "over"}
        /\ UNCHANGED <<mode, told, q, fut, from, connected>>
        /\ outs' = outs \/ outs' = Append(outs, 0)
        /\ Iterate!Raised \/ outs' = outs
    BY <1>2, <2>1 DEF Iterate!Emitted, Iterate!Iterates
  <2>3. outs \in Seq(Nat \cup {None}) /\ outs # <<>> /\ outs[1] = fut
    BY <2>1 DEF FirstAwaited
  <2>4. outs' \in Seq(Nat \cup {None}) /\ outs' # <<>> /\ outs'[1] = fut
    BY <2>2, <2>3
  <2>5. FirstAwaited'
    BY <2>1, <2>2, <2>4 DEF FirstAwaited
  <2>6. IterTypes'
    BY <2>2 DEF IterWell, IterTypes, TaskState
  <2> QED BY <1>2, <2>2, <2>5, <2>6 DEF IterWell
<1> QED BY <1>1, <1>2

LEMMA WaitEmitsKeeps ==
    ASSUME IterWell, Iterate!WaitEmits
    PROVE  IterWell'
<1>1. /\ task = "done" /\ task' = "emitting" /\ outs' = Append(outs, fut)
      /\ UNCHANGED <<mode, told, q, fut, from, connected>>
  BY DEF Iterate!WaitEmits
<1>2. mode = "await" /\ mode \in Iterate!AllModes
  BY <1>1 DEF IterWell, IterTypes, GivenWell
<1>3. FirstAwaited /\ outs = <<>> /\ ~connected
  BY <1>1, <1>2 DEF IterWell, FirstAwaited
<1>4. fut \in Nat \cup {None}
  BY <1>3 DEF FirstAwaited, IterWell, IterTypes
<1>5. outs' \in Seq(Nat \cup {None}) /\ outs' # <<>> /\ outs'[1] = fut
  BY <1>1, <1>3, <1>4
<1>6. FirstAwaited'
  BY <1>1, <1>3, <1>5 DEF FirstAwaited
<1>7. IterTypes'
  BY <1>1 DEF IterWell, IterTypes, TaskState
<1> QED BY <1>1, <1>2, <1>6, <1>7 DEF IterWell

LEMMA IterateNext == IterInv /\ [Next]_vars => IterInv'
<1> SUFFICES ASSUME IterInv, [Next]_vars, (use = "iterate")' PROVE IterWell'
  BY DEF IterInv
<1>1. use = "iterate" /\ (Iterate!Next \/ UNCHANGED iterateVars)
  BY DEF Next, vars, InRun, InIterate, InThreads
<1>2. IterWell /\ connected \in BOOLEAN /\ task \in TaskState
  BY <1>1 DEF IterInv, IterWell, IterTypes
<1>3. /\ mode # "await" => GivenWell
      /\ mode = "await" => FirstAwaited
  BY <1>2 DEF IterWell
<1>4. CASE UNCHANGED <<mode, told, q, fut, from, outs, connected, task>>
  BY <1>2, <1>3, <1>4, QuietKeeps DEF GivenWell, FirstAwaited
<1>5. CASE Iterate!Cancelled
  <2>1. /\ UNCHANGED <<mode, told, q, fut, from, outs>> /\ connected' = FALSE /\ task' = "over"
    BY <1>5 DEF Iterate!Cancelled, Iterate!LooperEnds
  <2> QED BY <1>2, <2>1, QuietKeeps DEF TaskState
<1>6. CASE Iterate!Suspend
  <2>1. /\ UNCHANGED <<mode, told, q, fut, from, outs, connected>>
        /\ task = "looping" /\ task' = "suspended"
    BY <1>6 DEF Iterate!Suspend
  <2>2. mode # "await" /\ connected
    BY <1>3, <2>1 DEF GivenWell, FirstAwaited
  <2> QED BY <1>2, <2>1, <2>2, QuietKeeps DEF TaskState
<1>7. CASE Iterate!Resolved
  <2>1. /\ UNCHANGED <<mode, told, q, fut, from, outs>> /\ connected' = FALSE
        /\ task = "suspended" /\ task' = "done" /\ fut # None
    BY <1>7 DEF Iterate!Resolved
  <2>2. mode = "await"
    BY <1>3, <2>1 DEF GivenWell
  <2> QED BY <1>2, <2>1, <2>2, QuietKeeps DEF TaskState
<1>8. ASSUME NEW what \in Tellings, Iterate!EventTells(what) PROVE IterWell'
  BY <1>2, <1>8, TellsKeeps
<1> QED
  BY <1>1, <1>2, <1>4, <1>5, <1>6, <1>7, <1>8, EndsKeeps, StartKeeps, GetKeeps, EmittedKeeps,
     WaitEmitsKeeps
  DEF Iterate!Next, Iterate!LoopStep, Iterate!Cancel, iterateVars, Tellings
-----------------------------------------------------------------------------
(* What an iteration gives and what still waits in its queue is all that the event
   emitted since it began, in order and up to the first error; with skip_to_last
   it comes in order and at most the last value waits; an await gives the first of
   it, whatever is emitted, ended and cancelled meanwhile. *)
THEOREM Yields == Spec => []YieldsByMode
<1>1. IterInv => YieldsByMode
  <2> SUFFICES ASSUME IterWell PROVE Iterate!YieldsAll /\ Iterate!SkipsToLast
    BY DEF IterInv, YieldsByMode
  <2>1. /\ told \in Seq(Tellings) /\ Len(told) \in Nat /\ from \in Nat /\ from <= Len(told)
    BY DEF IterWell, IterTypes
  <2>2. /\ Iterate!Heard \in Seq(Numbers) /\ Len(Iterate!Heard) = Len(told) - from
        /\ \A i \in 1 .. Len(told) - from : Iterate!Heard[i] = from + i
    <3>1. Iterate!Heard = NumbersAfter(told, from)
      BY DEF Iterate!Heard, NumbersAfter
    <3> QED BY <2>1, <3>1, Numbered
  <2>3. ASSUME mode = "aiter"
        PROVE  /\ Iterate!IsPrefix(outs, Iterate!Heard)
               /\ \A i \in DOMAIN outs : i < Len(outs) => ~Iterate!IsError(outs[i])
               /\ connected => outs \o Keep(q, Numbers) = Iterate!Heard
    <3>1. GivenWell /\ AllInOrder
      BY <2>3 DEF IterWell
    <3>2. /\ outs \in Seq(Numbers) /\ Len(outs) \in Nat /\ Len(outs) <= Len(Iterate!Heard)
          /\ \A i \in 1 .. Len(outs) : outs[i] = Iterate!Heard[i]
      BY <2>1, <2>2, <3>1 DEF GivenWell, AllInOrder
    <3>3. Iterate!IsPrefix(outs, Iterate!Heard)
      <4> DEFINE h == Iterate!Heard
      <4>1. h \in Seq(Numbers) /\ Len(outs) <= Len(h) /\ \A i \in 1 .. Len(outs) : outs[i] = h[i]
        BY <2>2, <3>2
      <4> HIDE DEF h
      <4>2. SubSeq(outs, 1, Len(outs)) = SubSeq(h, 1, Len(outs))
        BY <3>2, <4>1
      <4> QED BY <4>1, <4>2 DEF h, Iterate!IsPrefix
    <3>4. ASSUME NEW i \in DOMAIN outs, i < Len(outs) PROVE ~Iterate!IsError(outs[i])
      <4>1. outs[i] \in Numbers /\ told[outs[i]] # "error"
        BY <3>1, <3>4 DEF GivenWell
      <4> QED BY <4>1 DEF Iterate!IsError, Numbers, Iterate!END
    <3> QED BY <3>1, <3>3, <3>4 DEF AllInOrder
  <2>4. ASSUME mode = "await", outs # <<>>, outs[1] # None PROVE outs[1] = Iterate!Heard[1]
    <3>1. FirstAwaited
      BY <2>4 DEF IterWell
    <3>2. outs[1] = fut /\ fut = from + 1 /\ fut <= Len(told)
      BY <2>4, <3>1 DEF FirstAwaited
    <3>3. 1 \in 1 .. Len(told) - from
      BY <2>1, <3>2
    <3> QED BY <2>2, <3>2, <3>3
  <2>5. ASSUME mode = "last"
        PROVE  /\ \A i, j \in DOMAIN outs : i < j => outs[i] < outs[j]
               /\ connected => \A n \in Iterate!ToSet(q) \ {0} : told[n] = "value" =>
                     \A k \in n + 1 .. Len(told) : told[k] = "error"
    <3>1. LatestInOrder
      BY <2>5 DEF IterWell
    <3>2. \A j \in DOMAIN q : q[j] \in Nat
      BY DEF IterWell, IterTypes
    <3> QED BY <3>1, <3>2 DEF LatestInOrder, Iterate!ToSet, Numbers, Iterate!END
  <2>6. Iterate!Keep(q, Nat \ {Iterate!END}) = Keep(q, Numbers)
    BY DEF Iterate!Keep, Keep, Numbers
  <2>7. Iterate!YieldsAll
    BY <2>3, <2>4, <2>6 DEF Iterate!YieldsAll
  <2>8. Iterate!SkipsToLast
    BY <2>5 DEF Iterate!SkipsToLast, Iterate!END
  <2> QED BY <2>7, <2>8
<1> QED
  BY <1>1, IterateInit, IterateNext, PTL DEF Spec
-----------------------------------------------------------------------------
(* Event.run: whoever listens from outside does so all the time, and so its event
   is never taken for one that only the pipeline uses. *)
Hearer(p) ==
    {n \in Node : p.class[n] \notin {"source", "nested"}} \cup {Collector, Outside}
Slot(p) == [to : Hearer(p), plain : BOOLEAN]
TaskOf == [of : Node, no : Nat]
Signal(p) ==
    [what : {"value", "error", "end"}, from : Node, to : Hearer(p)]
    \cup [what : {"after"}, from : Node, to : Node, task : TaskOf]

RunTypes ==
    /\ pipe \in Run!Pipeline
    /\ slots \in [Node -> Seq(Slot(pipe))]
    /\ signals \in Seq(Signal(pipe))
    /\ started \in [Node -> Nat]
    /\ running \subseteq TaskOf /\ due \subseteq TaskOf

Stranger == [to |-> Outside, plain |-> TRUE]
StillHears(sl, n) == \E i \in 1 .. Len(sl[n]) : sl[n][i] = Stranger
Heeded == \A n \in pipe.outside : StillHears(slots, n)

Spared(tasks) == \A t \in tasks : t.of \notin pipe.outside

RunInv == use = "run" => RunTypes /\ Heeded /\ Spared(owned) /\ Spared(cancelled)
-----------------------------------------------------------------------------
(* A closure has its set, is closed, and is within every closed set that has it. *)
LEMMA ClosureHas ==
    ASSUME NEW step, NEW set, set \subseteq DOMAIN step
    PROVE  set \subseteq Run!Closure(step, set)
BY DEF Run!Closure

LEMMA ClosureClosed ==
    ASSUME NEW step, NEW set, \A x \in DOMAIN step : step[x] \subseteq DOMAIN step
    PROVE  Run!Closed(step, Run!Closure(step, set))
BY DEF Run!Closure, Run!Closed

LEMMA ClosureLeast ==
    ASSUME NEW step, NEW s \in SUBSET DOMAIN step, NEW set, set \subseteq s, Run!Closed(step, s)
    PROVE  Run!Closure(step, set) \subseteq s
BY DEF Run!Closure

(* What is downstream of an event. *)
Below(n) ==
    /\ n \in Run!Downstream(n) /\ Run!Downstream(n) \subseteq Node
    /\ Run!Over[n] \subseteq Run!Downstream(n)
    /\ \A m \in Run!Downstream(n) : Run!Downstream(m) \subseteq Run!Downstream(n)

LEMMA DownstreamIs == ASSUME NEW n \in Node PROVE Below(n)
<1>1. PICK over : over = Run!Over
  OBVIOUS
<1>2. over \in [Node -> SUBSET Node]
  BY <1>1 DEF Run!Over
<1>3. ASSUME NEW m \in Node
      PROVE  /\ m \in Run!Downstream(m) /\ Run!Downstream(m) \in SUBSET DOMAIN over
             /\ Run!Closed(over, Run!Downstream(m))
             /\ Run!Downstream(m) = Run!Closure(over, {m})
  <2>1. Run!Downstream(m) = Run!Closure(over, {m})
    BY <1>1 DEF Run!Downstream
  <2>2. {m} \subseteq Run!Closure(over, {m})
    BY <1>2, ClosureHas
  <2>3. Run!Closed(over, Run!Closure(over, {m}))
    BY <1>2, ClosureClosed
  <2>4. Run!Closure(over, {m}) \subseteq DOMAIN over
    BY DEF Run!Closure
  <2>5. PICK d : d = Run!Closure(over, {m})
    OBVIOUS
  <2>6. m \in d /\ d \subseteq DOMAIN over /\ Run!Closed(over, d) /\ Run!Downstream(m) = d
    BY <2>1, <2>2, <2>3, <2>4, <2>5
  <2> QED BY ONLY <2>5, <2>6
<1>4. ASSUME NEW m \in Run!Downstream(n) PROVE Run!Downstream(m) \subseteq Run!Downstream(n)
  <2>1. m \in Node
    BY <1>2, <1>3
  <2>2. PICK e : e = Run!Downstream(n)
    OBVIOUS
  <2>3. e \in SUBSET DOMAIN over /\ Run!Closed(over, e) /\ {m} \subseteq e
    BY <1>3, <2>2
  <2>4. Run!Closure(over, {m}) \subseteq e
    BY ONLY <2>3, ClosureLeast
  <2>5. Run!Downstream(m) = Run!Closure(over, {m})
    BY <1>3, <2>1
  <2> QED BY ONLY <2>2, <2>4, <2>5
<1>5. Run!Over[n] \subseteq Run!Downstream(n)
  BY <1>1, <1>3 DEF Run!Closed
<1> QED BY <1>2, <1>3, <1>4, <1>5 DEF Below

(* What leads to the event that is run, and what starts tasks, is so upstream. *)
LEMMA UpstreamToo ==
    ASSUME NEW n \in Node, NEW m \in Run!Over[n]
    PROVE  /\ m \in Node
           /\ Run!Leads(m) => Run!Leads(n)
           /\ Run!Starts(m) => Run!Starts(n)
           /\ Run!Private(n) => Run!Leads(m) /\ m \notin pipe.outside
<1>1. m \in Run!Downstream(n) /\ m \in Node /\ Run!Downstream(m) \subseteq Run!Downstream(n)
  BY DownstreamIs DEF Below
<1> QED BY <1>1 DEF Run!Leads, Run!Starts, Run!Private

LEMMA PrivateLeads ==
    ASSUME NEW n \in Node, Run!Private(n)
    PROVE  Run!Leads(n) /\ n \notin pipe.outside
<1>1. n \in Run!Downstream(n)
  BY DownstreamIs DEF Below
<1> QED BY <1>1 DEF Run!Private

(* The pipeline does not change, and all that is derived from it. *)
Fixed ==
    /\ Run!Over' = Run!Over
    /\ \A n : (Run!Leads(n)' <=> Run!Leads(n)) /\ (Run!Starts(n)' <=> Run!Starts(n))
              /\ (Run!Private(n)' <=> Run!Private(n))
    /\ Run!Alone' <=> Run!Alone

LEMMA PipeFixed == ASSUME pipe' = pipe PROVE Fixed
<1>1. Run!Over' = Run!Over
  BY DEF Run!Over
<1>2. \A n : Run!Downstream(n)' = Run!Downstream(n)
  BY <1>1 DEF Run!Downstream
<1>3. \A n : Run!Leads(n)' <=> Run!Leads(n)
  BY <1>2 DEF Run!Leads
<1>4. \A n : Run!Starts(n)' <=> Run!Starts(n)
  BY <1>2 DEF Run!Starts
<1>5. \A n : Run!Private(n)' <=> Run!Private(n)
  BY <1>2, <1>3 DEF Run!Private
<1>6. Run!Alone' <=> Run!Alone
  BY <1>1, <1>3, <1>4, <1>5 DEF Run!Alone
<1> QED BY <1>1, <1>3, <1>4, <1>5, <1>6 DEF Fixed

(* The types of the pipeline. *)
PipeTypes ==
    /\ pipe.class \in [Node -> Run!Class] /\ pipe.links \in [Node -> SUBSET Node]
    /\ pipe.partial \subseteq Node /\ pipe.outside \subseteq Node /\ pipe.root \in Node
    /\ pipe.limit \in Nat /\ pipe.class[pipe.root] # "nested"
    /\ \A n \in Node : pipe.class[n] \in {"source", "nested"} => pipe.links[n] = {}

LEMMA PipeTyped == ASSUME pipe \in Run!Pipeline PROVE PipeTypes
BY DEF Run!Pipeline, PipeTypes

(* What is downstream hears of something, so it is no source. *)
LEMMA OverHears ==
    ASSUME pipe \in Run!Pipeline, NEW n \in Node, NEW m \in Run!Over[n]
    PROVE  m \in Node /\ pipe.class[m] \notin {"source", "nested"} /\ m \in Hearer(pipe)
<1>1. PipeTypes
  BY PipeTyped
<1>2. m \in Node /\ (n \in pipe.links[m] \/ pipe.class[m] = "emap")
  BY DEF Run!Over
<1>3. pipe.class[m] \notin {"source", "nested"}
  BY <1>1, <1>2 DEF PipeTypes
<1> QED BY <1>2, <1>3 DEF Hearer

(* Who may listen to an event, and how. *)
Listener(n) ==
    {s \in Slot(pipe) :
        /\ \/ s.to \in Run!Over[n] \cup {Collector}
           \/ s.to = Outside /\ n \in pipe.outside
        /\ s.plain = (s.to = Outside \/ s.to \in pipe.partial)}

LEMMA JoinFits ==
    ASSUME NEW F, NEW a \in Seq(F), NEW b \in Seq(F)
    PROVE  a \o b \in Seq(F)
OBVIOUS

(* At the start those listen that are linked, and then the stranger. *)
LEMMA FirstListeners ==
    ASSUME Run!Init, pipe \in Run!Pipeline, NEW n \in Node
    PROVE  \E first \in Seq(Listener(n)) :
              slots[n] = first \o IF n \in pipe.outside THEN <<Stranger>> ELSE <<>>
<1> DEFINE Known == Run!SetToSeq({m \in Node : n \in pipe.links[m]})
           First == [i \in DOMAIN Known |-> Run!SlotOf(Known[i])]
<1>1. slots[n] = First \o IF n \in pipe.outside THEN <<Run!SlotOf(Outside)>> ELSE <<>>
  BY DEF Run!Init
<1>2. Run!SlotOf(Outside) = Stranger
  BY DEF Run!SlotOf, Stranger
<1>3. PICK M : M = {m \in Node : n \in pipe.links[m]}
  OBVIOUS
<1>4. IsFiniteSet(M)
  BY <1>3, NodeAssumption, FS_Subset
<1>5. PICK c \in Nat : c = Run!Cardinality(M) /\ ExistsBijection(1 .. c, M)
  BY <1>4, FS_CardinalityType DEF Run!Cardinality, Cardinality
<1>6. PICK f \in [1 .. c -> M] : \A i, j \in 1 .. c : f[i] = f[j] => i = j
  BY <1>5 DEF ExistsBijection, Bijection, Injection, IsInjective
<1>7. Run!IsInjective(f)
  BY <1>6 DEF Run!IsInjective
<1>8. Run!SetToSeq(M) \in [1 .. c -> M]
  BY <1>5, <1>6, <1>7 DEF Run!SetToSeq
<1>9. ASSUME NEW m \in M PROVE Run!SlotOf(m) \in Listener(n)
  <2>1. m \in Run!Over[n]
    BY <1>3 DEF Run!Over
  <2>2. m \in Hearer(pipe)
    BY <2>1, OverHears
  <2> QED BY <2>1, <2>2 DEF Listener, Run!SlotOf, Slot
<1>10. First = [i \in DOMAIN Run!SetToSeq(M) |-> Run!SlotOf(Run!SetToSeq(M)[i])]
  BY <1>3
<1> HIDE DEF First
<1>11. First \in [1 .. c -> Listener(n)]
  BY <1>8, <1>9, <1>10
<1>12. First \in Seq(Listener(n))
  BY <1>5, <1>11
<1> QED BY <1>1, <1>2, <1>12

(* The stranger may listen where somebody outside does. *)
LEMMA StrangerFits == ASSUME NEW n \in pipe.outside PROVE Stranger \in Listener(n)
BY DEF Listener, Stranger, Slot, Hearer

LEMMA RunInit == Init => RunInv
<1> SUFFICES ASSUME Init, use = "run"
             PROVE  RunTypes /\ Heeded /\ Spared(owned) /\ Spared(cancelled)
  BY DEF RunInv
<1>1. Run!Init /\ pipe \in Run!Pipeline /\ PipeTypes
  BY PipeTyped, PipelineAssumption DEF Init, Run!Init
<1>2. /\ owned = {} /\ cancelled = {} /\ due = {} /\ signals = <<>>
      /\ started \in [Node -> Nat] /\ running \subseteq TaskOf
      /\ DOMAIN slots = Node /\ slots = [n \in Node |-> slots[n]]
  BY <1>1 DEF Run!Init, Run!Task, TaskOf
<1>3. ASSUME NEW n \in Node
      PROVE  slots[n] \in Seq(Slot(pipe)) /\ (n \in pipe.outside => StillHears(slots, n))
  <2>1. PICK first \in Seq(Listener(n)) :
           slots[n] = first \o IF n \in pipe.outside THEN <<Stranger>> ELSE <<>>
    BY <1>1, FirstListeners
  <2>2. PICK S : S = Slot(pipe)
    OBVIOUS
  <2>3. Listener(n) \subseteq S
    BY <2>2 DEF Listener
  <2>4. first \in Seq(S)
    BY <2>1, <2>3
  <2>5. CASE n \in pipe.outside
    <3>1. Stranger \in S
      BY <2>3, <2>5, StrangerFits
    <3>2. slots[n] = first \o <<Stranger>>
      BY <2>1, <2>5
    <3>3. PICK x : x = Stranger
      OBVIOUS
    <3>4. /\ first \o <<x>> \in Seq(S) /\ Len(first) + 1 \in 1 .. Len(first \o <<x>>)
          /\ (first \o <<x>>)[Len(first) + 1] = x
      BY ONLY <2>4, <3>1, <3>3
    <3> QED BY <2>2, <3>2, <3>3, <3>4 DEF StillHears
  <2>6. CASE n \notin pipe.outside
    <3>1. slots[n] = first \o <<>>
      BY <2>1, <2>6
    <3>2. first \o <<>> \in Seq(S)
      BY ONLY <2>4
    <3> QED BY <2>2, <2>6, <3>1, <3>2
  <2> QED BY <2>5, <2>6
<1>4. slots \in [Node -> Seq(Slot(pipe))]
  BY <1>2, <1>3
<1> QED BY <1>1, <1>2, <1>3, <1>4 DEF RunTypes, Heeded, Spared, PipeTypes
-----------------------------------------------------------------------------
(* Another one listens; somebody but the stranger stops. *)
LEMMA ListenKeeps ==
    ASSUME RunTypes, Heeded, NEW m \in Hearer(pipe), NEW n \in Node
    PROVE  LET sl == Run!Listen(m, slots, n)
           IN  sl \in [Node -> Seq(Slot(pipe))] /\ \A k \in pipe.outside : StillHears(sl, k)
<1> DEFINE x == Run!SlotOf(m)
           sl == [slots EXCEPT ![n] = Append(@, x)]
<1>1. slots \in [Node -> Seq(Slot(pipe))] /\ pipe.outside \subseteq Node
  BY DEF RunTypes, Run!Pipeline
<1>2. x \in Slot(pipe)
  BY DEF Run!SlotOf, Slot
<1> HIDE DEF x
<1>3. Append(slots[n], x) \in Seq(Slot(pipe))
  BY <1>1, <1>2
<1>4. sl \in [Node -> Seq(Slot(pipe))]
  BY <1>1, <1>3
<1>5. ASSUME NEW k \in pipe.outside PROVE StillHears(sl, k)
  <2>1. k \in Node
    BY <1>1
  <2>2. PICK i \in 1 .. Len(slots[k]) : slots[k][i] = Stranger
    BY DEF Heeded, StillHears
  <2>3. sl[k] = slots[k] \/ sl[k] = Append(slots[k], x)
    BY <1>1, <2>1
  <2>4. i \in 1 .. Len(sl[k]) /\ sl[k][i] = Stranger
    <3> HIDE DEF sl
    <3> QED BY <1>1, <1>2, <2>1, <2>2, <2>3
  <2> QED BY <2>4 DEF StillHears
<1> QED BY <1>4, <1>5 DEF Run!Listen, x

LEMMA UnlistenKeeps ==
    ASSUME RunTypes, Heeded, NEW m, m # Outside, NEW set
    PROVE  LET sl == Run!Unlisten(m, slots, set)
           IN  sl \in [Node -> Seq(Slot(pipe))] /\ \A k \in pipe.outside : StillHears(sl, k)
<1> DEFINE Left(k) == {s \in Run!ToSet(slots[k]) : s.to # m}
           After(k) == Keep(slots[k], Left(k))
           sl == [k \in Node |-> IF k \in set THEN After(k) ELSE slots[k]]
<1>1. slots \in [Node -> Seq(Slot(pipe))] /\ pipe.outside \subseteq Node
  BY DEF RunTypes, Run!Pipeline
<1>2. Run!Unlisten(m, slots, set) = sl
  BY DEF Run!Unlisten, Run!Keep, Keep
<1>3. ASSUME NEW k \in Node
      PROVE  /\ After(k) \in Seq(Slot(pipe))
             /\ (\E i \in 1 .. Len(slots[k]) : slots[k][i] = Stranger) =>
                   \E j \in 1 .. Len(After(k)) : After(k)[j] = Stranger
  <2>1. PICK heard : heard = slots[k]
    OBVIOUS
  <2>2. PICK r : r = After(k)
    OBVIOUS
  <2>3. heard \in Seq(Slot(pipe))
    BY <1>1, <2>1
  <2> DEFINE S == Left(k)
  <2>4. r = Keep(heard, S)
    BY <2>1, <2>2
  <2> HIDE DEF S
  <2>5. r \in Seq(Slot(pipe) \cap S) /\ \E f : PlacesOf(f, heard, S, Len(heard), r)
    BY <2>3, <2>4, KeptPlaces
  <2>6. r \in Seq(Slot(pipe))
    BY <2>5
  <2>7. ASSUME NEW i \in 1 .. Len(heard), heard[i] = Stranger
        PROVE  \E j \in 1 .. Len(r) : r[j] = Stranger
    <3>1. heard[i] \in S
      BY <2>1, <2>3, <2>7 DEF Run!ToSet, Stranger, S
    <3>2. PICK f : PlacesOf(f, heard, S, Len(heard), r)
      BY <2>5
    <3>3. PICK j \in 1 .. Len(r) : f[j] = i
      BY <3>1, <3>2, <2>3 DEF PlacesOf
    <3> QED BY <2>7, <3>2, <3>3 DEF PlacesOf
  <2> HIDE DEF After
  <2> QED BY <2>1, <2>2, <2>6, <2>7
<1> HIDE DEF Left, After
<1>4. sl \in [Node -> Seq(Slot(pipe))]
  BY <1>1, <1>3
<1>5. ASSUME NEW k \in pipe.outside PROVE StillHears(sl, k)
  <2>1. k \in Node /\ sl[k] = IF k \in set THEN After(k) ELSE slots[k]
    BY <1>1
  <2>2. PICK i \in 1 .. Len(slots[k]) : slots[k][i] = Stranger
    BY DEF Heeded, StillHears
  <2>3. \E j \in 1 .. Len(sl[k]) : sl[k][j] = Stranger
    <3>1. CASE k \in set
      BY <1>3, <2>1, <2>2, <3>1
    <3>2. CASE k \notin set
      BY <2>1, <2>2, <3>2
    <3> QED BY <3>1, <3>2
  <2> QED BY <2>3 DEF StillHears
<1> HIDE DEF sl
<1> QED BY <1>2, <1>4, <1>5

(* What a node tells its listeners. *)
LEMMA SignalsTyped ==
    ASSUME RunTypes, NEW what \in {"value", "error", "end"}, NEW n \in Node
    PROVE  Run!Signals(what, n) \in Seq(Signal(pipe))
<1>1. PICK heard : heard = slots[n]
  OBVIOUS
<1>2. heard \in Seq(Slot(pipe))
  BY <1>1 DEF RunTypes
<1>3. ASSUME NEW i \in 1 .. Len(heard)
      PROVE  [what |-> what, from |-> n, to |-> heard[i].to] \in Signal(pipe)
  <2>1. heard[i] \in Slot(pipe)
    BY <1>2
  <2>2. heard[i].to \in Hearer(pipe)
    BY <2>1 DEF Slot
  <2> QED BY <2>2 DEF Signal
<1>4. Run!Signals(what, n) = [i \in 1 .. Len(heard) |-> [what |-> what, from |-> n, to |-> heard[i].to]]
  BY <1>1, <1>2 DEF Run!Signals
<1> DEFINE s == Run!Signals(what, n)
<1> HIDE DEF s
<1>5. s \in [1 .. Len(heard) -> Signal(pipe)]
  BY <1>3, <1>4 DEF s
<1>6. s \in Seq(Signal(pipe))
  BY <1>2, <1>5
<1> QED BY <1>6 DEF s

(* Heeded and the types, for a step that leaves most as it is. *)
Calm == /\ pipe' = pipe
        /\ slots' \in [Node -> Seq(Slot(pipe))] /\ \A k \in pipe.outside : StillHears(slots', k)
        /\ signals' \in Seq(Signal(pipe))
        /\ started' \in [Node -> Nat]
        /\ running' \subseteq TaskOf /\ due' \subseteq TaskOf

LEMMA CalmKeeps == ASSUME RunTypes, Calm PROVE RunTypes' /\ Heeded'
BY DEF RunTypes, Calm, Heeded, StillHears, Stranger

(* What is heard in a turn of the loop. *)
LEMMA HearKeeps ==
    ASSUME RunTypes, Heeded, Run!Hear
    PROVE  Calm
<1>1. pipe' = pipe /\ signals # <<>>
  BY DEF Run!Hear, Run!Quiet
<1>2. /\ Run!Sig \in Signal(pipe) /\ Run!Rest \in Seq(Signal(pipe))
      /\ \A k \in pipe.outside : StillHears(slots, k)
      /\ slots \in [Node -> Seq(Slot(pipe))] /\ started \in [Node -> Nat]
      /\ running \subseteq TaskOf /\ due \subseteq TaskOf
      /\ pipe \in Run!Pipeline
  BY <1>1 DEF RunTypes, Heeded, Run!Sig, Run!Rest
<1>3. PICK sg \in Signal(pipe) : sg = Run!Sig
  BY <1>2
<1>4. PICK m : m = sg.to
  OBVIOUS
<1>5. \/ /\ sg.what \in {"value", "error", "end"} /\ sg.from \in Node
         /\ m \in Hearer(pipe)
      \/ sg.what = "after" /\ m \in Node /\ sg.task \in TaskOf
  BY <1>3, <1>4 DEF Signal
<1>6. /\ m \in Hearer(pipe) /\ m \notin {Collector, Outside} => m \in Node
      /\ m \in Node => m \notin {Collector, Outside}
      /\ m \in Hearer(pipe) \cap Node => Run!ClassOf(m) \notin {"source", "nested"}
      /\ m \in Node => Run!ClassOf(m) \in Run!Class
  BY <1>2, StrangerAssumption DEF Hearer, Run!ClassOf, Run!Pipeline
<1>7. ASSUME m # Outside, NEW set
      PROVE  /\ Run!Unlisten(m, slots, set) \in [Node -> Seq(Slot(pipe))]
             /\ \A k \in pipe.outside : StillHears(Run!Unlisten(m, slots, set), k)
  BY <1>7, UnlistenKeeps
<1>8. ASSUME m \in Hearer(pipe), NEW e \in Node
      PROVE  /\ Run!Listen(m, slots, e) \in [Node -> Seq(Slot(pipe))]
             /\ \A k \in pipe.outside : StillHears(Run!Listen(m, slots, e), k)
  BY <1>8, ListenKeeps
<1>9. ASSUME NEW k \in Node
      PROVE  /\ [started EXCEPT ![k] = @ + 1] \in [Node -> Nat]
             /\ [started EXCEPT ![k] = 1] \in [Node -> Nat]
             /\ running \cup {Run!Task(k, started[k] + 1)} \subseteq TaskOf
             /\ running \cup {Run!Task(k, 1)} \subseteq TaskOf
  BY <1>2 DEF TaskOf, Run!Task
<1>10. ASSUME m \in Node, NEW what \in {"value", "error", "end"}
       PROVE  Run!Signals(what, m) \in Seq(Signal(pipe))
  BY <1>10, SignalsTyped
<1>11. \A a, b \in Seq(Signal(pipe)) : a \o b \in Seq(Signal(pipe))
  OBVIOUS
<1>12. Run!Drop \/ Run!GotResult => Calm
  BY <1>1, <1>2 DEF Calm, Run!Drop, Run!GotResult, Run!graph, Run!work
<1>13. ASSUME m \in Node, NEW what \in {"value", "error", "end"}, Run!PassOn(m, what)
       PROVE  Calm
  BY <1>1, <1>2, <1>10, <1>11, <1>13 DEF Calm, Run!PassOn, Run!graph, Run!work
<1>14. CASE Run!Sig.what = "after"
  <2>1. Run!AfterEmit(m) /\ m \in Node
    BY <1>3, <1>4, <1>5, <1>14 DEF Run!Hear
  <2>2. /\ started' \in [Node -> Nat] /\ running' \subseteq TaskOf /\ due' \subseteq TaskOf
    BY <1>2, <1>9, <2>1 DEF Run!AfterEmit
  <2>3. \/ signals' = Run!Rest /\ slots' = slots
        \/ signals' = Run!Signals("end", m) \o Run!Rest /\ slots' = Run!Unlisten(m, slots, {})
    BY <2>1 DEF Run!AfterEmit, Run!EndOf, Run!graph
  <2>4. signals' \in Seq(Signal(pipe))
    BY <1>2, <1>10, <1>11, <2>1, <2>3
  <2>5. slots' \in [Node -> Seq(Slot(pipe))] /\ \A k \in pipe.outside : StillHears(slots', k)
    BY <1>2, <1>6, <1>7, <2>1, <2>3
  <2> QED BY <1>1, <2>2, <2>4, <2>5 DEF Calm
<1>15. CASE Run!Sig.what = "value"
  <2>1. Run!HearValue(m) /\ m \in Hearer(pipe)
    BY <1>3, <1>4, <1>5, <1>15 DEF Run!Hear
  <2>2. CASE m \in {Collector, Outside}
    BY <2>1, <2>2, <1>12 DEF Run!HearValue
  <2>3. CASE m \in Node
    <3>1. CASE Run!ToMap(m)
      BY <1>1, <1>2, <1>9, <2>3, <3>1 DEF Calm, Run!ToMap, Run!graph
    <3>2. CASE Run!ToOp(m)
      <4>1. CASE Run!Drop \/ Run!PassOn(m, "value")
        BY <4>1, <1>12, <1>13, <2>3
      <4>2. CASE ~(Run!Drop \/ Run!PassOn(m, "value"))
        <5>1. /\ slots' = Run!Unlisten(m, slots, links[m])
              /\ signals' = Run!Signals("value", m) \o Run!Signals("end", m) \o Run!Rest
              /\ started' = started /\ running' = running /\ due' = due
          BY <3>2, <4>2 DEF Run!ToOp, Run!EndOf, Run!work
        <5>2. /\ slots' \in [Node -> Seq(Slot(pipe))]
              /\ \A k \in pipe.outside : StillHears(slots', k)
          BY <1>6, <1>7, <2>3, <5>1
        <5>3. signals' \in Seq(Signal(pipe))
          BY <1>2, <1>10, <1>11, <2>3, <5>1
        <5> QED BY <1>1, <1>2, <5>1, <5>2, <5>3 DEF Calm
      <4> QED BY <4>1, <4>2
    <3>3. CASE Run!Drop \/ Run!PassOn(m, "value")
      BY <3>3, <1>12, <1>13, <2>3
    <3>4. CASE Run!ToEmap(m)
      <4>1. CASE Run!Drop \/ Run!PassOn(m, "value")
        BY <4>1, <1>12, <1>13, <2>3
      <4>2. CASE ~(Run!Drop \/ Run!PassOn(m, "value"))
        <5>1. PICK e \in Node :
                 /\ slots' = Run!Listen(m, slots, e)
                 /\ started' = [started EXCEPT ![e] = 1]
                 /\ running' = running \cup {Run!Task(e, 1)}
                 /\ signals' = Run!Rest /\ due' = due
          BY <3>4, <4>2 DEF Run!ToEmap
        <5>2. /\ slots' \in [Node -> Seq(Slot(pipe))]
              /\ \A k \in pipe.outside : StillHears(slots', k)
          BY <1>8, <2>1, <5>1
        <5>3. started' \in [Node -> Nat] /\ running' \subseteq TaskOf
          BY <1>9, <5>1
        <5> QED BY <1>1, <1>2, <5>1, <5>2, <5>3 DEF Calm
      <4> QED BY <4>1, <4>2
    <3> QED BY <2>1, <2>3, <1>6, <3>1, <3>2, <3>3, <3>4 DEF Run!HearValue
  <2> QED BY <2>1, <2>2, <2>3, <1>6
<1>16. CASE Run!Sig.what \in {"error", "end"}
  <2>1. Run!HearOther(m) /\ m \in Hearer(pipe)
    BY <1>3, <1>4, <1>5, <1>16 DEF Run!Hear
  <2>2. CASE m \in {Collector, Outside}
    BY <2>1, <2>2, <1>12 DEF Run!HearOther
  <2>3. CASE m \in Node
    <3>1. Run!PassOn(m, "error") \/ Run!HearEnd(m)
      BY <2>1, <2>3, <1>6 DEF Run!HearOther
    <3>2. CASE Run!PassOn(m, "error")
      BY <3>2, <1>13, <2>3
    <3>3. CASE Run!HearEnd(m)
      <4>1. /\ slots' = Run!Unlisten(m, slots, {Run!Sig.from})
            /\ signals' = Run!Rest \/ signals' = Run!Signals("end", m) \o Run!Rest
            /\ started' = started /\ running' = running /\ due' = due
        BY <3>3 DEF Run!HearEnd, Run!EndOf, Run!work
      <4>2. /\ slots' \in [Node -> Seq(Slot(pipe))]
            /\ \A k \in pipe.outside : StillHears(slots', k)
        BY <1>6, <1>7, <2>3, <4>1
      <4>3. signals' \in Seq(Signal(pipe))
        BY <1>2, <1>10, <1>11, <2>3, <4>1
      <4> QED BY <1>1, <1>2, <4>1, <4>2, <4>3 DEF Calm
    <3> QED BY <3>1, <3>2, <3>3
  <2> QED BY <2>1, <2>2, <2>3, <1>6
<1> QED BY <1>3, <1>5, <1>14, <1>15, <1>16
(* What a pipeline takes for its own has no listener from outside. *)
LEMMA FoundAreSpared ==
    ASSUME NEW sl, \A n \in pipe.outside : StillHears(sl, n),
           sl \in [Node -> Seq(Slot(pipe))], pipe.outside \subseteq Node, NEW set
    PROVE  Spared(Run!PipelineTasks(set, sl))
<1> SUFFICES ASSUME NEW t \in Run!PipelineTasks(set, sl), t.of \in pipe.outside
             PROVE  FALSE
  BY DEF Spared
<1>1. PICK i \in 1 .. Len(sl[t.of]) : sl[t.of][i] = Stranger
  BY DEF StillHears
<1>2. Run!ListenedToOnlyBy(sl[t.of], set)
  BY DEF Run!PipelineTasks
<1>3. i \in DOMAIN sl[t.of]
  BY <1>1
<1> QED BY <1>1, <1>2, <1>3 DEF Run!ListenedToOnlyBy, Stranger

LEMMA RunStep == RunInv /\ [Next]_vars => RunInv'
<1> SUFFICES ASSUME RunInv, [Next]_vars, use' = "run"
             PROVE  RunTypes' /\ Heeded' /\ Spared(owned)' /\ Spared(cancelled)'
  BY DEF RunInv
<1>1. use = "run"
  BY DEF Next, InRun, InIterate, InThreads, vars
<1>2. RunTypes /\ Heeded /\ Spared(owned) /\ Spared(cancelled)
  BY <1>1 DEF RunInv
<1>3. /\ \A k \in pipe.outside : StillHears(slots, k)
      /\ slots \in [Node -> Seq(Slot(pipe))] /\ started \in [Node -> Nat]
      /\ signals \in Seq(Signal(pipe))
      /\ running \subseteq TaskOf /\ due \subseteq TaskOf
      /\ pipe \in Run!Pipeline /\ pipe.outside \subseteq Node /\ pipe.root \in Node
  BY <1>2 DEF RunTypes, Heeded, Run!Pipeline
<1> DEFINE Same == pipe' = pipe /\ owned' = owned /\ cancelled' = cancelled
<1>4. Calm /\ Same => RunTypes' /\ Heeded' /\ Spared(owned)' /\ Spared(cancelled)'
  <2> SUFFICES ASSUME Calm, Same
               PROVE  RunTypes' /\ Heeded' /\ Spared(owned)' /\ Spared(cancelled)'
    OBVIOUS
  <2>1. RunTypes' /\ Heeded'
    BY <1>2, CalmKeeps
  <2> QED BY <1>2, <2>1 DEF Spared
<1>5. CASE UNCHANGED vars
  BY <1>2, <1>3, <1>4, <1>5 DEF vars, runVars, Calm
<1>6. ASSUME Run!Next PROVE RunTypes' /\ Heeded' /\ Spared(owned)' /\ Spared(cancelled)'
  <2>1. \A what \in {"value", "error", "end"} : \A n \in Node :
           Run!Signals(what, n) \in Seq(Signal(pipe))
    BY <1>2, SignalsTyped
  <2>2. \A a, b \in Seq(Signal(pipe)) : a \o b \in Seq(Signal(pipe))
    OBVIOUS
  <2>3. ASSUME NEW n \in Node, Run!SourceEmits(n) PROVE Calm /\ Same
    BY <1>3, <2>1, <2>3 DEF Run!SourceEmits, Calm, Run!graph, Run!work, Run!run
  <2>4. ASSUME NEW n \in Node, Run!SourceStops(n) PROVE Calm /\ Same
    <3>1. signals' \in Seq(Signal(pipe))
      <4>1. PICK fails \in BOOLEAN :
               signals' = (IF fails THEN Run!Signals("error", n) ELSE <<>>) \o Run!Signals("end", n)
        BY <2>4 DEF Run!SourceStops
      <4>2. (IF fails THEN Run!Signals("error", n) ELSE <<>>) \in Seq(Signal(pipe))
        BY <2>1
      <4> QED BY <2>1, <2>2, <4>1, <4>2
    <3> QED BY <1>3, <2>4, <3>1 DEF Run!SourceStops, Calm, Run!run
  <2>5. ASSUME NEW t \in running, Run!TaskDone(t) PROVE Calm /\ Same
    BY <1>3, <2>5 DEF Run!TaskDone, Calm, Run!graph, Run!run
  <2>6. ASSUME NEW t \in due, Run!Callback(t) PROVE Calm /\ Same
    <3>1. signals' \in Seq(Signal(pipe))
      <4>1. PICK what \in {"value", "error"} :
               signals' = (IF t \in cancelled THEN <<>> ELSE Run!Signals(what, t.of)) \o <<Run!After(t)>>
        BY <2>6 DEF Run!Callback
      <4>2. t \in TaskOf /\ t.of \in Node
        BY <1>3 DEF TaskOf
      <4>3. Run!After(t) \in Signal(pipe)
        BY <4>2 DEF Run!After, Signal
      <4>4. (IF t \in cancelled THEN <<>> ELSE Run!Signals(what, t.of)) \in Seq(Signal(pipe))
        BY <2>1, <4>2
      <4>5. <<Run!After(t)>> \in Seq(Signal(pipe))
        BY <4>3
      <4> QED BY <2>2, <4>1, <4>4, <4>5
    <3> QED BY <1>3, <2>6, <3>1 DEF Run!Callback, Calm, Run!graph, Run!run, Run!work
  <2>7. ASSUME Run!Hear PROVE Calm /\ Same
    BY <1>2, <2>7, HearKeeps DEF Run!Hear, Run!run
  <2>8. ASSUME Run!Begin PROVE RunTypes' /\ Heeded' /\ Spared(owned)' /\ Spared(cancelled)'
    <3>1. Collector \in Hearer(pipe)
      BY DEF Hearer
    <3>2. /\ slots' \in [Node -> Seq(Slot(pipe))] /\ \A k \in pipe.outside : StillHears(slots', k)
          /\ pipe' = pipe /\ cancelled' = cancelled
          /\ owned' = Run!PipelineTasks(nodes', slots')
      <4>1. slots' = slots \/ slots' = Run!Listen(Collector, slots, pipe.root)
        BY <2>8 DEF Run!Begin
      <4>2. /\ Run!Listen(Collector, slots, pipe.root) \in [Node -> Seq(Slot(pipe))]
            /\ \A k \in pipe.outside : StillHears(Run!Listen(Collector, slots, pipe.root), k)
        BY <1>2, <1>3, <3>1, ListenKeeps
      <4>3. pipe' = pipe /\ cancelled' = cancelled /\ owned' = Run!PipelineTasks(nodes', slots')
        BY <2>8 DEF Run!Begin
      <4>4. CASE slots' = slots
        BY <1>3, <4>3, <4>4
      <4>5. CASE slots' = Run!Listen(Collector, slots, pipe.root)
        BY <4>2, <4>3, <4>5
      <4> QED BY <4>1, <4>4, <4>5
    <3>3. Spared(owned)'
      <4>1. PICK sl : sl = slots'
        OBVIOUS
      <4>2. PICK set : set = nodes'
        OBVIOUS
      <4>3. Spared(Run!PipelineTasks(set, sl))
        BY <1>3, <3>2, <4>1, FoundAreSpared
      <4>4. owned' = Run!PipelineTasks(set, sl)
        BY <3>2, <4>1, <4>2
      <4> QED BY <3>2, <4>3, <4>4 DEF Spared
    <3>4. Calm
      BY <1>3, <2>8, <3>2 DEF Calm, Run!Begin, Run!work
    <3>5. RunTypes' /\ Heeded'
      BY <1>2, <3>4, CalmKeeps
    <3> QED BY <1>2, <3>2, <3>3, <3>5 DEF Spared
  <2>9. ASSUME Run!Clean PROVE RunTypes' /\ Heeded' /\ Spared(owned)' /\ Spared(cancelled)'
    <3>1. \A set : Spared(Run!PipelineTasks(set, slots))
      BY <1>3, FoundAreSpared
    <3>2. Spared(Run!Leftover)
      BY <1>2, <3>1 DEF Run!Leftover, Spared
    <3>3. Calm /\ pipe' = pipe /\ owned' = Run!Leftover /\ cancelled' = cancelled \cup Run!Leftover
      BY <1>3, <2>9 DEF Run!Clean, Calm, Run!graph, Run!work
    <3>4. RunTypes' /\ Heeded'
      BY <1>2, <3>3, CalmKeeps
    <3> QED BY <1>2, <3>2, <3>3, <3>4 DEF Spared
  <2>10. ASSUME Run!Return PROVE Calm /\ Same
    BY <1>3, <2>10 DEF Run!Return, Calm, Run!graph, Run!work
  <2> QED BY <1>4, <1>6, <2>3, <2>4, <2>5, <2>6, <2>7, <2>8, <2>9, <2>10 DEF Run!Next, Run!Stops
<1> QED BY <1>1, <1>5, <1>6 DEF Next, InRun, InIterate, InThreads

(* "An upstream event with a listener outside the pipeline is left running": run
   cancels no task of an event that somebody else listens to, whatever has been
   cut, ended or added since it began (_listened_to_only_by, _run_and_clean). *)
THEOREM ListenedToIsSpared == Spec => []SparesListenedTo
<1>1. RunInv => SparesListenedTo
  BY DEF RunInv, SparesListenedTo, Run!SparesListenedTo, Spared
<1> QED BY <1>1, RunInit, RunStep, PTL DEF Spec
-----------------------------------------------------------------------------
Hooked == \A n \in Node : slots[n] \in Seq(Listener(n))

Linked ==
    /\ links \in [Node \cup {Collector} -> SUBSET Node]
    /\ nodes \subseteq Node \cup {Collector}
    /\ phase \in {"before", "waiting", "cleaning", "returned"}
    /\ phase # "before" => Collector \in nodes

(* Tasks are of sources and maps, or of nested events that an emap still follows. *)
Owner(t) ==
    /\ pipe.class[t.of] \in {"source", "map", "nested"}
    /\ pipe.class[t.of] = "nested" =>
          /\ started[t.of] # 0
          /\ \E m \in Node : pipe.class[m] = "emap" /\ t.of \in links[m]

Tasks ==
    /\ \A t \in running : Owner(t)
    /\ \A t \in due : pipe.class[t.of] = "map"

(* Without a limit no awaitable has to wait. *)
Unqueued ==
    /\ waiting \in [Node -> Nat]
    /\ pipe.limit = 0 => \A n \in Node : waiting[n] = 0

(* Run has looked at all that is running, and nothing can start more. *)
Looked == phase \in {"cleaning", "returned"} /\ Run!Whole /\ Run!Alone

Swept == Looked => \A t \in running : Run!Private(t.of) => t \in owned \cap cancelled

Settled ==
    phase = "returned" =>
        /\ signals = <<>>
        /\ Looked => \A t \in running : ~Run!Private(t.of)

(* What is on its way: along the links of the pipeline, from a nested event that
   has ended only its end, and when run has looked no value that starts a task. *)
Sound(g) ==
    /\ g.what = "after" => pipe.class[g.from] = "map" /\ g.to = g.from
    /\ g.what # "after" => g.to \in Run!Over[g.from] \cup {Collector, Outside}
    /\ g.what = "end" /\ pipe.class[g.from] = "nested" =>
          started[g.from] # 0 /\ \A t \in running : t.of # g.from
    /\ g.what = "value" /\ g.to \in Node /\ Looked => ~(Run!Leads(g.to) /\ Run!Starts(g.to))

Fit == {g \in Signal(pipe) : Sound(g)}
OnTheWay == signals \in Seq(Fit)

WorkInv ==
    /\ Hooked /\ Linked /\ Tasks /\ Unqueued /\ Swept /\ Settled /\ OnTheWay
-----------------------------------------------------------------------------
(* A slot of one that is downstream, of the collector or, where one listens, of the
   stranger. *)
LEMMA SlotFits ==
    ASSUME RunTypes, NEW n \in Node, NEW m,
           m \in Run!Over[n] \cup {Collector} \/ (m = Outside /\ n \in pipe.outside)
    PROVE  Run!SlotOf(m) \in Listener(n)
<1>1. m \in Hearer(pipe)
  BY OverHears DEF Hearer, RunTypes
<1>2. Run!SlotOf(m) \in Slot(pipe)
  BY <1>1 DEF Run!SlotOf, Slot
<1> QED BY <1>2 DEF Listener, Run!SlotOf

LEMMA ListenFits ==
    ASSUME RunTypes, Hooked, NEW n \in Node, NEW m, m \in Run!Over[n] \cup {Collector}
    PROVE  \A k \in Node : Run!Listen(m, slots, n)[k] \in Seq(Listener(k))
<1> DEFINE x == Run!SlotOf(m)
<1>1. x \in Listener(n)
  BY SlotFits
<1> HIDE DEF x
<1>2. slots \in [Node -> Seq(Slot(pipe))] /\ \A k \in Node : slots[k] \in Seq(Listener(k))
  BY DEF RunTypes, Hooked
<1>3. Append(slots[n], x) \in Seq(Listener(n))
  BY <1>1, <1>2
<1>4. Run!Listen(m, slots, n) = [slots EXCEPT ![n] = Append(@, x)]
  BY DEF Run!Listen, x
<1> QED BY <1>2, <1>3, <1>4

LEMMA UnlistenFits ==
    ASSUME RunTypes, Hooked, NEW m, NEW set
    PROVE  \A k \in Node : Run!Unlisten(m, slots, set)[k] \in Seq(Listener(k))
<1> SUFFICES ASSUME NEW k \in Node
             PROVE  Run!Unlisten(m, slots, set)[k] \in Seq(Listener(k))
  OBVIOUS
<1>1. PICK heard : heard = slots[k]
  OBVIOUS
<1>2. PICK S : S = {s \in Run!ToSet(slots[k]) : s.to # m}
  OBVIOUS
<1>3. heard \in Seq(Listener(k))
  BY <1>1 DEF Hooked
<1>4. Keep(heard, S) \in Seq(Listener(k) \cap S)
  BY <1>3, KeptPlaces
<1>5. Keep(heard, S) \in Seq(Listener(k))
  BY <1>4
<1>6. Run!Unlisten(m, slots, set)[k] = IF k \in set THEN Keep(heard, S) ELSE heard
  BY <1>1, <1>2 DEF Run!Unlisten, Run!Keep, Keep
<1> QED BY <1>3, <1>5, <1>6

(* The steps but for those of run itself. *)
Goes ==
    /\ pipe' = pipe /\ phase' = phase /\ nodes' = nodes
    /\ owned' = owned /\ cancelled' = cancelled
    /\ phase # "returned"

LEMMA LookedStays == ASSUME pipe' = pipe, phase' = phase, nodes' = nodes PROVE Looked' <=> Looked
<1>1. Fixed
  BY PipeFixed
<1>2. Run!Whole' <=> Run!Whole
  BY <1>1 DEF Run!Whole, Fixed
<1> QED BY <1>1, <1>2 DEF Looked, Fixed

(* What is right of a signal stays so when only new nested events start. *)
LEMMA FitStays ==
    ASSUME RunTypes, Goes,
           \A k \in Node : started[k] # 0 => started'[k] # 0,
           \A t \in running' : \/ t \in running \/ pipe.class[t.of] # "nested"
                               \/ started[t.of] = 0
    PROVE  Fit \subseteq Fit'
<1>1. Fixed /\ (Looked' <=> Looked)
  BY PipeFixed, LookedStays DEF Goes
<1>2. pipe' = pipe
  BY DEF Goes
<1>3. ASSUME NEW g \in Fit PROVE g \in Fit'
  <2>1. g \in Signal(pipe) /\ Sound(g)
    BY <1>3 DEF Fit
  <2>2. g.from \in Node
    BY <2>1 DEF Signal
  <2>3. g.what = "end" /\ pipe.class[g.from] = "nested" =>
           started'[g.from] # 0 /\ \A t \in running' : t.of # g.from
    BY <2>1, <2>2 DEF Sound
  <2>4. Sound(g)'
    BY <1>1, <1>2, <2>1, <2>3 DEF Sound, Fixed
  <2>5. g \in Signal(pipe)'
    BY <1>2, <2>1
  <2> QED BY <2>4, <2>5 DEF Fit
<1> QED BY <1>3

(* Nothing that starts tasks hears of the values of an event. *)
Harmless(n) == Looked /\ Run!Leads(n) => \A m \in Run!Over[n] : ~(Run!Leads(m) /\ Run!Starts(m))

LEMMA TellsFit ==
    ASSUME RunTypes, Hooked, Goes, NEW n \in Node, NEW what \in {"value", "error", "end"},
           what = "end" /\ pipe.class[n] = "nested" =>
               started'[n] # 0 /\ \A t \in running' : t.of # n,
           what = "value" => Harmless(n)
    PROVE  Run!Signals(what, n) \in Seq(Fit')
<1>1. PICK heard : heard = slots[n]
  OBVIOUS
<1>2. heard \in Seq(Listener(n))
  BY <1>1 DEF Hooked
<1>3. Fixed /\ (Looked' <=> Looked) /\ pipe' = pipe
  BY PipeFixed, LookedStays DEF Goes
<1>4. ASSUME NEW i \in 1 .. Len(heard)
      PROVE  [what |-> what, from |-> n, to |-> heard[i].to] \in Fit'
  <2>1. PICK g : g = [what |-> what, from |-> n, to |-> heard[i].to]
    OBVIOUS
  <2>2. g.what = what /\ g.from = n /\ g.to = heard[i].to
    BY <2>1
  <2>3. heard[i] \in Listener(n)
    BY <1>2
  <2>4. g.to \in Hearer(pipe) /\ g.to \in Run!Over[n] \cup {Collector, Outside}
    BY <2>2, <2>3 DEF Listener, Slot
  <2>5. g \in Signal(pipe)
    BY <2>1, <2>2, <2>4 DEF Signal
  <2>6. ASSUME what = "value", g.to \in Node, Looked
        PROVE  ~(Run!Leads(g.to) /\ Run!Starts(g.to))
    <3>1. g.to \in Run!Over[n]
      BY <2>4, <2>6, StrangerAssumption
    <3>2. Run!Leads(g.to) => Run!Leads(n)
      BY <3>1, UpstreamToo
    <3> QED BY <2>6, <3>1, <3>2 DEF Harmless
  <2>7. Sound(g)'
    BY <1>3, <2>2, <2>4, <2>6 DEF Sound, Fixed
  <2>8. g \in Fit'
    BY <1>3, <2>5, <2>7 DEF Fit
  <2> QED BY <2>1, <2>8
<1>5. Run!Signals(what, n) = [i \in 1 .. Len(heard) |-> [what |-> what, from |-> n, to |-> heard[i].to]]
  BY <1>1, <1>2 DEF Run!Signals
<1> DEFINE s == Run!Signals(what, n)
<1>6. PICK F : F = Fit'
  OBVIOUS
<1> HIDE DEF s
<1>7. s \in [1 .. Len(heard) -> F]
  BY <1>4, <1>5, <1>6 DEF s
<1>8. s \in Seq(F)
  BY <1>2, <1>7
<1> QED BY <1>6, <1>8 DEF s
-----------------------------------------------------------------------------
(* What a step has to show that is not one of run itself. *)
LEMMA GoesOn ==
    ASSUME RunTypes, WorkInv, Goes, Hooked', links' \in [Node \cup {Collector} -> SUBSET Node],
           Tasks', Unqueued', signals' \in Seq(Fit'),
           \A t \in running' : t \in running \/ (Looked => ~Run!Private(t.of))
    PROVE  WorkInv'
<1>1. Fixed /\ (Looked' <=> Looked)
  BY PipeFixed, LookedStays DEF Goes
<1>2. Linked'
  BY DEF Linked, Goes, WorkInv
<1>3. Swept'
  <2>1. ASSUME NEW t \in running', Looked, Run!Private(t.of) PROVE t \in owned' \cap cancelled'
    BY <2>1 DEF WorkInv, Swept, Goes
  <2> QED BY <1>1, <2>1 DEF Swept, Fixed
<1>4. Settled'
  BY DEF Settled, Goes
<1> QED BY <1>2, <1>3, <1>4 DEF WorkInv, OnTheWay

(* The slots, links and tasks do not change. *)
LEMMA HookedStays == ASSUME Hooked, pipe' = pipe, slots' = slots PROVE Hooked'
<1>1. Fixed
  BY PipeFixed
<1>2. \A n : Listener(n)' = Listener(n)
  BY <1>1 DEF Listener, Fixed, Slot, Hearer
<1> QED BY <1>2 DEF Hooked

LEMMA HookedNow ==
    ASSUME pipe' = pipe, \A k \in Node : slots'[k] \in Seq(Listener(k))
    PROVE  Hooked'
<1>1. Fixed
  BY PipeFixed
<1>2. \A n : Listener(n)' = Listener(n)
  BY <1>1 DEF Listener, Fixed, Slot, Hearer
<1> QED BY <1>2 DEF Hooked

(* Tasks keep their owner as long as an emap that follows it goes on doing so. *)
LEMMA TasksStay ==
    ASSUME RunTypes, Tasks, pipe' = pipe,
           \A k \in Node : started[k] # 0 => started'[k] # 0,
           \A m \in Node, t \in running :
               /\ pipe.class[m] = "emap" /\ t \in running' /\ pipe.class[t.of] = "nested"
               /\ t.of \in links[m]
               => t.of \in links'[m],
           \A t \in running' : t \in running \/ Owner(t)',
           \A t \in due' : pipe.class[t.of] = "map"
    PROVE  Tasks'
<1>1. ASSUME NEW t \in running', t \in running PROVE Owner(t)'
  <2>1. Owner(t) /\ t.of \in Node
    BY <1>1 DEF Tasks, RunTypes, TaskOf
  <2> QED BY <1>1, <2>1 DEF Owner
<1> QED BY <1>1 DEF Tasks

(* A source that is at work after run has looked is no part of its pipeline. *)
LEMMA EmitsWork ==
    ASSUME RunTypes, WorkInv, NEW n \in Node, Run!SourceEmits(n)
    PROVE  WorkInv'
<1>1. /\ phase # "returned" /\ pipe' = pipe /\ phase' = phase /\ nodes' = nodes
      /\ owned' = owned /\ cancelled' = cancelled
      /\ slots' = slots /\ links' = links /\ started' = started /\ running' = running
      /\ due' = due /\ waiting' = waiting
      /\ signals' = Run!Signals("value", n)
      /\ Run!TasksOf(n, running) \ cancelled # {}
  BY DEF Run!SourceEmits, Run!LoopRuns, Run!graph, Run!work, Run!run
<1>2. Goes
  BY <1>1 DEF Goes
<1>3. Harmless(n)
  <2>1. SUFFICES ASSUME Looked, Run!Leads(n) PROVE FALSE
    BY DEF Harmless
  <2>2. Run!Private(n)
    BY <2>1 DEF Looked, Run!Alone
  <2>3. PICK t \in running : t.of = n /\ t \notin cancelled
    BY <1>1 DEF Run!TasksOf
  <2> QED BY <2>1, <2>2, <2>3 DEF WorkInv, Swept
<1>4. signals' \in Seq(Fit')
  BY <1>1, <1>2, <1>3, TellsFit DEF WorkInv
<1>5. Hooked'
  BY <1>1, HookedStays DEF WorkInv
<1>6. Tasks'
  BY <1>1, TasksStay DEF WorkInv, Tasks
<1>7. Unqueued' /\ links' \in [Node \cup {Collector} -> SUBSET Node]
  BY <1>1 DEF WorkInv, Unqueued, Linked
<1> QED BY <1>1, <1>2, <1>4, <1>5, <1>6, <1>7, GoesOn

LEMMA StopsWork ==
    ASSUME RunTypes, WorkInv, NEW n \in Node, Run!SourceStops(n)
    PROVE  WorkInv'
<1>1. /\ phase # "returned" /\ pipe' = pipe /\ phase' = phase /\ nodes' = nodes
      /\ owned' = owned /\ cancelled' = cancelled
      /\ slots' = slots /\ links' = links /\ started' = started
      /\ due' = due /\ waiting' = waiting
      /\ running' = running \ Run!TasksOf(n, running)
      /\ Run!TasksOf(n, running) # {}
  BY DEF Run!SourceStops, Run!LoopRuns, Run!run
<1>2. Goes
  BY <1>1 DEF Goes
<1>3. PICK fails \in BOOLEAN :
         signals' = (IF fails THEN Run!Signals("error", n) ELSE <<>>) \o Run!Signals("end", n)
  BY DEF Run!SourceStops
<1>4. /\ pipe.class[n] = "nested" => started'[n] # 0
      /\ \A t \in running' : t.of # n /\ t \in running
  <2>1. PICK t \in running : t.of = n
    BY <1>1 DEF Run!TasksOf
  <2>2. Owner(t)
    BY <2>1 DEF WorkInv, Tasks
  <2> QED BY <1>1, <2>1, <2>2 DEF Owner, Run!TasksOf
<1>5. signals' \in Seq(Fit')
  <2>1. PICK F : F = Fit'
    OBVIOUS
  <2>2. PICK a : a = Run!Signals("error", n)
    OBVIOUS
  <2>3. PICK b : b = Run!Signals("end", n)
    OBVIOUS
  <2>4. a \in Seq(F)
    BY <1>2, <2>1, <2>2, TellsFit DEF WorkInv
  <2>5. b \in Seq(F)
    BY <1>2, <1>4, <2>1, <2>3, TellsFit DEF WorkInv
  <2>6. <<>> \in Seq(F)
    OBVIOUS
  <2>7. (IF fails THEN a ELSE <<>>) \o b \in Seq(F)
    BY ONLY <2>4, <2>5, <2>6, fails \in BOOLEAN
  <2> QED BY <1>3, <2>1, <2>2, <2>3, <2>7
<1>6. Hooked'
  BY <1>1, HookedStays DEF WorkInv
<1>7. Tasks'
  BY <1>1, <1>4, TasksStay DEF WorkInv, Tasks
<1>8. Unqueued' /\ links' \in [Node \cup {Collector} -> SUBSET Node]
  BY <1>1 DEF WorkInv, Unqueued, Linked
<1> QED BY <1>2, <1>4, <1>5, <1>6, <1>7, <1>8, GoesOn

LEMMA DoneWorks ==
    ASSUME RunTypes, WorkInv, NEW t \in running, Run!TaskDone(t)
    PROVE  WorkInv'
<1>1. /\ phase # "returned" /\ pipe' = pipe /\ phase' = phase /\ nodes' = nodes
      /\ owned' = owned /\ cancelled' = cancelled
      /\ slots' = slots /\ links' = links /\ started' = started
      /\ waiting' = waiting /\ signals' = signals
      /\ running' = running \ {t} /\ due' = due \cup {t}
      /\ pipe.class[t.of] = "map"
  BY DEF Run!TaskDone, Run!LoopRuns, Run!run, Run!graph
<1>2. Goes
  BY <1>1 DEF Goes
<1>3. signals' \in Seq(Fit')
  <2>1. PICK F : F = Fit
    OBVIOUS
  <2>2. PICK G : G = Fit'
    OBVIOUS
  <2>3. F \subseteq G
    BY <1>1, <1>2, <2>1, <2>2, FitStays
  <2>4. signals \in Seq(F)
    BY <2>1 DEF WorkInv, OnTheWay
  <2>5. signals \in Seq(G)
    BY ONLY <2>3, <2>4
  <2> QED BY <1>1, <2>2, <2>5
<1>4. Hooked'
  BY <1>1, HookedStays DEF WorkInv
<1>5. Tasks'
  BY <1>1, TasksStay DEF WorkInv, Tasks
<1>6. Unqueued' /\ links' \in [Node \cup {Collector} -> SUBSET Node]
  BY <1>1 DEF WorkInv, Unqueued, Linked
<1> QED BY <1>1, <1>2, <1>3, <1>4, <1>5, <1>6, GoesOn

LEMMA CallbackWorks ==
    ASSUME RunTypes, WorkInv, NEW t \in due, Run!Callback(t)
    PROVE  WorkInv'
<1>1. /\ phase # "returned" /\ pipe' = pipe /\ phase' = phase /\ nodes' = nodes
      /\ owned' = owned /\ cancelled' = cancelled
      /\ slots' = slots /\ links' = links /\ started' = started /\ running' = running
      /\ due' = due /\ waiting' = waiting
  BY DEF Run!Callback, Run!LoopRuns, Run!graph, Run!work, Run!run
<1>2. Goes
  BY <1>1 DEF Goes
<1>3. t \in TaskOf /\ t.of \in Node /\ pipe.class[t.of] = "map"
  BY DEF RunTypes, TaskOf, WorkInv, Tasks
<1>4. PICK what \in {"value", "error"} :
         signals' = (IF t \in cancelled THEN <<>> ELSE Run!Signals(what, t.of)) \o <<Run!After(t)>>
  BY DEF Run!Callback
<1>5. signals' \in Seq(Fit')
  <2>1. PICK F : F = Fit'
    OBVIOUS
  <2>2. Harmless(t.of)
    BY <1>3 DEF Harmless, Looked, Run!Alone
  <2>3. PICK a : a = Run!Signals(what, t.of)
    OBVIOUS
  <2>4. a \in Seq(F)
    BY <1>2, <1>3, <2>1, <2>2, <2>3, TellsFit DEF WorkInv
  <2>5. PICK g : g = Run!After(t)
    OBVIOUS
  <2>6. g.what = "after" /\ g.from = t.of /\ g.to = t.of /\ g \in Signal(pipe)
    BY <1>3, <2>5 DEF Run!After, Signal
  <2>7. g \in F
    BY <1>1, <1>3, <2>1, <2>6 DEF Fit, Sound
  <2>8. <<>> \in Seq(F) /\ <<g>> \in Seq(F)
    BY ONLY <2>7
  <2>9. (IF t \in cancelled THEN <<>> ELSE a) \o <<g>> \in Seq(F)
    BY ONLY <2>4, <2>8
  <2> QED BY <1>4, <2>1, <2>3, <2>5, <2>9
<1>6. Hooked'
  BY <1>1, HookedStays DEF WorkInv
<1>7. Tasks'
  BY <1>1, TasksStay DEF WorkInv, Tasks
<1>8. Unqueued' /\ links' \in [Node \cup {Collector} -> SUBSET Node]
  BY <1>1 DEF WorkInv, Unqueued, Linked
<1> QED BY <1>1, <1>2, <1>5, <1>6, <1>7, <1>8, GoesOn
-----------------------------------------------------------------------------
(* The signal that is heard, and those that are left. *)
Hearing(g, rest) ==
    /\ signals # <<>> /\ g = Run!Sig /\ rest = Run!Rest
    /\ g \in Fit /\ rest \in Seq(Fit)
    /\ Goes
    /\ g.what # "after" =>
          \/ g.to \in {Collector, Outside}
          \/ g.to \in Run!Over[g.from] /\ g.to \in Node /\ g.from \in Node
             /\ pipe.class[g.to] \notin {"source", "nested"}
    /\ g.what = "after" => g.to \in Node /\ pipe.class[g.to] = "map" /\ g.task \in TaskOf

LEMMA SomeSignal ==
    ASSUME RunTypes, WorkInv, Run!Hear
    PROVE  \E g, rest : Hearing(g, rest)
<1>1. signals # <<>> /\ phase # "returned"
  BY DEF Run!Hear, Run!Quiet, WorkInv, Settled
<1>2. Goes
  BY <1>1 DEF Run!Hear, Run!run, Goes
<1>3. PICK F : F = Fit
  OBVIOUS
<1>4. PICK line : line = signals
  OBVIOUS
<1>5. line \in Seq(F) /\ line # <<>>
  BY <1>1, <1>3, <1>4 DEF WorkInv, OnTheWay
<1>6. Head(line) \in F /\ Tail(line) \in Seq(F)
  BY ONLY <1>5
<1>7. PICK g : g = Head(line)
  OBVIOUS
<1>8. g \in Signal(pipe) /\ Sound(g)
  BY <1>3, <1>6, <1>7 DEF Fit
<1>9. ASSUME g.what # "after", g.to \notin {Collector, Outside}
      PROVE  /\ g.to \in Run!Over[g.from] /\ g.to \in Node /\ g.from \in Node
             /\ pipe.class[g.to] \notin {"source", "nested"}
  <2>1. g.to \in Run!Over[g.from] /\ g.from \in Node
    BY <1>8, <1>9 DEF Sound, Signal
  <2> QED BY <2>1, OverHears DEF RunTypes
<1>10. g.what = "after" => g.to \in Node /\ pipe.class[g.to] = "map" /\ g.task \in TaskOf
  BY <1>8 DEF Sound, Signal
<1>11. g = Run!Sig /\ Tail(line) = Run!Rest
  BY <1>4, <1>7 DEF Run!Sig, Run!Rest
<1>12. Hearing(g, Tail(line))
  BY <1>1, <1>2, <1>3, <1>6, <1>7, <1>9, <1>10, <1>11 DEF Hearing
<1> QED BY <1>12

(* What follows when the signals that are told are right. *)
LEMMA RestFits ==
    ASSUME RunTypes, NEW g, NEW rest, Hearing(g, rest),
           \A k \in Node : started[k] # 0 => started'[k] # 0,
           \A t \in running' : \/ t \in running \/ pipe.class[t.of] # "nested"
                               \/ started[t.of] = 0
    PROVE  rest \in Seq(Fit')
<1>1. PICK F : F = Fit
  OBVIOUS
<1>2. PICK G : G = Fit'
  OBVIOUS
<1>3. F \subseteq G
  BY <1>1, <1>2, FitStays DEF Hearing
<1>4. rest \in Seq(F)
  BY <1>1 DEF Hearing
<1>5. rest \in Seq(G)
  BY ONLY <1>3, <1>4
<1> QED BY <1>2, <1>5

(* Values are passed on where they do no harm. *)
LEMMA HarmlessOn ==
    ASSUME RunTypes, NEW g, NEW rest, Hearing(g, rest), g.what = "value", g.to \in Node
    PROVE  Harmless(g.to)
<1>1. Looked => ~(Run!Leads(g.to) /\ Run!Starts(g.to))
  BY DEF Hearing, Fit, Sound
<1>2. \A k \in Run!Over[g.to] : (Run!Leads(k) => Run!Leads(g.to)) /\ (Run!Starts(k) => Run!Starts(g.to))
  BY UpstreamToo
<1> QED BY <1>1, <1>2 DEF Harmless

LEMMA ToldFits ==
    ASSUME RunTypes, Hooked, NEW g, NEW rest, Hearing(g, rest), g.to \in Node,
           NEW what \in {"value", "error", "end"},
           what = "value" => g.what = "value",
           what = "end" => pipe.class[g.to] # "nested"
    PROVE  Run!Signals(what, g.to) \in Seq(Fit')
<1>1. what = "value" => Harmless(g.to)
  BY HarmlessOn
<1>2. PICK m \in Node : m = g.to
  OBVIOUS
<1>3. Goes
  BY DEF Hearing
<1>4. Run!Signals(what, m) \in Seq(Fit')
  BY <1>1, <1>2, <1>3, TellsFit
<1> QED BY <1>2, <1>4

(* Heard and passed on, or not. *)
Passing(g, rest) ==
    /\ links' = links /\ slots' = slots
    /\ started' = started /\ running' = running /\ due' = due /\ waiting' = waiting
    /\ \/ signals' = rest
       \/ /\ g.to \in Node /\ g.what \in {"value", "error"}
          /\ signals' = Run!Signals(g.what, g.to) \o rest

LEMMA PassingWorks ==
    ASSUME RunTypes, WorkInv, NEW g, NEW rest, Hearing(g, rest), Passing(g, rest)
    PROVE  WorkInv'
<1>1. Goes /\ pipe' = pipe
  BY DEF Hearing, Goes
<1>2. rest \in Seq(Fit')
  BY RestFits DEF Passing
<1>3. signals' \in Seq(Fit')
  <2>1. PICK F : F = Fit'
    OBVIOUS
  <2>2. CASE signals' = rest
    BY <1>2, <2>2
  <2>3. CASE /\ g.to \in Node /\ g.what \in {"value", "error"}
             /\ signals' = Run!Signals(g.what, g.to) \o rest
    <3>1. PICK what \in {"value", "error"} : what = g.what
      BY <2>3
    <3>2. PICK a : a = Run!Signals(what, g.to)
      OBVIOUS
    <3>3. a \in Seq(F)
      BY <2>1, <2>3, <3>1, <3>2, ToldFits DEF WorkInv
    <3>4. a \o rest \in Seq(F)
      BY <1>2, <2>1, <3>3, JoinFits
    <3> QED BY <2>1, <2>3, <3>1, <3>2, <3>4
  <2> QED BY <2>2, <2>3 DEF Passing
<1>4. Hooked'
  BY <1>1, HookedStays DEF WorkInv, Passing
<1>5. Tasks'
  BY <1>1, TasksStay DEF WorkInv, Tasks, Passing
<1>6. Unqueued' /\ links' \in [Node \cup {Collector} -> SUBSET Node]
  BY <1>1 DEF WorkInv, Unqueued, Linked, Passing
<1> QED BY <1>1, <1>3, <1>4, <1>5, <1>6, GoesOn DEF Passing

(* A value for a map. *)
LEMMA MapWorks ==
    ASSUME RunTypes, WorkInv, NEW g, NEW rest, Hearing(g, rest), g.what = "value",
           g.to \in Node, pipe.class[g.to] = "map", Run!ToMap(g.to)
    PROVE  WorkInv'
<1>1. PICK m \in Node : m = g.to
  OBVIOUS
<1>2. /\ signals' = rest /\ links' = links /\ slots' = slots /\ due' = due
      /\ \/ /\ started' = [started EXCEPT ![m] = @ + 1]
            /\ running' = running \cup {Run!Task(m, started[m] + 1)}
            /\ waiting' = waiting
         \/ /\ pipe.limit # 0
            /\ waiting' = [waiting EXCEPT ![m] = @ + 1]
            /\ started' = started /\ running' = running
  BY <1>1 DEF Run!ToMap, Run!HasRoom, Run!graph, Hearing
<1>3. Goes /\ pipe' = pipe
  BY DEF Hearing, Goes
<1>4. started \in [Node -> Nat] /\ pipe.class[m] = "map"
  BY <1>1 DEF RunTypes
<1>5. \A k \in Node : started[k] # 0 => started'[k] # 0
  BY <1>2, <1>4
<1>6. \A t \in running' : t \in running \/ t.of = m
  BY <1>2 DEF Run!Task
<1>7. ASSUME Looked PROVE ~Run!Private(m)
  <2>1. m \in Run!Downstream(m)
    BY DownstreamIs DEF Below
  <2>2. Run!Starts(m)
    BY <1>4, <2>1 DEF Run!Starts
  <2>3. ~Run!Leads(m)
    BY <1>1, <1>7, <2>2 DEF Hearing, Fit, Sound
  <2> QED BY <2>3, PrivateLeads
<1>8. signals' \in Seq(Fit')
  BY <1>2, <1>4, <1>5, <1>6, RestFits
<1>9. Hooked'
  BY <1>2, <1>3, HookedStays DEF WorkInv
<1>10. Tasks'
  <2>1. \A t \in running' : t \in running \/ Owner(t)'
    BY <1>3, <1>4, <1>6 DEF Owner
  <2> QED BY <1>2, <1>3, <1>5, <2>1, TasksStay DEF WorkInv, Tasks
<1>11. Unqueued'
  BY <1>2, <1>3 DEF WorkInv, Unqueued
<1>12. links' \in [Node \cup {Collector} -> SUBSET Node]
  BY <1>2 DEF WorkInv, Linked
<1> QED BY <1>3, <1>6, <1>7, <1>8, <1>9, <1>10, <1>11, <1>12, GoesOn

(* An operator that ends with a value. *)
OpEnds(m, rest) ==
    /\ Run!EndOf(m, links[m])
    /\ signals' = Run!Signals("value", m) \o Run!Signals("end", m) \o rest
    /\ started' = started /\ running' = running /\ due' = due /\ waiting' = waiting

LEMMA OpWorks ==
    ASSUME RunTypes, WorkInv, NEW g, NEW rest, Hearing(g, rest), g.what = "value",
           g.to \in Node, pipe.class[g.to] = "op", OpEnds(g.to, rest)
    PROVE  WorkInv'
<1>1. PICK m \in Node : m = g.to
  OBVIOUS
<1>2. /\ links' = [links EXCEPT ![m] = {}]
      /\ slots' = Run!Unlisten(m, slots, links[m])
      /\ signals' = Run!Signals("value", m) \o Run!Signals("end", m) \o rest
      /\ started' = started /\ running' = running /\ due' = due /\ waiting' = waiting
  BY <1>1 DEF OpEnds, Run!EndOf
<1>3. Goes /\ pipe' = pipe /\ pipe.class[m] = "op"
  BY <1>1 DEF Hearing, Goes
<1>4. signals' \in Seq(Fit')
  <2>1. PICK F : F = Fit'
    OBVIOUS
  <2>2. PICK a : a = Run!Signals("value", m)
    OBVIOUS
  <2>3. PICK b : b = Run!Signals("end", m)
    OBVIOUS
  <2>4. a \in Seq(F)
    BY <1>1, <2>1, <2>2, ToldFits DEF WorkInv
  <2>5. b \in Seq(F)
    BY <1>1, <1>3, <2>1, <2>3, ToldFits DEF WorkInv
  <2>6. rest \in Seq(F)
    BY <1>2, <2>1, RestFits
  <2>7. a \o b \in Seq(F)
    BY <2>4, <2>5, JoinFits
  <2>8. (a \o b) \o rest \in Seq(F)
    BY <2>6, <2>7, JoinFits
  <2> QED BY <1>2, <2>1, <2>2, <2>3, <2>8
<1>5. Hooked'
  BY <1>2, <1>3, UnlistenFits, HookedNow DEF WorkInv
<1>6. links \in [Node \cup {Collector} -> SUBSET Node]
  BY DEF WorkInv, Linked
<1>7. links' \in [Node \cup {Collector} -> SUBSET Node]
  BY <1>2, <1>6
<1>8. Tasks'
  <2>1. \A k \in Node, t \in running :
           pipe.class[k] = "emap" /\ t \in running' /\ t.of \in links[k] => t.of \in links'[k]
    BY <1>2, <1>3, <1>6
  <2> QED BY <1>2, <1>3, <2>1, TasksStay DEF WorkInv, Tasks
<1>9. Unqueued'
  BY <1>2, <1>3 DEF WorkInv, Unqueued
<1> QED BY <1>2, <1>3, <1>4, <1>5, <1>7, <1>8, <1>9, GoesOn

(* An emap makes a nested event and follows it. *)
Nests(m, e, rest) ==
    /\ pipe.class[e] = "nested" /\ started[e] = 0
    /\ links' = [links EXCEPT ![m] = @ \cup {e}]
    /\ slots' = Run!Listen(m, slots, e)
    /\ started' = [started EXCEPT ![e] = 1]
    /\ running' = running \cup {Run!Task(e, 1)}
    /\ signals' = rest /\ due' = due /\ waiting' = waiting

LEMMA NestWorks ==
    ASSUME RunTypes, WorkInv, NEW g, NEW rest, Hearing(g, rest), g.what = "value",
           g.to \in Node, pipe.class[g.to] = "emap", NEW e \in Node, Nests(g.to, e, rest)
    PROVE  WorkInv'
<1>1. PICK m \in Node : m = g.to
  OBVIOUS
<1>2. /\ pipe.class[e] = "nested" /\ started[e] = 0
      /\ links' = [links EXCEPT ![m] = @ \cup {e}]
      /\ slots' = Run!Listen(m, slots, e)
      /\ started' = [started EXCEPT ![e] = 1]
      /\ running' = running \cup {Run!Task(e, 1)}
      /\ signals' = rest /\ due' = due /\ waiting' = waiting
  BY <1>1 DEF Nests
<1>3. Goes /\ pipe' = pipe /\ pipe.class[m] = "emap"
  BY <1>1 DEF Hearing, Goes
<1>4. started \in [Node -> Nat] /\ links \in [Node \cup {Collector} -> SUBSET Node]
  BY DEF RunTypes, WorkInv, Linked
<1>5. (\A k \in Node : started[k] # 0 => started'[k] # 0) /\ started'[e] # 0
  BY <1>2, <1>4
<1>6. \A t \in running' : t \in running \/ t.of = e
  BY <1>2 DEF Run!Task
<1>7. m \in Run!Over[e]
  BY <1>2, <1>3 DEF Run!Over
<1>8. ASSUME Looked PROVE ~Run!Private(e)
  <2>1. m \in Run!Downstream(m)
    BY DownstreamIs DEF Below
  <2>2. Run!Starts(m)
    BY <1>3, <2>1 DEF Run!Starts
  <2>3. ~Run!Leads(m)
    BY <1>1, <1>8, <2>2 DEF Hearing, Fit, Sound
  <2> QED BY <1>7, <2>3, UpstreamToo
<1>9. signals' \in Seq(Fit')
  BY <1>2, <1>5, <1>6, RestFits
<1>10. Hooked'
  BY <1>2, <1>3, <1>7, ListenFits, HookedNow DEF WorkInv
<1>11. links' \in [Node \cup {Collector} -> SUBSET Node]
  BY <1>2, <1>4
<1>12. Tasks'
  <2>1. \A t \in running' : t \in running \/ Owner(t)'
    <3>1. e \in links'[m]
      BY <1>2, <1>4
    <3> QED BY <1>3, <1>2, <1>5, <1>6, <3>1 DEF Owner
  <2>2. \A k \in Node, t \in running :
           pipe.class[k] = "emap" /\ t \in running' /\ t.of \in links[k] => t.of \in links'[k]
    BY <1>2, <1>4
  <2> QED BY <1>2, <1>3, <1>5, <2>1, <2>2, TasksStay DEF WorkInv, Tasks
<1>13. Unqueued'
  BY <1>2, <1>3 DEF WorkInv, Unqueued
<1> QED BY <1>3, <1>6, <1>8, <1>9, <1>10, <1>11, <1>12, <1>13, GoesOn

(* An end is heard. *)
LEMMA EndWorks ==
    ASSUME RunTypes, WorkInv, NEW g, NEW rest, Hearing(g, rest), g.what = "end",
           g.to \in Node, Run!HearEnd(g.to)
    PROVE  WorkInv'
<1>1. PICK m \in Node : m = g.to
  OBVIOUS
<1>2. /\ started' = started /\ running' = running /\ due' = due /\ waiting' = waiting
      /\ slots' = Run!Unlisten(m, slots, {g.from})
      /\ signals' = rest \/ signals' = Run!Signals("end", m) \o rest
  BY <1>1 DEF Run!HearEnd, Run!EndOf, Run!work, Hearing
<1>3. Goes /\ pipe' = pipe /\ pipe.class[m] \notin {"source", "nested"}
  BY <1>1, StrangerAssumption DEF Hearing, Goes
<1>4. links \in [Node \cup {Collector} -> SUBSET Node]
  BY DEF WorkInv, Linked
<1>5. PICK S \in SUBSET Node :
         links' = [links EXCEPT ![m] = S] /\ (pipe.class[m] = "emap" => S = links[m] \ {g.from})
  <2>1. m # Collector
    BY StrangerAssumption
  <2>2. Run!ClassOf(m) = pipe.class[m]
    BY <2>1 DEF Run!ClassOf
  <2>3. g.from = Run!Sig.from
    BY DEF Hearing
  <2>4. \/ links' = [links EXCEPT ![m] = {}] /\ (pipe.class[m] # "map" => links[m] \ {g.from} = {})
        \/ links' = [links EXCEPT ![m] = links[m] \ {g.from}]
    BY <1>1, <2>2, <2>3 DEF Run!HearEnd, Run!EndOf
  <2>5. links[m] \ {g.from} \in SUBSET Node
    BY <1>4
  <2> QED BY <2>4, <2>5
<1>6. signals' \in Seq(Fit')
  <2>1. PICK F : F = Fit'
    OBVIOUS
  <2>2. PICK b : b = Run!Signals("end", m)
    OBVIOUS
  <2>3. b \in Seq(F)
    BY <1>1, <1>3, <2>1, <2>2, ToldFits DEF WorkInv
  <2>4. rest \in Seq(F)
    BY <1>2, <2>1, RestFits
  <2>5. b \o rest \in Seq(F)
    BY <2>3, <2>4, JoinFits
  <2> QED BY <1>2, <2>1, <2>2, <2>4, <2>5
<1>7. Hooked'
  BY <1>2, <1>3, UnlistenFits, HookedNow DEF WorkInv
<1>8. links' \in [Node \cup {Collector} -> SUBSET Node]
  BY <1>4, <1>5
<1>9. Tasks'
  <2>1. ASSUME NEW k \in Node, NEW t \in running, pipe.class[k] = "emap",
               pipe.class[t.of] = "nested", t.of \in links[k]
        PROVE  t.of \in links'[k]
    <3>1. CASE k # m
      BY <1>4, <1>5, <2>1, <3>1
    <3>2. CASE k = m
      <4>1. t.of # g.from
        BY <2>1 DEF Hearing, Fit, Sound
      <4> QED BY <1>4, <1>5, <2>1, <3>2, <4>1
    <3> QED BY <3>1, <3>2
  <2> QED BY <1>2, <1>3, <2>1, TasksStay DEF WorkInv, Tasks
<1>10. Unqueued'
  BY <1>2, <1>3 DEF WorkInv, Unqueued
<1> QED BY <1>2, <1>3, <1>6, <1>7, <1>8, <1>9, <1>10, GoesOn
-----------------------------------------------------------------------------
(* The rest of a task's done callback. *)
LEMMA AfterWorks ==
    ASSUME RunTypes, WorkInv, NEW g, NEW rest, Hearing(g, rest), g.what = "after",
           Run!AfterEmit(g.to)
    PROVE  WorkInv'
<1>1. PICK m \in Node : m = g.to /\ pipe.class[m] = "map"
  BY DEF Hearing
<1>2. /\ due' \subseteq due
      /\ \/ /\ waiting[m] > 0
            /\ waiting' = [waiting EXCEPT ![m] = @ - 1]
            /\ started' = [started EXCEPT ![m] = @ + 1]
            /\ running' = running \cup {Run!Task(m, started[m] + 1)}
         \/ started' = started /\ running' = running /\ waiting' = waiting
      /\ \/ links' = links /\ slots' = slots /\ signals' = rest
         \/ /\ links' = [links EXCEPT ![m] = {}]
            /\ slots' = Run!Unlisten(m, slots, {})
            /\ signals' = Run!Signals("end", m) \o rest
  BY <1>1 DEF Run!AfterEmit, Run!EndOf, Run!graph, Hearing
<1>3. Goes /\ pipe' = pipe
  BY DEF Hearing, Goes
<1>4. /\ started \in [Node -> Nat] /\ waiting \in [Node -> Nat]
      /\ links \in [Node \cup {Collector} -> SUBSET Node]
      /\ pipe.limit = 0 => waiting[m] = 0
  BY DEF RunTypes, WorkInv, Linked, Unqueued
<1>5. \A k \in Node : started[k] # 0 => started'[k] # 0
  BY <1>2, <1>4
<1>6. \A t \in running' : t \in running \/ (t.of = m /\ waiting[m] > 0)
  BY <1>2 DEF Run!Task
<1>7. \A t \in running' : t \in running \/ (Looked => ~Run!Private(t.of))
  BY <1>4, <1>6 DEF Looked, Run!Alone
<1>8. signals' \in Seq(Fit')
  <2>1. PICK F : F = Fit'
    OBVIOUS
  <2>2. PICK b : b = Run!Signals("end", m)
    OBVIOUS
  <2>3. b \in Seq(F)
    BY <1>1, <2>1, <2>2, ToldFits DEF WorkInv
  <2>4. rest \in Seq(F)
    BY <1>1, <1>5, <1>6, <2>1, RestFits
  <2>5. b \o rest \in Seq(F)
    BY <2>3, <2>4, JoinFits
  <2> QED BY <1>2, <2>1, <2>2, <2>4, <2>5
<1>9. Hooked'
  <2>1. CASE slots' = slots
    BY <1>3, <2>1, HookedStays DEF WorkInv
  <2>2. CASE slots' = Run!Unlisten(m, slots, {})
    BY <1>3, <2>2, UnlistenFits, HookedNow DEF WorkInv
  <2> QED BY <1>2, <2>1, <2>2
<1>10. links' \in [Node \cup {Collector} -> SUBSET Node]
  BY <1>2, <1>4
<1>11. Tasks'
  <2>1. \A t \in running' : t \in running \/ Owner(t)'
    BY <1>1, <1>3, <1>6 DEF Owner
  <2>2. \A k \in Node, t \in running :
           /\ pipe.class[k] = "emap" /\ t \in running' /\ pipe.class[t.of] = "nested"
           /\ t.of \in links[k]
           => t.of \in links'[k]
    BY <1>1, <1>2, <1>4
  <2>3. \A t \in due' : pipe.class[t.of] = "map"
    BY <1>2 DEF WorkInv, Tasks
  <2> QED BY <1>3, <1>5, <2>1, <2>2, <2>3, TasksStay DEF WorkInv
<1>12. Unqueued'
  <2>1. waiting' \in [Node -> Nat]
    BY <1>2, <1>4
  <2>2. pipe.limit = 0 => waiting' = waiting
    BY <1>2, <1>4
  <2> QED BY <1>3, <2>1, <2>2 DEF WorkInv, Unqueued
<1> QED BY <1>3, <1>7, <1>8, <1>9, <1>10, <1>11, <1>12, GoesOn

(* All that is heard in a turn. *)
LEMMA HearWorks ==
    ASSUME RunTypes, WorkInv, Run!Hear
    PROVE  WorkInv'
<1>1. PICK g, rest : Hearing(g, rest)
  BY SomeSignal
<1>2. g = Run!Sig /\ rest = Run!Rest /\ g \in Signal(pipe)
  BY <1>1 DEF Hearing, Fit
<1>3. PICK m : m = g.to
  OBVIOUS
<1>4. /\ g.what \in {"value", "error", "end", "after"}
      /\ m \in {Collector, Outside} \/ m \in Node
      /\ m \in Node => m \notin {Collector, Outside}
  BY <1>1, <1>2, <1>3, StrangerAssumption DEF Hearing, Signal
<1>5. m \in Node => Run!ClassOf(m) = pipe.class[m]
  BY <1>4 DEF Run!ClassOf
<1>6. Run!Drop \/ Run!GotResult => Passing(g, rest)
  BY <1>2 DEF Run!Drop, Run!GotResult, Passing, Run!graph, Run!work
<1>7. m \in Node /\ Run!PassOn(m, g.what) /\ g.what \in {"value", "error"} => Passing(g, rest)
  BY <1>2, <1>3 DEF Run!PassOn, Passing, Run!graph, Run!work
<1>8. Passing(g, rest) => WorkInv'
  BY <1>1, PassingWorks
<1>9. CASE g.what = "after"
  <2>1. Run!AfterEmit(g.to)
    BY <1>2, <1>9 DEF Run!Hear
  <2> QED BY <1>1, <1>9, <2>1, AfterWorks
<1>10. CASE g.what = "value"
  <2>1. Run!HearValue(m)
    BY <1>2, <1>3, <1>10 DEF Run!Hear
  <2>2. CASE m \in {Collector, Outside}
    BY <1>6, <1>8, <2>1, <2>2 DEF Run!HearValue
  <2>3. CASE m \in Node
    <3>1. \/ pipe.class[m] = "map" /\ Run!ToMap(m)
          \/ pipe.class[m] = "op" /\ Run!ToOp(m)
          \/ pipe.class[m] = "join" /\ (Run!Drop \/ Run!PassOn(m, "value"))
          \/ pipe.class[m] = "emap" /\ Run!ToEmap(m)
      BY <1>4, <1>5, <2>1, <2>3 DEF Run!HearValue
    <3>2. CASE pipe.class[m] = "map" /\ Run!ToMap(m)
      BY <1>1, <1>3, <1>10, <2>3, <3>2, MapWorks
    <3>3. CASE Run!Drop \/ Run!PassOn(m, "value")
      BY <1>6, <1>7, <1>8, <1>10, <2>3, <3>3
    <3>4. CASE pipe.class[m] = "op" /\ Run!ToOp(m)
      <4>1. OpEnds(m, rest) \/ Run!Drop \/ Run!PassOn(m, "value")
        BY <1>2, <3>4 DEF Run!ToOp, OpEnds, Run!work
      <4>2. CASE OpEnds(m, rest)
        BY <1>1, <1>3, <1>10, <2>3, <3>4, <4>2, OpWorks
      <4> QED BY <3>3, <4>1, <4>2
    <3>5. CASE pipe.class[m] = "emap" /\ Run!ToEmap(m)
      <4>1. \/ \E e \in Node : Nests(m, e, rest)
            \/ Run!Drop \/ Run!PassOn(m, "value")
        BY <1>2, <3>5 DEF Run!ToEmap, Nests, Run!Nest
      <4>2. ASSUME NEW e \in Node, Nests(m, e, rest) PROVE WorkInv'
        BY <1>1, <1>3, <1>10, <2>3, <3>5, <4>2, NestWorks
      <4> QED BY <3>3, <4>1, <4>2
    <3> QED BY <3>1, <3>2, <3>3, <3>4, <3>5
  <2> QED BY <1>4, <2>2, <2>3
<1>11. CASE g.what \in {"error", "end"}
  <2>1. Run!HearOther(m)
    BY <1>2, <1>3, <1>11 DEF Run!Hear
  <2>2. CASE m \in {Collector, Outside}
    BY <1>6, <1>8, <2>1, <2>2 DEF Run!HearOther
  <2>3. CASE m \in Node
    <3>1. (g.what = "error" /\ Run!PassOn(m, g.what)) \/ (g.what = "end" /\ Run!HearEnd(m))
      BY <1>2, <1>4, <1>11, <2>1, <2>3 DEF Run!HearOther
    <3>2. CASE g.what = "error" /\ Run!PassOn(m, g.what)
      BY <1>7, <1>8, <2>3, <3>2
    <3>3. CASE g.what = "end" /\ Run!HearEnd(m)
      BY <1>1, <1>3, <2>3, <3>3, EndWorks
    <3> QED BY <3>1, <3>2, <3>3
  <2> QED BY <1>4, <2>2, <2>3
<1> QED BY <1>4, <1>9, <1>10, <1>11

(* run attaches its collector. *)
LEMMA BeginWorks ==
    ASSUME RunTypes, WorkInv, Run!Begin
    PROVE  WorkInv'
<1>1. /\ signals = <<>> /\ signals' = signals /\ phase' = "waiting" /\ pipe' = pipe
      /\ started' = started /\ running' = running /\ due' = due /\ waiting' = waiting
      /\ \/ links' = [links EXCEPT ![Collector] = {}] /\ slots' = slots
            /\ nodes' = {Collector} \cup {}
         \/ /\ links' = [links EXCEPT ![Collector] = {pipe.root}]
            /\ slots' = Run!Listen(Collector, slots, pipe.root)
            /\ nodes' = {Collector} \cup Run!PipelineNodes({pipe.root})
  BY DEF Run!Begin, Run!Quiet, Run!work
<1>2. links \in [Node \cup {Collector} -> SUBSET Node] /\ pipe.root \in Node
  BY PipeTyped DEF WorkInv, Linked, RunTypes, PipeTypes
<1>3. Run!PipelineNodes({pipe.root}) \subseteq Node \cup {Collector}
  BY <1>2 DEF Run!PipelineNodes, Run!Closure
<1>4. Linked'
  <2>1. /\ links' \in [Node \cup {Collector} -> SUBSET Node]
        /\ \A m \in Node : links'[m] = links[m]
    BY <1>1, <1>2, StrangerAssumption
  <2>2. nodes' \subseteq Node \cup {Collector} /\ Collector \in nodes'
    BY <1>1, <1>3
  <2> QED BY <1>1, <2>1, <2>2 DEF WorkInv, Linked
<1>5. Hooked'
  <2>1. CASE slots' = slots
    BY <1>1, <2>1, HookedStays DEF WorkInv
  <2>2. CASE slots' = Run!Listen(Collector, slots, pipe.root)
    BY <1>1, <1>2, <2>2, ListenFits, HookedNow DEF WorkInv
  <2> QED BY <1>1, <2>1, <2>2
<1>6. Tasks'
  <2>1. \A k \in Node : links'[k] = links[k]
    BY <1>1, <1>2, StrangerAssumption
  <2> QED BY <1>1, <2>1, TasksStay DEF WorkInv, Tasks
<1>7. Unqueued'
  BY <1>1 DEF WorkInv, Unqueued
<1>8. ~Looked' /\ Swept' /\ Settled'
  BY <1>1 DEF Looked, Swept, Settled
<1>9. OnTheWay'
  <2>1. \A S : <<>> \in Seq(S)
    OBVIOUS
  <2> QED BY <1>1, <2>1 DEF OnTheWay
<1> QED BY <1>4, <1>5, <1>6, <1>7, <1>8, <1>9 DEF WorkInv

(* What only the pipeline uses is found. *)
LEMMA FindsPrivate ==
    ASSUME RunTypes, WorkInv, phase # "before", Run!Whole, pipe.partial = {},
           NEW t \in running, Run!Private(t.of)
    PROVE  t \in Run!Leftover
<1>1. PICK n \in Node : n = t.of
  BY DEF RunTypes, TaskOf
<1>2. PICK found : found = Run!PipelineNodes(nodes)
  OBVIOUS
<1>3. /\ links \in [Node \cup {Collector} -> SUBSET Node]
      /\ nodes \subseteq Node \cup {Collector} /\ Collector \in nodes
  BY DEF WorkInv, Linked
<1>4. nodes \subseteq found /\ Run!Closed(links, found)
  BY <1>2, <1>3, ClosureHas, ClosureClosed DEF Run!PipelineNodes
<1>5. Run!Leads(n) /\ n \notin pipe.outside
  BY <1>1, PrivateLeads
<1>6. n \in found
  <2>1. CASE pipe.class[n] # "nested"
    BY <1>4, <1>5, <2>1 DEF Run!Whole
  <2>2. CASE pipe.class[n] = "nested"
    <3>1. PICK m \in Node : pipe.class[m] = "emap" /\ n \in links[m]
      BY <1>1, <2>2 DEF WorkInv, Tasks, Owner
    <3>2. m \in Run!Over[n]
      BY <2>2, <3>1 DEF Run!Over
    <3>3. Run!Leads(m)
      BY <1>1, <3>2, UpstreamToo
    <3>4. m \in nodes
      BY <3>1, <3>3 DEF Run!Whole
    <3> QED BY <1>4, <3>1, <3>4 DEF Run!Closed
  <2> QED BY <2>1, <2>2
<1>7. ASSUME NEW i \in DOMAIN slots[n]
      PROVE  ~slots[n][i].plain /\ slots[n][i].to \in found
  <2>1. slots[n][i] \in Listener(n)
    BY <1>7 DEF WorkInv, Hooked
  <2>2. PICK s \in Listener(n) : s = slots[n][i]
    BY <2>1
  <2>3. /\ s.to \in Run!Over[n] \cup {Collector}
        /\ s.plain = (s.to = Outside)
    BY <1>5 DEF Listener
  <2>4. CASE s.to = Collector
    BY <1>3, <1>4, <2>2, <2>3, <2>4, StrangerAssumption
  <2>5. CASE s.to \in Run!Over[n]
    <3>1. s.to \in Node /\ Run!Leads(s.to) /\ pipe.class[s.to] # "nested"
      BY <1>1, <2>5, UpstreamToo, OverHears DEF RunTypes
    <3>2. s.to \in nodes
      BY <3>1 DEF Run!Whole
    <3> QED BY <1>4, <2>2, <2>3, <3>1, <3>2, StrangerAssumption
  <2> QED BY <2>3, <2>4, <2>5
<1>8. t \in Run!PipelineTasks(found, slots)
  BY <1>1, <1>6, <1>7 DEF Run!PipelineTasks, Run!ListenedToOnlyBy
<1> QED BY <1>2, <1>8 DEF Run!Leftover

LEMMA CleanWorks ==
    ASSUME RunTypes, WorkInv, Run!Clean
    PROVE  WorkInv'
<1>1. /\ signals = <<>> /\ signals' = signals /\ phase = "waiting"
      /\ pipe' = pipe /\ links' = links /\ slots' = slots /\ nodes' = nodes
      /\ started' = started /\ running' = running /\ due' = due /\ waiting' = waiting
      /\ phase' = IF Run!Leftover = {} THEN "returned" ELSE "cleaning"
      /\ owned' = Run!Leftover /\ cancelled' = cancelled \cup Run!Leftover
  BY DEF Run!Clean, Run!Quiet, Run!graph, Run!work
<1>2. Fixed
  BY <1>1, PipeFixed
<1>3. Linked'
  BY <1>1 DEF WorkInv, Linked
<1>4. Hooked'
  BY <1>1, HookedStays DEF WorkInv
<1>5. Tasks'
  BY <1>1, TasksStay DEF WorkInv, Tasks
<1>6. Unqueued'
  BY <1>1 DEF WorkInv, Unqueued
<1>7. ASSUME Looked', NEW t \in running, Run!Private(t.of) PROVE t \in Run!Leftover
  <2>1. Run!Whole /\ Run!Alone
    BY <1>1, <1>2, <1>7 DEF Looked, Run!Whole, Fixed
  <2>2. pipe.partial = {}
    BY <2>1 DEF Run!Alone
  <2> QED BY <1>1, <1>7, <2>1, <2>2, FindsPrivate
<1>8. Swept'
  BY <1>1, <1>2, <1>7 DEF Swept, Fixed
<1>9. Settled'
  BY <1>1, <1>2, <1>7 DEF Settled, Fixed
<1>10. OnTheWay'
  <2>1. \A S : <<>> \in Seq(S)
    OBVIOUS
  <2> QED BY <1>1, <2>1 DEF OnTheWay
<1> QED BY <1>3, <1>4, <1>5, <1>6, <1>8, <1>9, <1>10 DEF WorkInv

LEMMA ReturnWorks ==
    ASSUME RunTypes, WorkInv, Run!Return
    PROVE  WorkInv'
<1>1. /\ signals = <<>> /\ signals' = signals /\ phase = "cleaning" /\ phase' = "returned"
      /\ pipe' = pipe /\ links' = links /\ slots' = slots /\ nodes' = nodes
      /\ started' = started /\ running' = running /\ due' = due /\ waiting' = waiting
      /\ owned' = owned /\ cancelled' = cancelled /\ owned \cap (running \cup due) = {}
  BY DEF Run!Return, Run!Quiet, Run!graph, Run!work
<1>2. Fixed
  BY <1>1, PipeFixed
<1>3. Linked'
  BY <1>1 DEF WorkInv, Linked
<1>4. Hooked'
  BY <1>1, HookedStays DEF WorkInv
<1>5. Tasks'
  BY <1>1, TasksStay DEF WorkInv, Tasks
<1>6. Unqueued'
  BY <1>1 DEF WorkInv, Unqueued
<1>7. Looked' => Looked
  BY <1>1, <1>2 DEF Looked, Run!Whole, Fixed
<1>8. Swept'
  BY <1>1, <1>2, <1>7 DEF WorkInv, Swept, Fixed
<1>9. Settled'
  <2>1. ASSUME Looked', NEW t \in running, Run!Private(t.of) PROVE FALSE
    BY <1>1, <1>7, <2>1 DEF WorkInv, Swept
  <2> QED BY <1>1, <1>2, <2>1 DEF Settled, Fixed
<1>10. OnTheWay'
  <2>1. \A S : <<>> \in Seq(S)
    OBVIOUS
  <2> QED BY <1>1, <2>1 DEF OnTheWay
<1> QED BY <1>3, <1>4, <1>5, <1>6, <1>8, <1>9, <1>10 DEF WorkInv
-----------------------------------------------------------------------------
(* Only those that may listen do so at the start. *)
LEMMA SlotsAtStart == ASSUME Run!Init, pipe \in Run!Pipeline PROVE Hooked
<1>1. ASSUME NEW n \in Node PROVE slots[n] \in Seq(Listener(n))
  <2>1. PICK first \in Seq(Listener(n)) :
           slots[n] = first \o IF n \in pipe.outside THEN <<Stranger>> ELSE <<>>
    BY FirstListeners
  <2>2. PICK F : F = Listener(n)
    OBVIOUS
  <2>3. PICK rest : rest = IF n \in pipe.outside THEN <<Stranger>> ELSE <<>>
    OBVIOUS
  <2>4. rest \in Seq(F)
    BY <2>2, <2>3, StrangerFits
  <2> QED BY <2>1, <2>2, <2>3, <2>4, JoinFits
<1> QED BY <1>1 DEF Hooked

LEMMA WorkInit == Init /\ use = "run" => WorkInv
<1> SUFFICES ASSUME Init, use = "run" PROVE WorkInv
  OBVIOUS
<1>1. Run!Init /\ pipe \in Run!Pipeline
  BY PipelineAssumption DEF Init, Run!Init
<1>2. PipeTypes
  BY <1>1, PipeTyped
<1>3. Hooked
  BY <1>1, SlotsAtStart
<1>4. /\ nodes = {} /\ phase = "before" /\ due = {} /\ waiting = [n \in Node |-> 0]
      /\ signals = <<>>
      /\ links = [n \in Node \cup {Collector} |-> IF n = Collector THEN {} ELSE pipe.links[n]]
      /\ \A t \in running : pipe.class[t.of] = "source"
  BY <1>1 DEF Run!Init, Run!Task
<1>5. Linked
  BY <1>2, <1>4 DEF Linked, PipeTypes
<1>6. Tasks /\ Unqueued
  BY <1>4 DEF Tasks, Owner, Unqueued
<1>7. Swept /\ Settled
  BY <1>4 DEF Swept, Settled, Looked
<1>8. OnTheWay
  <2>1. \A S : <<>> \in Seq(S)
    OBVIOUS
  <2> QED BY <1>4, <2>1 DEF OnTheWay
<1> QED BY <1>3, <1>5, <1>6, <1>7, <1>8 DEF WorkInv

LEMMA WorkStays == ASSUME WorkInv, UNCHANGED vars PROVE WorkInv'
<1>1. UNCHANGED runVars
  BY DEF vars
<1>2. Fixed /\ pipe' = pipe
  BY <1>1, PipeFixed DEF runVars
<1>3. Looked' <=> Looked
  BY <1>1, LookedStays DEF runVars
<1>4. Hooked'
  BY <1>1, HookedStays DEF WorkInv, runVars
<1>5. Linked' /\ Tasks' /\ Unqueued'
  BY <1>1 DEF WorkInv, runVars, Linked, Tasks, Owner, Unqueued
<1>6. Swept' /\ Settled'
  BY <1>1, <1>2, <1>3 DEF WorkInv, runVars, Swept, Settled, Fixed
<1>7. Fit' = Fit
  <2>1. \A g \in Signal(pipe) : Sound(g)' <=> Sound(g)
    BY <1>1, <1>2, <1>3 DEF Sound, Fixed, runVars
  <2> QED BY <1>2, <2>1 DEF Fit
<1>8. OnTheWay'
  BY <1>1, <1>7 DEF WorkInv, OnTheWay, runVars
<1> QED BY <1>4, <1>5, <1>6, <1>8 DEF WorkInv

RunWork == RunInv /\ (use = "run" => WorkInv)

LEMMA WorkStep == RunWork /\ [Next]_vars => RunWork'
<1> SUFFICES ASSUME RunWork, [Next]_vars PROVE RunWork'
  OBVIOUS
<1>1. RunInv'
  BY RunStep DEF RunWork
<1>2. ASSUME use' = "run" PROVE WorkInv'
  <2>1. use = "run"
    BY <1>2 DEF Next, InRun, InIterate, InThreads, vars
  <2>2. RunTypes /\ WorkInv
    BY <2>1 DEF RunWork, RunInv
  <2>3. CASE UNCHANGED vars
    BY <2>2, <2>3, WorkStays
  <2>4. CASE Run!Next
    BY <2>2, <2>4, EmitsWork, StopsWork, DoneWorks, CallbackWorks, HearWorks, BeginWorks,
       CleanWorks, ReturnWorks DEF Run!Next, Run!Stops
  <2> QED BY <2>1, <2>3, <2>4 DEF Next, InRun, InIterate, InThreads
<1> QED BY <1>1, <1>2 DEF RunWork

LEMMA WorkAlways == Spec => []RunWork
<1>1. Init => RunWork
  BY RunInit, WorkInit DEF RunWork
<1> QED BY <1>1, WorkStep, PTL DEF Spec

(* "Stop what is left of it": when run has returned, no task is left that only its
   pipeline uses, on every finite pipeline that shares nothing, has neither partials
   nor limits, and starts nothing for the values of a map (_run_and_clean). *)
THEOREM NothingIsLeft == Spec => []LeavesNothingAlone
<1>1. RunWork => LeavesNothingAlone
  BY DEF RunWork, WorkInv, Settled, Looked, LeavesNothingAlone, Run!LeavesNothingAlone,
         Run!LeavesNothing
<1> QED BY <1>1, WorkAlways, PTL

(* When the pipeline has ended, every task is found and cancelled that runs for it
   alone, on every finite pipeline without partials, whatever its end has cut and
   whatever has been started since (_pipeline_nodes, _pipeline_tasks). *)
THEOREM AllIsFound == Spec => FindsAll
<1>1. RunWork /\ [Next]_vars => (use = "run" => Run!FindsAllNow)
  <2> SUFFICES ASSUME RunWork, [Next]_vars, use = "run", phase = "waiting", phase' # "waiting",
                      Run!Whole, pipe.partial = {}, NEW t \in running, Run!Private(t.of)
               PROVE  t \in cancelled'
    BY DEF Run!FindsAllNow
  <2>1. Run!Next
    BY DEF Next, InRun, InIterate, InThreads, vars, runVars
  <2>2. Run!Clean
    BY <2>1 DEF Run!Next, Run!Stops, Run!SourceEmits, Run!SourceStops, Run!TaskDone,
                Run!Callback, Run!Hear, Run!Begin, Run!Return, Run!run
  <2>3. t \in Run!Leftover
    BY FindsPrivate DEF RunWork, RunInv
  <2> QED BY <2>2, <2>3 DEF Run!Clean
<1> QED BY <1>1, WorkAlways, PTL DEF Spec, FindsAll
=============================================================================
