---------------------------- MODULE DelayProofs ----------------------------
(***************************************************************************)
(* The queue and the timer of Delay, proved for every delay, every mix of  *)
(* listeners and every bound.                                              *)
(***************************************************************************)
EXTENDS Delay, SequenceLemmas

(* What is behind the timing of a release: a deadline is the time of arrival
   plus the delay, arrivals are in the order of time, a release that nobody
   feeds has no timer and has not been reached by its limit, and with listeners
   that take no time nothing that waits is overdue. *)
Deadlines ==
    \A i \in DOMAIN pending : pending[i].due = sent[pending[i].id].at + Wait

SentInTime ==
    /\ \A i \in DOMAIN sent : sent[i].at <= now
    /\ \A i, j \in DOMAIN sent : i <= j => sent[i].at <= sent[j].at

ReleaseHolds ==
    ~Fed /\ limit # None => handle = None /\ timer = None /\ limit <= now

NotLate ==
    ~Fed /\ "slow" \notin listeners =>
        /\ \A i \in DOMAIN pending : pending[i].due >= now
        /\ limit # None => limit = now

QueueInv == TypeOK /\ InArrivalOrder
TimerInv == Deadlines /\ SentInTime /\ ReleaseHolds /\ NotLate /\ OneTimer /\ OnTime

(* The queue: types, and order and completeness of what comes out. *)
LEMMA QueueInit == Init => QueueInv
<1> SUFFICES ASSUME Init PROVE QueueInv
  OBVIOUS
<1>1. TypeOK
  BY WaitAssumption, BoundAssumption, BehaviourAssumption DEF Init, TypeOK, Time
<1>2. InArrivalOrder
  BY DEF Init, InArrivalOrder
<1> QED
  BY <1>1, <1>2 DEF QueueInv

LEMMA QueueArrive ==
    ASSUME QueueInv, NEW kind \in Kind, Arrive(kind)
    PROVE  QueueInv'
<1> DEFINE msg == [kind |-> kind, at |-> now]
           item == [id |-> Len(sent) + 1, due |-> now + Wait]
           Message == [kind : Kind, at : Time]
<1>1. /\ sent \in Seq(Message) /\ pending \in Seq(Item) /\ now \in Time
      /\ now <= Horizon /\ Len(sent) < MaxItems
      /\ sent' = Append(sent, msg) /\ pending' = Append(pending, item)
      /\ outs' = outs
  BY DEF QueueInv, TypeOK, Arrive, Deadline
<1>2. now \in Nat /\ now + Wait \in Time /\ Len(sent) \in Nat
  BY <1>1, WaitAssumption, BoundAssumption DEF Time
<1>3. msg \in Message /\ item \in Item
  BY <1>1, <1>2, BoundAssumption DEF Item
<1> HIDE DEF msg, Message
<1>4. /\ sent' \in Seq(Message) /\ Len(sent') = Len(sent) + 1
  BY <1>1, <1>3, Grown
<1>5. /\ pending' \in Seq(Item) /\ Len(pending) \in Nat /\ DOMAIN pending = 1 .. Len(pending)
      /\ Len(pending') = Len(pending) + 1
      /\ DOMAIN pending' = 1 .. Len(pending) + 1
      /\ \A i \in 1 .. Len(pending) : pending'[i] = pending[i]
      /\ pending'[Len(pending) + 1] = item
  <2> HIDE DEF item
  <2> QED BY <1>1, <1>3, Grown
<1>6. Head(pending').due \in Time
  <2>1. pending' # <<>>
    BY <1>5
  <2>2. Head(pending') \in Item
    BY <2>1, <1>5, Taken
  <2> QED BY <2>2 DEF Item
<1>7. /\ now' = now /\ limit' = limit /\ listeners' = listeners
      /\ attached' \in BOOLEAN
      /\ handle' \in {handle, Head(pending').due} /\ timer' \in {timer, Head(pending').due}
  BY DEF Arrive, CallAt
<1>8. TypeOK'
  <2> USE DEF QueueInv, TypeOK
  <2>1. sent' \in Seq([kind : Kind, at : Time]) /\ Len(sent') <= MaxItems
    BY <1>1, <1>2, <1>4, BoundAssumption DEF Message
  <2>2. now' \in Time /\ outs' \in Seq([id : 1 .. MaxItems, at : Time])
    BY <1>1, <1>7
  <2>3. handle' \in Time \cup {None} /\ timer' \in Time \cup {None} /\ limit' \in Time \cup {None}
    BY <1>6, <1>7
  <2> QED BY <1>5, <1>7, <2>1, <2>2, <2>3
<1>9. InArrivalOrder'
  <2>1. /\ Len(outs) + Len(pending) = Len(sent) /\ Len(outs) \in Nat
        /\ \A i \in DOMAIN outs : outs[i].id = i
        /\ \A i \in DOMAIN pending : pending[i].id = Len(outs) + i
    BY <1>1 DEF QueueInv, InArrivalOrder, TypeOK
  <2>2. Len(outs') + Len(pending') = Len(sent')
    BY <2>1, <1>1, <1>4, <1>5
  <2>3. \A i \in DOMAIN pending' : pending'[i].id = Len(outs') + i
    <3> SUFFICES ASSUME NEW i \in DOMAIN pending' PROVE pending'[i].id = Len(outs') + i
      OBVIOUS
    <3>1. CASE i \in 1 .. Len(pending)
      BY <3>1, <2>1, <1>1, <1>5
    <3>2. CASE i = Len(pending) + 1
      <4>1. pending'[i] = item /\ item.id = Len(sent) + 1
        BY <3>2, <1>5
      <4>2. Len(sent) + 1 = Len(outs') + i
        BY <3>2, <2>1, <1>1, <1>5
      <4> QED BY <4>1, <4>2
    <3> QED BY <3>1, <3>2, <1>5
  <2>4. \A i \in DOMAIN outs' : outs'[i].id = i
    BY <2>1, <1>1
  <2> QED BY <2>2, <2>3, <2>4 DEF InArrivalOrder
<1> QED
  BY <1>8, <1>9 DEF QueueInv

(* A release takes the head of the queue to the listeners. *)
LEMMA QueueRelease ==
    ASSUME QueueInv, pending # <<>>, Release,
           UNCHANGED <<now, attached, sent, listeners>>, limit' \in Time \cup {None},
           handle' \in Time \cup {None}, timer' \in Time \cup {None}
    PROVE  QueueInv'
<1> DEFINE Out == [id : 1 .. MaxItems, at : Time]
           x == [id |-> Head(pending).id, at |-> now]
<1>1. /\ pending \in Seq(Item) /\ outs \in Seq(Out) /\ now \in Time
      /\ outs' = Append(outs, x) /\ pending' = Tail(pending) /\ sent' = sent
  BY DEF QueueInv, TypeOK, Release
<1>2. /\ Len(outs) + Len(pending) = Len(sent)
      /\ \A i \in DOMAIN outs : outs[i].id = i
      /\ \A i \in DOMAIN pending : pending[i].id = Len(outs) + i
  BY DEF QueueInv, InArrivalOrder
<1>3. /\ pending' \in Seq(Item)
      /\ Len(pending) \in Nat \ {0} /\ DOMAIN pending = 1 .. Len(pending)
      /\ Head(pending) = pending[1] /\ pending[1] \in Item
      /\ Len(pending') = Len(pending) - 1
      /\ DOMAIN pending' = 1 .. Len(pending) - 1
      /\ \A i \in 1 .. Len(pending) - 1 : pending'[i] = pending[i + 1]
  BY <1>1, Taken
<1>4. x \in Out /\ x.id = Len(outs) + 1
  <2>1. 1 \in DOMAIN pending
    BY <1>3
  <2>2. pending[1].id = Len(outs) + 1
    BY <2>1, <1>2
  <2>3. pending[1].id \in 1 .. MaxItems
    BY <1>3 DEF Item
  <2> QED BY <2>2, <2>3, <1>1, <1>3
<1>5. /\ outs' \in Seq(Out)
      /\ Len(outs) \in Nat /\ DOMAIN outs = 1 .. Len(outs)
      /\ Len(outs') = Len(outs) + 1
      /\ DOMAIN outs' = 1 .. Len(outs) + 1
      /\ \A i \in 1 .. Len(outs) : outs'[i] = outs[i]
      /\ outs'[Len(outs) + 1] = x
  <2> HIDE DEF Out, x
  <2> QED BY <1>1, <1>4, Grown
<1>6. TypeOK'
  BY <1>1, <1>3, <1>5 DEF QueueInv, TypeOK
<1>7. Len(outs') + Len(pending') = Len(sent')
  BY <1>1, <1>2, <1>3, <1>5
<1>8. \A i \in DOMAIN outs' : outs'[i].id = i
  <2> HIDE DEF Out, x
  <2> QED BY <1>2, <1>4, <1>5
<1>9. \A i \in DOMAIN pending' : pending'[i].id = Len(outs') + i
  <2> SUFFICES ASSUME NEW i \in DOMAIN pending' PROVE pending'[i].id = Len(outs') + i
    OBVIOUS
  <2>1. i \in Nat /\ i + 1 \in DOMAIN pending /\ pending'[i] = pending[i + 1]
    BY <1>3
  <2>2. pending[i + 1].id = Len(outs) + (i + 1)
    BY <2>1, <1>2
  <2> QED BY <2>1, <2>2, <1>5
<1> QED
  BY <1>6, <1>7, <1>8, <1>9 DEF QueueInv, InArrivalOrder

(* The steps that leave the queue alone. *)
LEMMA QueueQuiet ==
    ASSUME QueueInv, UNCHANGED <<attached, sent, pending, outs, listeners>>, now' \in Time,
           limit' \in Time \cup {None}, handle' \in Time \cup {None}, timer' \in Time \cup {None}
    PROVE  QueueInv'
BY DEF QueueInv, TypeOK, InArrivalOrder

LEMMA HeadDue ==
    ASSUME QueueInv, pending # <<>>
    PROVE  Head(pending) \in Item /\ Head(pending).due \in Time
<1>1. Head(pending) \in Item
  BY Taken DEF QueueInv, TypeOK
<1> QED
  BY <1>1 DEF Item

LEMMA QueueNext == QueueInv /\ [Next]_vars => QueueInv'
<1> SUFFICES ASSUME QueueInv, [Next]_vars PROVE QueueInv'
  OBVIOUS
<1>0. /\ now \in Time /\ handle \in Time \cup {None} /\ timer \in Time \cup {None}
      /\ limit \in Time \cup {None}
  BY DEF QueueInv, TypeOK
<1>1. ASSUME NEW kind \in Kind, Arrive(kind) PROVE QueueInv'
  BY <1>1, QueueArrive
<1>2. CASE Fire
  <2>1. limit' \in Time
    <3>1. Head(pending).due \in Time /\ limit' = Later(Head(pending).due, now)
      BY <1>2, HeadDue DEF Fire
    <3> QED BY <3>1, <1>0 DEF Later
  <2> QED BY <1>2, <2>1, QueueRelease DEF Fire
<1>3. CASE FireEmpty
  BY <1>3, <1>0, QueueQuiet DEF FireEmpty
<1>4. CASE ReleaseMore
  BY <1>4, <1>0, QueueRelease DEF ReleaseMore, DueNow
<1>5. CASE Finish
  <2>1. handle' \in Time \cup {None} /\ timer' \in Time \cup {None}
    BY <1>5, <1>0, HeadDue DEF Finish, Rearm, CallAt
  <2> QED BY <1>5, <1>0, <2>1, QueueQuiet DEF Finish
<1>6. CASE Tick
  <2>1. now' \in Time
    BY <1>6, <1>0, WaitAssumption, BoundAssumption DEF Tick, Time
  <2> QED BY <1>6, <1>0, <2>1, QueueQuiet DEF Tick
<1>7. CASE UNCHANGED vars
  BY <1>7, <1>0, QueueQuiet DEF vars
<1> QED
  BY <1>1, <1>2, <1>3, <1>4, <1>5, <1>6, <1>7 DEF Next, LoopStep

(* Types of the queue, the clock, the timer and the histories. *)
THEOREM DelayTypes == Spec => []TypeOK
<1>1. QueueInv => TypeOK
  BY DEF QueueInv
<1> QED
  BY <1>1, QueueInit, QueueNext, PTL DEF Spec

(* What was released followed by what is pending is what the source sent, in
   its order, also when listeners feed the source during a release. *)
THEOREM DelayOrder == Spec => []InArrivalOrder
<1>1. QueueInv => InArrivalOrder
  BY DEF QueueInv
<1> QED
  BY <1>1, QueueInit, QueueNext, PTL DEF Spec

(* The numbers in the queue and in what came out are those of sent items. *)
LEMMA Numbers ==
    ASSUME QueueInv
    PROVE  /\ Len(sent) \in Nat /\ DOMAIN sent = 1 .. Len(sent)
           /\ \A n \in DOMAIN sent : sent[n].at \in Nat
           /\ Len(pending) \in Nat /\ DOMAIN pending = 1 .. Len(pending)
           /\ \A i \in DOMAIN pending : pending[i].due \in Nat
           /\ \A i \in DOMAIN pending : pending[i].id \in DOMAIN sent /\ pending[i].id = Len(outs) + i
           /\ Len(outs) \in Nat /\ DOMAIN outs = 1 .. Len(outs)
           /\ \A i \in DOMAIN outs : outs[i].id = i /\ i \in DOMAIN sent /\ outs[i].at \in Nat
           /\ now \in Nat
<1> DEFINE Message == [kind : Kind, at : Time]
           Out == [id : 1 .. MaxItems, at : Time]
<1>1. /\ sent \in Seq(Message) /\ pending \in Seq(Item) /\ outs \in Seq(Out) /\ now \in Time
  BY DEF QueueInv, TypeOK
<1>2. Time \subseteq Nat
  BY WaitAssumption, BoundAssumption DEF Time
<1>3. /\ \A n \in DOMAIN sent : sent[n] \in Message
      /\ \A n \in DOMAIN pending : pending[n] \in Item
      /\ \A n \in DOMAIN outs : outs[n] \in Out
  <2> HIDE DEF Message, Out
  <2> QED BY <1>1
<1>4. /\ Len(sent) \in Nat /\ DOMAIN sent = 1 .. Len(sent)
      /\ Len(pending) \in Nat /\ DOMAIN pending = 1 .. Len(pending)
      /\ Len(outs) \in Nat /\ DOMAIN outs = 1 .. Len(outs)
  <2> HIDE DEF Message, Out
  <2> QED BY <1>1
<1>5. /\ Len(outs) + Len(pending) = Len(sent)
      /\ \A i \in DOMAIN outs : outs[i].id = i
      /\ \A i \in DOMAIN pending : pending[i].id = Len(outs) + i
  BY DEF QueueInv, InArrivalOrder
<1>6. /\ \A n \in DOMAIN sent : sent[n].at \in Nat
      /\ \A i \in DOMAIN pending : pending[i].due \in Nat
      /\ \A i \in DOMAIN outs : outs[i].at \in Nat
  BY <1>2, <1>3 DEF Item
<1>7. \A i \in DOMAIN pending : pending[i].id \in DOMAIN sent
  BY <1>4, <1>5
<1>8. \A i \in DOMAIN outs : i \in DOMAIN sent
  BY <1>4, <1>5
<1> QED
  BY <1>1, <1>2, <1>4, <1>5, <1>6, <1>7, <1>8

LEMMA TimerInit == Init => TimerInv
BY DEF Init, TimerInv, Deadlines, SentInTime, ReleaseHolds, NotLate, OneTimer, OnTime

LEMMA TimerArrive ==
    ASSUME QueueInv, TimerInv, NEW kind \in Kind, Arrive(kind)
    PROVE  TimerInv'
<1> DEFINE msg == [kind |-> kind, at |-> now]
           item == [id |-> Len(sent) + 1, due |-> now + Wait]
           Message == [kind : Kind, at : Time]
<1>1. /\ sent \in Seq(Message) /\ pending \in Seq(Item) /\ now \in Time /\ now <= Horizon
      /\ sent' = Append(sent, msg) /\ pending' = Append(pending, item)
      /\ Len(sent) < MaxItems
      /\ UNCHANGED <<now, limit, outs, listeners>>
  BY DEF QueueInv, TypeOK, Arrive, Deadline
<1>2. /\ msg \in Message /\ item \in Item /\ Wait \in Nat
  BY <1>1, Numbers, WaitAssumption, BoundAssumption DEF Item, Time
<1>3. /\ DOMAIN sent' = 1 .. Len(sent) + 1
      /\ \A i \in 1 .. Len(sent) : sent'[i] = sent[i]
      /\ sent'[Len(sent) + 1] = msg
  <2> HIDE DEF msg, item, Message
  <2> QED BY <1>1, <1>2, Grown
<1>4. /\ DOMAIN pending' = 1 .. Len(pending) + 1
      /\ \A i \in 1 .. Len(pending) : pending'[i] = pending[i]
      /\ pending'[Len(pending) + 1] = item
      /\ pending' \in Seq(Item) /\ Len(pending') = Len(pending) + 1
  <2> HIDE DEF msg, item, Message
  <2> QED BY <1>1, <1>2, Grown
<1>5. pending' # <<>> /\ Head(pending') = pending'[1]
  BY <1>4, Numbers, Taken
<1>6. Deadlines'
  <2> SUFFICES ASSUME NEW i \in DOMAIN pending'
               PROVE  pending'[i].due = sent'[pending'[i].id].at + Wait
    BY DEF Deadlines
  <2>1. CASE i = Len(pending) + 1
    BY <2>1, <1>3, <1>4
  <2>2. CASE i \in DOMAIN pending
    <3>1. pending'[i] = pending[i] /\ pending[i].id \in 1 .. Len(sent)
      BY <2>2, <1>4, Numbers
    <3>2. pending[i].due = sent[pending[i].id].at + Wait
      BY <2>2 DEF TimerInv, Deadlines
    <3> QED BY <3>1, <3>2, <1>3
  <2> QED BY <2>1, <2>2, <1>4, Numbers
<1>7. SentInTime'
  <2>1. \A i \in DOMAIN sent' : sent'[i].at <= now
    BY <1>1, <1>3, Numbers DEF TimerInv, SentInTime
  <2>2. \A i \in DOMAIN sent' : sent'[i].at <= now'
    BY <2>1, <1>1
  <2>3. \A i, j \in DOMAIN sent' : i <= j => sent'[i].at <= sent'[j].at
    <3> SUFFICES ASSUME NEW i \in DOMAIN sent', NEW j \in DOMAIN sent', i <= j
                 PROVE  sent'[i].at <= sent'[j].at
      OBVIOUS
    <3>1. CASE j = Len(sent) + 1
      BY <3>1, <2>1, <1>3
    <3>2. CASE j \in 1 .. Len(sent)
      <4>1. i \in 1 .. Len(sent)
        BY <3>2, <1>3, Numbers
      <4> QED BY <3>2, <4>1, <1>3, Numbers DEF TimerInv, SentInTime
    <3> QED BY <3>1, <3>2, <1>3, Numbers
  <2> QED BY <2>2, <2>3 DEF SentInTime
<1>8. ~Fed' => ~Fed /\ limit = None /\ limit' = None
  BY <1>1 DEF Arrive, InUserCode, Fed
<1>9. ReleaseHolds'
  BY <1>8 DEF ReleaseHolds
<1>10. NotLate'
  <2> SUFFICES ASSUME ~Fed', "slow" \notin listeners', NEW i \in DOMAIN pending'
               PROVE  pending'[i].due >= now'
    BY <1>8 DEF NotLate
  <2>1. CASE i = Len(pending) + 1
    BY <2>1, <1>1, <1>2, <1>4, Numbers
  <2>2. CASE i \in DOMAIN pending
    BY <2>2, <1>1, <1>4, <1>8, Numbers DEF TimerInv, NotLate
  <2> QED BY <2>1, <2>2, <1>4, Numbers
<1>11. OneTimer'
  <2> SUFFICES ASSUME ~Fed' PROVE handle' = Head(pending').due /\ timer' = handle'
    BY <1>5 DEF OneTimer
  <2>1. IF pending = <<>> THEN handle = None /\ timer = None
        ELSE handle = Head(pending).due /\ timer = handle
    BY <1>8 DEF TimerInv, OneTimer
  <2>2. CASE handle = None
    BY <2>2 DEF Arrive, CallAt
  <2>3. CASE handle # None
    <3>1. pending # <<>> /\ handle = Head(pending).due /\ timer = handle
      BY <2>1, <2>3
    <3>2. Head(pending) = pending[1] /\ 1 \in 1 .. Len(pending)
      BY <3>1, <1>1, Taken
    <3>3. Head(pending') = Head(pending)
      BY <3>2, <1>4, <1>5
    <3>4. handle' = handle /\ timer' = timer
      BY <2>3 DEF Arrive
    <3> QED BY <3>1, <3>3, <3>4
  <2> QED BY <2>2, <2>3
<1>12. OnTime'
  <2>1. \A i \in DOMAIN outs' : outs'[i] = outs[i] /\ sent'[outs'[i].id] = sent[outs[i].id]
    BY <1>1, <1>3, Numbers
  <2> QED BY <2>1, <1>1, <1>8 DEF TimerInv, OnTime
<1> QED
  BY <1>6, <1>7, <1>9, <1>10, <1>11, <1>12 DEF TimerInv

(* The head goes out at its time, or late with slow listeners. *)
LEMMA TimerRelease ==
    ASSUME QueueInv, TimerInv, pending # <<>>, Release,
           UNCHANGED <<now, sent, listeners>>, limit' # None, limit' \in Nat,
           ~Fed => /\ Head(pending).due <= now
                   /\ handle' = None /\ timer' = None /\ limit' <= now
                   /\ "slow" \notin listeners => limit' = now
    PROVE  TimerInv'
<1> DEFINE Out == [id : 1 .. MaxItems, at : Time]
           x == [id |-> Head(pending).id, at |-> now]
<1>1. /\ pending \in Seq(Item) /\ outs \in Seq(Out) /\ now \in Time
      /\ outs' = Append(outs, x) /\ pending' = Tail(pending) /\ sent' = sent /\ now' = now
      /\ listeners' = listeners /\ (Fed' <=> Fed)
  BY DEF QueueInv, TypeOK, Release, Fed
<1>2. /\ Head(pending) = pending[1] /\ 1 \in DOMAIN pending
      /\ DOMAIN pending' = 1 .. Len(pending) - 1
      /\ \A i \in DOMAIN pending' : i + 1 \in DOMAIN pending /\ pending'[i] = pending[i + 1]
  <2>1. /\ Head(pending) = pending[1] /\ Len(pending) \in Nat \ {0}
        /\ DOMAIN pending = 1 .. Len(pending)
        /\ DOMAIN pending' = 1 .. Len(pending) - 1
        /\ \A i \in 1 .. Len(pending) - 1 : pending'[i] = pending[i + 1]
    BY <1>1, Taken
  <2> QED BY <2>1
<1>3. x \in Out
  BY <1>1, HeadDue DEF Item
<1>4. /\ DOMAIN outs' = 1 .. Len(outs) + 1
      /\ \A i \in 1 .. Len(outs) : outs'[i] = outs[i]
      /\ outs'[Len(outs) + 1] = x
  <2> HIDE DEF x, Out
  <2> QED BY <1>1, <1>3, Grown
<1>5. Deadlines' /\ SentInTime'
  BY <1>1, <1>2 DEF TimerInv, Deadlines, SentInTime
<1>6. ReleaseHolds'
  BY <1>1 DEF ReleaseHolds
<1>7. NotLate'
  BY <1>1, <1>2 DEF TimerInv, NotLate
<1>8. OneTimer'
  BY DEF OneTimer
<1>9. OnTime'
  <2> SUFFICES ASSUME ~Fed, NEW i \in DOMAIN outs'
               PROVE  LET due == sent[outs'[i].id].at + Wait
                      IN  IF "slow" \in listeners THEN outs'[i].at >= due
                          ELSE outs'[i].at = due
    BY <1>1 DEF OnTime
  <2>1. CASE i = Len(outs) + 1
    <3>1. /\ outs'[i].id = pending[1].id /\ outs'[i].at = now
          /\ pending[1].due = sent[pending[1].id].at + Wait
          /\ pending[1].due <= now
      BY <2>1, <1>2, <1>4 DEF TimerInv, Deadlines
    <3>2. "slow" \notin listeners => pending[1].due >= now
      BY <1>2 DEF TimerInv, NotLate
    <3>3. pending[1].due \in Nat /\ now \in Nat
      BY <1>2, Numbers
    <3> QED BY <3>1, <3>2, <3>3
  <2>2. CASE i \in DOMAIN outs
    <3>1. outs'[i] = outs[i]
      BY <2>2, <1>4, Numbers
    <3> QED BY <3>1, <2>2 DEF TimerInv, OnTime
  <2> QED BY <2>1, <2>2, <1>4, Numbers
<1> QED
  BY <1>5, <1>6, <1>7, <1>8, <1>9 DEF TimerInv

(* Nothing that waits is due before the head. *)
LEMMA HeadIsNext ==
    ASSUME QueueInv, TimerInv, NEW i \in DOMAIN pending
    PROVE  pending # <<>> /\ Head(pending).due <= pending[i].due
<1>1. pending # <<>> /\ Head(pending) = pending[1] /\ 1 \in DOMAIN pending /\ 1 <= i
  <2>1. pending \in Seq(Item) /\ pending # <<>>
    BY DEF QueueInv, TypeOK
  <2> QED BY <2>1, Numbers, Taken
<1>2. /\ pending[1].id \in DOMAIN sent /\ pending[i].id \in DOMAIN sent
      /\ pending[1].id <= pending[i].id
  <2>1. /\ pending[1].id \in DOMAIN sent /\ pending[1].id = Len(outs) + 1
        /\ pending[i].id \in DOMAIN sent /\ pending[i].id = Len(outs) + i
    BY <1>1, Numbers
  <2>2. Len(outs) \in Nat /\ i \in Nat
    BY Numbers
  <2> QED BY <2>1, <2>2, <1>1
<1>3. sent[pending[1].id].at <= sent[pending[i].id].at
  BY <1>2 DEF TimerInv, SentInTime
<1>4. /\ pending[1].due = sent[pending[1].id].at + Wait
      /\ pending[i].due = sent[pending[i].id].at + Wait
  BY <1>1 DEF TimerInv, Deadlines
<1>5. sent[pending[1].id].at \in Nat /\ sent[pending[i].id].at \in Nat
  BY <1>2, Numbers
<1> QED
  BY <1>1, <1>3, <1>4, <1>5, WaitAssumption

LEMMA TimerFire == ASSUME QueueInv, TimerInv, Fire PROVE TimerInv'
<1>1. now \in Nat /\ Head(pending).due \in Nat
  BY Numbers, HeadDue, WaitAssumption, BoundAssumption DEF Fire, Time
<1>2. limit' = Later(Head(pending).due, now) /\ limit' \in Nat /\ limit' # None
  BY <1>1, NoneAssumption DEF Fire, Later
<1>3. ~Fed => Head(pending).due <= now /\ limit' = now
  <2> SUFFICES ASSUME ~Fed PROVE Head(pending).due <= now /\ limit' = now
    OBVIOUS
  <2>1. Head(pending).due <= now
    BY DEF Fire, TimerInv, OneTimer
  <2> QED BY <2>1, <1>1, <1>2 DEF Later
<1> QED
  BY <1>1, <1>2, <1>3, TimerRelease DEF Fire

LEMMA TimerReleaseMore == ASSUME QueueInv, TimerInv, ReleaseMore PROVE TimerInv'
<1>1. /\ pending # <<>> /\ limit # None /\ Head(pending).due <= limit
      /\ UNCHANGED <<now, sent, handle, timer, limit, listeners>> /\ Release
  BY DEF ReleaseMore, DueNow
<1>2. limit \in Nat /\ now \in Nat /\ Head(pending).due \in Nat
  BY <1>1, Numbers, HeadDue, WaitAssumption, BoundAssumption DEF QueueInv, TypeOK, Time
<1>3. ~Fed => limit <= now /\ handle = None /\ timer = None
  BY <1>1 DEF TimerInv, ReleaseHolds
<1>4. ~Fed /\ "slow" \notin listeners => limit = now
  BY <1>1 DEF TimerInv, NotLate
<1> QED
  BY <1>1, <1>2, <1>3, <1>4, TimerRelease

LEMMA TimerFinish == ASSUME QueueInv, TimerInv, Finish PROVE TimerInv'
<1>1. /\ limit # None /\ limit' = None /\ Rearm
      /\ UNCHANGED <<now, sent, pending, outs, listeners>>
  BY DEF Finish
<1>2. Deadlines' /\ SentInTime' /\ OnTime'
  BY <1>1 DEF TimerInv, Deadlines, SentInTime, OnTime, Fed
<1>3. ReleaseHolds' /\ NotLate'
  BY <1>1 DEF TimerInv, ReleaseHolds, NotLate, Fed
<1>4. OneTimer'
  BY <1>1 DEF TimerInv, ReleaseHolds, OneTimer, Rearm, CallAt, Fed
<1> QED
  BY <1>2, <1>3, <1>4 DEF TimerInv

LEMMA TimerFireEmpty == ASSUME QueueInv, TimerInv, FireEmpty PROVE TimerInv'
<1>1. Fed /\ Fed'
  BY DEF FireEmpty, TimerInv, OneTimer, Fed
<1>2. Deadlines' /\ SentInTime'
  BY DEF FireEmpty, TimerInv, Deadlines, SentInTime
<1> QED
  BY <1>1, <1>2 DEF TimerInv, ReleaseHolds, NotLate, OneTimer, OnTime

LEMMA TimerTick == ASSUME QueueInv, TimerInv, Tick PROVE TimerInv'
<1>1. /\ now' = now + 1 /\ now \in Nat
      /\ UNCHANGED <<sent, pending, handle, timer, limit, outs, listeners>>
  BY Numbers DEF Tick
<1>2. Deadlines' /\ OneTimer' /\ OnTime'
  BY <1>1 DEF TimerInv, Deadlines, OneTimer, OnTime, Fed
<1>3. SentInTime'
  <2>1. \A i \in DOMAIN sent : sent[i].at <= now + 1
    BY <1>1, Numbers DEF TimerInv, SentInTime
  <2> QED BY <1>1, <2>1 DEF TimerInv, SentInTime
<1>4. ReleaseHolds'
  <2>1. limit # None => limit \in Nat
    BY WaitAssumption, BoundAssumption DEF QueueInv, TypeOK, Time
  <2> QED BY <1>1, <2>1 DEF TimerInv, ReleaseHolds, Fed
<1>5. NotLate'
  <2> SUFFICES ASSUME ~Fed, "slow" \notin listeners
               PROVE  /\ \A i \in DOMAIN pending : pending[i].due >= now + 1
                      /\ limit = None
    BY <1>1 DEF NotLate, Fed
  <2>1. limit = None
    BY DEF Tick
  <2>2. ASSUME NEW i \in DOMAIN pending PROVE pending[i].due >= now + 1
    <3>1. pending # <<>> /\ Head(pending).due <= pending[i].due
      BY <2>2, HeadIsNext
    <3>2. timer = Head(pending).due
      BY <3>1, <2>1 DEF TimerInv, OneTimer
    <3>3. Head(pending).due \in Time
      BY <3>1, HeadDue
    <3>4. Head(pending).due > now /\ Head(pending).due \in Nat
      BY <3>2, <3>3, <2>1, NoneAssumption, WaitAssumption, BoundAssumption DEF Tick, Time
    <3>5. pending[i].due \in Nat
      BY <2>2, Numbers
    <3> QED BY <3>1, <3>4, <3>5, <1>1
  <2> QED BY <2>1, <2>2
<1> QED
  BY <1>2, <1>3, <1>4, <1>5 DEF TimerInv

LEMMA TimerNext == QueueInv /\ TimerInv /\ [Next]_vars => TimerInv'
<1> SUFFICES ASSUME QueueInv, TimerInv, [Next]_vars PROVE TimerInv'
  OBVIOUS
<1>1. CASE UNCHANGED vars
  BY <1>1 DEF vars, TimerInv, Deadlines, SentInTime, ReleaseHolds, NotLate, OneTimer, OnTime, Fed
<1> QED
  BY <1>1, TimerArrive, TimerFire, TimerFireEmpty, TimerReleaseMore, TimerFinish, TimerTick
  DEF Next, LoopStep

LEMMA TimerInvariant == Spec => []TimerInv
<1>1. Init => QueueInv /\ TimerInv
  BY QueueInit, TimerInit
<1>2. QueueInv /\ TimerInv /\ [Next]_vars => (QueueInv /\ TimerInv)'
  BY QueueNext, TimerNext
<1> QED
  BY <1>1, <1>2, PTL DEF Spec

(* Unless listeners feed the source, a release comes exactly one delay after
   the arrival, or not before it with slow listeners. *)
THEOREM DelayTiming == Spec => []OnTime
<1>1. TimerInv => OnTime
  BY DEF TimerInv
<1> QED
  BY <1>1, TimerInvariant, PTL

(* Between releases the loop has one timer, for the head of the queue. *)
THEOREM DelayTimer == Spec => []OneTimer
<1>1. TimerInv => OneTimer
  BY DEF TimerInv
<1> QED
  BY <1>1, TimerInvariant, PTL
=============================================================================
