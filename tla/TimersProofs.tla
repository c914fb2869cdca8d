---------------------------- MODULE TimersProofs ----------------------------
(***************************************************************************)
(* What keeps one timer, proved for every timeout, limit, cost, mix of     *)
(* listeners and bound: Timeout expires in time and ends once, Throttle    *)
(* drops nothing, keeps the order, ends last, tells its status, keeps a    *)
(* fixed limit and holds a value back only for that, Debounce emits the    *)
(* firsts or the lasts of the bursts, and timed sources give their values  *)
(* when they are due.                                                      *)
(***************************************************************************)
EXTENDS Timers, Integers, SequenceLemmas

(* What is behind the time of the expiry: a deadline is never later than a
   timeout after the last value, the last value came in time, and with
   listeners that take no time no timer is overdue. *)
TimeoutTypes ==
    /\ now \in Nat /\ last \in Nat /\ last <= now
    /\ timer \in Nat \cup {None} /\ handle \in Nat \cup {None} /\ expired \in Nat \cup {None}
    /\ ended \in BOOLEAN /\ again \in BOOLEAN /\ emits \in Seq({"value", "expired"})

ExpiryBegan == \A i \in DOMAIN emits : emits[i] = "expired" => expired # None

TimeoutInv ==
    op = "timeout" =>
        /\ TimeoutTypes /\ ExpiryBegan
        /\ Timeout!OneTimer /\ Timeout!ExpiresInTime
        /\ expired # None => timer = None
        /\ Timeout!Over /\ ~again => source = "none"
        /\ ~slow /\ timer # None => now <= timer

LEMMA TimeoutInit == Init => TimeoutInv
<1> SUFFICES ASSUME Init, op = "timeout" PROVE TimeoutInv
  BY DEF TimeoutInv
<1>1. /\ now = 0 /\ last = 0 /\ ended \in BOOLEAN /\ handle \in {None, Limit} /\ timer = handle
      /\ (ended => handle = None /\ source = "none") /\ (~ended => handle = Limit)
      /\ expired = None /\ again = FALSE /\ emits = <<>>
      /\ Limit \in Nat \ {0}
  BY TimesAssumption DEF Init, Timeout!Init
<1>2. TimeoutTypes /\ ExpiryBegan
  <2>1. emits \in Seq({"value", "expired"}) /\ DOMAIN emits = {}
    BY <1>1
  <2>2. timer \in Nat \cup {None} /\ handle \in Nat \cup {None} /\ expired \in Nat \cup {None}
    BY <1>1
  <2>3. now \in Nat /\ last \in Nat /\ last <= now
    BY <1>1
  <2>4. ended \in BOOLEAN /\ again \in BOOLEAN
    BY <1>1
  <2> QED BY <2>1, <2>2, <2>3, <2>4 DEF TimeoutTypes, ExpiryBegan
<1>3. Timeout!OneTimer /\ Timeout!ExpiresInTime
  BY <1>1, NoneAssumption DEF Timeout!OneTimer, Timeout!ExpiresInTime, Timeout!Over
<1>4. timer # None => now <= timer
  BY <1>1
<1>5. Timeout!Over /\ ~again => source = "none"
  BY <1>1 DEF Timeout!Over
<1> QED
  BY <1>1, <1>2, <1>3, <1>4, <1>5 DEF TimeoutInv

LEMMA TimeoutSteps ==
    ASSUME TimeoutInv, op = "timeout", op' = op, Timeout!Next
    PROVE  TimeoutInv'
<1>1. /\ now \in Nat /\ last \in Nat /\ last <= now /\ ended \in BOOLEAN
      /\ timer \in Nat \cup {None} /\ handle \in Nat \cup {None} /\ expired \in Nat \cup {None}
      /\ ExpiryBegan /\ emits \in Seq({"value", "expired"})
      /\ Timeout!OneTimer /\ Timeout!ExpiresInTime
      /\ expired # None => timer = None
      /\ (ended \/ expired # None) /\ ~again => source = "none"
      /\ again \in BOOLEAN
      /\ ~slow /\ timer # None => now <= timer
  BY DEF TimeoutInv, TimeoutTypes, Timeout!Over
<1>2. Limit \in Nat \ {0} /\ None \notin Nat
  BY TimesAssumption, NoneAssumption
<1> USE DEF TimeoutInv, TimeoutTypes, Timeout!OneTimer, Timeout!ExpiresInTime, Timeout!Over
<1>3. ASSUME UNCHANGED emits, expired' = expired \/ expired' # None
      PROVE  emits' \in Seq({"value", "expired"}) /\ ExpiryBegan'
  BY <1>1, <1>3 DEF ExpiryBegan
<1>4. CASE \E live \in BOOLEAN : Timeout!SetSource(live)
  <2>1. /\ UNCHANGED <<now, last, emits, expired, silentSince, slow>>
        /\ \/ /\ again' = (again \/ ended \/ expired # None)
              /\ UNCHANGED <<ended, handle, timer>>
           \/ /\ ended' = TRUE /\ handle' = None /\ timer' = None
              /\ source' = "none" /\ again' = again
    BY <1>4 DEF Timeout!SetSource, Timeout!CancelTimer
  <2> QED BY <1>1, <1>2, <1>3, <2>1
<1>10. CASE Timeout!Detach
  <2>1. /\ UNCHANGED <<now, last, ended, handle, timer, emits, expired, silentSince, again, slow>>
        /\ source' = "none"
    BY <1>10 DEF Timeout!Detach
  <2> QED BY <1>1, <1>2, <1>3, <2>1
<1>5. CASE Timeout!Arrive
  <2>1. emits' = Append(emits, "value") /\ "value" \in {"value", "expired"}
    BY <1>5 DEF Timeout!Arrive
  <2>2. emits' \in Seq({"value", "expired"}) /\ ExpiryBegan'
    <3>1. /\ emits' \in Seq({"value", "expired"}) /\ DOMAIN emits' = 1 .. Len(emits) + 1
          /\ DOMAIN emits = 1 .. Len(emits) /\ Len(emits) \in Nat
          /\ \A i \in 1 .. Len(emits) : emits'[i] = emits[i]
          /\ emits'[Len(emits) + 1] = "value"
      BY <1>1, <2>1, Grown
    <3>2. \A i \in DOMAIN emits' : i \in DOMAIN emits \/ i = Len(emits) + 1
      BY <3>1
    <3> QED BY <1>1, <1>5, <3>1, <3>2 DEF ExpiryBegan, Timeout!Arrive
  <2> QED BY <1>1, <1>2, <1>5, <2>2 DEF Timeout!Arrive
<1>6. CASE Timeout!SourceDone
  BY <1>1, <1>2, <1>3, <1>6 DEF Timeout!SourceDone, Timeout!CancelTimer
<1>7. CASE Timeout!Fire
  <2>1. /\ timer # None /\ timer <= now /\ ~ended /\ expired = None /\ handle = timer
        /\ UNCHANGED <<now, last, ended, again, slow>> /\ (~slow => timer = now)
    BY <1>1, <1>2, <1>7 DEF Timeout!Fire
  <2>2. CASE Timeout!Silent
    <3>1. /\ source' = "none" /\ expired' = now /\ silentSince' = last /\ timer' = None /\ UNCHANGED handle
          /\ emits' = <<"expired">>
      BY <1>1, <1>7, <2>1, <2>2 DEF Timeout!Fire, Timeout!AfterExpiry
    <3>2. last + Limit = timer
      BY <1>1, <1>2, <2>1, <2>2 DEF Timeout!Silent
    <3>3. emits' \in Seq({"value", "expired"}) /\ ExpiryBegan'
      BY <1>1, <1>2, <3>1 DEF ExpiryBegan
    <3> QED BY <1>1, <1>2, <2>1, <3>1, <3>2, <3>3
  <2>3. CASE ~Timeout!Silent
    <3>1. timer' = last + Limit /\ handle' = last + Limit /\ UNCHANGED <<source, expired, silentSince, emits>>
      BY <1>1, <1>7, <2>1, <2>3 DEF Timeout!Fire, Timeout!CallAt, Timeout!Deadline
    <3>2. last + Limit > timer
      BY <1>1, <1>2, <2>1, <2>3 DEF Timeout!Silent
    <3> QED BY <1>1, <1>2, <1>3, <2>1, <3>1, <3>2
  <2> QED BY <2>2, <2>3
<1>8. CASE Timeout!Return
  <2>1. /\ emits # <<>> /\ emits' = SubSeq(emits, 1, Len(emits) - 1)
        /\ ended' = (ended \/ emits[Len(emits)] = "expired")
        /\ UNCHANGED <<now, last, source, handle, timer, expired, silentSince, again, slow>>
    BY <1>8 DEF Timeout!Return, Timeout!Outer, Timeout!Innermost, Timeout!EndsAfter
  <2>2. Len(emits) \in DOMAIN emits /\ Len(emits) - 1 \in 0 .. Len(emits)
        /\ DOMAIN emits = 1 .. Len(emits)
    BY <1>1, <2>1
  <2>3. emits[Len(emits)] = "expired" => expired # None
    BY <1>1, <2>2 DEF ExpiryBegan
  <2>4. /\ emits' \in Seq({"value", "expired"}) /\ DOMAIN emits' = 1 .. Len(emits) - 1
        /\ \A i \in DOMAIN emits' : i \in DOMAIN emits /\ emits'[i] = emits[i]
    <3>1. /\ emits' \in Seq({"value", "expired"}) /\ Len(emits') = Len(emits) - 1
          /\ \A i \in 1 .. Len(emits) - 1 : emits'[i] = emits[i]
      BY <1>1, <2>1, <2>2, Split
    <3> QED BY <2>2, <3>1
  <2>5. ExpiryBegan'
    BY <1>1, <2>1, <2>4 DEF ExpiryBegan
  <2>6. ended' => ended \/ expired # None
    BY <2>1, <2>3
  <2>7. ended' \in BOOLEAN /\ (~ended' => ~ended)
    BY <2>1
  <2> QED BY <1>1, <1>2, <2>1, <2>4, <2>5, <2>6, <2>7
<1>9. CASE Timeout!Tick
  <2>1. /\ now' = now + 1 /\ UNCHANGED <<last, source, ended, handle, timer, expired, silentSince, again, slow, emits>>
        /\ ~slow /\ timer # None => timer > now
    BY <1>1, <1>2, <1>9 DEF Timeout!Tick
  <2> QED BY <1>1, <1>2, <1>3, <2>1
<1> QED
  BY <1>4, <1>5, <1>6, <1>7, <1>8, <1>9, <1>10 DEF Timeout!Next

LEMMA TimeoutNext == TimeoutInv /\ [Next]_vars => TimeoutInv'
<1> SUFFICES ASSUME TimeoutInv, [Next]_vars PROVE TimeoutInv'
  OBVIOUS
<1>1. CASE op # "timeout"
  BY <1>1 DEF TimeoutInv, Next, Of, vars
<1>2. CASE op = "timeout" /\ UNCHANGED vars
  BY <1>2 DEF vars, onlyTimeout, TimeoutInv, TimeoutTypes, ExpiryBegan, Timeout!OneTimer,
              Timeout!ExpiresInTime, Timeout!Over
<1>3. CASE op = "timeout" /\ Next
  <2>1. Timeout!Next /\ op' = op
    BY <1>3 DEF Next, Of
  <2> QED BY <1>3, <2>1, TimeoutSteps
<1> QED
  BY <1>1, <1>2, <1>3

(* Timeout expires a full timeout after the last value, with one timer on the
   loop while it lives and none afterwards. *)
THEOREM TimeoutInTime == Spec => []ExpiresInTime
<1>1. TimeoutInv => ExpiresInTime
  BY DEF TimeoutInv, ExpiresInTime
<1> QED
  BY <1>1, TimeoutInit, TimeoutNext, PTL DEF Spec

(* Timeout ends once: it expires at most once and not after its end, whatever it is
   attached to later; and unless it is, it hears no value after its expiry or its
   end (_on_timer, set_source). *)
THEOREM TimeoutEndsOnce == Spec => EndsOnce
<1>1. TimeoutInv /\ [Next]_vars => [op = "timeout" => Timeout!OneEnd]_vars
  <2> SUFFICES ASSUME TimeoutInv, op = "timeout", Next PROVE Timeout!OneEnd
    OBVIOUS
  <2>1. /\ Timeout!Next
        /\ Timeout!Over => timer = None
        /\ Timeout!Over /\ ~again => source = "none"
    BY DEF TimeoutInv, Timeout!OneTimer, Timeout!Over, Next, Of
  <2>2. CASE (\E live \in BOOLEAN : Timeout!SetSource(live)) \/ Timeout!Detach
    BY <2>2 DEF Timeout!SetSource, Timeout!Detach, Timeout!OneEnd
  <2>3. CASE Timeout!Arrive
    BY <2>1, <2>3 DEF Timeout!Arrive, Timeout!OneEnd
  <2>4. CASE Timeout!Fire
    BY <2>1, <2>4 DEF Timeout!Fire, Timeout!OneEnd
  <2>5. CASE Timeout!SourceDone \/ Timeout!Return \/ Timeout!Tick
    BY <2>5 DEF Timeout!SourceDone, Timeout!Return, Timeout!Tick, Timeout!OneEnd
  <2> QED BY <2>1, <2>2, <2>3, <2>4, <2>5 DEF Timeout!Next
<1> QED
  BY <1>1, TimeoutInit, TimeoutNext, PTL DEF Spec, EndsOnce
-----------------------------------------------------------------------------
(* What is behind Throttle: the calls of _try_emit in progress are a list, and
   the flag is the last status, at rest also whether values wait. *)
Item == [id : Nat, cost : Costs]
Out == [id : Nat, cost : Costs, at : Nat]

ThrottleTypes ==
    /\ now \in Nat /\ arrived \in Nat
    /\ q \in Seq(Item) /\ emitted \in Seq(Out) /\ status \in Seq(BOOLEAN)
    /\ throttling \in BOOLEAN /\ attached \in BOOLEAN /\ ended \in BOOLEAN

CallsListed == \E S : calls \in Seq(S)

Flag ==
    /\ \A i \in DOMAIN status : status[i] <=> i % 2 = 1
    /\ throttling <=> Len(status) % 2 = 1
    /\ calls = <<>> => (throttling <=> q # <<>>)

ThrottleInv ==
    op = "throttle" =>
        ThrottleTypes /\ CallsListed /\ Throttle!InOrder /\ Throttle!EndsLast /\ Flag

LEMMA ThrottleInit == Init => ThrottleInv
<1> SUFFICES ASSUME Init, op = "throttle" PROVE ThrottleInv
  BY DEF ThrottleInv
<1>1. /\ now = 0 /\ arrived = 0 /\ q = <<>> /\ emitted = <<>> /\ status = <<>> /\ calls = <<>>
      /\ throttling = FALSE /\ attached = TRUE /\ ended = FALSE
  BY DEF Init, Throttle!Init
<1>2. ThrottleTypes
  <2>1. <<>> \in Seq(Item) /\ <<>> \in Seq(Out) /\ <<>> \in Seq(BOOLEAN)
    OBVIOUS
  <2>2. throttling \in BOOLEAN /\ attached \in BOOLEAN /\ ended \in BOOLEAN
    BY <1>1
  <2> QED BY <1>1, <2>1, <2>2 DEF ThrottleTypes
<1>3. CallsListed
  <2>1. calls \in Seq({})
    BY <1>1
  <2> QED BY <2>1 DEF CallsListed
<1>4. Throttle!InOrder
  BY <1>1 DEF Throttle!InOrder
<1>5. Throttle!EndsLast /\ Flag
  BY <1>1 DEF Throttle!EndsLast, Flag
<1> QED
  BY <1>2, <1>3, <1>4, <1>5 DEF ThrottleInv

(* A call begins, and a call that goes on is still one. *)
LEMMA CallBegins ==
    ASSUME CallsListed, NEW t, Throttle!Enter(t)
    PROVE  CallsListed' /\ calls' # <<>>
<1> DEFINE call == [t |-> t, emitting |-> FALSE]
<1>1. PICK S : calls \in Seq(S)
  BY DEF CallsListed
<1>2. calls' = Append(calls, call)
  BY DEF Throttle!Enter
<1> HIDE DEF call
<1>3. calls \in Seq(S \cup {call})
  BY <1>1
<1>4. calls' \in Seq(S \cup {call}) /\ calls' # <<>>
  BY <1>2, <1>3
<1> QED
  BY <1>4 DEF CallsListed

LEMMA CallGoesOn ==
    ASSUME CallsListed, calls # <<>>, NEW b,
           calls' = [calls EXCEPT ![Len(calls)].emitting = b]
    PROVE  CallsListed' /\ calls' # <<>>
<1> DEFINE call == [calls[Len(calls)] EXCEPT !.emitting = b]
<1>1. PICK S : calls \in Seq(S)
  BY DEF CallsListed
<1>2. calls' = [calls EXCEPT ![Len(calls)] = call]
  OBVIOUS
<1> HIDE DEF call
<1>3. calls \in Seq(S \cup {call})
  BY <1>1
<1>4. calls' \in Seq(S \cup {call}) /\ calls' # <<>>
  BY <1>2, <1>3
<1> QED
  BY <1>4 DEF CallsListed

LEMMA ThrottleArrive ==
    ASSUME ThrottleInv, op = "throttle", op' = op, NEW cost \in Costs, Throttle!Arrive(cost)
    PROVE  ThrottleInv'
<1> DEFINE item == [id |-> arrived + 1, cost |-> cost]
<1>1. /\ ThrottleTypes /\ CallsListed /\ Throttle!InOrder /\ Throttle!EndsLast /\ Flag
      /\ attached /\ arrived' = arrived + 1 /\ q' = Append(q, item) /\ Throttle!Enter(now)
      /\ UNCHANGED <<now, attached, ended, throttling, emitted, status>>
  BY DEF ThrottleInv, Throttle!Arrive, Throttle!Enqueue
<1>2. item \in Item /\ q \in Seq(Item) /\ arrived \in Nat /\ item.id = arrived + 1
  BY <1>1 DEF ThrottleTypes, Item
<1> HIDE DEF item
<1>3. CallsListed' /\ calls' # <<>>
  BY <1>1, CallBegins
<1>4. /\ q' \in Seq(Item) /\ Len(q) \in Nat /\ DOMAIN q = 1 .. Len(q) /\ Len(q') = Len(q) + 1
      /\ DOMAIN q' = 1 .. Len(q) + 1 /\ \A i \in 1 .. Len(q) : q'[i] = q[i]
      /\ q'[Len(q) + 1] = item
  BY <1>1, <1>2, Grown
<1>5. ThrottleTypes'
  BY <1>1, <1>2, <1>4 DEF ThrottleTypes
<1>6. Throttle!InOrder'
  <2>1. Len(emitted) \in Nat
    BY <1>1 DEF ThrottleTypes
  <2>2. \A i \in DOMAIN q' : q'[i].id = Len(emitted) + i
    <3>1. item.id = Len(emitted) + (Len(q) + 1)
      <4>1. arrived = Len(emitted) + Len(q)
        BY <1>1 DEF Throttle!InOrder
      <4> QED BY <1>2, <1>4, <2>1, <4>1
    <3>2. \A i \in DOMAIN q' : i \in DOMAIN q \/ i = Len(q) + 1
      BY <1>4
    <3> QED BY <1>1, <1>4, <3>1, <3>2 DEF Throttle!InOrder
  <2> QED BY <1>1, <1>2, <1>4, <2>1, <2>2 DEF Throttle!InOrder
<1>7. Throttle!EndsLast' /\ Flag'
  BY <1>1, <1>3 DEF Throttle!EndsLast, Flag
<1> QED
  BY <1>3, <1>5, <1>6, <1>7 DEF ThrottleInv

LEMMA ThrottleEmit ==
    ASSUME ThrottleInv, op = "throttle", op' = op, Throttle!EmitHead
    PROVE  ThrottleInv'
<1> DEFINE out == [id |-> Head(q).id, cost |-> Head(q).cost, at |-> now]
<1>1. /\ ThrottleTypes /\ CallsListed /\ Throttle!InOrder /\ Throttle!EndsLast /\ Flag
      /\ calls # <<>> /\ q # <<>> /\ q' = Tail(q) /\ emitted' = Append(emitted, out)
      /\ calls' = [calls EXCEPT ![Len(calls)].emitting = TRUE]
      /\ UNCHANGED <<now, attached, ended, throttling, arrived, status>>
  BY DEF ThrottleInv, Throttle!EmitHead
<1>2. CallsListed' /\ calls' # <<>>
  BY <1>1, CallGoesOn
<1>3. /\ q' \in Seq(Item) /\ Len(q) \in Nat \ {0} /\ DOMAIN q = 1 .. Len(q) /\ Head(q) = q[1]
      /\ q[1] \in Item /\ Len(q') = Len(q) - 1 /\ DOMAIN q' = 1 .. Len(q) - 1
      /\ \A i \in 1 .. Len(q) - 1 : q'[i] = q[i + 1]
  BY <1>1, Taken DEF ThrottleTypes
<1>4. out \in Out /\ out.id = q[1].id /\ emitted \in Seq(Out) /\ arrived \in Nat
  BY <1>1, <1>3 DEF ThrottleTypes, Item, Out
<1> HIDE DEF out
<1>5. /\ emitted' \in Seq(Out) /\ Len(emitted) \in Nat /\ DOMAIN emitted = 1 .. Len(emitted)
      /\ Len(emitted') = Len(emitted) + 1 /\ DOMAIN emitted' = 1 .. Len(emitted) + 1
      /\ \A i \in 1 .. Len(emitted) : emitted'[i] = emitted[i]
      /\ emitted'[Len(emitted) + 1] = out
  BY <1>1, <1>4, Grown
<1>6. ThrottleTypes'
  BY <1>1, <1>3, <1>5 DEF ThrottleTypes
<1>7. Throttle!InOrder'
  <2>1. \A i \in DOMAIN q' : q'[i].id = Len(emitted') + i
    <3>1. \A i \in DOMAIN q' : i + 1 \in DOMAIN q /\ q'[i] = q[i + 1] /\ i \in Nat
      BY <1>3
    <3>2. \A i \in DOMAIN q' : q[i + 1].id = Len(emitted) + (i + 1)
      BY <1>1, <3>1 DEF Throttle!InOrder
    <3> QED BY <1>5, <3>1, <3>2
  <2>2. out.id = Len(emitted) + 1
    BY <1>1, <1>3, <1>4 DEF Throttle!InOrder
  <2>3. \A i \in DOMAIN emitted' : emitted'[i].id = i
    <3>1. \A i \in DOMAIN emitted' : i \in DOMAIN emitted \/ i = Len(emitted) + 1
      BY <1>5
    <3> QED BY <1>1, <1>5, <2>2, <3>1 DEF Throttle!InOrder
  <2>4. Len(emitted') + Len(q') = arrived
    BY <1>1, <1>3, <1>5 DEF Throttle!InOrder
  <2> QED BY <1>1, <2>1, <2>3, <2>4 DEF Throttle!InOrder
<1>8. Throttle!EndsLast' /\ Flag'
  BY <1>1, <1>2 DEF Throttle!EndsLast, Flag
<1> QED
  BY <1>2, <1>6, <1>7, <1>8 DEF ThrottleInv

(* The end of a call: the status is told when it has changed. *)
LEMMA ThrottleLeave ==
    ASSUME ThrottleInv, op = "throttle", op' = op, Throttle!Leave
    PROVE  ThrottleInv'
<1>1. /\ ThrottleTypes /\ CallsListed /\ Throttle!InOrder /\ Throttle!EndsLast /\ Flag
      /\ calls # <<>> /\ status' = Throttle!Status(status) /\ throttling' = (q # <<>>)
      /\ ended' = (ended \/ (q = <<>> /\ ~attached)) /\ calls' = SubSeq(calls, 1, Len(calls) - 1)
      /\ UNCHANGED <<now, attached, q, arrived, emitted>>
  BY DEF ThrottleInv, Throttle!Leave, Throttle!Exhausted, Throttle!Outer
<1>2. CallsListed'
  <2>1. PICK S : calls \in Seq(S)
    BY <1>1 DEF CallsListed
  <2>2. Len(calls) - 1 \in 0 .. Len(calls)
    BY <1>1, <2>1
  <2>3. calls' \in Seq(S)
    BY <1>1, <2>1, <2>2, Split
  <2> QED BY <2>3 DEF CallsListed
<1>3. Throttle!InOrder' /\ Throttle!EndsLast'
  BY <1>1 DEF Throttle!InOrder, Throttle!EndsLast
<1>4. status \in Seq(BOOLEAN) /\ throttling \in BOOLEAN /\ throttling' \in BOOLEAN /\ ended' \in BOOLEAN
  BY <1>1 DEF ThrottleTypes
<1>5. CASE throttling = (q # <<>>)
  <2>1. status' = status
    BY <1>1, <1>5 DEF Throttle!Status
  <2>2. ThrottleTypes'
    BY <1>1, <1>4, <2>1 DEF ThrottleTypes
  <2>3. Flag'
    BY <1>1, <1>5, <2>1 DEF Flag
  <2> QED BY <1>2, <1>3, <2>2, <2>3 DEF ThrottleInv
<1>6. CASE throttling # (q # <<>>)
  <2> DEFINE now_waits == (q # <<>>)
  <2>1. status' = Append(status, now_waits) /\ now_waits \in BOOLEAN
    BY <1>1, <1>6 DEF Throttle!Status
  <2>2. throttling' = now_waits /\ (throttling <=> ~now_waits)
    BY <1>1, <1>4, <1>6
  <2>3. now_waits <=> q # <<>>
    OBVIOUS
  <2> HIDE DEF now_waits
  <2>4. /\ status' \in Seq(BOOLEAN) /\ Len(status) \in Nat /\ DOMAIN status = 1 .. Len(status)
        /\ Len(status') = Len(status) + 1 /\ DOMAIN status' = 1 .. Len(status) + 1
        /\ \A i \in 1 .. Len(status) : status'[i] = status[i]
        /\ status'[Len(status) + 1] = now_waits
    BY <1>4, <2>1, Grown
  <2>5. ThrottleTypes'
    BY <1>1, <1>4, <2>4 DEF ThrottleTypes
  <2>6. (Len(status) + 1) % 2 = 1 <=> Len(status) % 2 # 1
    BY <2>4
  <2>7. now_waits <=> (Len(status) + 1) % 2 = 1
    BY <1>1, <2>2, <2>6 DEF Flag
  <2>8. \A i \in DOMAIN status' : status'[i] <=> i % 2 = 1
    <3>1. \A i \in DOMAIN status : status[i] <=> i % 2 = 1
      BY <1>1 DEF Flag
    <3>2. \A i \in DOMAIN status' : i \in DOMAIN status \/ i = Len(status) + 1
      BY <2>4
    <3>3. ASSUME NEW i \in DOMAIN status PROVE status'[i] <=> i % 2 = 1
      <4>1. status'[i] = status[i]
        BY <2>4
      <4> QED BY <3>1, <4>1
    <3>4. status'[Len(status) + 1] <=> (Len(status) + 1) % 2 = 1
      BY <2>4, <2>7
    <3> QED BY <3>2, <3>3, <3>4
  <2>9. Flag'
    BY <1>1, <2>2, <2>3, <2>4, <2>7, <2>8 DEF Flag
  <2> QED BY <1>2, <1>3, <2>5, <2>9 DEF ThrottleInv
<1> QED
  BY <1>5, <1>6

LEMMA ThrottleSteps ==
    ASSUME ThrottleInv, op = "throttle", op' = op, Throttle!Next
    PROVE  ThrottleInv'
<1>1. ThrottleTypes /\ CallsListed /\ Throttle!InOrder /\ Throttle!EndsLast /\ Flag
  BY DEF ThrottleInv
<1>2. CASE \E cost \in Costs : Throttle!Arrive(cost)
  BY <1>2, ThrottleArrive
<1>3. CASE Throttle!Retry
  <2>1. CallsListed' /\ calls' # <<>>
    BY <1>1, <1>3, CallBegins DEF Throttle!Retry
  <2>2. UNCHANGED <<now, attached, ended, q, throttling, arrived, emitted, status>>
    BY <1>3 DEF Throttle!Retry
  <2>3. ThrottleTypes' /\ Throttle!InOrder' /\ Throttle!EndsLast' /\ Flag'
    BY <1>1, <2>1, <2>2 DEF ThrottleTypes, Throttle!InOrder, Throttle!EndsLast, Flag
  <2> QED BY <2>1, <2>3 DEF ThrottleInv
<1>4. CASE Throttle!EmitHead
  BY <1>4, ThrottleEmit
<1>5. CASE Throttle!Return
  <2>1. CallsListed' /\ calls' # <<>>
    BY <1>1, <1>5, CallGoesOn DEF Throttle!Return
  <2>2. UNCHANGED <<now, attached, ended, q, throttling, arrived, emitted, status>>
    BY <1>5 DEF Throttle!Return
  <2>3. ThrottleTypes' /\ Throttle!InOrder' /\ Throttle!EndsLast' /\ Flag'
    BY <1>1, <2>1, <2>2 DEF ThrottleTypes, Throttle!InOrder, Throttle!EndsLast, Flag
  <2> QED BY <2>1, <2>3 DEF ThrottleInv
<1>6. CASE Throttle!Leave
  BY <1>6, ThrottleLeave
<1>7. CASE Throttle!SourceDone
  <2>1. /\ attached /\ attached' = FALSE /\ ended' = (ended \/ q = <<>>)
        /\ UNCHANGED <<now, q, throttling, calls, arrived, emitted, status>>
    BY <1>7 DEF Throttle!SourceDone
  <2>2. ended' \in BOOLEAN /\ attached' \in BOOLEAN
    BY <2>1
  <2>3. ThrottleTypes' /\ CallsListed' /\ Throttle!InOrder' /\ Throttle!EndsLast' /\ Flag'
    BY <1>1, <2>1, <2>2 DEF ThrottleTypes, CallsListed, Throttle!InOrder, Throttle!EndsLast, Flag
  <2> QED BY <2>3 DEF ThrottleInv
<1>8. CASE \E l \in Limits : Throttle!SetLimit(l)
  <2>1. UNCHANGED <<now, attached, ended, q, throttling, calls, arrived, emitted, status>>
    BY <1>8 DEF Throttle!SetLimit
  <2> QED BY <1>1, <2>1 DEF ThrottleInv, ThrottleTypes, CallsListed, Throttle!InOrder,
                         Throttle!EndsLast, Flag
<1>9. CASE Throttle!Tick
  <2>1. /\ now' = now + 1
        /\ UNCHANGED <<attached, ended, q, throttling, calls, arrived, emitted, status>>
    BY <1>9 DEF Throttle!Tick
  <2> QED BY <1>1, <2>1 DEF ThrottleInv, ThrottleTypes, CallsListed, Throttle!InOrder,
                         Throttle!EndsLast, Flag
<1> QED
  BY <1>2, <1>3, <1>4, <1>5, <1>6, <1>7, <1>8, <1>9 DEF Throttle!Next, Throttle!Step

LEMMA ThrottleNext == ThrottleInv /\ [Next]_vars => ThrottleInv'
<1> SUFFICES ASSUME ThrottleInv, [Next]_vars PROVE ThrottleInv'
  OBVIOUS
<1>1. CASE op # "throttle"
  BY <1>1 DEF ThrottleInv, Next, Of, vars
<1>2. CASE op = "throttle" /\ UNCHANGED vars
  BY <1>2 DEF vars, onlyThrottle, ThrottleInv, ThrottleTypes, CallsListed, Throttle!InOrder,
              Throttle!EndsLast, Flag, onlyDebounce
<1>3. CASE op = "throttle" /\ Next
  <2>1. Throttle!Next /\ op' = op
    BY <1>3 DEF Next, Of
  <2> QED BY <1>3, <2>1, ThrottleSteps
<1> QED
  BY <1>1, <1>2, <1>3

(* Throttle keeps its inductive invariant. *)
THEOREM ThrottleInvariant == Spec => []ThrottleInv
<1> QED
  BY ThrottleInit, ThrottleNext, PTL DEF Spec

(* Throttle drops and reorders nothing, and ends after the last value and at
   once then, also when listeners feed the source. *)
THEOREM ThrottleDropsNothing == Spec => []NothingDropped
<1>1. ThrottleInv => NothingDropped
  BY DEF ThrottleInv, NothingDropped
<1> QED
  BY <1>1, ThrottleInvariant, PTL

(* status_event alternates, starting with True, and agrees with the queue at
   rest. *)
THEOREM ThrottleTellsStatus == Spec => []StatusIsTrue
<1>1. ThrottleInv => StatusIsTrue
  <2> SUFFICES ASSUME ThrottleTypes, Flag PROVE Throttle!StatusIsTrue
    BY DEF ThrottleInv, StatusIsTrue
  <2>1. status \in Seq(BOOLEAN) /\ \A i \in DOMAIN status : status[i] \in BOOLEAN
    BY DEF ThrottleTypes
  <2>2. \A i \in DOMAIN status : status[i] = (i % 2 = 1)
    BY <2>1 DEF Flag
  <2>3. ASSUME calls = <<>> PROVE (q # <<>>) = (status # <<>> /\ status[Len(status)])
    <3>1. CASE status = <<>>
      <4>1. Len(status) % 2 # 1
        BY <3>1
      <4> QED BY <2>3, <3>1, <4>1 DEF Flag
    <3>2. CASE status # <<>>
      <4>1. Len(status) \in DOMAIN status
        BY <2>1, <3>2
      <4>2. status[Len(status)] <=> q # <<>>
        BY <2>3, <4>1 DEF Flag
      <4>3. status[Len(status)] \in BOOLEAN
        BY <2>1, <4>1
      <4> QED BY <3>2, <4>2, <4>3
    <3> QED BY <3>1, <3>2
  <2> QED BY <2>2, <2>3 DEF Throttle!StatusIsTrue
<1> QED
  BY <1>1, ThrottleInvariant, PTL
-----------------------------------------------------------------------------
(* What is behind the bursts of Debounce. *)
Emission == [id : Nat, at : Nat, late : BOOLEAN]
Waiting == [id : Nat, due : Nat]

DebounceTypes ==
    /\ now \in Nat /\ attached \in BOOLEAN /\ ended \in BOOLEAN
    /\ times \in Seq(Nat) /\ outs \in Seq(Emission)
    /\ handle \in Waiting \cup {None}
    /\ emitting \in {"no", "first", "delayed"}

(* What the first mode never has, and the other one. *)
Modes ==
    /\ onFirst => handle = None /\ emitting # "delayed"
    /\ ~onFirst => emitting # "first"

(* The value that waits is the last of the source, and due one interval after
   it; when none waits that value is out already. *)
WaitsForLast ==
    ~onFirst =>
        /\ handle # None =>
              /\ times # <<>> /\ handle.id = Len(times)
              /\ handle.due = times[Len(times)] + Interval
              /\ \A k \in DOMAIN outs : outs[k].id < Len(times)
        /\ handle = None /\ times # <<>> => \E k \in DOMAIN outs : outs[k].id = Len(times)

(* Unless it is overdue for a listener that is slow and feeds the source. *)
InTime ==
    ~onFirst /\ ~Debounce!Overdue /\ handle # None => now <= handle.due

(* Bursts and their first values, of any list of times. *)
Opens(ts, i) == i > 1 => ts[i] - ts[i - 1] >= Interval
Closes(ts, i) == i < Len(ts) => ts[i + 1] - ts[i] >= Interval

Firsts ==
    onFirst =>
        /\ \A k \in DOMAIN outs : /\ outs[k].id \in DOMAIN times
                                 /\ Opens(times, outs[k].id)
                                 /\ outs[k].at = times[outs[k].id]
        /\ \A i \in DOMAIN times : Opens(times, i) => \E k \in DOMAIN outs : outs[k].id = i

(* What was emitted is a last value, after its interval, in the order sent. *)
Lasts ==
    ~onFirst =>
        \A k \in DOMAIN outs :
            /\ outs[k].id \in DOMAIN times
            /\ Closes(times, outs[k].id)
            /\ outs[k].at >= times[outs[k].id] + Interval
            /\ outs[k].at <= now
            /\ \A n \in DOMAIN outs : n < k => outs[n].id < outs[k].id

(* Every value that another one followed after more than an interval is out. *)
NoneMissing ==
    ~onFirst /\ ~Debounce!Overdue =>
        \A i \in DOMAIN times :
            i < Len(times) /\ times[i + 1] > times[i] + Interval =>
                \E k \in DOMAIN outs : outs[k].id = i

(* The end of an operator without feeding listeners. *)
EndsClean ==
    /\ ended => ~attached
    /\ "feed" \notin listeners =>
          /\ Debounce!NothingAfterEnd
          /\ emitting = "delayed" => handle = None

DebounceInv ==
    op = "debounce" =>
        /\ DebounceTypes /\ Modes /\ Firsts
        /\ WaitsForLast /\ InTime /\ Lasts /\ NoneMissing /\ EndsClean

LEMMA EmissionsTyped ==
    ASSUME outs \in Seq(Emission)
    PROVE  \A k \in DOMAIN outs : outs[k].id \in Nat /\ outs[k].at \in Nat
<1>1. \A k \in DOMAIN outs : outs[k] \in Emission
  OBVIOUS
<1> QED
  BY <1>1 DEF Emission

LEMMA DebounceInit == Init => DebounceInv
<1> SUFFICES ASSUME Init, op = "debounce" PROVE DebounceInv
  BY DEF DebounceInv
<1>1. /\ now = 0 /\ onFirst \in BOOLEAN /\ attached = TRUE /\ ended = FALSE
      /\ times = <<>> /\ outs = <<>> /\ handle = None /\ emitting = "no"
  BY DEF Init, Debounce!Init
<1>2. /\ times \in Seq(Nat) /\ outs \in Seq(Emission)
      /\ DOMAIN times = {} /\ DOMAIN outs = {}
  BY <1>1
<1>3. DebounceTypes
  BY <1>1, <1>2 DEF DebounceTypes
<1>4. Modes /\ WaitsForLast /\ InTime
  BY <1>1, <1>2 DEF Modes, WaitsForLast, InTime
<1>5. Lasts /\ NoneMissing /\ EndsClean
  BY <1>1, <1>2 DEF Lasts, NoneMissing, EndsClean, Debounce!NothingAfterEnd
<1>6. Firsts
  BY <1>2 DEF Firsts
<1> QED
  BY <1>3, <1>4, <1>5, <1>6 DEF DebounceInv

(* A value of the source. *)
LEMMA FirstArrives ==
    ASSUME DebounceInv, op = "debounce", op' = op, Debounce!Arrive, onFirst
    PROVE  DebounceInv'
<1> DEFINE id == Len(times) + 1
           out == [id |-> id, at |-> now, late |-> ended]
<1>0. onFirst /\ onFirst'
  BY DEF Debounce!Arrive, Debounce!fixed
<1>1. /\ DebounceTypes /\ Modes /\ Firsts /\ EndsClean /\ handle = None
      /\ attached /\ ~ended /\ times' = Append(times, now)
      /\ UNCHANGED <<onFirst, listeners, now, attached, ended, handle>>
      /\ "feed" \notin listeners => emitting = "no"
  BY DEF DebounceInv, Debounce!Arrive, Debounce!fixed, Debounce!InUserCode, Modes, EndsClean
<1>2. /\ times' \in Seq(Nat) /\ Len(times) \in Nat /\ DOMAIN times = 1 .. Len(times)
      /\ Len(times') = id /\ DOMAIN times' = 1 .. id /\ times'[id] = now
      /\ \A i \in 1 .. Len(times) : times'[i] = times[i]
  <2>1. times \in Seq(Nat) /\ now \in Nat
    BY <1>1 DEF DebounceTypes
  <2> QED BY <1>1, <2>1, Grown
<1>3. \A i \in 1 .. Len(times) : Opens(times', i) <=> Opens(times, i)
  BY <1>2 DEF Opens
<1>4. Opens(times', id) <=> Debounce!LongSilence
  <2>1. times # <<>> <=> id > 1
    BY <1>2
  <2>2. id > 1 => times'[id - 1] = times[Len(times)]
    BY <1>2
  <2> QED BY <1>1, <1>2, <2>1, <2>2 DEF Opens, Debounce!LongSilence
<1>5. CASE Debounce!LongSilence
  <2>1. emitting' = "first" /\ outs' = Append(outs, out)
    BY <1>5 DEF Debounce!Arrive, Debounce!Emitted
  <2>2. out \in Emission /\ outs \in Seq(Emission)
        /\ out.id = id /\ out.at = now /\ out.late = FALSE
    BY <1>1, <1>2 DEF Emission, DebounceTypes
  <2> HIDE DEF out
  <2>3. /\ outs' \in Seq(Emission) /\ Len(outs) \in Nat /\ DOMAIN outs = 1 .. Len(outs)
        /\ DOMAIN outs' = 1 .. Len(outs) + 1 /\ outs'[Len(outs) + 1] = out
        /\ \A k \in 1 .. Len(outs) : outs'[k] = outs[k]
    BY <2>1, <2>2, Grown
  <2>4. \A k \in DOMAIN outs' : k \in DOMAIN outs \/ k = Len(outs) + 1
    BY <2>3
  <2>5. Firsts'
    <3>1. ASSUME NEW k \in DOMAIN outs'
          PROVE  /\ outs'[k].id \in DOMAIN times' /\ Opens(times', outs'[k].id)
                 /\ outs'[k].at = times'[outs'[k].id]
      <4>1. CASE k \in DOMAIN outs
        <5>1. /\ outs[k].id \in DOMAIN times /\ Opens(times, outs[k].id)
              /\ outs[k].at = times[outs[k].id]
          BY <1>1, <4>1, <1>0 DEF Firsts
        <5> QED BY <1>2, <1>3, <2>3, <4>1, <5>1
      <4>2. CASE k = Len(outs) + 1
        BY <1>2, <1>4, <1>5, <2>2, <2>3, <4>2
      <4> QED BY <2>4, <4>1, <4>2
    <3>2. ASSUME NEW i \in DOMAIN times', Opens(times', i)
          PROVE  \E k \in DOMAIN outs' : outs'[k].id = i
      <4>1. CASE i \in 1 .. Len(times)
        <5>1. Opens(times, i)
          BY <1>3, <3>2, <4>1
        <5>2. PICK k \in DOMAIN outs : outs[k].id = i
          BY <1>1, <1>2, <4>1, <5>1, <1>0 DEF Firsts
        <5> QED BY <2>3, <5>2
      <4>2. CASE i = id
        BY <2>2, <2>3, <4>2
      <4> QED BY <1>2, <4>1, <4>2
    <3> QED BY <3>1, <3>2 DEF Firsts
  <2>6. DebounceTypes' /\ Modes' /\ EndsClean'
    <3>1. \A k \in DOMAIN outs' : "feed" \notin listeners => ~outs'[k].late
      BY <1>1, <2>2, <2>3, <2>4 DEF EndsClean, Debounce!NothingAfterEnd
    <3> QED BY <1>1, <1>2, <2>1, <2>3, <3>1, <1>0
            DEF DebounceTypes, Modes, EndsClean, Debounce!NothingAfterEnd
  <2> QED BY <1>1, <2>5, <2>6, <1>0 DEF DebounceInv, WaitsForLast, InTime, Lasts, NoneMissing
<1>6. CASE ~Debounce!LongSilence
  <2>1. UNCHANGED <<emitting, outs>>
    BY <1>6 DEF Debounce!Arrive
  <2>2. Firsts'
    <3>1. \A i \in DOMAIN times' : i \in DOMAIN times \/ i = id
      BY <1>2
    <3>2. \A i \in DOMAIN times : i \in DOMAIN times' /\ times'[i] = times[i]
      BY <1>2
    <3> QED BY <1>0, <1>1, <1>2, <1>3, <1>4, <1>6, <2>1, <3>1, <3>2 DEF Firsts
  <2>3. DebounceTypes' /\ Modes' /\ EndsClean'
    BY <1>1, <1>2, <2>1, <1>0 DEF DebounceTypes, Modes, EndsClean, Debounce!NothingAfterEnd
  <2> QED BY <1>1, <2>2, <2>3, <1>0 DEF DebounceInv, WaitsForLast, InTime, Lasts, NoneMissing
<1> QED
  BY <1>5, <1>6

LEMMA LastArrives ==
    ASSUME DebounceInv, op = "debounce", op' = op, Debounce!Arrive, ~onFirst
    PROVE  DebounceInv'
<1> DEFINE id == Len(times) + 1
           next == [id |-> id, due |-> now + Interval]
<1>0. ~onFirst /\ ~onFirst'
  BY DEF Debounce!Arrive, Debounce!fixed
<1>1. /\ DebounceTypes /\ Modes /\ WaitsForLast /\ InTime /\ Lasts /\ NoneMissing /\ EndsClean
      /\ attached /\ ~ended /\ times' = Append(times, now) /\ handle' = next
      /\ UNCHANGED <<onFirst, listeners, now, attached, ended, emitting, outs>>
      /\ "feed" \notin listeners => emitting = "no"
  BY <1>0 DEF DebounceInv, Debounce!Arrive, Debounce!Wait, Debounce!fixed, Debounce!InUserCode, EndsClean
<1>2. /\ times' \in Seq(Nat) /\ Len(times) \in Nat /\ DOMAIN times = 1 .. Len(times)
      /\ Len(times') = id /\ DOMAIN times' = 1 .. id /\ times'[id] = now
      /\ \A i \in 1 .. Len(times) : times'[i] = times[i]
  <2>1. times \in Seq(Nat) /\ now \in Nat
    BY <1>1 DEF DebounceTypes
  <2> QED BY <1>1, <2>1, Grown
<1>3. Interval \in Nat \ {0} /\ now \in Nat
  BY <1>1, TimesAssumption DEF DebounceTypes
<1>4. next \in Waiting /\ next # None /\ next.id = id /\ next.due = now + Interval
  BY <1>2, <1>3, HandleAssumption DEF Waiting
<1> HIDE DEF next
<1>5. outs \in Seq(Emission) /\ \A k \in DOMAIN outs : outs[k].id \in 1 .. Len(times) /\ outs[k].at \in Nat
  BY <1>0, <1>1, <1>2, EmissionsTyped DEF Lasts, DebounceTypes
<1>6. DebounceTypes' /\ Modes' /\ EndsClean'
  BY <1>0, <1>1, <1>2, <1>4 DEF DebounceTypes, Modes, EndsClean, Debounce!NothingAfterEnd
<1>7. WaitsForLast' /\ InTime'
  <2>1. \A k \in DOMAIN outs : outs[k].id < id
    BY <1>2, <1>5
  <2>2. times' # <<>>
    BY <1>2
  <2> QED BY <1>0, <1>1, <1>2, <1>3, <1>4, <2>1, <2>2 DEF WaitsForLast, InTime
<1>8. Lasts'
  <2>1. ASSUME NEW k \in DOMAIN outs
        PROVE  /\ outs[k].id \in DOMAIN times' /\ Closes(times', outs[k].id)
               /\ outs[k].at >= times'[outs[k].id] + Interval /\ outs[k].at <= now
    <3> DEFINE n == outs[k].id
    <3>1. /\ n \in 1 .. Len(times) /\ outs[k].at \in Nat /\ Closes(times, n)
          /\ outs[k].at >= times[n] + Interval /\ outs[k].at <= now /\ times[n] \in Nat
      BY <1>0, <1>1, <1>5 DEF Lasts, DebounceTypes
    <3> HIDE DEF n
    <3>2. Closes(times', n)
      <4>1. CASE n < Len(times)
        BY <1>2, <3>1, <4>1 DEF Closes
      <4>2. CASE n = Len(times)
        BY <1>2, <1>3, <3>1, <4>2 DEF Closes
      <4> QED BY <1>2, <3>1, <4>1, <4>2
    <3> QED BY <1>2, <3>1, <3>2 DEF n
  <2> QED BY <1>0, <1>1, <2>1 DEF Lasts
<1>9. NoneMissing'
  <2> SUFFICES ASSUME ~Debounce!Overdue, NEW i \in 1 .. Len(times),
                      times'[i + 1] > times'[i] + Interval
               PROVE  \E k \in DOMAIN outs : outs[k].id = i
    BY <1>0, <1>1, <1>2 DEF NoneMissing, Debounce!Overdue
  <2>1. CASE i < Len(times)
    <3>1. i \in DOMAIN times /\ times[i + 1] > times[i] + Interval
      BY <1>2, <2>1
    <3> QED BY <1>0, <1>1, <2>1, <3>1 DEF NoneMissing
  <2>2. CASE i = Len(times)
    <3>1. times # <<>> /\ now > times[Len(times)] + Interval
      BY <1>2, <2>2
    <3>2. handle = None
      BY <1>0, <1>1, <1>3, <3>1 DEF WaitsForLast, InTime, DebounceTypes, Waiting
    <3> QED BY <1>0, <1>1, <2>2, <3>1, <3>2 DEF WaitsForLast
  <2> QED BY <1>2, <2>1, <2>2
<1> QED
  BY <1>0, <1>6, <1>7, <1>8, <1>9 DEF DebounceInv, Firsts

(* The timer of the value that waits. *)
LEMMA DebounceFires ==
    ASSUME DebounceInv, op = "debounce", op' = op, Debounce!Fire
    PROVE  DebounceInv'
<1> DEFINE out == [id |-> handle.id, at |-> now, late |-> ended]
<1>1. /\ DebounceTypes /\ Modes /\ WaitsForLast /\ InTime /\ Lasts /\ NoneMissing /\ EndsClean
      /\ emitting = "no" /\ handle # None /\ handle.due <= now /\ handle' = None
      /\ emitting' = "delayed" /\ outs' = Append(outs, out)
      /\ UNCHANGED <<onFirst, listeners, now, attached, ended, times>>
      /\ ~onFirst /\ ~onFirst'
  BY DEF DebounceInv, Debounce!Fire, Debounce!Emitted, Debounce!fixed, Modes
<1>2. /\ times # <<>> /\ handle.id = Len(times) /\ handle.due = times[Len(times)] + Interval
      /\ \A k \in DOMAIN outs : outs[k].id < Len(times)
      /\ now \in Nat /\ ended \in BOOLEAN /\ times \in Seq(Nat) /\ outs \in Seq(Emission)
  BY <1>1 DEF WaitsForLast, DebounceTypes
<1>3. /\ Len(times) \in Nat \ {0} /\ DOMAIN times = 1 .. Len(times) /\ Len(times) \in DOMAIN times
      /\ times[Len(times)] + Interval <= now
  BY <1>1, <1>2
<1>4. /\ out \in Emission /\ out.id = Len(times) /\ out.at = now /\ out.late = ended
  BY <1>2, <1>3 DEF Emission
<1> HIDE DEF out
<1>5. /\ outs' \in Seq(Emission) /\ Len(outs) \in Nat /\ DOMAIN outs = 1 .. Len(outs)
      /\ DOMAIN outs' = 1 .. Len(outs) + 1 /\ outs'[Len(outs) + 1] = out
      /\ \A k \in 1 .. Len(outs) : outs'[k] = outs[k]
  BY <1>1, <1>2, <1>4, Grown
<1>6. \A k \in DOMAIN outs' : k \in DOMAIN outs \/ k = Len(outs) + 1
  BY <1>5
<1>7. DebounceTypes' /\ Modes' /\ WaitsForLast' /\ InTime'
  BY <1>1, <1>4, <1>5 DEF DebounceTypes, Modes, WaitsForLast, InTime
<1>8. Lasts'
  <2>1. Closes(times, Len(times))
    BY <1>3 DEF Closes
  <2>2. ASSUME NEW k \in DOMAIN outs'
        PROVE  /\ outs'[k].id \in DOMAIN times /\ Closes(times, outs'[k].id)
               /\ outs'[k].at >= times[outs'[k].id] + Interval /\ outs'[k].at <= now
    <3>1. CASE k \in DOMAIN outs
      BY <1>1, <1>5, <3>1 DEF Lasts
    <3>2. CASE k = Len(outs) + 1
      BY <1>2, <1>3, <1>4, <1>5, <2>1, <3>2
    <3> QED BY <1>6, <3>1, <3>2
  <2>3. ASSUME NEW k \in DOMAIN outs', NEW n \in DOMAIN outs', n < k
        PROVE  outs'[n].id < outs'[k].id
    <3>1. CASE k \in DOMAIN outs
      BY <1>1, <1>5, <2>3, <3>1 DEF Lasts
    <3>2. CASE k = Len(outs) + 1
      <4>1. n \in 1 .. Len(outs)
        BY <1>5, <2>3, <3>2
      <4> QED BY <1>2, <1>4, <1>5, <3>2, <4>1
    <3> QED BY <1>6, <3>1, <3>2
  <2> QED BY <1>1, <2>2, <2>3 DEF Lasts
<1>9. NoneMissing'
  BY <1>1, <1>5 DEF NoneMissing, Debounce!Overdue
<1>10. EndsClean'
  <2>1. "feed" \notin listeners => \A k \in DOMAIN outs' : ~outs'[k].late
    BY <1>1, <1>4, <1>5, <1>6 DEF EndsClean, Debounce!NothingAfterEnd
  <2> QED BY <1>1, <2>1 DEF EndsClean, Debounce!NothingAfterEnd
<1> QED
  BY <1>1, <1>7, <1>8, <1>9, <1>10 DEF DebounceInv, Firsts

LEMMA DebounceSteps ==
    ASSUME DebounceInv, op = "debounce", op' = op, Debounce!Next
    PROVE  DebounceInv'
<1>1. /\ DebounceTypes /\ Modes /\ Firsts
      /\ WaitsForLast /\ InTime /\ Lasts /\ NoneMissing /\ EndsClean
  BY DEF DebounceInv
<1>2. CASE Debounce!Arrive
  BY <1>2, FirstArrives, LastArrives
<1>3. CASE Debounce!Fire
  BY <1>3, DebounceFires
<1>4. CASE Debounce!Return
  <2>1. /\ emitting # "no" /\ emitting' = "no"
        /\ ended' = (ended \/ (emitting = "delayed" /\ ~attached))
        /\ UNCHANGED <<onFirst, listeners, now, attached, times, handle, outs>>
    BY <1>4 DEF Debounce!Return, Debounce!EndsAfterEmit, Debounce!fixed
  <2>2. ended' \in BOOLEAN
    BY <2>1
  <2>3. DebounceTypes' /\ Modes'
    BY <1>1, <2>1, <2>2 DEF DebounceTypes, Modes
  <2>4. Firsts' /\ WaitsForLast' /\ InTime' /\ Lasts' /\ NoneMissing'
    BY <1>1, <2>1 DEF Firsts, WaitsForLast, InTime, Lasts, NoneMissing, Debounce!Overdue
  <2>5. EndsClean'
    BY <1>1, <2>1 DEF EndsClean, Debounce!NothingAfterEnd
  <2> QED BY <2>3, <2>4, <2>5 DEF DebounceInv
<1>5. CASE Debounce!SourceDone
  <2>1. /\ attached /\ attached' = FALSE /\ ended' = (handle = None)
        /\ UNCHANGED <<onFirst, listeners, now, times, handle, emitting, outs>>
    BY <1>5 DEF Debounce!SourceDone, Debounce!EndsAtOnce, Debounce!fixed
  <2>2. ended' \in BOOLEAN
    BY <2>1
  <2>3. DebounceTypes' /\ Modes'
    BY <1>1, <2>1, <2>2 DEF DebounceTypes, Modes
  <2>4. Firsts' /\ WaitsForLast' /\ InTime' /\ Lasts' /\ NoneMissing'
    BY <1>1, <2>1 DEF Firsts, WaitsForLast, InTime, Lasts, NoneMissing, Debounce!Overdue
  <2>5. EndsClean'
    BY <1>1, <2>1 DEF EndsClean, Debounce!NothingAfterEnd
  <2> QED BY <2>3, <2>4, <2>5 DEF DebounceInv
<1>6. CASE Debounce!Tick
  <2>1. /\ now' = now + 1
        /\ emitting = "no" /\ handle # None => handle.due > now
        /\ emitting # "no" => "slow" \in listeners
        /\ UNCHANGED <<onFirst, listeners, attached, ended, times, handle, emitting, outs>>
    BY <1>6 DEF Debounce!Tick, Debounce!fixed
  <2>2. DebounceTypes' /\ Modes' /\ EndsClean' /\ Firsts' /\ WaitsForLast' /\ NoneMissing'
    BY <1>1, <2>1 DEF DebounceTypes, Modes, EndsClean, Firsts, WaitsForLast, NoneMissing,
                      Debounce!NothingAfterEnd, Debounce!Overdue
  <2>3. Lasts'
    <3>1. \A k \in DOMAIN outs : outs[k].at \in Nat
      BY <1>1, EmissionsTyped DEF DebounceTypes
    <3> QED BY <1>1, <2>1, <3>1 DEF Lasts, DebounceTypes
  <2>4. InTime'
    <3> SUFFICES ASSUME ~onFirst, ~Debounce!Overdue, handle # None PROVE now + 1 <= handle.due
      BY <2>1 DEF InTime, Debounce!Overdue
    <3>1. emitting = "no"
      BY <1>1, <2>1 DEF DebounceTypes, Modes, EndsClean, Debounce!Overdue
    <3> QED BY <1>1, <2>1, <3>1 DEF DebounceTypes, Waiting
  <2> QED BY <2>2, <2>3, <2>4 DEF DebounceInv
<1> QED
  BY <1>2, <1>3, <1>4, <1>5, <1>6 DEF Debounce!Next

LEMMA DebounceNext == DebounceInv /\ [Next]_vars => DebounceInv'
<1> SUFFICES ASSUME DebounceInv, [Next]_vars PROVE DebounceInv'
  OBVIOUS
<1>1. CASE op # "debounce"
  BY <1>1 DEF DebounceInv, Next, Of, vars
<1>2. CASE op = "debounce" /\ UNCHANGED vars
  BY <1>2 DEF vars, onlyDebounce, DebounceInv, DebounceTypes, Modes, Firsts, WaitsForLast, InTime,
              Lasts, NoneMissing, EndsClean, Debounce!NothingAfterEnd, Debounce!Overdue
<1>3. CASE op = "debounce" /\ Next
  <2>1. Debounce!Next /\ op' = op
    BY <1>3 DEF Next, Of
  <2> QED BY <1>3, <2>1, DebounceSteps
<1> QED
  BY <1>1, <1>2, <1>3

(* Debounce emits exactly the firsts of the bursts, at once, or the lasts, one
   interval later and in order, and its end does not overtake the value that
   waits (on_source, _delayed_emit, on_source_done). *)
THEOREM DebounceBursts == Spec => []BurstRule
<1>1. DebounceInv => BurstRule
  <2> SUFFICES ASSUME DebounceInv, op = "debounce" PROVE BurstRule
    BY DEF BurstRule
  <2>1. /\ DebounceTypes /\ Firsts /\ WaitsForLast /\ InTime /\ Lasts /\ NoneMissing /\ EndsClean
    BY DEF DebounceInv
  <2>2. times \in Seq(Nat) /\ DOMAIN times = 1 .. Len(times) /\ Len(times) \in Nat /\ now \in Nat
    BY <2>1 DEF DebounceTypes
  <2>3. Debounce!FirstsOnly
    BY <2>1 DEF Firsts, Opens, Debounce!FirstsOnly, Debounce!FirstOfBurst
  <2>4. Debounce!LastsOnly
    <3>1. ASSUME ~onFirst, NEW k \in DOMAIN outs
          PROVE  /\ Debounce!SilenceAfter(outs[k].id)
                 /\ outs[k].at >= times[outs[k].id] + Interval
                 /\ \A n \in DOMAIN outs : n < k => outs[n].id < outs[k].id
      BY <2>1, <3>1 DEF Lasts, Closes, Debounce!SilenceAfter
    <3>2. ASSUME ~onFirst, ~Debounce!Overdue, NEW i \in DOMAIN times,
                 (IF i < Len(times) THEN times[i + 1] ELSE now) > times[i] + Interval
          PROVE  \E k \in DOMAIN outs : outs[k].id = i
      <4>1. CASE i < Len(times)
        BY <2>1, <3>2, <4>1 DEF NoneMissing
      <4>2. CASE i = Len(times)
        <5>1. times # <<>> /\ now > times[Len(times)] + Interval
          BY <2>2, <3>2, <4>2
        <5>2. handle = None
          <6>1. Interval \in Nat
            BY TimesAssumption
          <6> QED BY <2>1, <2>2, <3>2, <5>1, <6>1 DEF WaitsForLast, InTime
        <5> QED BY <2>1, <3>2, <4>2, <5>1, <5>2 DEF WaitsForLast
      <4> QED BY <2>2, <4>1, <4>2
    <3> QED BY <3>1, <3>2 DEF Debounce!LastsOnly
  <2>5. Debounce!NothingAfterEndUnfed
    BY <2>1 DEF EndsClean, Debounce!NothingAfterEndUnfed
  <2> QED BY <2>3, <2>4, <2>5 DEF BurstRule
<1> QED
  BY <1>1, DebounceInit, DebounceNext, PTL DEF Spec
-----------------------------------------------------------------------------
(* What is behind the rate limit: as long as the limit is fixed, a timer is set for
   when the window first moves or before, and at rest the head does not fit.  When
   listeners take no time either, the window is the last of what was emitted, and
   what has left it is an interval old. *)
Entry == [at : Nat, cost : Costs]
TryEmit == [t : Nat, emitting : BOOLEAN]

PaceTypes ==
    /\ now \in Nat /\ limit \in Limits /\ timer \in Nat \cup {None}
    /\ q \in Seq(Item) /\ emitted \in Seq(Out)
    /\ window \in Seq(Entry) /\ calls \in Seq(TryEmit)

TimerIsSet == calls = <<>> /\ q # <<>> => timer # None

TimerInTime ==
    steady /\ timer # None =>
        IF window = <<>>
        THEN calls # <<>> /\ ~Throttle!Innermost.emitting /\ q # <<>> /\ timer <= Throttle!Innermost.t
        ELSE timer <= window[1].at + limit.interval

HeadIsOver == steady /\ calls = <<>> /\ q # <<>> => ~Throttle!Fits(Head(q).cost, window)

Gone == Len(emitted) - Len(window)
WindowIsLast ==
    /\ Len(window) <= Len(emitted)
    /\ \A i \in 1 .. Len(window) :
          window[i].at = emitted[Gone + i].at /\ window[i].cost = emitted[Gone + i].cost
    /\ \A i \in 1 .. Gone : emitted[i].at + limit.interval <= now

Prompt == \A k \in 1 .. Len(calls) : calls[k].t = now

PaceInv ==
    op = "throttle" =>
        /\ PaceTypes /\ TimerIsSet /\ TimerInTime /\ HeadIsOver
        /\ "slow" \notin listeners => Prompt
        /\ steady /\ "slow" \notin listeners => WindowIsLast /\ Throttle!RateLimit

LEMMA PaceInit == Init => PaceInv
<1> SUFFICES ASSUME Init, op = "throttle" PROVE PaceInv
  BY DEF PaceInv
<1>1. /\ now = 0 /\ limit \in Limits /\ timer = None /\ q = <<>> /\ emitted = <<>>
      /\ window = <<>> /\ calls = <<>>
  BY DEF Init, Throttle!Init
<1>2. PaceTypes
  <2>1. <<>> \in Seq(Item) /\ <<>> \in Seq(Out) /\ <<>> \in Seq(Entry) /\ <<>> \in Seq(TryEmit)
    OBVIOUS
  <2> QED BY <1>1, <2>1 DEF PaceTypes
<1>3. TimerIsSet /\ TimerInTime /\ HeadIsOver /\ Prompt /\ WindowIsLast
  BY <1>1 DEF TimerIsSet, TimerInTime, HeadIsOver, Prompt, WindowIsLast, Gone
<1>4. Throttle!RateLimit
  BY <1>1 DEF Throttle!RateLimit
<1> QED BY <1>2, <1>3, <1>4 DEF PaceInv

LEMMA Forgotten ==
    ASSUME NEW w \in Seq(Entry), limit \in Limits, NEW t \in Nat
    PROVE  \E n \in 0 .. Len(w) :
              LET r == Throttle!Forget(w, t)
              IN  /\ r \in Seq(Entry) /\ Len(r) = Len(w) - n
                  /\ \A i \in 1 .. Len(r) : r[i] = w[n + i]
                  /\ \A i \in 1 .. n : w[i].at + limit.interval <= t
                  /\ r # <<>> => r[1].at + limit.interval > t
<1> DEFINE young == {i \in DOMAIN w : w[i].at + limit.interval > t}
<1>1. Throttle!Forget(w, t) = IF young = {} THEN <<>> ELSE SubSeq(w, Throttle!Min(young), Len(w))
  BY DEF Throttle!Forget, Throttle!From
<1>2. /\ limit.interval \in Nat \ {0} /\ Len(w) \in Nat /\ DOMAIN w = 1 .. Len(w)
      /\ \A i \in 1 .. Len(w) : w[i] \in Entry /\ w[i].at \in Nat
  <2>1. limit.interval \in Nat \ {0}
    BY LimitsAssumption
  <2>2. Len(w) \in Nat /\ DOMAIN w = 1 .. Len(w) /\ \A i \in 1 .. Len(w) : w[i] \in Entry
    OBVIOUS
  <2>3. \A e \in Entry : e.at \in Nat
    BY DEF Entry
  <2> QED BY <2>1, <2>2, <2>3
<1>3. CASE young = {}
  <2>1. Throttle!Forget(w, t) = <<>>
    BY <1>1, <1>3
  <2>2. \A i \in 1 .. Len(w) : w[i].at + limit.interval <= t
    BY <1>2, <1>3
  <2>3. <<>> \in Seq(Entry) /\ Len(<<>>) = 0
    OBVIOUS
  <2>4. PICK r : r = Throttle!Forget(w, t)
    OBVIOUS
  <2>5. /\ r \in Seq(Entry) /\ Len(r) = Len(w) - Len(w) /\ r = <<>>
        /\ \A i \in 1 .. Len(r) : r[i] = w[Len(w) + i]
    BY <1>2, <2>1, <2>3, <2>4
  <2>6. Len(w) \in 0 .. Len(w)
    BY <1>2
  <2> QED BY <2>2, <2>4, <2>5, <2>6
<1>4. CASE young # {}
  <2>1. PICK m \in young : \A i \in young : m <= i
    <3>1. young \in SUBSET Nat
      BY <1>2
    <3> HIDE DEF young
    <3> QED BY <1>4, <3>1, Least
  <2>2. Throttle!Min(young) = m
    BY <1>2, <2>1 DEF Throttle!Min
  <2>3. PICK r : r = SubSeq(w, m, Len(w))
    OBVIOUS
  <2>4. Throttle!Forget(w, t) = r
    BY <1>1, <1>4, <2>2, <2>3
  <2>5. /\ m \in 1 .. Len(w) /\ w[m].at + limit.interval > t
        /\ \A i \in 1 .. Len(w) : i < m => w[i].at + limit.interval <= t
    BY <1>2, <2>1
  <2>6. /\ r \in Seq(Entry) /\ Len(r) = Len(w) - (m - 1)
        /\ \A i \in 1 .. Len(r) : r[i] = w[(m - 1) + i]
    BY <1>2, <2>3, <2>5
  <2>7. m - 1 \in 0 .. Len(w) /\ \A i \in 1 .. m - 1 : w[i].at + limit.interval <= t
    BY <1>2, <2>5
  <2>8. r # <<>> => r[1].at + limit.interval > t
    BY <2>5, <2>6
  <2> QED BY <2>4, <2>6, <2>7, <2>8
<1> QED BY <1>3, <1>4

(* The cost of a sequence is the last of its sums. *)
LEMMA TotalIs ==
    ASSUME NEW S, NEW w \in Seq(S), \A i \in 1 .. Len(w) : w[i].cost \in Nat, NEW s,
           s[0] = 0, \A n \in 0 .. Len(w) - 1 : s[n + 1] = s[n] + w[n + 1].cost
    PROVE  Throttle!Total(w) = s[Len(w)]
<1> DEFINE c == [i \in 1 .. Len(w) |-> w[i].cost]
           m == Len(w)
<1>1. m \in Nat /\ c \in [1 .. m -> Nat]
  OBVIOUS
<1> DEFINE sum == CHOOSE r : SumsOf(r, c, m)
<1>2. SumsOf(sum, c, m)
  <2> HIDE DEF c, m
  <2> QED BY <1>1, SumsExist
<1>3. Throttle!Total(w) = sum[m]
  <2> DEFINE Ones(r) == r = [n \in 0 .. m |-> IF n = 0 THEN 0 ELSE r[n - 1] + w[n].cost]
  <2>1. ASSUME NEW r PROVE SumsOf(r, c, m) <=> Ones(r)
    <3>1. \A n \in 1 .. m : c[n] = w[n].cost
      OBVIOUS
    <3>2. [n \in 0 .. m |-> IF n = 0 THEN 0 ELSE r[n - 1] + c[n]]
             = [n \in 0 .. m |-> IF n = 0 THEN 0 ELSE r[n - 1] + w[n].cost]
      BY <1>1, <3>1
    <3> QED BY <3>2 DEF SumsOf
  <2>2. (CHOOSE r : SumsOf(r, c, m)) = CHOOSE r : Ones(r)
    BY <2>1
  <2>3. Throttle!Total(w) = (CHOOSE r : Ones(r))[m]
    BY DEF Throttle!Total
  <2> QED BY <2>2, <2>3
<1>4. SumUp(sum, c, m)
  <2> HIDE DEF sum, c, m
  <2> QED BY <1>1, <1>2, SumsNext
<1>5. SumUp(s, c, m)
  BY DEF SumUp
<1>6. sum[m] = s[m]
  <2> HIDE DEF sum, c, m
  <2> QED BY <1>1, <1>4, <1>5, SumsAgree
<1> QED BY <1>3, <1>6

(* A call of _try_emit begins: what it forgets is an interval old. *)
LEMMA PaceEnter ==
    ASSUME PaceTypes, Throttle!Enter(now), UNCHANGED <<now, limit, emitted>>
    PROVE  /\ window' \in Seq(Entry) /\ calls' \in Seq(TryEmit) /\ calls' # <<>>
           /\ Throttle!Innermost' = [t |-> now, emitting |-> FALSE]
           /\ Prompt => Prompt'
           /\ WindowIsLast => WindowIsLast'
           /\ \A d \in Nat : window # <<>> /\ d <= window[1].at + limit.interval =>
                 IF window' = <<>> THEN d <= now ELSE d <= window'[1].at + limit.interval
<1> DEFINE call == [t |-> now, emitting |-> FALSE]
<1>1. /\ now \in Nat /\ limit \in Limits /\ window \in Seq(Entry) /\ calls \in Seq(TryEmit)
      /\ emitted \in Seq(Out) /\ limit.interval \in Nat
  BY LimitsAssumption DEF PaceTypes
<1>2. call \in TryEmit /\ call.t = now
  BY <1>1 DEF TryEmit
<1>3. calls' = Append(calls, call) /\ window' = Throttle!Forget(window, now)
  BY DEF Throttle!Enter
<1>4. PICK n \in 0 .. Len(window) :
         /\ window' \in Seq(Entry) /\ Len(window') = Len(window) - n
         /\ \A i \in 1 .. Len(window') : window'[i] = window[n + i]
         /\ \A i \in 1 .. n : window[i].at + limit.interval <= now
         /\ window' # <<>> => window'[1].at + limit.interval > now
  BY <1>1, <1>3, Forgotten
<1> HIDE DEF call
<1>5. /\ calls' \in Seq(TryEmit) /\ calls' # <<>> /\ calls'[Len(calls')] = call
      /\ Len(calls') = Len(calls) + 1 /\ \A k \in 1 .. Len(calls) : calls'[k] = calls[k]
  BY <1>1, <1>2, <1>3
<1>6. Prompt => Prompt'
  BY <1>1, <1>2, <1>5 DEF Prompt
<1>7. ASSUME WindowIsLast PROVE WindowIsLast'
  <2>1. Len(window) \in Nat /\ Len(emitted) \in Nat /\ Len(window') \in Nat
    BY <1>1, <1>4
  <2>2. Gone' = Gone + n
    BY <1>4, <2>1 DEF Gone
  <2>3. Len(window') <= Len(emitted')
    BY <1>4, <1>7, <2>1 DEF WindowIsLast
  <2>4. ASSUME NEW i \in 1 .. Len(window')
        PROVE  window'[i].at = emitted'[Gone' + i].at /\ window'[i].cost = emitted'[Gone' + i].cost
    <3>1. n + i \in 1 .. Len(window) /\ Gone + (n + i) = Gone' + i
      BY <1>4, <2>1, <2>2, <2>4 DEF Gone
    <3>2. window'[i] = window[n + i]
      BY <1>4
    <3> QED BY <1>7, <3>1, <3>2 DEF WindowIsLast
  <2>5. ASSUME NEW i \in 1 .. Gone' PROVE emitted'[i].at + limit'.interval <= now'
    <3>1. CASE i <= Gone
      BY <1>7, <2>1, <3>1 DEF WindowIsLast, Gone
    <3>2. CASE i > Gone
      <4>0. i - Gone \in 1 .. n
        BY <2>1, <2>2, <3>2, <2>5 DEF Gone
      <4>1. PICK k \in 1 .. n : k = i - Gone
        BY <4>0
      <4>2. k \in 1 .. Len(window) /\ Gone + k = i
        BY <1>4, <2>1, <4>1 DEF Gone
      <4>3. window[k].at = emitted[i].at
        BY <1>7, <4>2 DEF WindowIsLast
      <4> QED BY <1>4, <4>3
    <3> QED BY <2>1, <3>1, <3>2 DEF Gone
  <2> QED BY <2>3, <2>4, <2>5 DEF WindowIsLast
<1>8. ASSUME NEW d \in Nat, window # <<>>, d <= window[1].at + limit.interval
      PROVE  IF window' = <<>> THEN d <= now ELSE d <= window'[1].at + limit.interval
  <2>1. /\ Len(window) \in Nat /\ Len(window) # 0 /\ window[1] \in Entry
        /\ window' # <<>> => window'[1] \in Entry /\ 1 \in 1 .. Len(window')
    BY <1>1, <1>4, <1>8
  <2>2. window[1].at \in Nat /\ (window' # <<>> => window'[1].at \in Nat)
    BY <2>1 DEF Entry
  <2>3. CASE n = 0
    BY <1>4, <1>8, <2>1, <2>3
  <2>4. CASE n # 0
    <3>1. window[1].at + limit.interval <= now
      BY <1>4, <2>4
    <3> QED BY <1>1, <1>4, <1>8, <2>2, <3>1
  <2> QED BY <2>3, <2>4
<1> QED BY <1>4, <1>5, <1>6, <1>7, <1>8 DEF Throttle!Innermost, call

(* ... and the cost of a part of a sequence is the difference of two sums. *)
LEMMA TotalOfPart ==
    ASSUME NEW S, NEW w \in Seq(S), NEW m \in Nat, NEW s \in [0 .. m -> Nat], NEW d \in Nat,
           Len(w) + d <= m,
           \A n \in 1 .. Len(w) : w[n].cost \in Nat /\ s[n + d] = s[(n - 1) + d] + w[n].cost
    PROVE  Throttle!Total(w) = s[Len(w) + d] - s[d]
<1>0. PICK l \in Nat : l = Len(w)
  OBVIOUS
<1> DEFINE r == [n \in 0 .. l |-> s[n + d] - s[d]]
<1>1. l = Len(w) /\ \A n \in 0 .. l : n + d \in 0 .. m /\ s[n + d] \in Nat
  BY <1>0
<1>2. s[0 + d] \in Nat /\ 0 + d = d /\ 0 \in 0 .. l
  BY <1>1
<1>3. r[0] = 0
  BY <1>2
<1>4. ASSUME NEW n \in 0 .. l - 1 PROVE r[n + 1] = r[n] + w[n + 1].cost
  <2>1. n + 1 \in 1 .. l /\ (n + 1) - 1 = n /\ n \in 0 .. l /\ n + 1 \in 0 .. l
    OBVIOUS
  <2>2. w[n + 1].cost \in Nat /\ s[(n + 1) + d] = s[n + d] + w[n + 1].cost
    BY <1>0, <2>1
  <2>3. r[n + 1] = s[(n + 1) + d] - s[d] /\ r[n] = s[n + d] - s[d]
    BY <2>1
  <2>4. s[n + d] \in Nat /\ s[d] \in Nat /\ s[(n + 1) + d] \in Nat
    BY <1>1, <1>2, <2>1
  <2>5. PICK x \in Nat, y \in Nat, z \in Nat, k \in Nat :
           x = s[n + d] /\ y = s[d] /\ z = s[(n + 1) + d] /\ k = w[n + 1].cost
    BY <2>2, <2>4
  <2>6. r[n + 1] = z - y /\ r[n] = x - y /\ z = x + k
    BY <2>2, <2>3, <2>5
  <2>7. z - y = (x - y) + k
    BY <2>6
  <2> HIDE DEF r
  <2> QED BY <2>5, <2>6, <2>7, Zenon
<1>5. r[l] = s[l + d] - s[d]
  BY <1>1
<1>6. Throttle!Total(w) = r[l]
  <2> HIDE DEF r
  <2> QED BY <1>0, <1>3, <1>4, TotalIs
<1> QED BY <1>0, <1>5, <1>6

(* The head goes out: it fits in the window, and so in every interval that ends
   with it. *)
LEMMA PaceLimit ==
    ASSUME PaceTypes, WindowIsLast, Throttle!RateLimit, steady, "slow" \notin listeners,
           q # <<>>, Throttle!Fits(Head(q).cost, window),
           emitted' = Append(emitted, [id |-> Head(q).id, cost |-> Head(q).cost, at |-> now]),
           UNCHANGED <<limit, steady, listeners>>
    PROVE  Throttle!RateLimit'
<1> DEFINE out == [id |-> Head(q).id, cost |-> Head(q).cost, at |-> now]
<1>1. PICK e : e = emitted'
  OBVIOUS
<1>2. /\ limit.interval \in Nat /\ limit.maximum \in Nat /\ limit.inclusive \in BOOLEAN
      /\ window \in Seq(Entry) /\ emitted \in Seq(Out) /\ now \in Nat
      /\ Len(emitted) \in Nat /\ Len(window) \in Nat
  BY LimitsAssumption DEF PaceTypes
<1>3. out \in Out /\ out.at = now /\ out.cost = Head(q).cost
  <2>1. Head(q) \in Item
    BY DEF PaceTypes
  <2> QED BY <1>2, <2>1 DEF Item, Out
<1> HIDE DEF out
<1>0. PICK m \in Nat : m = Len(emitted) + 1
  BY <1>2
<1>4. /\ e \in Seq(Out) /\ m \in Nat /\ Len(e) = m /\ m = Len(emitted) + 1 /\ e[m] = out
      /\ \A i \in 1 .. Len(emitted) : e[i] = emitted[i]
  BY <1>0, <1>1, <1>2, <1>3 DEF out
<1>5. \A i \in 1 .. m : e[i].cost \in Nat /\ e[i].at \in Nat
  <2>1. \A x \in Out : x.cost \in Nat /\ x.at \in Nat
    BY CostsAssumption DEF Out
  <2> QED BY <1>4, <2>1
<1> DEFINE c == [i \in 1 .. m |-> e[i].cost]
<1>6. m \in Nat /\ m = Len(e) /\ c \in [1 .. m -> Nat] /\ \A i \in 1 .. m : c[i] = e[i].cost
  BY <1>4, <1>5
<1> HIDE DEF c
<1>7. PICK s \in [0 .. m -> Nat] : SumsOf(s, c, m)
  BY <1>6, SumsExist
<1>8. s[0] = 0 /\ \A n \in 0 .. m - 1 : s[n + 1] = s[n] + e[n + 1].cost
  <2>1. SumUp(s, c, m)
    BY <1>6, <1>7, SumsNext
  <2>2. \A n \in 0 .. m - 1 : n + 1 \in 1 .. m
    BY <1>6
  <2> QED BY <1>6, <2>1, <2>2 DEF SumUp
<1>9. \A n \in 0 .. m : s[n] \in Nat
  OBVIOUS
<1>10. \A n \in 1 .. m : s[n] = s[n - 1] + e[n].cost
  <2> TAKE n \in 1 .. m
  <2>1. n - 1 \in 0 .. m - 1 /\ (n - 1) + 1 = n
    OBVIOUS
  <2> QED BY <1>8, <2>1
<1>12. ASSUME NEW i \in 1 .. m
       PROVE  Throttle!Total(SubSeq(e, i, m)) = s[m] - s[i - 1]
  <2>1. PICK w : w = SubSeq(e, i, m)
    OBVIOUS
  <2>2. PICK d \in Nat : d = i - 1
    OBVIOUS
  <2>3. w \in Seq(Out) /\ Len(w) + d = m /\ \A n \in 1 .. Len(w) : w[n] = e[n + d]
    BY <1>4, <2>1, <2>2
  <2>4. ASSUME NEW n \in 1 .. Len(w)
        PROVE  w[n].cost \in Nat /\ s[n + d] = s[(n - 1) + d] + w[n].cost
    <3>1. n + d \in 1 .. m /\ (n + d) - 1 = (n - 1) + d
      BY <2>3
    <3> QED BY <1>5, <1>10, <2>3, <3>1
  <2>5. Len(w) + d <= m
    BY <2>3
  <2>6. Throttle!Total(w) = s[Len(w) + d] - s[d]
    BY <2>3, <2>4, <2>5, TotalOfPart
  <2> QED BY <2>1, <2>2, <2>3, <2>6
<1>13. PICK g \in 0 .. m - 1 : g = Gone /\ Len(window) + g = m - 1
  <2>1. Gone \in 0 .. m - 1 /\ Len(window) + Gone = m - 1
    BY <1>2, <1>4 DEF Gone, WindowIsLast
  <2> QED BY <2>1
<1>14. Throttle!Total(window) = s[m - 1] - s[g]
  <2>1. ASSUME NEW n \in 1 .. Len(window)
        PROVE  window[n].cost \in Nat /\ s[n + g] = s[(n - 1) + g] + window[n].cost
    <3>1. n + g \in 1 .. Len(emitted) /\ g + n = n + g /\ n + g \in 1 .. m
          /\ (n + g) - 1 = (n - 1) + g
      BY <1>2, <1>4, <1>13
    <3>2. window[n].cost = emitted[n + g].cost
      BY <1>13, <3>1 DEF WindowIsLast
    <3> QED BY <1>4, <1>5, <1>10, <3>1, <3>2
  <2>2. g \in Nat /\ Len(window) + g <= m
    BY <1>4, <1>13
  <2>3. Throttle!Total(window) = s[Len(window) + g] - s[g]
    BY <1>2, <2>1, <2>2, TotalOfPart
  <2> QED BY <1>13, <2>3
<1>11. ASSUME NEW i \in DOMAIN e, NEW j \in DOMAIN e, i < j,
              e[j].at < e[i].at + limit.interval, limit.maximum # 0
       PROVE  ~Throttle!Over(Throttle!Total(SubSeq(e, i, j)), limit)
  <2>1. i \in 1 .. m /\ j \in 1 .. m
    BY <1>4, <1>6
  <2>2. CASE j < m
    <3>1. /\ i \in 1 .. Len(emitted) /\ j \in 1 .. Len(emitted)
          /\ e[i] = emitted[i] /\ e[j] = emitted[j]
      BY <1>2, <1>4, <1>6, <2>1, <2>2, <1>11
    <3>2. SubSeq(e, i, j) = SubSeq(emitted, i, j)
      <4>1. e \in Seq(Out) /\ emitted \in Seq(Out) /\ \A k \in i .. j : e[k] = emitted[k]
        BY <1>2, <1>4, <3>1
      <4>2. i \in Nat \ {0} /\ j \in Nat /\ j <= Len(emitted) /\ j <= Len(e)
        BY <1>2, <1>4, <3>1
      <4> QED BY <4>1, <4>2, SMTT(30)
    <3> QED BY <1>11, <3>1, <3>2 DEF Throttle!RateLimit
  <2>3. CASE j = m
    <3>1. e[j].at = now /\ e[i] = emitted[i] /\ i \in 1 .. Len(emitted)
      BY <1>3, <1>4, <1>2, <2>1, <2>3, <1>11
    <3>2. i > g /\ Len(window) # 0
      <4>1. now < e[i].at + limit.interval
        BY <1>11, <3>1
      <4>2. ~(i <= g)
        <5> SUFFICES ASSUME i <= g PROVE FALSE
          OBVIOUS
        <5>1. emitted[i].at + limit.interval <= now
          BY <1>2, <1>13, <3>1 DEF WindowIsLast
        <5>2. e[i].at \in Nat /\ e[i].at = emitted[i].at
          BY <1>5, <2>1, <3>1
        <5> QED BY <1>2, <4>1, <5>1, <5>2
      <4>3. i <= m - 1
        BY <1>2, <1>4, <3>1
      <4>4. i > g
        BY <2>1, <4>2
      <4>5. Len(window) = m - 1 - g
        BY <1>2, <1>13
      <4> QED BY <2>1, <4>3, <4>4, <4>5
    <3>3. ~Throttle!Over(Head(q).cost + Throttle!Total(window), limit)
      BY <1>2, <1>11, <3>2 DEF Throttle!Fits
    <3>4. s[g] <= s[i - 1]
      <4>1. g \in 0 .. m /\ i - 1 \in g .. m
        BY <2>1, <3>2
      <4> QED BY <1>6, <1>7, <4>1, SumsGrow
    <3>5. s[m] = s[m - 1] + Head(q).cost /\ Head(q).cost \in Nat
      <4>1. m \in 1 .. m
        BY <2>1
      <4> QED BY <1>3, <1>4, <1>5, <1>10, <4>1
    <3>6. PICK a \in Nat, b \in Nat, d \in Nat, x \in Nat :
             /\ a = s[i - 1] /\ b = s[g] /\ d = s[m - 1] /\ x = s[m]
      <4>1. i - 1 \in 0 .. m /\ g \in 0 .. m /\ m - 1 \in 0 .. m /\ m \in 0 .. m
        BY <2>1
      <4> QED BY <1>9, <4>1
    <3>7. Throttle!Total(SubSeq(e, i, j)) = x - a
      BY <1>12, <2>1, <2>3, <3>6
    <3>8. Throttle!Total(window) = d - b
      BY <1>14, <3>6
    <3>9. PICK k \in Nat : k = Head(q).cost
      BY <3>5
    <3>10. x = d + k /\ b <= a
      BY <3>4, <3>5, <3>6, <3>9
    <3>11. x - a <= k + (d - b)
      BY <3>10
    <3>12. ~Throttle!Over(k + (d - b), limit)
      BY <3>3, <3>8, <3>9
    <3> QED BY <1>2, <3>7, <3>11, <3>12 DEF Throttle!Over
  <2> QED BY <1>4, <2>1, <2>2, <2>3
<1> QED BY <1>1, <1>11 DEF Throttle!RateLimit, Throttle!Over

LEMMA PaceEntered ==
    ASSUME PaceTypes, TimerInTime, (WindowIsLast /\ Throttle!RateLimit) \/ ~steady \/ "slow" \in listeners,
           "slow" \notin listeners => Prompt,
           Throttle!Enter(now), UNCHANGED <<op, listeners, steady, now, limit, emitted>>,
           q' \in Seq(Item), timer' \in Nat \cup {None},
           timer' # None => timer' = timer /\ q' # <<>> /\ (calls # <<>> => Throttle!Innermost.emitting)
    PROVE  PaceInv'
<1>1. /\ window' \in Seq(Entry) /\ calls' \in Seq(TryEmit) /\ calls' # <<>>
      /\ Throttle!Innermost' = [t |-> now, emitting |-> FALSE]
      /\ Prompt => Prompt'
      /\ WindowIsLast => WindowIsLast'
      /\ \A d \in Nat : window # <<>> /\ d <= window[1].at + limit.interval =>
            IF window' = <<>> THEN d <= now ELSE d <= window'[1].at + limit.interval
  BY PaceEnter
<1>2. PaceTypes'
  BY <1>1 DEF PaceTypes
<1>3. TimerIsSet' /\ HeadIsOver'
  BY <1>1 DEF TimerIsSet, HeadIsOver
<1>4. TimerInTime'
  <2> SUFFICES ASSUME steady, timer' # None
               PROVE  (IF window = <<>>
                       THEN /\ calls # <<>> /\ ~Throttle!Innermost.emitting /\ q # <<>>
                            /\ timer <= Throttle!Innermost.t
                       ELSE timer <= window[1].at + limit.interval)'
    BY DEF TimerInTime
  <2>1. timer' = timer /\ timer \in Nat /\ q' # <<>>
    OBVIOUS
  <2>2. window # <<>> /\ timer <= window[1].at + limit.interval
    BY <2>1 DEF TimerInTime, PaceTypes
  <2>3. CASE window' = <<>>
    BY <1>1, <2>1, <2>2, <2>3
  <2>4. CASE window' # <<>>
    BY <1>1, <2>1, <2>2, <2>4
  <2> QED BY <2>3, <2>4
<1>5. Throttle!RateLimit => Throttle!RateLimit'
  BY DEF Throttle!RateLimit
<1> QED BY <1>1, <1>2, <1>3, <1>4, <1>5 DEF PaceInv

LEMMA PaceEmits ==
    ASSUME PaceInv, op = "throttle", op' = op, Throttle!EmitHead
    PROVE  PaceInv'
<1> DEFINE i == Len(calls)
           entry == [at |-> calls[i].t, cost |-> Head(q).cost]
           out == [id |-> Head(q).id, cost |-> Head(q).cost, at |-> now]
           call == [calls[i] EXCEPT !.emitting = TRUE]
<1>1. /\ PaceTypes /\ TimerIsSet /\ TimerInTime /\ HeadIsOver
      /\ "slow" \notin listeners => Prompt
      /\ steady /\ "slow" \notin listeners => WindowIsLast /\ Throttle!RateLimit
      /\ calls # <<>> /\ ~calls[i].emitting /\ q # <<>> /\ Throttle!Fits(Head(q).cost, window)
      /\ q' = Tail(q) /\ window' = Append(window, entry) /\ emitted' = Append(emitted, out)
      /\ calls' = [calls EXCEPT ![i] = call]
      /\ UNCHANGED <<listeners, steady, now, limit, timer>>
  BY DEF PaceInv, Throttle!EmitHead, Throttle!Innermost
<1>2. /\ now \in Nat /\ limit \in Limits /\ timer \in Nat \cup {None}
      /\ q \in Seq(Item) /\ emitted \in Seq(Out) /\ window \in Seq(Entry) /\ calls \in Seq(TryEmit)
      /\ limit.interval \in Nat
  BY <1>1, LimitsAssumption DEF PaceTypes
<1>3. i \in 1 .. Len(calls) /\ calls[i] \in TryEmit /\ calls[i].t \in Nat
  <2>1. i \in 1 .. Len(calls) /\ calls[i] \in TryEmit
    BY <1>1, <1>2
  <2> QED BY <2>1 DEF TryEmit
<1>4. call \in TryEmit /\ call.t = calls[i].t
  BY <1>3 DEF TryEmit
<1>5. Head(q) \in Item /\ entry \in Entry /\ out \in Out /\ entry.at = calls[i].t
      /\ entry.cost = Head(q).cost /\ out.at = now /\ out.cost = Head(q).cost
  <2>1. Head(q) \in Item
    BY <1>1, <1>2
  <2> QED BY <1>2, <1>3, <2>1 DEF Item, Entry, Out
<1>6. PaceTypes' /\ calls' # <<>> /\ window' # <<>>
  <2> HIDE DEF entry, out, call, i
  <2>1. q' \in Seq(Item)
    BY <1>1, <1>2
  <2>3. emitted' \in Seq(Out)
    BY <1>1, <1>2, <1>5
  <2>4. window' \in Seq(Entry)
    BY <1>1, <1>2, <1>5
  <2>5. calls' \in Seq(TryEmit)
    BY <1>1, <1>2, <1>3, <1>4
  <2>2. calls' # <<>> /\ window' # <<>>
    BY <1>1, <1>2
  <2> QED BY <1>1, <1>2, <2>1, <2>2, <2>3, <2>4, <2>5 DEF PaceTypes
<1>7. TimerIsSet' /\ HeadIsOver'
  BY <1>6 DEF TimerIsSet, HeadIsOver
<1>8. TimerInTime'
  <2> SUFFICES ASSUME steady, timer # None PROVE timer <= window'[1].at + limit.interval
    BY <1>1, <1>6 DEF TimerInTime
  <2>1. timer \in Nat
    BY <1>2
  <2>2. CASE window = <<>>
    <3>1. window'[1] = entry /\ timer <= calls[i].t
      BY <1>1, <1>2, <2>2 DEF TimerInTime, Throttle!Innermost
    <3> HIDE DEF entry
    <3> QED BY <1>2, <1>3, <1>5, <2>1, <3>1
  <2>3. CASE window # <<>>
    <3>1. window'[1] = window[1]
      BY <1>1, <1>2, <2>3
    <3> QED BY <1>1, <2>3, <3>1 DEF TimerInTime
  <2> QED BY <2>2, <2>3
<1>9. ASSUME "slow" \notin listeners PROVE Prompt'
  <2>1. Prompt /\ calls[i].t = now
    BY <1>1, <1>3, <1>9 DEF Prompt
  <2>2. ASSUME NEW k \in 1 .. Len(calls) PROVE calls'[k].t = now
    <3> HIDE DEF call, i
    <3> QED BY <1>1, <1>2, <1>4, <2>1 DEF Prompt
  <2>3. Len(calls') = Len(calls)
    BY <1>1, <1>2
  <2> QED BY <1>1, <2>2, <2>3 DEF Prompt
<1>10. ASSUME steady, "slow" \notin listeners PROVE WindowIsLast' /\ Throttle!RateLimit'
  <2>1. WindowIsLast /\ Throttle!RateLimit /\ calls[i].t = now
    BY <1>1, <1>3, <1>10 DEF Prompt
  <2>2. Throttle!RateLimit'
    BY <1>1, <1>10, <2>1, PaceLimit
  <2> HIDE DEF entry, out, call, i
  <2>3. /\ Len(window) \in Nat /\ Len(emitted) \in Nat
        /\ Len(window') = Len(window) + 1 /\ Len(emitted') = Len(emitted) + 1
        /\ window'[Len(window) + 1] = entry /\ emitted'[Len(emitted) + 1] = out
        /\ \A k \in 1 .. Len(window) : window'[k] = window[k]
        /\ \A k \in 1 .. Len(emitted) : emitted'[k] = emitted[k]
    BY <1>1, <1>2, <1>5
  <2>4. Gone' = Gone /\ Gone + (Len(window) + 1) = Len(emitted) + 1 /\ Gone \in 0 .. Len(emitted)
    BY <2>1, <2>3 DEF Gone, WindowIsLast
  <2>5. ASSUME NEW k \in 1 .. Len(window')
        PROVE  window'[k].at = emitted'[Gone' + k].at /\ window'[k].cost = emitted'[Gone' + k].cost
    <3>1. CASE k = Len(window) + 1
      BY <1>5, <2>1, <2>3, <2>4, <3>1
    <3>2. CASE k # Len(window) + 1
      <4>1. k \in 1 .. Len(window) /\ Gone + k \in 1 .. Len(emitted)
        BY <2>3, <2>4, <3>2, <2>5 DEF Gone
      <4> QED BY <2>1, <2>3, <2>4, <4>1 DEF WindowIsLast
    <3> QED BY <3>1, <3>2
  <2>6. ASSUME NEW k \in 1 .. Gone' PROVE emitted'[k].at + limit'.interval <= now'
    BY <1>1, <2>1, <2>3, <2>4 DEF WindowIsLast
  <2>7. Len(window') <= Len(emitted')
    BY <2>1, <2>3 DEF WindowIsLast
  <2> QED BY <2>2, <2>5, <2>6, <2>7 DEF WindowIsLast
<1> QED BY <1>1, <1>6, <1>7, <1>8, <1>9, <1>10 DEF PaceInv

(* The end of a call: if something waits the window is not empty, and the timer is
   set for when it moves. *)
LEMMA PaceLeaves ==
    ASSUME PaceInv, op = "throttle", op' = op, Throttle!Leave
    PROVE  PaceInv'
<1>1. /\ PaceTypes /\ TimerIsSet /\ TimerInTime /\ HeadIsOver
      /\ "slow" \notin listeners => Prompt
      /\ steady /\ "slow" \notin listeners => WindowIsLast /\ Throttle!RateLimit
      /\ calls # <<>> /\ calls' = SubSeq(calls, 1, Len(calls) - 1)
      /\ q # <<>> => ~Throttle!Fits(Head(q).cost, window)
      /\ timer' = IF timer = None /\ q # <<>> THEN window[1].at + limit.interval ELSE timer
      /\ UNCHANGED <<listeners, steady, now, limit, q, window, emitted>>
  BY DEF PaceInv, Throttle!Leave, Throttle!Outer, Throttle!NextTimer
<1>2. /\ now \in Nat /\ limit \in Limits /\ timer \in Nat \cup {None}
      /\ q \in Seq(Item) /\ emitted \in Seq(Out) /\ window \in Seq(Entry) /\ calls \in Seq(TryEmit)
      /\ limit.interval \in Nat
  BY <1>1, LimitsAssumption DEF PaceTypes
<1>3. /\ calls' \in Seq(TryEmit) /\ Len(calls') = Len(calls) - 1 /\ Len(calls) \in Nat \ {0}
      /\ \A k \in 1 .. Len(calls') : calls'[k] = calls[k]
  <2>1. Len(calls) \in Nat \ {0} /\ Len(calls) - 1 \in 0 .. Len(calls)
    BY <1>1, <1>2
  <2>2. PICK n \in 0 .. Len(calls) : n = Len(calls) - 1
    BY <2>1
  <2>3. calls' = SubSeq(calls, 1, n)
    BY <1>1, <2>2
  <2>4. /\ SubSeq(calls, 1, n) \in Seq(TryEmit) /\ Len(SubSeq(calls, 1, n)) = n
        /\ \A k \in 1 .. n : SubSeq(calls, 1, n)[k] = calls[k]
    BY <1>2, <2>2, Split
  <2> QED BY <2>1, <2>2, <2>3, <2>4
<1>4. q # <<>> => window # <<>>
  BY <1>1 DEF Throttle!Fits
<1>5. window # <<>> => window[1].at + limit.interval \in Nat
  <2>1. window # <<>> => window[1] \in Entry
    BY <1>2
  <2> QED BY <1>2, <2>1 DEF Entry
<1>6. /\ timer' \in Nat \cup {None}
      /\ q # <<>> => timer' # None
      /\ steady /\ timer' # None => window # <<>> /\ timer' <= window[1].at + limit.interval
  <2>1. CASE timer = None /\ q # <<>>
    BY <1>1, <1>4, <1>5, <2>1, NoneAssumption
  <2>2. CASE ~(timer = None /\ q # <<>>)
    <3>1. timer' = timer
      BY <1>1, <2>2
    <3>2. ASSUME steady, timer # None
          PROVE  window # <<>> /\ timer <= window[1].at + limit.interval
      BY <1>1, <1>4, <3>2 DEF TimerInTime
    <3> QED BY <1>2, <2>2, <3>1, <3>2
  <2> QED BY <2>1, <2>2
<1>7. PaceTypes' /\ TimerIsSet' /\ TimerInTime'
  BY <1>1, <1>3, <1>6 DEF PaceTypes, TimerIsSet, TimerInTime
<1>8. HeadIsOver'
  <2>1. Throttle!Fits(Head(q).cost, window)' = Throttle!Fits(Head(q).cost, window)
    BY <1>1 DEF Throttle!Fits
  <2> QED BY <1>1, <2>1 DEF HeadIsOver
<1>9. Prompt => Prompt'
  BY <1>1, <1>3 DEF Prompt
<1>10. WindowIsLast /\ Throttle!RateLimit => WindowIsLast' /\ Throttle!RateLimit'
  BY <1>1 DEF WindowIsLast, Gone, Throttle!RateLimit
<1> QED BY <1>1, <1>7, <1>8, <1>9, <1>10 DEF PaceInv

(* Whatever else a step leaves as it is. *)
LEMMA PaceStays ==
    ASSUME PaceInv, op = "throttle", op' = op,
           UNCHANGED <<listeners, limit, q, window, timer, calls, emitted>>,
           now' = now \/ (now' = now + 1 /\ ("slow" \notin listeners => calls = <<>>)),
           steady' = steady
    PROVE  PaceInv'
<1>1. /\ PaceTypes /\ TimerIsSet /\ TimerInTime /\ HeadIsOver
      /\ "slow" \notin listeners => Prompt
      /\ steady /\ "slow" \notin listeners => WindowIsLast /\ Throttle!RateLimit
  BY DEF PaceInv
<1>2. now \in Nat /\ now' \in Nat /\ now <= now'
  BY <1>1 DEF PaceTypes
<1>3. PaceTypes' /\ TimerIsSet' /\ TimerInTime'
  BY <1>1, <1>2 DEF PaceTypes, TimerIsSet, TimerInTime, Throttle!Innermost
<1>4. HeadIsOver'
  BY <1>1 DEF HeadIsOver, Throttle!Fits
<1>5. "slow" \notin listeners => Prompt'
  BY <1>1, <1>2 DEF Prompt
<1>6. ASSUME steady, "slow" \notin listeners PROVE WindowIsLast' /\ Throttle!RateLimit'
  <2>1. Throttle!RateLimit'
    BY <1>1, <1>6 DEF Throttle!RateLimit
  <2>2. \A i \in 1 .. Gone : emitted[i].at \in Nat /\ limit.interval \in Nat
    <3>1. /\ emitted \in Seq(Out) /\ window \in Seq(Entry) /\ limit.interval \in Nat
          /\ \A x \in Out : x.at \in Nat
      BY <1>1, LimitsAssumption DEF PaceTypes, Out
    <3>2. \A i \in 1 .. Gone : i \in 1 .. Len(emitted)
      BY <3>1 DEF Gone
    <3> QED BY <3>1, <3>2
  <2>3. \A i \in 1 .. Gone : emitted[i].at + limit.interval <= now
    BY <1>1, <1>6 DEF WindowIsLast
  <2>4. \A i \in 1 .. Gone : emitted[i].at + limit.interval <= now'
    BY <1>2, <2>2, <2>3
  <2> QED BY <1>1, <1>6, <2>1, <2>4 DEF WindowIsLast, Gone
<1> QED BY <1>1, <1>3, <1>4, <1>5, <1>6 DEF PaceInv

LEMMA PaceSteps ==
    ASSUME ThrottleInv, PaceInv, op = "throttle", op' = op, Throttle!Next
    PROVE  PaceInv'
<1>1. /\ PaceTypes /\ TimerIsSet /\ TimerInTime /\ HeadIsOver
      /\ "slow" \notin listeners => Prompt
      /\ (WindowIsLast /\ Throttle!RateLimit) \/ ~steady \/ "slow" \in listeners
      /\ q \in Seq(Item) /\ timer \in Nat \cup {None} /\ now \in Nat /\ calls \in Seq(TryEmit)
  BY DEF PaceInv, PaceTypes
<1>2. ASSUME NEW cost \in Costs, Throttle!Arrive(cost) PROVE PaceInv'
  <2> DEFINE item == [id |-> arrived + 1, cost |-> cost]
  <2>1. /\ q' = Append(q, item) /\ Throttle!Enter(now)
        /\ calls # <<>> => Throttle!Innermost.emitting
        /\ UNCHANGED <<listeners, steady, now, limit, timer, emitted>>
    BY <1>2 DEF Throttle!Arrive, Throttle!Enqueue, Throttle!InUserCode
  <2>2. item \in Item
    BY DEF ThrottleInv, ThrottleTypes, Item
  <2> HIDE DEF item
  <2>3. q' \in Seq(Item) /\ q' # <<>>
    BY <1>1, <2>1, <2>2
  <2> QED BY <1>1, <2>3, <2>1, <2>2, PaceEntered
<1>3. CASE Throttle!Retry
  <2>1. /\ timer' = None /\ Throttle!Enter(now) /\ q' = q
        /\ UNCHANGED <<listeners, steady, now, limit, emitted>>
    <3>1. timer \in Nat /\ timer <= now
      BY <1>1, <1>3 DEF Throttle!Retry
    <3>2. (IF timer > now THEN timer ELSE now) = now
      BY <1>1, <3>1
    <3> QED BY <1>3, <3>2 DEF Throttle!Retry
  <2> QED BY <1>1, <2>1, PaceEntered
<1>4. CASE Throttle!EmitHead
  BY <1>4, PaceEmits
<1>5. CASE Throttle!Return
  <2> DEFINE i == Len(calls)
             call == [calls[i] EXCEPT !.emitting = FALSE]
  <2>1. /\ calls # <<>> /\ calls[i].emitting
        /\ calls' = [calls EXCEPT ![i] = call]
        /\ UNCHANGED <<listeners, steady, now, limit, q, window, timer, emitted>>
    BY <1>5 DEF Throttle!Return, Throttle!Innermost
  <2>2. i \in 1 .. Len(calls) /\ call \in TryEmit /\ call.t = calls[i].t
    <3>1. i \in 1 .. Len(calls) /\ calls[i] \in TryEmit
      BY <1>1, <2>1
    <3> QED BY <3>1 DEF TryEmit
  <2> HIDE DEF call, i
  <2>3. calls' \in Seq(TryEmit) /\ Len(calls') = Len(calls) /\ calls' # <<>>
        /\ \A k \in 1 .. Len(calls) : calls'[k].t = calls[k].t
    BY <1>1, <2>1, <2>2
  <2>4. PaceTypes' /\ TimerIsSet' /\ HeadIsOver'
    BY <1>1, <2>1, <2>3 DEF PaceTypes, TimerIsSet, HeadIsOver
  <2>5. TimerInTime'
    BY <1>1, <2>1 DEF TimerInTime, Throttle!Innermost, i
  <2>6. Prompt => Prompt'
    BY <2>1, <2>3 DEF Prompt
  <2>7. WindowIsLast /\ Throttle!RateLimit => WindowIsLast' /\ Throttle!RateLimit'
    BY <2>1 DEF WindowIsLast, Gone, Throttle!RateLimit
  <2> QED BY <1>1, <2>1, <2>4, <2>5, <2>6, <2>7 DEF PaceInv
<1>6. CASE Throttle!Leave
  BY <1>6, PaceLeaves
<1>7. CASE Throttle!SourceDone
  <2>1. /\ now' = now /\ steady' = steady
        /\ UNCHANGED <<listeners, limit, q, window, timer, calls, emitted>>
    BY <1>7 DEF Throttle!SourceDone
  <2> QED BY <2>1, PaceStays
<1>8. ASSUME NEW l \in Limits, Throttle!SetLimit(l) PROVE PaceInv'
  <2>1. /\ limit' = l /\ steady' = FALSE
        /\ UNCHANGED <<listeners, now, q, window, timer, calls, emitted>>
    BY <1>8 DEF Throttle!SetLimit
  <2>2. PaceTypes' /\ TimerIsSet' /\ TimerInTime' /\ HeadIsOver' /\ (Prompt => Prompt')
    BY <1>1, <2>1 DEF PaceTypes, TimerIsSet, TimerInTime, HeadIsOver, Prompt
  <2> QED BY <1>1, <2>1, <2>2 DEF PaceInv
<1>9. CASE Throttle!Tick
  <2>1. /\ now' = now + 1 /\ steady' = steady
        /\ UNCHANGED <<listeners, limit, q, window, timer, calls, emitted>>
    BY <1>9 DEF Throttle!Tick
  <2>2. "slow" \notin listeners => calls = <<>>
    BY <1>9 DEF Throttle!Tick
  <2> QED BY <2>1, <2>2, PaceStays
<1> QED BY <1>2, <1>3, <1>4, <1>5, <1>6, <1>7, <1>8, <1>9 DEF Throttle!Next, Throttle!Step

LEMMA PaceNext == ThrottleInv /\ PaceInv /\ [Next]_vars => PaceInv'
<1> SUFFICES ASSUME ThrottleInv, PaceInv, [Next]_vars PROVE PaceInv'
  OBVIOUS
<1>1. CASE op # "throttle"
  BY <1>1 DEF PaceInv, Next, Of, vars
<1>2. CASE op = "throttle" /\ UNCHANGED vars
  <2>1. /\ op' = op /\ now' = now /\ steady' = steady
        /\ UNCHANGED <<listeners, limit, q, window, timer, calls, emitted>>
    BY <1>2 DEF vars, onlyThrottle, onlyDebounce
  <2> QED BY <1>2, <2>1, PaceStays
<1>3. CASE op = "throttle" /\ Next
  <2>1. Throttle!Next /\ op' = op
    BY <1>3 DEF Next, Of
  <2> QED BY <1>3, <2>1, PaceSteps
<1> QED
  BY <1>1, <1>2, <1>3

LEMMA PaceInvariant == Spec => []PaceInv
<1> QED BY PaceInit, PaceNext, ThrottleInvariant, PTL DEF Spec

(* With a fixed limit and listeners that take no time, what Throttle emits within
   one interval stays within the limit, or is a single value, however the source,
   its timer and listeners that feed the source follow each other. *)
THEOREM ThrottleLimits == Spec => []RateLimit
<1>1. PaceInv => RateLimit
  BY DEF PaceInv, RateLimit, Throttle!RateLimit
<1> QED BY <1>1, PaceInvariant, PTL

(* A value waits only while it must: the timer is always set then; with a fixed
   limit it is set in time, and until then the head is over budget, whatever
   listeners do. *)
THEOREM ThrottleWaits == Spec => []WaitsForAReason
<1>1. PaceInv => WaitsForAReason
  <2> SUFFICES ASSUME PaceInv, op = "throttle", calls = <<>>, q # <<>>
               PROVE  /\ timer # None
                      /\ steady => /\ timer <= window[1].at + limit.interval
                                   /\ timer > now => ~Throttle!Fits(Head(q).cost, Throttle!Forget(window, now))
    BY DEF WaitsForAReason, Throttle!WaitsForAReason
  <2>1. /\ PaceTypes /\ TimerInTime /\ HeadIsOver /\ timer # None
    BY DEF PaceInv, TimerIsSet
  <2> SUFFICES ASSUME steady
               PROVE  /\ timer <= window[1].at + limit.interval
                      /\ timer > now => ~Throttle!Fits(Head(q).cost, Throttle!Forget(window, now))
    BY <2>1
  <2>2. window # <<>> /\ timer <= window[1].at + limit.interval
    BY <2>1 DEF TimerInTime
  <2>3. ASSUME timer > now PROVE Throttle!Forget(window, now) = window
    <3>1. /\ window \in Seq(Entry) /\ limit \in Limits /\ now \in Nat /\ timer \in Nat
          /\ window[1] \in Entry /\ Len(window) \in Nat
      BY <2>1, <2>2 DEF PaceTypes
    <3>2. PICK n \in 0 .. Len(window), r \in Seq(Entry) :
             /\ r = Throttle!Forget(window, now) /\ Len(r) = Len(window) - n
             /\ \A i \in 1 .. Len(r) : r[i] = window[n + i]
             /\ \A i \in 1 .. n : window[i].at + limit.interval <= now
      BY <3>1, Forgotten
    <3>3. window[1].at + limit.interval > now
      <4>1. window[1].at \in Nat /\ limit.interval \in Nat
        BY <3>1, LimitsAssumption DEF Entry
      <4> QED BY <2>2, <2>3, <3>1, <4>1
    <3>4. n = 0
      <4>1. window[1].at \in Nat /\ limit.interval \in Nat
        BY <3>1, LimitsAssumption DEF Entry
      <4> QED BY <3>1, <3>2, <3>3, <4>1
    <3>5. r = window
      BY <3>1, <3>2, <3>4
    <3> QED BY <3>2, <3>5
  <2>4. ~Throttle!Fits(Head(q).cost, window)
    BY <2>1 DEF HeadIsOver
  <2> QED BY <2>2, <2>3, <2>4
<1> QED BY <1>1, PaceInvariant, PTL
-----------------------------------------------------------------------------
(* Division by a step d, and points a whole number of steps away from each other. *)
LEMMA DivMod ==
    ASSUME NEW a \in Int, NEW d \in Nat \ {0}
    PROVE  a \div d \in Int /\ a % d \in 0 .. d - 1 /\ a = (d * (a \div d)) + (a % d)
OBVIOUS

LEMMA TimesMod == ASSUME NEW k \in Int, NEW d \in Nat \ {0} PROVE (d * k) % d = 0
OBVIOUS

LEMMA SmallMultiple ==
    ASSUME NEW k \in Int, NEW d \in Nat \ {0}, 0 <= d * k, d * k < d
    PROVE  k = 0
OBVIOUS

LEMMA Spread == ASSUME NEW i \in Int, NEW j \in Int, NEW d \in Int PROVE d * i - d * j = d * (i - j)
OBVIOUS

LEMMA MoreSteps == ASSUME NEW i \in Int, NEW j \in Int, i <= j, NEW d \in Nat PROVE i * d <= j * d
OBVIOUS

LEMMA Multiple ==
    ASSUME NEW x \in Int, NEW d \in Nat \ {0}, x % d = 0
    PROVE  \E i \in Int : x = d * i
<1>1. x \div d \in Int /\ x = (d * (x \div d)) + 0
  BY DivMod
<1>2. d * (x \div d) \in Int
  BY <1>1
<1> QED BY <1>1, <1>2

LEMMA GridGap ==
    ASSUME NEW x \in Int, NEW y \in Int, NEW d \in Nat \ {0}, x % d = 0, y % d = 0, x <= y, y - x < d
    PROVE  x = y
<1>1. PICK i \in Int : x = d * i
  BY Multiple
<1>2. PICK j \in Int : y = d * j
  BY Multiple
<1>3. y - x = d * (j - i) /\ j - i \in Int
  BY <1>1, <1>2, Spread
<1>4. j - i = 0
  <2> DEFINE k == j - i
  <2>1. k \in Int /\ 0 <= d * k /\ d * k < d
    BY <1>3
  <2> HIDE DEF k
  <2>2. k = 0
    BY <2>1, SmallMultiple
  <2> QED BY <2>2 DEF k
<1> QED BY <1>1, <1>2, <1>4

RoundedDown(t, a, b, d) == t = d * ((b + a) \div d)
Ahead(t, b, d) == IF t < b THEN t - ((t - b) \div d) * d ELSE t

(* The first point of a grid that starts at a and is not before b. *)
LEMMA FirstFromStart ==
    ASSUME NEW a \in Nat, NEW b \in Nat, NEW d \in Nat \ {0}, NEW f,
           f = Ahead(a, b, d)
    PROVE  /\ f \in b .. b + a + d /\ f >= a /\ (f - a) % d = 0
           /\ \A s \in b .. f - 1 : s >= a => (s - a) % d # 0
<1>1. CASE a >= b
  <2>1. f = a /\ f - a = d * 0
    BY <1>1 DEF Ahead
  <2>2. (f - a) % d = 0
    BY <2>1, TimesMod
  <2> QED BY <1>1, <2>1, <2>2
<1>2. CASE a < b
  <2> DEFINE m == (a - b) \div d
             r == (a - b) % d
  <2>1. m \in Int /\ r \in 0 .. d - 1 /\ a - b = (d * m) + r
    <3>1. a - b \in Int
      OBVIOUS
    <3> QED BY <3>1, DivMod
  <2>2. f = a - m * d
    BY <1>2 DEF Ahead
  <2> HIDE DEF m, r
  <2>3. m * d = d * m /\ d * m \in Int /\ -m \in Int /\ d * (-m) = -(d * m)
    BY <2>1
  <2>4. f = b + r /\ f \in Int /\ f - a = d * (-m)
    BY <2>1, <2>2, <2>3
  <2>5. (f - a) % d = 0
    BY <2>3, <2>4, TimesMod
  <2>6. ASSUME NEW s \in b .. f - 1, s >= a, (s - a) % d = 0 PROVE FALSE
    <3>1. s - a \in Int /\ f - a \in Int /\ s - a <= f - a /\ (f - a) - (s - a) < d
      BY <2>1, <2>4, <2>6
    <3>2. s - a = f - a
      BY <3>1, <2>5, <2>6, GridGap
    <3> QED BY <2>4, <2>6, <3>2
  <2> QED BY <1>2, <2>1, <2>4, <2>5, <2>6
<1> QED BY <1>1, <1>2

(* The first multiple of d that is not before b, and less than d before b + a. *)
LEMMA FirstMultiple ==
    ASSUME NEW a \in Nat, NEW b \in Nat, NEW d \in Nat \ {0}, NEW t, RoundedDown(t, a, b, d),
           NEW f, f = Ahead(t, b, d)
    PROVE  /\ f \in b .. b + a + d /\ f >= b + a - d + 1 /\ f % d = 0
           /\ \A s \in b .. f - 1 : s >= b + a - d + 1 => s % d # 0
<1>1. t \in Int /\ t % d = 0 /\ t <= b + a /\ t >= b + a - d + 1
  <2> DEFINE m == (b + a) \div d
             r == (b + a) % d
  <2>1. m \in Int /\ r \in 0 .. d - 1 /\ b + a = (d * m) + r
    <3>1. b + a \in Int
      OBVIOUS
    <3> QED BY <3>1, DivMod
  <2>2. t = d * m
    BY DEF RoundedDown
  <2> HIDE DEF m, r
  <2>3. d * m \in Int /\ (d * m) % d = 0
    BY <2>1, TimesMod
  <2> QED BY <2>1, <2>2, <2>3
<1>2. f \in Int /\ f % d = 0 /\ f \in b .. b + a + d /\ f >= t /\ (f < b + d \/ f = t)
  <2>1. CASE t >= b
    BY <1>1, <2>1 DEF Ahead
  <2>2. CASE t < b
    <3> DEFINE m == (t - b) \div d
               r == (t - b) % d
    <3>1. m \in Int /\ r \in 0 .. d - 1 /\ t - b = (d * m) + r
      <4>1. t - b \in Int
        BY <1>1
      <4> QED BY <4>1, DivMod
    <3>2. f = t - m * d
      BY <2>2 DEF Ahead
    <3> HIDE DEF m, r
    <3>3. m * d = d * m /\ d * m \in Int
      BY <3>1
    <3>4. f = b + r /\ f \in Int
      BY <1>1, <3>1, <3>2, <3>3
    <3>5. f % d = 0
      <4>1. PICK i \in Int : t = d * i
        BY <1>1, Multiple
      <4>2. d * i - d * m = d * (i - m) /\ i - m \in Int
        BY <3>1, Spread
      <4>3. f = d * (i - m)
        BY <3>2, <3>3, <4>1, <4>2
      <4> QED BY <4>2, <4>3, TimesMod
    <3> QED BY <1>1, <2>2, <3>1, <3>4, <3>5
  <2> QED BY <1>1, <2>1, <2>2
<1>3. ASSUME NEW s \in b .. f - 1, s >= b + a - d + 1, s % d = 0 PROVE FALSE
  <2>1. s \in Int /\ s <= f /\ f - s < d
    BY <1>1, <1>2, <1>3
  <2>2. s = f
    BY <1>2, <1>3, <2>1, GridGap
  <2> QED BY <1>2, <1>3, <2>2
<1>4. \A s \in b .. f - 1 : s >= b + a - d + 1 => s % d # 0
  BY <1>3
<1> QED BY <1>1, <1>2, <1>4

(* What is behind the schedule of the timed sources.  The first point of a
   Timerange is the first one of its grid that is not in the past; a source that
   sleeps does so until the time of its next value, or is late because of that of an
   earlier one or of listeners; it has given what was due until then, and nothing
   after the bar of a Marble. *)
Gave == [n : Nat \ {0}, at : Nat, through : Nat \cup {None}]
LastGiven == gives[Len(gives)]

OnGrid(t) == (t - (IF script.relative THEN 0 ELSE script.start)) % script.step = 0
NotBefore == IF script.relative THEN begun + script.start - script.step + 1 ELSE script.start
IsFirst(t) ==
    /\ t \in begun .. begun + script.start + script.step
    /\ t >= NotBefore /\ OnGrid(t)
    /\ \A s \in begun .. t - 1 : s >= NotBefore => ~OnGrid(s)

Until(n) == {Timed!Scheduled(j) : j \in 1 .. n}
Given == {gives[k].n : k \in DOMAIN gives}
Before(k) == Until(gives[k].n) \cup (IF k = 1 THEN {} ELSE {gives[k - 1].through})
Timely(k) == gives[k].at \in Before(k) /\ \A t \in Before(k) : t <= gives[k].at

SourceTypes ==
    /\ script \in Sources /\ now \in Nat /\ turn \in Nat \ {0} /\ ended \in BOOLEAN
    /\ task \in {"scheduled", "sleeping", "emitting", "over"}
    /\ begun \in Nat \cup {None} /\ gives \in Seq(Gave)

HasBegun ==
    /\ task = "scheduled" <=> begun = None
    /\ begun = None => gives = <<>> /\ ~ended /\ turn = 1
    /\ begun # None => begun <= now /\ (script.class = "timerange" => IsFirst(point))

OnItsWay ==
    /\ task \in {"sleeping", "emitting"} => Timed!HasMore(begun, point, turn)
    /\ task = "sleeping" =>
          /\ wake = Timed!Scheduled(turn)
          /\ \A t \in Until(turn - 1) : t <= now
          /\ \/ now <= wake \/ now \in Until(turn - 1)
             \/ gives # <<>> /\ now = LastGiven.through
    /\ task = "emitting" =>
          /\ gives # <<>> /\ LastGiven.n = turn /\ ~ended
          /\ \A t \in Until(turn) : t <= now

GivenSoFar ==
    /\ \A k \in DOMAIN gives :
          /\ gives[k].n \in Timed!Due /\ Timely(k)
          /\ k > 1 => gives[k - 1].n < gives[k].n
          /\ \/ gives[k].n < turn /\ gives[k].through \in Nat /\ gives[k].through <= now
             \/ k = Len(gives) /\ task = "emitting"
    /\ begun # None => {n \in Timed!Due : n < turn} \subseteq Given

Barred(n) == \E k \in 1 .. n : script.values[k] = Timed!Bar
EndsRightly ==
    /\ Timed!Marble /\ begun # None /\ ~ended => ~Barred(turn - 1)
    /\ ended /\ task = "sleeping" => Timed!Marble /\ Barred(turn - 1)
    /\ ended /\ ~Timed!Marble => task = "over" /\ Timed!Due = Given

SourceInv ==
    op = "timed" => SourceTypes /\ HasBegun /\ OnItsWay /\ GivenSoFar /\ EndsRightly

LEMMA SourceArguments ==
    ASSUME SourceTypes
    PROVE  /\ script.class \in {"sequence", "times", "timer", "timerange", "marble"}
           /\ script.class \in {"sequence", "times", "marble"} =>
                 Len(script.values) \in Nat /\ DOMAIN script.values = 1 .. Len(script.values)
           /\ script.class \in {"sequence", "timer", "marble"} => script.interval \in Nat
           /\ script.class = "times" => script.times \in Seq(Nat)
           /\ script.class = "timer" => script.count \in Nat \cup {None}
           /\ script.class = "timerange" =>
                 /\ script.relative \in BOOLEAN /\ script.start \in Nat
                 /\ script.end \in Nat \cup {None} /\ script.step \in Nat \ {0}
BY SourcesAssumption DEF SourceTypes

(* There is one first point, and the values of a Timerange are scheduled from it. *)
LEMMA FromFirst ==
    ASSUME SourceTypes, begun \in Nat, script.class = "timerange", IsFirst(point)
    PROVE  point \in Nat /\ point >= begun
           /\ \A n : Timed!Scheduled(n) = point + (n - 1) * script.step
<1> DEFINE c == CHOOSE t \in begun .. begun + script.start + script.step :
                    /\ t >= NotBefore /\ OnGrid(t)
                    /\ \A s \in begun .. t - 1 : s >= NotBefore => ~OnGrid(s)
<1>1. script.start \in Nat /\ script.step \in Nat
  BY SourceArguments
<1>2. \A n : Timed!Scheduled(n) = c + (n - 1) * script.step
  BY DEF Timed!Scheduled, OnGrid, NotBefore
<1>3. IsFirst(c)
  BY DEF IsFirst
<1> HIDE DEF c
<1>4. c \in begun .. begun + script.start + script.step /\ c >= NotBefore /\ OnGrid(c)
      /\ \A s \in begun .. c - 1 : s >= NotBefore => ~OnGrid(s)
  BY <1>3 DEF IsFirst
<1>5. point \in begun .. begun + script.start + script.step /\ point >= NotBefore /\ OnGrid(point)
      /\ \A s \in begun .. point - 1 : s >= NotBefore => ~OnGrid(s)
  BY DEF IsFirst
<1>6. c = point
  <2>1. c \in Int /\ point \in Int /\ c >= begun /\ point >= begun
    BY <1>1, <1>4, <1>5
  <2>2. ~(c < point)
    BY <1>4, <1>5, <2>1
  <2>3. ~(point < c)
    BY <1>4, <1>5, <2>1
  <2> QED BY <2>1, <2>2, <2>3
<1> QED BY <1>1, <1>2, <1>5, <1>6

(* The deadlines are the scheduled times. *)
LEMMA DeadlineIsScheduled ==
    ASSUME SourceTypes, begun \in Nat, script.class = "timerange" => IsFirst(point), NEW i \in Nat \ {0}
    PROVE  Timed!Deadline(begun, point, i) = Timed!Scheduled(i)
<1>1. CASE script.class \in {"sequence", "marble"}
  BY <1>1 DEF Timed!Deadline, Timed!Scheduled
<1>2. CASE script.class = "times"
  BY <1>2 DEF Timed!Deadline, Timed!Scheduled
<1>3. CASE script.class = "timer"
  BY <1>3 DEF Timed!Deadline, Timed!Scheduled
<1>4. CASE script.class = "timerange"
  <2>1. Timed!Deadline(begun, point, i) = point + (i - 1) * script.step
    BY <1>4 DEF Timed!Deadline
  <2> QED BY <1>4, <2>1, FromFirst
<1> QED BY <1>1, <1>2, <1>3, <1>4, SourceArguments

LEMMA WhatIsMore ==
    ASSUME SourceTypes, begun \in Nat, script.class = "timerange" => IsFirst(point), NEW i \in Nat \ {0}
    PROVE  /\ script.class \in {"sequence", "marble"} =>
                 (Timed!HasMore(begun, point, i) <=> i <= Len(script.values))
           /\ script.class = "times" =>
                 (Timed!HasMore(begun, point, i) <=> i <= Len(script.times) /\ i <= Len(script.values))
           /\ script.class = "timer" =>
                 (Timed!HasMore(begun, point, i) <=> script.count = None \/ i <= script.count)
           /\ script.class = "timerange" =>
                 (Timed!HasMore(begun, point, i) <=>
                     script.end = None \/ Timed!Scheduled(i) <=
                         (IF script.relative THEN begun + script.end ELSE script.end))
<1>1. Timed!Deadline(begun, point, i) = Timed!Scheduled(i)
  BY DeadlineIsScheduled
<1> HIDE DEF Timed!Deadline, Timed!Scheduled
<1> QED BY <1>1 DEF Timed!HasMore

LEMMA ScheduledTimes ==
    ASSUME SourceTypes, begun \in Nat, script.class = "timerange" => IsFirst(point), NEW i \in Nat \ {0},
           Timed!HasMore(begun, point, i)
    PROVE  Timed!Scheduled(i) \in Nat /\ Timed!Scheduled(i) >= begun
<1>1. CASE script.class \in {"sequence", "marble"}
  <2>1. Timed!Scheduled(i) = begun + (i - 1) * script.interval
    BY <1>1 DEF Timed!Scheduled
  <2>2. (i - 1) \in Nat /\ script.interval \in Nat
    BY <1>1, SourceArguments
  <2>3. (i - 1) * script.interval \in Nat
    BY <2>2
  <2> QED BY <2>1, <2>3
<1>2. CASE script.class = "times"
  <2>1. Timed!Scheduled(i) = begun + script.times[i]
    BY <1>2 DEF Timed!Scheduled
  <2>2. script.times \in Seq(Nat) /\ i <= Len(script.times)
    BY <1>2, SourceArguments, WhatIsMore
  <2>3. script.times[i] \in Nat
    BY <2>2
  <2> QED BY <2>1, <2>3
<1>3. CASE script.class = "timer"
  <2>1. Timed!Scheduled(i) = begun + i * script.interval
    BY <1>3 DEF Timed!Scheduled
  <2>2. script.interval \in Nat
    BY <1>3, SourceArguments
  <2>3. i * script.interval \in Nat
    BY <2>2
  <2> QED BY <2>1, <2>3
<1>4. CASE script.class = "timerange"
  <2>1. /\ Timed!Scheduled(i) = point + (i - 1) * script.step
        /\ point \in Nat /\ point >= begun
    BY <1>4, FromFirst
  <2>2. i - 1 \in Nat /\ script.step \in Nat
    BY <1>4, SourceArguments
  <2>3. (i - 1) * script.step \in Nat
    BY <2>2
  <2> QED BY <2>1, <2>3
<1> QED BY <1>1, <1>2, <1>3, <1>4, SourceArguments

LEMMA DueOf ==
    ASSUME SourceTypes
    PROVE  /\ script.class = "sequence" => Timed!Due = DOMAIN script.values
           /\ script.class = "times" => Timed!Due = DOMAIN script.values \cap DOMAIN script.times
           /\ script.class = "timer" =>
                 Timed!Due = 1 .. (IF script.count = None THEN MaxTurns ELSE script.count)
           /\ script.class = "marble" =>
                 \A n : n \in Timed!Due <=> /\ n \in DOMAIN script.values
                                           /\ script.values[n] # Timed!Gap
                                           /\ \A k \in 1 .. n : script.values[k] # Timed!Bar
           /\ script.class = "timerange" =>
                 \A n : n \in Timed!Due <=>
                        /\ n \in 1 .. MaxTurns
                        /\ script.end # None => Timed!Scheduled(n) <=
                               (IF script.relative THEN begun + script.end ELSE script.end)
<1>1. script.class = "sequence" => Timed!Due = DOMAIN script.values
  BY DEF Timed!Due
<1>2. script.class = "times" => Timed!Due = DOMAIN script.values \cap DOMAIN script.times
  BY DEF Timed!Due
<1>3. script.class = "timer" =>
                 Timed!Due = 1 .. (IF script.count = None THEN MaxTurns ELSE script.count)
  BY DEF Timed!Due
<1>4. script.class = "marble" =>
                 \A n : n \in Timed!Due <=> /\ n \in DOMAIN script.values
                                           /\ script.values[n] # Timed!Gap
                                           /\ \A k \in 1 .. n : script.values[k] # Timed!Bar
  BY DEF Timed!Due
<1>5. script.class = "timerange" =>
                 \A n : n \in Timed!Due <=>
                        /\ n \in 1 .. MaxTurns
                        /\ script.end # None => Timed!Scheduled(n) <=
                               (IF script.relative THEN begun + script.end ELSE script.end)
  BY DEF Timed!Due
<1> QED BY <1>1, <1>2, <1>3, <1>4, <1>5

LEMMA DueNumbers == ASSUME SourceTypes, NEW n \in Timed!Due PROVE n \in Nat \ {0}
<1>1. CASE script.class \in {"sequence", "times"}
  BY <1>1, DueOf, SourceArguments
<1>2. CASE script.class = "timer"
  <2>1. (IF script.count = None THEN MaxTurns ELSE script.count) \in Nat
    BY <1>2, SourceArguments, BoundAssumption
  <2> QED BY <1>2, <2>1, DueOf
<1>3. CASE script.class = "marble"
  BY <1>3, DueOf, SourceArguments
<1>4. CASE script.class = "timerange"
  BY <1>4, DueOf, BoundAssumption
<1> QED BY <1>1, <1>2, <1>3, <1>4, SourceArguments

(* Once a generator has come to its end, nothing that was due lies ahead. *)
LEMMA NoneAhead ==
    ASSUME SourceTypes, begun \in Nat, script.class = "timerange" => IsFirst(point), NEW i \in Nat \ {0},
           ~Timed!HasMore(begun, point, i), NEW n \in Timed!Due
    PROVE  n < i
<1>0. n \in Nat \ {0}
  BY DueNumbers
<1>1. CASE script.class \in {"sequence", "marble"}
  <2>1. n \in 1 .. Len(script.values) /\ Len(script.values) \in Nat
    BY <1>1, DueOf, SourceArguments
  <2>2. ~(i <= Len(script.values))
    BY <1>1, WhatIsMore
  <2> QED BY <2>1, <2>2
<1>2. CASE script.class = "times"
  <2>1. /\ n \in 1 .. Len(script.values) /\ Len(script.values) \in Nat
        /\ n \in 1 .. Len(script.times) /\ Len(script.times) \in Nat
    BY <1>2, DueOf, SourceArguments
  <2>2. ~(i <= Len(script.times) /\ i <= Len(script.values))
    BY <1>2, WhatIsMore
  <2> QED BY <2>1, <2>2
<1>3. CASE script.class = "timer"
  <2>1. script.count # None /\ ~(i <= script.count)
    BY <1>3, WhatIsMore
  <2>2. script.count \in Nat /\ n \in 1 .. script.count
    BY <1>3, <2>1, DueOf, SourceArguments
  <2> QED BY <2>1, <2>2
<1>4. CASE script.class = "timerange"
  <2> DEFINE e == IF script.relative THEN begun + script.end ELSE script.end
  <2>1. script.end # None /\ ~(Timed!Scheduled(i) <= e)
    BY <1>4, WhatIsMore
  <2>2. Timed!Scheduled(n) <= e
    BY <1>4, <2>1, DueOf
  <2>3. e \in Nat
    BY <1>4, <2>1, SourceArguments
  <2> HIDE DEF e
  <2>4. /\ Timed!Scheduled(n) = point + (n - 1) * script.step
        /\ Timed!Scheduled(i) = point + (i - 1) * script.step
        /\ point \in Nat
    BY <1>4, FromFirst
  <2>5. script.step \in Nat /\ n - 1 \in Int /\ i - 1 \in Int
    BY <1>0, <1>4, SourceArguments
  <2>6. (n - 1) * script.step \in Int /\ (i - 1) * script.step \in Int
    BY <2>5
  <2>7. ASSUME i <= n PROVE FALSE
    <3>1. (i - 1) * script.step <= (n - 1) * script.step
      <4>1. i - 1 <= n - 1
        BY <1>0, <2>7
      <4> QED BY <2>5, <4>1, MoreSteps
    <3> QED BY <2>1, <2>2, <2>3, <2>4, <2>6, <3>1
  <2> QED BY <1>0, <2>7
<1> QED BY <1>1, <1>2, <1>3, <1>4, SourceArguments

(* What holds of a source that has begun, whatever it has given. *)
Schedule ==
    begun # None =>
        /\ Timed!Due \subseteq Nat \ {0}
        /\ \A i \in Nat \ {0} :
              /\ Timed!Deadline(begun, point, i) = Timed!Scheduled(i)
              /\ Timed!HasMore(begun, point, i) =>
                     Timed!Scheduled(i) \in Nat /\ Timed!Scheduled(i) >= begun
              /\ ~Timed!HasMore(begun, point, i) => \A n \in Timed!Due : n < i

LEMMA ScheduleHolds == SourceTypes /\ HasBegun => Schedule
<1> SUFFICES ASSUME SourceTypes, HasBegun, begun # None
             PROVE  /\ Timed!Due \subseteq Nat \ {0}
                    /\ \A i \in Nat \ {0} :
                          /\ Timed!Deadline(begun, point, i) = Timed!Scheduled(i)
                          /\ Timed!HasMore(begun, point, i) =>
                                 Timed!Scheduled(i) \in Nat /\ Timed!Scheduled(i) >= begun
                          /\ ~Timed!HasMore(begun, point, i) => \A n \in Timed!Due : n < i
  BY DEF Schedule
<1>1. begun \in Nat /\ (script.class = "timerange" => IsFirst(point))
  BY DEF SourceTypes, HasBegun
<1>2. Timed!Due \subseteq Nat \ {0}
  BY DueNumbers
<1>3. ASSUME NEW i \in Nat \ {0}
      PROVE  Timed!Deadline(begun, point, i) = Timed!Scheduled(i)
  BY <1>1, DeadlineIsScheduled
<1>4. ASSUME NEW i \in Nat \ {0}, Timed!HasMore(begun, point, i)
      PROVE  Timed!Scheduled(i) \in Nat /\ Timed!Scheduled(i) >= begun
  BY <1>1, <1>4, ScheduledTimes
<1>5. ASSUME NEW i \in Nat \ {0}, ~Timed!HasMore(begun, point, i), NEW n \in Timed!Due
      PROVE  n < i
  BY <1>1, <1>5, NoneAhead
<1> QED BY <1>2, <1>3, <1>4, <1>5

(* A step that leaves script and begun alone leaves what is due and when alone. *)
LEMMA SameSchedule ==
    ASSUME script' = script, begun' = begun
    PROVE  /\ \A n : Timed!Scheduled(n)' = Timed!Scheduled(n)
           /\ \A n : Until(n)' = Until(n)
           /\ Timed!Due' = Timed!Due /\ Timed!Marble' = Timed!Marble
           /\ \A n : Barred(n)' = Barred(n)
<1>1. \A n : Timed!Scheduled(n)' = Timed!Scheduled(n)
  BY DEF Timed!Scheduled
<1>2. \A n : Until(n)' = Until(n)
  BY <1>1 DEF Until
<1>3. Timed!Due' = Timed!Due
  BY DEF Timed!Due, Timed!Scheduled, Timed!Gap, Timed!Bar
<1>4. Timed!Marble' = Timed!Marble /\ \A n : Barred(n)' = Barred(n)
  BY DEF Timed!Marble, Barred, Timed!Bar
<1> QED BY <1>1, <1>2, <1>3, <1>4

LEMMA SameMore ==
    ASSUME script' = script, NEW t0, NEW first, NEW i, begun' = t0, point' = first, turn' = i
    PROVE  /\ Timed!HasMore(begun, point, turn)' = Timed!HasMore(t0, first, i)
           /\ Timed!Deadline(begun, point, turn)' = Timed!Deadline(t0, first, i)
<1>1. Timed!Deadline(begun, point, turn)' = Timed!Deadline(t0, first, i)
  BY DEF Timed!Deadline
<1>2. Timed!HasMore(begun, point, turn)' = Timed!HasMore(t0, first, i)
  BY DEF Timed!HasMore, Timed!Deadline
<1> QED BY <1>1, <1>2

LEMMA SameTimely ==
    ASSUME script' = script, begun' = begun, NEW k, gives'[k].n = gives[k].n, gives'[k].at = gives[k].at,
           k # 1 => gives'[k - 1].through = gives[k - 1].through
    PROVE  Timely(k)' <=> Timely(k)
<1>1. Before(k)' = Before(k)
  BY SameSchedule DEF Before
<1> QED BY <1>1 DEF Timely

LEMMA SourceInit == Init => SourceInv
<1> SUFFICES ASSUME Init, op = "timed"
             PROVE  SourceTypes /\ HasBegun /\ OnItsWay /\ GivenSoFar /\ EndsRightly
  BY DEF SourceInv
<1>1. /\ script \in Sources /\ now = 0 /\ task = "scheduled" /\ begun = None /\ turn = 1
      /\ ended = FALSE /\ gives = <<>>
  BY DEF Init, Timed!Init
<1>2. SourceTypes
  <2>1. gives \in Seq(Gave)
    BY <1>1
  <2>2. now \in Nat /\ turn \in Nat \ {0}
    BY <1>1
  <2>4. ended \in BOOLEAN
    BY <1>1, Zenon
  <2>3. begun \in Nat \cup {None} /\ task \in {"scheduled", "sleeping", "emitting", "over"}
    BY <1>1
  <2> QED BY <1>1, <2>1, <2>2, <2>3, <2>4, Zenon DEF SourceTypes
<1>3. HasBegun /\ OnItsWay /\ EndsRightly
  BY <1>1 DEF HasBegun, OnItsWay, EndsRightly
<1>4. GivenSoFar
  <2>1. DOMAIN gives = {}
    BY <1>1
  <2> QED BY <1>1, <2>1 DEF GivenSoFar
<1> QED BY <1>2, <1>3, <1>4

(* The first point, in the first step of a Timerange. *)
LEMMA FirstPointIsFirst ==
    ASSUME SourceTypes, script' = script, begun' = now, point' = Timed!FirstPoint, script.class = "timerange"
    PROVE  IsFirst(point)'
<1> DEFINE d == script.step
           a == script.start
           b == now
           f == point'
<1>1. /\ script.relative \in BOOLEAN /\ a \in Nat /\ d \in Nat \ {0} /\ b \in Nat
  BY SourceArguments DEF SourceTypes
<1>2. IsFirst(point)' <=>
        /\ f \in b .. b + a + d
        /\ f >= (IF script.relative THEN b + a - d + 1 ELSE a)
        /\ (f - (IF script.relative THEN 0 ELSE a)) % d = 0
        /\ \A s \in b .. f - 1 : s >= (IF script.relative THEN b + a - d + 1 ELSE a)
                                  => (s - (IF script.relative THEN 0 ELSE a)) % d # 0
  BY DEF IsFirst, NotBefore, OnGrid
<1>3. CASE script.relative
  <2> DEFINE t == d * ((b + a) \div d)
  <2>1. f = Ahead(t, b, d)
    BY <1>3 DEF Timed!FirstPoint, Timed!Rounded, Ahead
  <2> HIDE DEF d, a, b, f, t
  <2>2. RoundedDown(t, a, b, d)
    BY DEF t, RoundedDown
  <2>3. /\ f \in b .. b + a + d /\ f >= b + a - d + 1 /\ f % d = 0
        /\ \A s \in b .. f - 1 : s >= b + a - d + 1 => s % d # 0
    BY <1>1, <2>1, <2>2, FirstMultiple
  <2>4. f - 0 = f /\ \A s \in b .. f - 1 : s - 0 = s
    BY <1>1, <2>3
  <2> QED BY <1>2, <1>3, <2>3, <2>4
<1>4. CASE ~script.relative
  <2>1. f = Ahead(a, b, d)
    BY <1>4 DEF Timed!FirstPoint, Ahead
  <2> HIDE DEF d, a, b, f
  <2>2. /\ f \in b .. b + a + d /\ f >= a /\ (f - a) % d = 0
        /\ \A s \in b .. f - 1 : s >= a => (s - a) % d # 0
    BY <1>1, <2>1, FirstFromStart
  <2> QED BY <1>2, <1>4, <2>2
<1> QED BY <1>3, <1>4

LEMMA SourceBegins ==
    ASSUME SourceInv, op = "timed", op' = op, Timed!Begin
    PROVE  SourceInv'
<1>1. /\ SourceTypes /\ HasBegun /\ task = "scheduled" /\ begun' = now /\ turn' = 1
      /\ point' = (IF script.class = "timerange" THEN Timed!FirstPoint ELSE None)
      /\ script' = script /\ now' = now /\ gives' = gives
      /\ ended' = (task' = "over")
  BY DEF SourceInv, Timed!Begin, Timed!Onward, Timed!fixed
<1>2. /\ now \in Nat /\ begun = None /\ gives = <<>> /\ begun' # None /\ begun' \in Nat
  BY <1>1, NoneAssumption DEF SourceTypes, HasBegun
<1>3. Timed!HasMore(begun, point, turn)' = Timed!HasMore(now, point', 1)
      /\ Timed!Deadline(begun, point, turn)' = Timed!Deadline(now, point', 1)
  BY <1>1, SameMore
<1>4. /\ task' = (IF Timed!HasMore(begun, point, turn)' THEN "sleeping" ELSE "over")
      /\ Timed!HasMore(begun, point, turn)' => wake' = Timed!Deadline(begun, point, turn)'
  BY <1>3 DEF Timed!Begin, Timed!Onward
<1>5. SourceTypes'
  <2>1. ended' \in BOOLEAN
    BY <1>1, Zenon
  <2>2. turn' \in Nat \ {0}
    BY <1>1
  <2>3. task' \in {"scheduled", "sleeping", "emitting", "over"}
    BY <1>4
  <2>4. now' \in Nat /\ begun' \in Nat \cup {None} /\ gives' \in Seq(Gave) /\ script' \in Sources
    BY <1>1, <1>2 DEF SourceTypes
  <2> QED BY <2>1, <2>2, <2>3, <2>4 DEF SourceTypes
<1>6. HasBegun'
  <2>1. script'.class = "timerange" => IsFirst(point)'
    BY <1>1, FirstPointIsFirst
  <2>2. task' # "scheduled" /\ begun' <= now'
    BY <1>1, <1>2, <1>4
  <2> QED BY <1>2, <2>1, <2>2 DEF HasBegun
<1>7. Schedule'
  BY <1>5, <1>6, ScheduleHolds, PTL
<1>8. /\ Timed!Due' \subseteq Nat \ {0}
      /\ Timed!Deadline(begun, point, turn)' = Timed!Scheduled(turn)'
      /\ Timed!HasMore(begun, point, turn)' =>
            Timed!Scheduled(turn)' \in Nat /\ Timed!Scheduled(turn)' >= begun'
      /\ ~Timed!HasMore(begun, point, turn)' => \A n \in Timed!Due' : n < turn'
  BY <1>1, <1>2, <1>7 DEF Schedule
<1>9. 1 .. turn' - 1 = {} /\ DOMAIN gives' = {} /\ gives' = <<>>
  BY <1>1, <1>2
<1>10. OnItsWay'
  <2>1. Until(turn - 1)' = {}
    BY <1>9 DEF Until
  <2>2. Timed!HasMore(begun, point, turn)' =>
          wake' = Timed!Scheduled(turn)' /\ now' <= wake'
    BY <1>1, <1>4, <1>8
  <2> QED BY <1>4, <2>1, <2>2 DEF OnItsWay
<1>11. GivenSoFar'
  <2>1. \A n \in Timed!Due' : ~(n < turn')
    BY <1>1, <1>8
  <2> QED BY <1>9, <2>1 DEF GivenSoFar
<1>12. EndsRightly'
  <2>1. ~Barred(turn - 1)'
    BY <1>9 DEF Barred
  <2>2. ended' => task' = "over"
    BY <1>1, Zenon
  <2>3. task' = "over" => Timed!Due' = {}
    BY <1>1, <1>4, <1>8
  <2>4. ended' => task' = "over" /\ Timed!Due' = {}
    BY <2>2, <2>3
  <2>5. Given' = {}
    BY <1>9 DEF Given
  <2> QED BY <2>1, <2>4, <2>5 DEF EndsRightly
<1> QED BY <1>5, <1>6, <1>10, <1>11, <1>12 DEF SourceInv

(* A source that has begun looks at what follows the value it has come to. *)
LEMMA GoesOn ==
    ASSUME SourceTypes, HasBegun, begun # None, script' = script, begun' = begun, point' = point, now' = now,
           Timed!Onward(begun, point, turn + 1)
    PROVE  /\ turn' = turn + 1 /\ turn' - 1 = turn /\ turn' \in Nat \ {0}
           /\ task' \in {"sleeping", "over"} /\ HasBegun'
           /\ task' = "sleeping" =>
                 Timed!HasMore(begun, point, turn)' /\ wake' = Timed!Scheduled(turn)'
           /\ task' = "over" => \A n \in Timed!Due : n < turn'
<1>1. /\ turn' = turn + 1 /\ turn' - 1 = turn /\ turn' \in Nat \ {0}
      /\ task' \in {"sleeping", "over"}
  BY DEF Timed!Onward, SourceTypes
<1>2. HasBegun'
  <2>1. script'.class = "timerange" => IsFirst(point)'
    BY DEF HasBegun, IsFirst, OnGrid, NotBefore
  <2> QED BY <1>1, <2>1 DEF HasBegun
<1>3. Schedule
  BY ScheduleHolds
<1>4. Timed!HasMore(begun, point, turn)' = Timed!HasMore(begun, point, turn + 1)
  BY <1>1, SameMore
<1>5. Timed!Scheduled(turn)' = Timed!Scheduled(turn + 1)
  BY <1>1, SameSchedule
<1>6. task' = "sleeping" => Timed!HasMore(begun, point, turn)' /\ wake' = Timed!Scheduled(turn)'
  <2>1. task' = "sleeping" => Timed!HasMore(begun, point, turn + 1)
                              /\ wake' = Timed!Deadline(begun, point, turn + 1)
    BY DEF Timed!Onward
  <2>2. Timed!Deadline(begun, point, turn + 1) = Timed!Scheduled(turn + 1)
    BY <1>1, <1>3 DEF Schedule
  <2> QED BY <1>4, <1>5, <2>1, <2>2
<1>7. task' = "over" => \A n \in Timed!Due : n < turn'
  <2>1. task' = "over" => ~Timed!HasMore(begun, point, turn + 1)
    BY DEF Timed!Onward
  <2> QED BY <1>1, <1>3, <2>1 DEF Schedule
<1> QED BY <1>1, <1>2, <1>6, <1>7

(* A value that comes out is due. *)
LEMMA PassesDue ==
    ASSUME SourceTypes, HasBegun, EndsRightly, begun # None, task = "sleeping",
           Timed!HasMore(begun, point, turn), turn <= MaxTurns, Timed!Passes
    PROVE  turn \in Timed!Due
<1>0. begun \in Nat /\ (script.class = "timerange" => IsFirst(point)) /\ turn \in Nat \ {0}
  BY DEF SourceTypes, HasBegun
<1>1. CASE script.class = "sequence"
  BY <1>0, <1>1, DueOf, WhatIsMore, SourceArguments
<1>2. CASE script.class = "times"
  <2>1. /\ Len(script.values) \in Nat /\ DOMAIN script.values = 1 .. Len(script.values)
        /\ DOMAIN script.times = 1 .. Len(script.times)
    BY <1>2, SourceArguments
  <2>2. turn <= Len(script.times) /\ turn <= Len(script.values)
    BY <1>0, <1>2, WhatIsMore
  <2> QED BY <1>0, <1>2, <2>1, <2>2, DueOf
<1>3. CASE script.class = "timer"
  <2>1. script.count = None \/ turn <= script.count
    BY <1>0, <1>3, WhatIsMore
  <2> QED BY <1>0, <1>3, <2>1, DueOf
<1>4. CASE script.class = "marble"
  <2>1. turn \in DOMAIN script.values
    BY <1>0, <1>4, WhatIsMore, SourceArguments
  <2>2. Timed!Marble /\ ~ended /\ script.values[turn] \notin {Timed!Gap, Timed!Bar}
    BY <1>4 DEF Timed!Passes, Timed!Marble
  <2>3. ASSUME NEW k \in 1 .. turn PROVE script.values[k] # Timed!Bar
    <3>1. ~Barred(turn - 1)
      BY <2>2 DEF EndsRightly
    <3>2. k = turn \/ k \in 1 .. turn - 1
      BY <1>0
    <3> QED BY <2>2, <3>1, <3>2 DEF Barred
  <2> QED BY <1>4, <2>1, <2>2, <2>3, DueOf
<1>5. CASE script.class = "timerange"
  <2>1. script.end = None \/ Timed!Scheduled(turn) <=
                         (IF script.relative THEN begun + script.end ELSE script.end)
    BY <1>0, <1>5, WhatIsMore
  <2>2. turn \in 1 .. MaxTurns
    BY <1>0, BoundAssumption
  <2> QED BY <1>5, <2>1, <2>2, DueOf
<1> QED BY <1>1, <1>2, <1>3, <1>4, <1>5, SourceArguments

LEMMA SourceWakes ==
    ASSUME SourceInv, op = "timed", op' = op, Timed!Wake, Timed!Passes
    PROVE  SourceInv'
<1>1. /\ SourceTypes /\ HasBegun /\ OnItsWay /\ GivenSoFar /\ EndsRightly
      /\ task = "sleeping" /\ wake <= now /\ turn <= MaxTurns
      /\ gives' = Append(gives, [n |-> turn, at |-> now, through |-> None])
      /\ task' = "emitting" /\ turn' = turn /\ wake' = wake /\ ended' = ended
      /\ script' = script /\ now' = now /\ begun' = begun /\ point' = point
  BY DEF SourceInv, Timed!Wake, Timed!fixed
<1>2. /\ now \in Nat /\ turn \in Nat \ {0} /\ begun # None /\ begun \in Nat /\ gives \in Seq(Gave)
      /\ ended \in BOOLEAN
  BY <1>1 DEF SourceTypes, HasBegun
<1> DEFINE new == [n |-> turn, at |-> now, through |-> None]
<1>3. new \in Gave /\ new.n = turn /\ new.at = now /\ new.through = None
  BY <1>2 DEF Gave
<1> HIDE DEF new
<1>4. /\ gives' \in Seq(Gave) /\ Len(gives') = Len(gives) + 1 /\ Len(gives) \in Nat
      /\ DOMAIN gives' = 1 .. Len(gives) + 1 /\ DOMAIN gives = 1 .. Len(gives)
      /\ \A k \in 1 .. Len(gives) : gives'[k] = gives[k]
      /\ gives'[Len(gives) + 1] = new
  <2>1. gives' = Append(gives, new)
    BY <1>1 DEF new
  <2> QED BY <1>2, <1>3, <2>1
<1>5. /\ Timed!HasMore(begun, point, turn) /\ wake = Timed!Scheduled(turn) /\ wake \in Nat
      /\ \A t \in Until(turn - 1) : t <= now
      /\ \/ now <= wake \/ now \in Until(turn - 1)
         \/ gives # <<>> /\ now = gives[Len(gives)].through
  <2>1. Schedule
    BY <1>1, ScheduleHolds
  <2> QED BY <1>1, <1>2, <2>1 DEF OnItsWay, LastGiven, Schedule
<1>6. turn \in Timed!Due
  BY <1>1, <1>2, <1>5, PassesDue
<1>7. ~ended
  BY DEF Timed!Passes
<1>8. Until(turn) = Until(turn - 1) \cup {Timed!Scheduled(turn)}
  <2>1. 1 .. turn = (1 .. turn - 1) \cup {turn}
    BY <1>2
  <2> QED BY <2>1 DEF Until
<1>9. SourceTypes' /\ HasBegun'
  <2>1. SourceTypes'
    BY <1>1, <1>4 DEF SourceTypes
  <2>2. script'.class = "timerange" => IsFirst(point)'
    BY <1>1, <1>2 DEF HasBegun, IsFirst, OnGrid, NotBefore
  <2> QED BY <1>1, <1>2, <2>1, <2>2 DEF HasBegun
<1>10. OnItsWay'
  <2>1. Timed!HasMore(begun, point, turn)'
    BY <1>1, <1>5, SameMore
  <2>2. gives' # <<>> /\ LastGiven'.n = turn'
    BY <1>1, <1>3, <1>4 DEF LastGiven
  <2>3. Until(turn)' = Until(turn)
    BY <1>1, SameSchedule DEF Until
  <2>4. \A t \in Until(turn) : t <= now
    BY <1>1, <1>5, <1>8
  <2> QED BY <1>1, <1>7, <2>1, <2>2, <2>3, <2>4 DEF OnItsWay
<1>11. GivenSoFar'
  <2>1. Timed!Due' = Timed!Due
    BY <1>1, SameSchedule
  <2>2. ASSUME NEW k \in 1 .. Len(gives)
        PROVE  /\ gives'[k].n \in Timed!Due' /\ Timely(k)'
               /\ k > 1 => gives'[k - 1].n < gives'[k].n
               /\ gives'[k].n < turn' /\ gives'[k].through \in Nat /\ gives'[k].through <= now'
    <3>1. /\ gives[k].n \in Timed!Due /\ Timely(k)
          /\ k > 1 => gives[k - 1].n < gives[k].n
          /\ gives[k].n < turn /\ gives[k].through \in Nat /\ gives[k].through <= now
      BY <1>1, <1>4 DEF GivenSoFar
    <3>2. gives'[k] = gives[k] /\ (k # 1 => gives'[k - 1] = gives[k - 1])
      BY <1>4
    <3>3. Timely(k)'
      BY <1>1, <3>1, <3>2, SameTimely
    <3> QED BY <1>1, <2>1, <3>1, <3>2, <3>3
  <2>3. PICK l \in Nat : l = Len(gives)
    BY <1>4
  <2>4. Timely(l + 1)' /\ (l + 1 > 1 => gives'[l].n < turn)
    <3> DEFINE b == Until(turn) \cup (IF l = 0 THEN {} ELSE {gives[l].through})
    <3>1. l # 0 => gives[l].n < turn /\ gives[l].through \in Nat /\ gives[l].through <= now
      BY <1>1, <1>4, <2>3 DEF GivenSoFar
    <3>2. now \in b /\ \A t \in b : t <= now
      <4>1. gives # <<>> => l # 0
        BY <1>2, <2>3
      <4>2. now \in b
        BY <1>1, <1>2, <1>5, <1>8, <2>3, <4>1
      <4> QED BY <1>1, <1>5, <1>8, <3>1, <4>2
    <3>3. Before(l + 1)' = b
      <4>1. /\ gives'[l + 1].n = turn
            /\ l + 1 = 1 <=> l = 0
            /\ l # 0 => gives'[(l + 1) - 1].through = gives[l].through
        BY <1>3, <1>4, <2>3
      <4>2. Until(gives[l + 1].n)' = Until(turn)
        BY <1>1, <4>1, SameSchedule DEF Until
      <4>3. Before(l + 1)' = Until(gives[l + 1].n)' \cup
                               (IF l + 1 = 1 THEN {} ELSE {gives'[(l + 1) - 1].through})
        BY DEF Before
      <4> QED BY <4>1, <4>2, <4>3
    <3>4. gives'[l + 1].at = now
      BY <1>3, <1>4, <2>3
    <3> HIDE DEF b
    <3>5. Timely(l + 1)'
      BY <3>2, <3>3, <3>4 DEF Timely
    <3> QED BY <1>4, <2>3, <3>1, <3>5
  <2>5. ASSUME NEW k \in DOMAIN gives'
        PROVE  /\ gives'[k].n \in Timed!Due' /\ Timely(k)'
               /\ k > 1 => gives'[k - 1].n < gives'[k].n
               /\ \/ gives'[k].n < turn' /\ gives'[k].through \in Nat /\ gives'[k].through <= now'
                  \/ k = Len(gives') /\ task' = "emitting"
    <3>1. CASE k \in 1 .. Len(gives)
      BY <2>2, <3>1
    <3>2. CASE k = l + 1
      <4>1. gives'[k].n = turn /\ k - 1 = l
        BY <1>3, <1>4, <2>3, <3>2
      <4>2. Timely(k)'
        BY <2>4, <3>2
      <4> QED BY <1>1, <1>4, <1>6, <2>1, <2>3, <2>4, <3>2, <4>1, <4>2
    <3> QED BY <1>4, <2>3, <3>1, <3>2
  <2>6. {n \in Timed!Due' : n < turn'} \subseteq Given'
    <3>1. {n \in Timed!Due : n < turn} \subseteq Given
      BY <1>1, <1>2 DEF GivenSoFar
    <3>2. Given \subseteq Given'
      BY <1>4 DEF Given
    <3> QED BY <1>1, <2>1, <3>1, <3>2
  <2> QED BY <2>5, <2>6 DEF GivenSoFar
<1>12. EndsRightly'
  <2>1. Timed!Marble' = Timed!Marble /\ Barred(turn - 1)' = Barred(turn - 1)
    BY <1>1, SameSchedule DEF Barred
  <2> QED BY <1>1, <1>2, <1>7, <2>1 DEF EndsRightly
<1> QED BY <1>9, <1>10, <1>11, <1>12 DEF SourceInv

(* What a Marble leaves out: gaps, the bar and all that follows it. *)
LEMMA SourceSkips ==
    ASSUME SourceInv, op = "timed", op' = op, Timed!Wake, ~Timed!Passes
    PROVE  SourceInv'
<1>1. /\ SourceTypes /\ HasBegun /\ OnItsWay /\ GivenSoFar /\ EndsRightly
      /\ task = "sleeping" /\ wake <= now /\ turn <= MaxTurns
      /\ Timed!Onward(begun, point, turn + 1)
      /\ ended' = (ended \/ Timed!Stops \/ task' = "over")
      /\ script' = script /\ now' = now /\ begun' = begun /\ point' = point /\ gives' = gives
  BY DEF SourceInv, Timed!Wake, Timed!fixed
<1>2. /\ now \in Nat /\ turn \in Nat \ {0} /\ begun # None /\ begun \in Nat /\ gives \in Seq(Gave)
      /\ ended \in BOOLEAN
  BY <1>1 DEF SourceTypes, HasBegun
<1>3. /\ turn' = turn + 1 /\ turn' - 1 = turn /\ turn' \in Nat \ {0}
      /\ task' \in {"sleeping", "over"} /\ HasBegun'
      /\ task' = "sleeping" => Timed!HasMore(begun, point, turn)' /\ wake' = Timed!Scheduled(turn)'
      /\ task' = "over" => \A n \in Timed!Due : n < turn'
  BY <1>1, <1>2, GoesOn
<1>4. /\ Timed!Due' = Timed!Due /\ Timed!Marble' = Timed!Marble
      /\ \A n : Until(n)' = Until(n)
      /\ \A n : Barred(n)' = Barred(n)
  BY <1>1, SameSchedule
<1>5. /\ wake = Timed!Scheduled(turn) /\ wake \in Nat
      /\ \A t \in Until(turn - 1) : t <= now
      /\ \/ now <= wake \/ now \in Until(turn - 1)
         \/ gives # <<>> /\ now = gives[Len(gives)].through
  <2>1. Schedule
    BY <1>1, ScheduleHolds
  <2> QED BY <1>1, <1>2, <2>1 DEF OnItsWay, LastGiven, Schedule
<1>6. Until(turn) = Until(turn - 1) \cup {Timed!Scheduled(turn)}
  <2>1. 1 .. turn = (1 .. turn - 1) \cup {turn}
    BY <1>2
  <2> QED BY <2>1 DEF Until
<1>7. Timed!Marble /\ (ended \/ script.values[turn] \in {Timed!Gap, Timed!Bar})
      /\ (ended => Barred(turn - 1))
  BY <1>1 DEF Timed!Passes, EndsRightly
<1>8. turn \notin Timed!Due
  <2> SUFFICES ASSUME turn \in Timed!Due PROVE FALSE
    OBVIOUS
  <2>1. /\ script.values[turn] # Timed!Gap
        /\ \A k \in 1 .. turn : script.values[k] # Timed!Bar
    BY <1>1, <1>7, DueOf DEF Timed!Marble
  <2>2. script.values[turn] # Timed!Bar
    BY <1>2, <2>1
  <2>3. PICK k \in 1 .. turn - 1 : script.values[k] = Timed!Bar
    BY <1>7, <2>1, <2>2 DEF Barred
  <2>4. k \in 1 .. turn
    BY <1>2
  <2> QED BY <2>1, <2>3, <2>4
<1>9. SourceTypes'
  <2>1. ended' \in BOOLEAN
    BY <1>1, Zenon
  <2> QED BY <1>1, <1>3, <2>1 DEF SourceTypes
<1>10. OnItsWay'
  <2>1. Until(turn - 1)' = Until(turn)
    BY <1>1, <1>3, SameSchedule DEF Until
  <2>2. (\A t \in Until(turn) : t <= now) /\
        (now \in Until(turn) \/ (gives # <<>> /\ now = gives[Len(gives)].through))
    BY <1>1, <1>2, <1>5, <1>6
  <2> QED BY <1>1, <1>3, <2>1, <2>2 DEF OnItsWay, LastGiven
<1>11. GivenSoFar'
  <2>1. ASSUME NEW k \in DOMAIN gives'
        PROVE  /\ gives'[k].n \in Timed!Due' /\ Timely(k)'
               /\ k > 1 => gives'[k - 1].n < gives'[k].n
               /\ gives'[k].n < turn' /\ gives'[k].through \in Nat /\ gives'[k].through <= now'
    <3>1. /\ gives[k].n \in Timed!Due /\ Timely(k)
          /\ k > 1 => gives[k - 1].n < gives[k].n
          /\ gives[k].n < turn /\ gives[k].through \in Nat /\ gives[k].through <= now
      BY <1>1 DEF GivenSoFar
    <3>2. Timely(k)'
      BY <1>1, <3>1, SameTimely
    <3>3. gives[k].n \in Nat
      BY <1>1, <3>1, DueNumbers
    <3> QED BY <1>1, <1>2, <1>3, <1>4, <3>1, <3>2, <3>3
  <2>2. {n \in Timed!Due : n < turn} \subseteq Given
    BY <1>1, <1>2 DEF GivenSoFar
  <2>3. \A n \in Timed!Due : n < turn + 1 => n < turn
    <3> SUFFICES ASSUME NEW n \in Timed!Due, n < turn + 1 PROVE n < turn
      OBVIOUS
    <3>1. n \in Nat /\ n # turn
      BY <1>1, <1>8, DueNumbers
    <3> QED BY <1>2, <3>1
  <2>4. {n \in Timed!Due' : n < turn'} \subseteq Given'
    BY <1>1, <1>3, <1>4, <2>2, <2>3 DEF Given
  <2> QED BY <2>1, <2>4 DEF GivenSoFar
<1>12. EndsRightly'
  <2>1. Barred(turn - 1)' <=> Barred(turn)
    BY <1>1, <1>3 DEF Barred
  <2>2. Barred(turn) <=> Barred(turn - 1) \/ script.values[turn] = Timed!Bar
    <3>1. \A k : k \in 1 .. turn <=> k \in 1 .. turn - 1 \/ k = turn
      BY <1>2
    <3> QED BY <3>1 DEF Barred
  <2>3. Timed!Stops <=> script.values[turn] = Timed!Bar
    BY <1>7 DEF Timed!Stops
  <2>4. ~ended' => ~Barred(turn)
    BY <1>1, <1>2, <1>7, <2>2, <2>3 DEF EndsRightly
  <2>5. ended' /\ task' = "sleeping" => Barred(turn)
    BY <1>1, <1>7, <2>2, <2>3
  <2> QED BY <1>4, <1>7, <2>1, <2>4, <2>5 DEF EndsRightly
<1> QED BY <1>3, <1>9, <1>10, <1>11, <1>12 DEF SourceInv

LEMMA SourceReturns ==
    ASSUME SourceInv, op = "timed", op' = op, Timed!Return
    PROVE  SourceInv'
<1>1. /\ SourceTypes /\ HasBegun /\ OnItsWay /\ GivenSoFar /\ EndsRightly
      /\ task = "emitting"
      /\ gives' = [gives EXCEPT ![Len(gives)].through = now]
      /\ Timed!Onward(begun, point, turn + 1)
      /\ ended' = (ended \/ task' = "over")
      /\ script' = script /\ now' = now /\ begun' = begun /\ point' = point
  BY DEF SourceInv, Timed!Return, Timed!fixed
<1>2. /\ now \in Nat /\ turn \in Nat \ {0} /\ begun # None /\ begun \in Nat /\ gives \in Seq(Gave)
      /\ gives # <<>> /\ ~ended /\ gives[Len(gives)].n = turn
      /\ \A t \in Until(turn) : t <= now
  BY <1>1 DEF SourceTypes, HasBegun, OnItsWay, LastGiven
<1>3. /\ turn' = turn + 1 /\ turn' - 1 = turn /\ turn' \in Nat \ {0}
      /\ task' \in {"sleeping", "over"} /\ HasBegun'
      /\ task' = "sleeping" => Timed!HasMore(begun, point, turn)' /\ wake' = Timed!Scheduled(turn)'
      /\ task' = "over" => \A n \in Timed!Due : n < turn'
  BY <1>1, <1>2, GoesOn
<1>4. /\ Timed!Due' = Timed!Due /\ Timed!Marble' = Timed!Marble
      /\ \A n : Barred(n)' = Barred(n)
  BY <1>1, SameSchedule
<1>5. PICK l \in Nat \ {0} : l = Len(gives)
  BY <1>2
<1>6. /\ gives' \in Seq(Gave) /\ Len(gives') = l
      /\ DOMAIN gives' = 1 .. l /\ DOMAIN gives = 1 .. l
      /\ \A k \in 1 .. l : /\ gives[k] \in Gave
                            /\ gives'[k].n = gives[k].n /\ gives'[k].at = gives[k].at
                            /\ gives'[k].through = IF k = l THEN now ELSE gives[k].through
  <2>1. gives' = [gives EXCEPT ![l] = [gives[l] EXCEPT !.through = now]]
    BY <1>1, <1>5
  <2>2. gives[l] \in Gave /\ [gives[l] EXCEPT !.through = now] \in Gave
    <3>1. gives[l] \in Gave
      BY <1>2, <1>5
    <3> QED BY <1>2, <3>1 DEF Gave
  <2>3. gives' \in Seq(Gave) /\ Len(gives') = l
        /\ DOMAIN gives' = 1 .. l /\ DOMAIN gives = 1 .. l
        /\ \A k \in 1 .. l : gives[k] \in Gave
    BY <1>2, <1>5, <2>1, <2>2
  <2>4. ASSUME NEW k \in 1 .. l
        PROVE  /\ gives'[k].n = gives[k].n /\ gives'[k].at = gives[k].at
               /\ gives'[k].through = IF k = l THEN now ELSE gives[k].through
    <3>1. CASE k = l
      <4>1. gives'[k] = [gives[l] EXCEPT !.through = now]
        BY <2>1, <2>3, <3>1
      <4> QED BY <2>2, <3>1, <4>1 DEF Gave
    <3>2. CASE k # l
      <4>1. gives'[k] = gives[k]
        BY <2>1, <2>3, <3>2
      <4> QED BY <3>2, <4>1
    <3> QED BY <3>1, <3>2
  <2> QED BY <2>3, <2>4
<1>7. SourceTypes'
  <2>1. ended' \in BOOLEAN
    BY <1>1, Zenon
  <2> QED BY <1>1, <1>3, <1>6, <2>1 DEF SourceTypes
<1>8. OnItsWay'
  <2>1. Until(turn - 1)' = Until(turn)
    BY <1>1, <1>3, SameSchedule DEF Until
  <2>2. gives' # <<>> /\ gives'[Len(gives')].through = now
    BY <1>5, <1>6
  <2> QED BY <1>1, <1>2, <1>3, <2>1, <2>2 DEF OnItsWay, LastGiven
<1>9. Given' = Given
  BY <1>6 DEF Given
<1>10. GivenSoFar'
  <2>1. ASSUME NEW k \in DOMAIN gives'
        PROVE  /\ gives'[k].n \in Timed!Due' /\ Timely(k)'
               /\ k > 1 => gives'[k - 1].n < gives'[k].n
               /\ gives'[k].n < turn' /\ gives'[k].through \in Nat /\ gives'[k].through <= now'
    <3>1. /\ gives[k].n \in Timed!Due /\ Timely(k)
          /\ k > 1 => gives[k - 1].n < gives[k].n
          /\ (gives[k].n < turn /\ gives[k].through \in Nat /\ gives[k].through <= now) \/ k = l
      BY <1>1, <1>5, <1>6 DEF GivenSoFar
    <3>2. /\ k \in 1 .. l /\ (k # 1 => k - 1 \in 1 .. l /\ k - 1 # l)
      BY <1>6
    <3>3. Timely(k)'
      BY <1>1, <1>6, <3>1, <3>2, SameTimely
    <3>4. gives[k].n \in Nat
      BY <1>1, <3>1, DueNumbers
    <3>5. k > 1 => gives'[k - 1].n < gives'[k].n
      BY <1>6, <3>1, <3>2
    <3>6. gives'[k].n < turn' /\ gives'[k].through \in Nat /\ gives'[k].through <= now'
      BY <1>1, <1>2, <1>3, <1>5, <1>6, <3>1, <3>2, <3>4
    <3> QED BY <1>4, <1>6, <3>1, <3>2, <3>3, <3>5, <3>6
  <2>2. {n \in Timed!Due : n < turn} \subseteq Given
    BY <1>1, <1>2 DEF GivenSoFar
  <2>3. turn \in Given
    BY <1>2, <1>5, <1>6 DEF Given
  <2>4. \A n \in Timed!Due : n < turn + 1 => n < turn \/ n = turn
    <3> SUFFICES ASSUME NEW n \in Timed!Due, n < turn + 1 PROVE n < turn \/ n = turn
      OBVIOUS
    <3>1. n \in Nat
      BY <1>1, DueNumbers
    <3> QED BY <1>2, <3>1
  <2>5. {n \in Timed!Due' : n < turn'} \subseteq Given'
    BY <1>3, <1>4, <1>9, <2>2, <2>3, <2>4
  <2> QED BY <2>1, <2>5 DEF GivenSoFar
<1>11. EndsRightly'
  <2>1. Barred(turn - 1)' <=> Barred(turn)
    BY <1>1, <1>3 DEF Barred
  <2>2. Timed!Marble => ~Barred(turn)
    <3>1. turn \in Timed!Due
      <4>1. l \in DOMAIN gives
        BY <1>6
      <4> QED BY <1>1, <1>2, <1>5, <4>1 DEF GivenSoFar
    <3> QED BY <1>1, <3>1, DueOf DEF Timed!Marble, Barred
  <2>3. ended' => task' = "over"
    BY <1>1, <1>2, Zenon
  <2>4. task' = "over" => Timed!Due' = Given'
    <3>1. Given' \subseteq Timed!Due'
      BY <1>10 DEF GivenSoFar, Given
    <3>2. begun' # None
      BY <1>1, <1>2
    <3>3. task' = "over" => Timed!Due' \subseteq Given'
      BY <1>3, <1>4, <1>10, <3>2 DEF GivenSoFar
    <3> QED BY <3>1, <3>3
  <2> QED BY <1>4, <2>1, <2>2, <2>3, <2>4 DEF EndsRightly
<1> QED BY <1>3, <1>7, <1>8, <1>10, <1>11 DEF SourceInv

(* The values before one that is still to come have their times too. *)
LEMMA ScheduledBefore ==
    ASSUME SourceTypes, HasBegun, OnItsWay, task \in {"sleeping", "emitting"}
    PROVE  \A t \in Until(turn) : t \in Nat
<1>1. /\ begun \in Nat /\ (script.class = "timerange" => IsFirst(point)) /\ turn \in Nat \ {0}
      /\ Timed!HasMore(begun, point, turn)
  BY DEF SourceTypes, HasBegun, OnItsWay
<1>2. ASSUME NEW j \in 1 .. turn PROVE Timed!Scheduled(j) \in Nat
  <2>1. j \in Nat \ {0} /\ j <= turn
    BY <1>1
  <2>2. CASE script.class = "timerange"
    <3>1. Timed!Scheduled(j) = point + (j - 1) * script.step /\ point \in Nat
      BY <1>1, <2>2, FromFirst
    <3>2. j - 1 \in Nat /\ script.step \in Nat
      BY <2>1, <2>2, SourceArguments
    <3>3. (j - 1) * script.step \in Nat
      BY <3>2
    <3> QED BY <3>1, <3>3
  <2>3. CASE script.class \in {"sequence", "marble", "times", "timer"}
    <3>1. Timed!HasMore(begun, point, j)
      <4>1. CASE script.class \in {"sequence", "marble"}
        <5>1. turn <= Len(script.values) /\ Len(script.values) \in Nat
          BY <1>1, <4>1, WhatIsMore, SourceArguments
        <5>2. j <= Len(script.values)
          BY <1>1, <2>1, <5>1
        <5> QED BY <1>1, <2>1, <4>1, <5>2, WhatIsMore
      <4>2. CASE script.class = "times"
        <5>1. /\ turn <= Len(script.values) /\ Len(script.values) \in Nat
              /\ turn <= Len(script.times) /\ Len(script.times) \in Nat
          BY <1>1, <4>2, WhatIsMore, SourceArguments
        <5>2. j <= Len(script.values) /\ j <= Len(script.times)
          BY <1>1, <2>1, <5>1
        <5> QED BY <1>1, <2>1, <4>2, <5>2, WhatIsMore
      <4>3. CASE script.class = "timer"
        <5>1. script.count = None \/ turn <= script.count
          BY <1>1, <4>3, WhatIsMore
        <5>2. script.count = None \/ j <= script.count
          BY <1>1, <2>1, <4>3, <5>1, SourceArguments
        <5> QED BY <1>1, <2>1, <4>3, <5>2, WhatIsMore
      <4> QED BY <2>3, <4>1, <4>2, <4>3
    <3> QED BY <1>1, <2>1, <3>1, ScheduledTimes
  <2> QED BY <2>2, <2>3, SourceArguments
<1> QED BY <1>2 DEF Until

LEMMA SourceTicks ==
    ASSUME SourceInv, op = "timed", op' = op, Timed!Tick
    PROVE  SourceInv'
<1>1. /\ SourceTypes /\ HasBegun /\ OnItsWay /\ GivenSoFar /\ EndsRightly
      /\ task = "sleeping" => wake > now
      /\ now' = now + 1 /\ script' = script /\ begun' = begun /\ point' = point /\ gives' = gives
      /\ task' = task /\ turn' = turn /\ wake' = wake /\ ended' = ended
  BY DEF SourceInv, Timed!Tick, Timed!fixed
<1>2. /\ now \in Nat /\ turn \in Nat \ {0} /\ begun \in Nat \cup {None} /\ gives \in Seq(Gave)
  BY <1>1 DEF SourceTypes
<1>3. /\ Timed!Due' = Timed!Due /\ Timed!Marble' = Timed!Marble
      /\ Given' = Given
      /\ Until(turn - 1)' = Until(turn - 1) /\ Until(turn)' = Until(turn)
      /\ Barred(turn - 1)' = Barred(turn - 1)
      /\ Timed!Scheduled(turn)' = Timed!Scheduled(turn)
  <2>1. Given' = Given
    BY <1>1 DEF Given
  <2>2. /\ Until(turn - 1)' = Until(turn - 1) /\ Until(turn)' = Until(turn)
    BY <1>1, SameSchedule DEF Until
  <2>3. Barred(turn - 1)' = Barred(turn - 1)
    BY <1>1, SameSchedule DEF Barred
  <2> QED BY <1>1, <2>1, <2>2, <2>3, SameSchedule
<1>4. SourceTypes'
  BY <1>1, <1>2 DEF SourceTypes
<1>5. HasBegun'
  <2>1. IsFirst(point)' <=> IsFirst(point)
    BY <1>1 DEF IsFirst, OnGrid, NotBefore
  <2>2. begun # None => begun <= now'
    BY <1>1, <1>2 DEF HasBegun
  <2> QED BY <1>1, <2>1, <2>2 DEF HasBegun
<1>6. OnItsWay'
  <2>1. ASSUME task \in {"sleeping", "emitting"}
        PROVE  /\ Timed!HasMore(begun, point, turn)' /\ begun # None
    BY <1>1, <2>1, SameMore DEF OnItsWay, HasBegun
  <2>2. ASSUME task = "sleeping"
        PROVE  /\ wake' = Timed!Scheduled(turn)' /\ now' <= wake'
               /\ \A t \in Until(turn - 1) : t <= now'
    <3>1. wake = Timed!Scheduled(turn) /\ wake \in Nat
      <4>1. Schedule
        BY <1>1, ScheduleHolds
      <4> QED BY <1>1, <1>2, <2>1, <2>2, <4>1 DEF OnItsWay, Schedule
    <3>2. \A t \in Until(turn - 1) : t <= now + 1
      <4> SUFFICES ASSUME NEW t \in Until(turn - 1) PROVE t <= now + 1
        OBVIOUS
      <4>1. t <= now
        BY <1>1, <2>2 DEF OnItsWay
      <4>2. t \in Until(turn)
        BY <1>2 DEF Until
      <4>3. t \in Nat
        BY <1>1, <2>2, <4>2, ScheduledBefore
      <4> QED BY <1>2, <4>1, <4>3
    <3> QED BY <1>1, <1>2, <1>3, <2>2, <3>1, <3>2
  <2>3. ASSUME task = "emitting"
        PROVE  \A t \in Until(turn) : t <= now'
    <3> SUFFICES ASSUME NEW t \in Until(turn) PROVE t <= now + 1
      BY <1>1
    <3>1. t <= now
      BY <1>1, <2>3 DEF OnItsWay
    <3>2. t \in Nat
      BY <1>1, <2>3, ScheduledBefore
    <3> QED BY <1>2, <3>1, <3>2
  <2>4. LastGiven' = LastGiven
    BY <1>1 DEF LastGiven
  <2> QED BY <1>1, <1>3, <2>1, <2>2, <2>3, <2>4 DEF OnItsWay
<1>7. GivenSoFar'
  <2>1. ASSUME NEW k \in DOMAIN gives'
        PROVE  /\ gives'[k].n \in Timed!Due' /\ Timely(k)'
               /\ k > 1 => gives'[k - 1].n < gives'[k].n
               /\ \/ gives'[k].n < turn' /\ gives'[k].through \in Nat /\ gives'[k].through <= now'
                  \/ k = Len(gives') /\ task' = "emitting"
    <3>1. /\ gives[k].n \in Timed!Due /\ Timely(k)
          /\ k > 1 => gives[k - 1].n < gives[k].n
          /\ \/ gives[k].n < turn /\ gives[k].through \in Nat /\ gives[k].through <= now
             \/ k = Len(gives) /\ task = "emitting"
      BY <1>1 DEF GivenSoFar
    <3>2. Timely(k)'
      BY <1>1, <3>1, SameTimely
    <3> QED BY <1>1, <1>2, <1>3, <3>1, <3>2
  <2>2. begun' # None => {n \in Timed!Due' : n < turn'} \subseteq Given'
    BY <1>1, <1>3 DEF GivenSoFar
  <2> QED BY <2>1, <2>2 DEF GivenSoFar
<1>8. EndsRightly'
  BY <1>1, <1>3 DEF EndsRightly
<1> QED BY <1>4, <1>5, <1>6, <1>7, <1>8 DEF SourceInv

LEMMA SourceStays ==
    ASSUME SourceInv, op = "timed", op' = op,
           UNCHANGED <<now, ended, script, task, begun, point, turn, wake, gives>>
    PROVE  SourceInv'
<1>1. /\ SourceTypes' <=> SourceTypes
      /\ HasBegun' <=> HasBegun
  BY DEF SourceTypes, HasBegun, IsFirst, OnGrid, NotBefore
<1>2. Timed!HasMore(begun, point, turn)' = Timed!HasMore(begun, point, turn)
  BY SameMore
<1>3. /\ Timed!Due' = Timed!Due /\ Timed!Marble' = Timed!Marble /\ Given' = Given
      /\ Until(turn - 1)' = Until(turn - 1) /\ Until(turn)' = Until(turn)
      /\ Barred(turn - 1)' = Barred(turn - 1)
      /\ Timed!Scheduled(turn)' = Timed!Scheduled(turn)
      /\ LastGiven' = LastGiven
  <2>1. Given' = Given /\ LastGiven' = LastGiven
    BY DEF Given, LastGiven
  <2>2. /\ Until(turn - 1)' = Until(turn - 1) /\ Until(turn)' = Until(turn)
    BY SameSchedule DEF Until
  <2>3. Barred(turn - 1)' = Barred(turn - 1)
    BY SameSchedule DEF Barred
  <2> QED BY <2>1, <2>2, <2>3, SameSchedule
<1>4. \A k : Timely(k)' <=> Timely(k)
  BY SameTimely
<1>5. OnItsWay' <=> OnItsWay
  BY <1>2, <1>3 DEF OnItsWay
<1>6. GivenSoFar' <=> GivenSoFar
  BY <1>3, <1>4 DEF GivenSoFar
<1>7. EndsRightly' <=> EndsRightly
  BY <1>3 DEF EndsRightly
<1> QED BY <1>1, <1>5, <1>6, <1>7 DEF SourceInv

LEMMA SourceNext == SourceInv /\ [Next]_vars => SourceInv'
<1> SUFFICES ASSUME SourceInv, [Next]_vars PROVE SourceInv'
  OBVIOUS
<1>1. op' = op
  BY DEF Next, Of, vars
<1>2. CASE op # "timed"
  BY <1>1, <1>2 DEF SourceInv
<1>3. CASE op = "timed" /\ Next
  <2>1. Timed!Next
    BY <1>1, <1>3 DEF Next, Of
  <2>2. CASE Timed!Begin
    BY <1>1, <1>3, <2>2, SourceBegins
  <2>3. CASE Timed!Wake
    BY <1>1, <1>3, <2>3, SourceWakes, SourceSkips
  <2>4. CASE Timed!Return
    BY <1>1, <1>3, <2>4, SourceReturns
  <2>5. CASE Timed!Tick
    BY <1>1, <1>3, <2>5, SourceTicks
  <2> QED BY <2>1, <2>2, <2>3, <2>4, <2>5 DEF Timed!Next, Timed!Step
<1>4. CASE op = "timed" /\ UNCHANGED vars
  BY <1>1, <1>4, SourceStays DEF vars, onlyTimed
<1> QED BY <1>1, <1>2, <1>3, <1>4

LEMMA SourceInvariant == Spec => []SourceInv
<1> QED BY SourceInit, SourceNext, PTL DEF Spec

(* Timed sources give all that is due, each value at its time, or at once if its
   turn comes late, whatever their arguments, whenever they are started and however
   slow listeners are, and end after the last. *)
THEOREM SourcesAreOnSchedule == Spec => []OnSchedule
<1>1. SourceInv => OnSchedule
  <2> SUFFICES ASSUME SourceInv, op = "timed" PROVE Timed!OnSchedule
    BY DEF OnSchedule
  <2>1. GivenSoFar /\ EndsRightly
    BY DEF SourceInv
  <2>2. ASSUME NEW k \in DOMAIN gives
        PROVE  /\ gives[k].n \in Timed!Due /\ (k > 1 => gives[k - 1].n < gives[k].n)
               /\ gives[k].at \in Before(k) /\ \A t \in Before(k) : t <= gives[k].at
    BY <2>1 DEF GivenSoFar, Timely
  <2>3. begun # None => {n \in Timed!Due : n < turn} \subseteq Given
    BY <2>1 DEF GivenSoFar
  <2>4. ended /\ ~Timed!Marble => Timed!Due = Given
    BY <2>1 DEF EndsRightly
  <2> HIDE DEF Timed!Due
  <2> QED BY <2>2, <2>3, <2>4 DEF Timed!OnSchedule, Before, Until, Given
<1> QED BY <1>1, SourceInvariant, PTL
=============================================================================
