---------------------------- MODULE EventProofs ----------------------------
(***************************************************************************)
(* Event and its slots, proved for every set of objects, functions and     *)
(* listeners, every bound and both ways of collecting garbage: first the   *)
(* emit loop; then Event implements Broadcast, which is to say that every  *)
(* step of slots, weak references and snapshots is a step of the bags of   *)
(* subscribers, or none, for all listeners of which no plain function is   *)
(* also that of a method (the code takes the two for each other when it    *)
(* disconnects).                                                           *)
(***************************************************************************)
EXTENDS SlotList, Integers, SequenceLemmas, SequenceTheorems, FiniteSetTheorems, TLAPS

(* Pushing a frame, popping one, and changing the innermost one. *)
LEMMA Push ==
    ASSUME NEW S, NEW q \in Seq(S), NEW x \in S
    PROVE  /\ Append(q, x) \in Seq(S)
           /\ DOMAIN Append(q, x) = DOMAIN q \cup {Len(q) + 1}
           /\ \A i \in DOMAIN q : Append(q, x)[i] = q[i]
           /\ Append(q, x)[Len(q) + 1] = x
           /\ Len(q) + 1 \notin DOMAIN q
OBVIOUS

LEMMA Pop ==
    ASSUME NEW S, NEW q \in Seq(S), q # <<>>
    PROVE  /\ SubSeq(q, 1, Len(q) - 1) \in Seq(S)
           /\ DOMAIN SubSeq(q, 1, Len(q) - 1) \subseteq DOMAIN q
           /\ \A i \in DOMAIN SubSeq(q, 1, Len(q) - 1) : SubSeq(q, 1, Len(q) - 1)[i] = q[i]
           /\ Len(SubSeq(q, 1, Len(q) - 1)) = Len(q) - 1
           /\ Len(q) \in DOMAIN q
<1>1. Len(q) \in Nat /\ Len(q) # 0 /\ DOMAIN q = 1 .. Len(q)
  OBVIOUS
<1>2. /\ SubSeq(q, 1, Len(q) - 1) \in Seq(S)
      /\ Len(SubSeq(q, 1, Len(q) - 1)) = Len(q) - 1
      /\ \A i \in 1 .. Len(q) - 1 : SubSeq(q, 1, Len(q) - 1)[i] = q[i]
  BY <1>1, SubSeqProperties
<1>3. DOMAIN SubSeq(q, 1, Len(q) - 1) = 1 .. Len(q) - 1
  BY <1>2
<1> QED
  BY <1>1, <1>2, <1>3

LEMMA Change ==
    ASSUME NEW S, NEW q \in Seq(S), NEW n \in DOMAIN q, NEW x \in S
    PROVE  /\ [q EXCEPT ![n] = x] \in Seq(S)
           /\ DOMAIN [q EXCEPT ![n] = x] = DOMAIN q
           /\ Len([q EXCEPT ![n] = x]) = Len(q)
           /\ [q EXCEPT ![n] = x][n] = x
           /\ \A i \in DOMAIN q \ {n} : [q EXCEPT ![n] = x][i] = q[i]
OBVIOUS

(* What connecting and disconnecting does to the slots of a channel. *)
LEMMA NewSlotType ==
    ASSUME TypeOK, conns < MaxConn, NEW l \in Listener, NEW k \in BOOLEAN
    PROVE  NewSlot(conns + 1, l, k) \in Slot /\ NewSlot(conns + 1, l, k).at = conns + 1
BY ListenerAssumption, MaxConnAssumption DEF TypeOK, NewSlot, Slot, ConnId

LEMMA WhoListens ==
    ASSUME NEW who \in Who
    PROVE  \A c \in DOMAIN who : who[c] \in Listener
BY WhoAssumption

LEMMA FrameType ==
    ASSUME TypeOK, NEW i \in DOMAIN stack
    PROVE  /\ stack[i] \in Frame
           /\ \A s \in stack[i].snap \cup stack[i].rest : s \in Slot /\ s.at \in ConnId
<1>1. stack[i] \in Frame
  BY DEF TypeOK
<1> QED
  BY <1>1 DEF Frame, Slot

(* Taking slots away disturbs nothing. *)
LEMMA FewerSlots ==
    ASSUME EmitInv,
           slots' \in [Chan -> SUBSET Slot],
           \A c \in Chan : slots'[c] \subseteq slots[c],
           UNCHANGED <<done, hasDone, subDone, alive, stack, conns, emits, doneCalls>>
    PROVE  EmitInv'
<1>1. TypeOK'
  BY DEF EmitInv, TypeOK
<1>2. SlotsNumbered'
  BY DEF EmitInv, SlotsNumbered, Numbered
<1>3. UNCHANGED FramesNumbered /\ UNCHANGED ConnectionOrder /\ UNCHANGED SnapshotDelivered
  BY DEF FramesNumbered, Numbered, ConnectionOrder, SnapshotDelivered
<1>4. UNCHANGED NoDeadListenerRuns /\ UNCHANGED OneDoneEmit /\ UNCHANGED DoneOnce
  BY DEF NoDeadListenerRuns, OneDoneEmit, DoneOnce, DoneFrame
<1> QED
  BY <1>1, <1>2, <1>3, <1>4 DEF EmitInv

LEMMA InitInv == Init => EmitInv
<1> SUFFICES ASSUME Init PROVE EmitInv
  OBVIOUS
<1>1. TypeOK
  <2>1. slots \in [Chan -> SUBSET Slot] /\ stack \in Seq(Frame)
    BY DEF Init
  <2>2. conns \in 0 .. MaxConn /\ emits \in 0 .. MaxEmit
    BY MaxConnAssumption, BoundAssumption DEF Init
  <2>3. doneCalls \in [ConnId -> Nat]
    BY DEF Init
  <2> QED
    BY <2>1, <2>2, <2>3 DEF Init, TypeOK
<1>2. SlotsNumbered /\ FramesNumbered /\ ConnectionOrder /\ SnapshotDelivered
  BY DEF Init, SlotsNumbered, Numbered, FramesNumbered, ConnectionOrder, SnapshotDelivered
<1>3. NoDeadListenerRuns /\ OneDoneEmit /\ DoneOnce
  BY DEF Init, NoDeadListenerRuns, OneDoneEmit, DoneOnce, DoneFrame
<1> QED
  BY <1>1, <1>2, <1>3 DEF EmitInv

LEMMA ConnectInv ==
    ASSUME EmitInv, NEW who \in Who, NEW keep \in BOOLEAN, Connect(who, keep)
    PROVE  EmitInv'
<1>1. conns \in 0 .. MaxConn /\ conns < MaxConn /\ conns' = conns + 1
  BY DEF EmitInv, TypeOK, Connect
<1>2. \A c \in Chan : \/ slots'[c] = slots[c]
                     \/ \E n \in Slot : n.at = conns + 1 /\ slots'[c] = slots[c] \cup {n}
  <2> SUFFICES ASSUME NEW c \in Chan, c \in DOMAIN who
               PROVE  \E n \in Slot : n.at = conns + 1 /\ slots'[c] = slots[c] \cup {n}
    BY DEF Connect
  <2>1. PICK k \in BOOLEAN : slots'[c] = slots[c] \cup {NewSlot(conns + 1, who[c], k)}
    BY DEF Connect
  <2>2. who[c] \in Listener
    BY WhoListens
  <2> QED
    BY <1>1, <2>1, <2>2, NewSlotType DEF EmitInv
<1>4. TypeOK'
  <2>1. slots' \in [Chan -> SUBSET Slot]
    <3>1. slots' = [c \in Chan |-> slots'[c]]
      BY DEF Connect
    <3>2. \A c \in Chan : slots'[c] \in SUBSET Slot
      BY <1>2 DEF EmitInv, TypeOK
    <3> QED
      BY <3>1, <3>2
  <2>2. hasDone' \in BOOLEAN /\ subDone' \in BOOLEAN
    BY DEF Connect, CreatedSubDone, EmitInv, TypeOK
  <2>3. conns' \in 0 .. MaxConn
    BY <1>1, MaxConnAssumption
  <2> QED
    BY <2>1, <2>2, <2>3 DEF Connect, EmitInv, TypeOK
<1>5. SlotsNumbered'
  <2> SUFFICES ASSUME NEW c \in Chan PROVE Numbered(slots[c])'
    BY DEF SlotsNumbered, Numbered
  <2>1. \A s \in slots[c] : /\ s.at <= conns /\ s.at \in Nat
                          /\ \A t \in slots[c] : s.at = t.at => s = t
    BY DEF EmitInv, TypeOK, SlotsNumbered, Numbered, Slot, ConnId
  <2>2. CASE slots'[c] = slots[c]
    BY <1>1, <2>1, <2>2 DEF Numbered
  <2>3. CASE \E n \in Slot : n.at = conns + 1 /\ slots'[c] = slots[c] \cup {n}
    BY <1>1, <2>1, <2>3 DEF Numbered
  <2> QED
    BY <1>2, <2>2, <2>3
<1>6. FramesNumbered'
  <2>1. \A i \in DOMAIN stack : \A s \in stack[i].snap : s.at \in Nat
    BY FrameType DEF EmitInv, ConnId
  <2> QED
    BY <1>1, <2>1 DEF Connect, EmitInv, FramesNumbered, Numbered
<1>7. UNCHANGED ConnectionOrder /\ UNCHANGED SnapshotDelivered /\ UNCHANGED NoDeadListenerRuns
  BY DEF Connect, ConnectionOrder, SnapshotDelivered, NoDeadListenerRuns
<1>8. UNCHANGED OneDoneEmit /\ UNCHANGED DoneOnce
  BY DEF Connect, OneDoneEmit, DoneOnce, DoneFrame
<1> QED
  BY <1>4, <1>5, <1>6, <1>7, <1>8 DEF EmitInv

LEMMA DisconnectInv ==
    ASSUME EmitInv,
           \/ \E who \in Who, every \in BOOLEAN : Disconnect(who, every)
           \/ \E o \in Obj : DisconnectObj(o)
           \/ Clear
           \/ \E o \in Obj : OnFinalize(o)
    PROVE  EmitInv'
<1>1. slots \in [Chan -> SUBSET Slot]
  BY DEF EmitInv, TypeOK
<1>2. /\ slots' \in [Chan -> SUBSET Slot]
      /\ \A c \in Chan : slots'[c] \subseteq slots[c]
      /\ UNCHANGED <<done, hasDone, subDone, alive, stack, conns, emits, doneCalls>>
  <2>1. ASSUME NEW who \in Who, NEW every \in BOOLEAN, Disconnect(who, every)
        PROVE  <1>2
    BY <1>1, <2>1 DEF Disconnect, RemoveEvery, RemoveOne
  <2>2. ASSUME NEW o \in Obj, DisconnectObj(o) PROVE <1>2
    BY <1>1, <2>2 DEF DisconnectObj, RemoveObj
  <2>3. CASE Clear
    BY <1>1, <2>3 DEF Clear, Chan
  <2>4. ASSUME NEW o \in Obj, OnFinalize(o) PROVE <1>2
    BY <1>1, <2>4 DEF OnFinalize, WithoutRef, RemoveRef
  <2> QED
    BY <2>1, <2>2, <2>3, <2>4
<1> QED
  BY <1>2, FewerSlots

(* An emit begins with a copy of slots that are connected. *)
LEMMA NewFrameType ==
    ASSUME TypeOK, NEW c \in Chan, NEW r \in BOOLEAN
    PROVE  NewFrame(c, r) \in Frame
BY DEF TypeOK, NewFrame, Frame

(* An emit of any channel but "done" begins. *)
LEMMA PushInv ==
    ASSUME EmitInv, NEW c \in Chan \ {"done"}, NEW r \in BOOLEAN,
           stack' = Append(stack, NewFrame(c, r)),
           emits' \in 0 .. MaxEmit,
           UNCHANGED <<slots, done, hasDone, subDone, alive, conns, doneCalls>>
    PROVE  EmitInv'
<1> DEFINE n == Len(stack) + 1
<1>1. NewFrame(c, r) \in Frame
  BY NewFrameType DEF EmitInv
<1>2. /\ stack' \in Seq(Frame)
      /\ DOMAIN stack' = DOMAIN stack \cup {n} /\ n \notin DOMAIN stack
      /\ \A i \in DOMAIN stack : stack'[i] = stack[i]
      /\ stack'[n] = NewFrame(c, r)
  BY <1>1, Push DEF EmitInv, TypeOK
<1> HIDE DEF n
<1>3. TypeOK'
  BY <1>2 DEF EmitInv, TypeOK
<1>4. SlotsNumbered'
  BY DEF EmitInv, SlotsNumbered, Numbered
<1>5. FramesNumbered'
  BY <1>2 DEF EmitInv, FramesNumbered, SlotsNumbered, Numbered, NewFrame
<1>6. ConnectionOrder'
  BY <1>2 DEF EmitInv, ConnectionOrder, NewFrame
<1>7. SnapshotDelivered'
  BY <1>2 DEF EmitInv, SnapshotDelivered, NewFrame
<1>8. NoDeadListenerRuns'
  BY <1>2 DEF EmitInv, NoDeadListenerRuns, NewFrame
<1>9. OneDoneEmit'
  BY <1>2 DEF EmitInv, OneDoneEmit, DoneFrame, NewFrame
<1>10. DoneOnce'
  BY DEF EmitInv, DoneOnce
<1> QED
  BY <1>3, <1>4, <1>5, <1>6, <1>7, <1>8, <1>9, <1>10 DEF EmitInv

LEMMA EmitActionInv ==
    ASSUME EmitInv, NEW c \in Chan, Emit(c)
    PROVE  EmitInv'
<1>1. emits' \in 0 .. MaxEmit
  BY BoundAssumption DEF Emit, EmitInv, TypeOK
<1> QED
  BY <1>1, PushInv DEF Emit

(* The event ends: no done frame existed, and nobody has heard of the end. *)
LEMMA SetDoneInv ==
    ASSUME EmitInv, SetDone
    PROVE  EmitInv'
<1> DEFINE n == Len(stack) + 1
<1>1. /\ ~done /\ done' = TRUE
      /\ \A i \in DOMAIN stack : ~DoneFrame(i)
      /\ \A a \in ConnId : doneCalls[a] = 0
  BY DEF EmitInv, TypeOK, OneDoneEmit, DoneOnce, SetDone
<1>2. CASE hasDone
  <2> DEFINE F == NewFrame("done", FALSE)
  <2>1. F \in Frame /\ stack' = Append(stack, F) /\ stack \in Seq(Frame)
    BY <1>2, NewFrameType DEF EmitInv, TypeOK, SetDone, Chan
  <2>0. F.chan = "done" /\ F.snap = slots["done"] /\ F.rest = slots["done"]
        /\ F.called = {} /\ F.cur = None
    BY DEF NewFrame
  <2> HIDE DEF F
  <2>2. /\ stack' \in Seq(Frame)
        /\ DOMAIN stack' = DOMAIN stack \cup {n} /\ n \notin DOMAIN stack
        /\ \A i \in DOMAIN stack : stack'[i] = stack[i]
        /\ stack'[n] = F
    BY <2>1, Push
  <2> HIDE DEF n
  <2>3. TypeOK'
    <3>1. UNCHANGED <<slots, hasDone, subDone, alive, conns, emits, doneCalls>>
      BY DEF SetDone
    <3> QED
      BY <1>1, <2>2, <3>1 DEF EmitInv, TypeOK
  <2>4. SlotsNumbered'
    BY DEF SetDone, EmitInv, SlotsNumbered, Numbered
  <2>5. FramesNumbered' /\ ConnectionOrder' /\ SnapshotDelivered' /\ NoDeadListenerRuns'
    <3>1. UNCHANGED <<slots, alive, conns>> /\ "done" \in Chan
      BY DEF SetDone, Chan
    <3>2. FramesNumbered'
      BY <2>0, <2>2, <3>1 DEF EmitInv, FramesNumbered, SlotsNumbered, Numbered
    <3>3. ConnectionOrder' /\ SnapshotDelivered' /\ NoDeadListenerRuns'
      BY <2>0, <2>2, <3>1 DEF EmitInv, ConnectionOrder, SnapshotDelivered, NoDeadListenerRuns
    <3> QED
      BY <3>2, <3>3
  <2>6. OneDoneEmit'
    <3>1. \A s \in slots["done"] : s.at \in ConnId
      BY DEF EmitInv, TypeOK, Slot, Chan
    <3> QED
      BY <1>1, <2>0, <2>2, <3>1 DEF SetDone, OneDoneEmit, DoneFrame
  <2>7. DoneOnce'
    BY <1>1 DEF SetDone, DoneOnce
  <2> QED
    BY <2>3, <2>4, <2>5, <2>6, <2>7 DEF EmitInv
<1>3. CASE ~hasDone
  <2>1. TypeOK' /\ SlotsNumbered' /\ FramesNumbered' /\ ConnectionOrder'
        /\ SnapshotDelivered' /\ NoDeadListenerRuns'
    BY <1>1, <1>3 DEF SetDone, EmitInv, TypeOK, SlotsNumbered, FramesNumbered, Numbered,
                 ConnectionOrder, SnapshotDelivered, NoDeadListenerRuns
  <2>2. OneDoneEmit' /\ DoneOnce'
    BY <1>1, <1>3 DEF SetDone, OneDoneEmit, DoneFrame, DoneOnce
  <2> QED
    BY <2>1, <2>2 DEF EmitInv
<1> QED
  BY <1>2, <1>3

(* The loop takes the earliest slot of what is left. *)
LEMMA NextSlotInv ==
    ASSUME EmitInv, NextSlot
    PROVE  EmitInv'
<1> DEFINE n == Len(stack)
<1>1. /\ n \in DOMAIN stack /\ stack[n] \in Frame
      /\ UNCHANGED <<slots, done, hasDone, subDone, alive, conns, emits>>
  BY DEF EmitInv, TypeOK, NextSlot
<1>2. PICK s \in stack[n].rest :
         /\ IsEarliest(s, stack[n].rest)
         /\ stack' = [stack EXCEPT ![n] = Visit(stack[n], s)]
         /\ doneCalls' = IF DoneFrame(n) /\ ~Skipped(s)
                         THEN [doneCalls EXCEPT ![s.at] = @ + 1] ELSE doneCalls
  BY <1>1 DEF NextSlot, Top, DoneFrame
<1> DEFINE G == Visit(stack[n], s)
<1>3. s \in Slot /\ s.at \in ConnId /\ s \in stack[n].snap
  BY <1>1, FrameType DEF EmitInv, FramesNumbered
<1>4. /\ G \in Frame /\ G.snap = stack[n].snap /\ G.chan = stack[n].chan
      /\ G.rest = stack[n].rest \ {s}
      /\ G.called = IF Skipped(s) THEN stack[n].called ELSE stack[n].called \cup {s.at}
      /\ G.cur = IF Skipped(s) THEN stack[n].cur ELSE s
  BY <1>1, <1>3 DEF Visit, Frame
<1>5. /\ stack' \in Seq(Frame) /\ DOMAIN stack' = DOMAIN stack
      /\ stack'[n] = G
      /\ \A i \in DOMAIN stack \ {n} : stack'[i] = stack[i]
  BY <1>1, <1>2, <1>4, Change DEF EmitInv, TypeOK
<1> HIDE DEF n, G
<1>6. \A t \in stack[n].rest \ {s} : s.at < t.at
  <2> SUFFICES ASSUME NEW t \in stack[n].rest \ {s} PROVE s.at < t.at
    OBVIOUS
  <2>1. s.at <= t.at
    BY <1>2 DEF IsEarliest
  <2>2. t \in stack[n].snap /\ s.at # t.at
    BY <1>1, <1>3 DEF EmitInv, FramesNumbered, Numbered
  <2>3. t.at \in ConnId
    BY <1>1, FrameType DEF EmitInv
  <2> QED
    BY <1>3, <2>1, <2>2, <2>3 DEF ConnId
<1>7. doneCalls' \in [ConnId -> Nat]
  BY <1>2, <1>3 DEF EmitInv, TypeOK
<1>8. TypeOK'
  BY <1>1, <1>5, <1>7 DEF EmitInv, TypeOK
<1>9. SlotsNumbered'
  BY <1>1 DEF EmitInv, SlotsNumbered, Numbered
<1>10. FramesNumbered'
  BY <1>1, <1>4, <1>5 DEF EmitInv, FramesNumbered, Numbered
<1>11. ConnectionOrder'
  BY <1>1, <1>4, <1>5, <1>6 DEF EmitInv, ConnectionOrder
<1>12. SnapshotDelivered'
  BY <1>1, <1>3, <1>4, <1>5 DEF EmitInv, SnapshotDelivered, Skipped
<1>13. NoDeadListenerRuns'
  BY <1>1, <1>4, <1>5 DEF EmitInv, NoDeadListenerRuns, Skipped
<1>14. OneDoneEmit'
  <2>1. \A i, j \in DOMAIN stack : DoneFrame(i)' /\ DoneFrame(j)' => i = j
    BY <1>4, <1>5 DEF EmitInv, OneDoneEmit, DoneFrame
  <2>2. ASSUME NEW i \in DOMAIN stack, DoneFrame(i)'
        PROVE  done' /\ \A t \in stack'[i].rest : doneCalls'[t.at] = 0
    <3>1. DoneFrame(i) /\ stack'[i].rest \subseteq stack[i].rest
      BY <2>2, <1>4, <1>5 DEF DoneFrame
    <3>2. done' /\ \A t \in stack'[i].rest : doneCalls[t.at] = 0
      BY <3>1, <1>1 DEF EmitInv, OneDoneEmit
    <3>3. CASE DoneFrame(n)
      <4>1. i = n
        BY <3>1, <3>3, <1>1 DEF EmitInv, OneDoneEmit
      <4>2. \A t \in stack'[i].rest : t.at # s.at /\ t.at \in ConnId
        BY <4>1, <1>1, <1>3, <1>4, <1>5, <1>6, FrameType DEF EmitInv, ConnId
      <4> QED
        BY <3>2, <4>2, <1>2, <1>3 DEF EmitInv, TypeOK
    <3>4. CASE ~DoneFrame(n)
      BY <3>2, <3>4, <1>2
    <3> QED
      BY <3>3, <3>4
  <2> QED
    BY <1>5, <2>1, <2>2 DEF OneDoneEmit
<1>15. DoneOnce'
  <2>1. CASE DoneFrame(n) /\ ~Skipped(s)
    <3>1. done /\ doneCalls[s.at] = 0
      BY <2>1, <1>1 DEF EmitInv, OneDoneEmit
    <3>2. doneCalls' = [doneCalls EXCEPT ![s.at] = 1]
      BY <2>1, <3>1, <1>2
    <3> QED
      BY <3>1, <3>2, <1>1, <1>3 DEF EmitInv, TypeOK, DoneOnce
  <2>2. CASE ~(DoneFrame(n) /\ ~Skipped(s))
    BY <2>2, <1>1, <1>2 DEF EmitInv, DoneOnce
  <2> QED
    BY <2>1, <2>2
<1> QED
  BY <1>8, <1>9, <1>10, <1>11, <1>12, <1>13, <1>14, <1>15 DEF EmitInv

(* A frame loses the slot whose listener ran. *)
LEMMA ReturnsInv ==
    ASSUME EmitInv, NEW q \in Seq(Frame), NEW n \in DOMAIN q,
           DOMAIN q \subseteq DOMAIN stack,
           \A i \in DOMAIN q : q[i] = stack[i],
           stack' = q \/ stack' = [q EXCEPT ![n].cur = None],
           subDone' \in BOOLEAN,
           UNCHANGED <<slots, done, hasDone, alive, conns, emits, doneCalls>>
    PROVE  EmitInv'
<1> DEFINE G == [q[n] EXCEPT !.cur = None]
<1>1. q[n] \in Frame
  OBVIOUS
<1>2. /\ G \in Frame /\ G.cur = None
      /\ G.chan = q[n].chan /\ G.snap = q[n].snap /\ G.rest = q[n].rest
      /\ G.called = q[n].called
  BY <1>1 DEF Frame
<1>3. [q EXCEPT ![n].cur = None] = [q EXCEPT ![n] = G]
  OBVIOUS
<1> HIDE DEF G
<1>4. /\ stack' \in Seq(Frame) /\ DOMAIN stack' \subseteq DOMAIN stack
      /\ \A i \in DOMAIN stack' :
            /\ stack'[i].chan = stack[i].chan /\ stack'[i].snap = stack[i].snap
            /\ stack'[i].rest = stack[i].rest /\ stack'[i].called = stack[i].called
            /\ stack'[i].cur \in {stack[i].cur, None}
  BY <1>2, <1>3, Change
<1>5. TypeOK'
  BY <1>4 DEF EmitInv, TypeOK
<1>6. SlotsNumbered' /\ FramesNumbered'
  BY <1>4 DEF EmitInv, SlotsNumbered, FramesNumbered, Numbered
<1>7. ConnectionOrder' /\ SnapshotDelivered'
  BY <1>4 DEF EmitInv, ConnectionOrder, SnapshotDelivered
<1>8. NoDeadListenerRuns'
  BY <1>4 DEF EmitInv, NoDeadListenerRuns
<1>9. OneDoneEmit' /\ DoneOnce'
  BY <1>4 DEF EmitInv, OneDoneEmit, DoneFrame, DoneOnce
<1> QED
  BY <1>5, <1>6, <1>7, <1>8, <1>9 DEF EmitInv

LEMMA ReturnInv ==
    ASSUME EmitInv, Return
    PROVE  EmitInv'
<1>1. stack \in Seq(Frame) /\ Len(stack) \in DOMAIN stack /\ subDone' \in BOOLEAN
  BY DEF EmitInv, TypeOK, Return
<1> QED
  BY <1>1, ReturnsInv DEF Return

LEMMA RaiseInv ==
    ASSUME EmitInv, Raise
    PROVE  EmitInv'
<1>1. CASE stack' = Append(stack, NewFrame("error", TRUE))
  <2>1. emits' \in 0 .. MaxEmit
    BY DEF Raise, EmitInv, TypeOK
  <2> QED
    BY <1>1, <2>1, PushInv DEF Raise, Chan
<1>2. CASE stack' = [stack EXCEPT ![Len(stack)].cur = None]
  <2>1. stack \in Seq(Frame) /\ Len(stack) \in DOMAIN stack /\ subDone' \in BOOLEAN
    BY DEF EmitInv, TypeOK, Raise
  <2> QED
    BY <1>2, <2>1, ReturnsInv DEF Raise
<1> QED
  BY <1>1, <1>2 DEF Raise

LEMMA EndEmitInv ==
    ASSUME EmitInv, EndEmit
    PROVE  EmitInv'
<1>1. subDone' \in BOOLEAN
  BY DEF EndEmit, SubDoneAfter, EmitInv, TypeOK
<1>2. /\ Below \in Seq(Frame) /\ DOMAIN Below \subseteq DOMAIN stack
      /\ \A i \in DOMAIN Below : Below[i] = stack[i]
  BY Pop DEF EndEmit, Below, EmitInv, TypeOK
<1>3. CASE Below = <<>>
  <2>1. stack' = <<>>
    BY <1>3 DEF EndEmit
  <2>2. TypeOK' /\ SlotsNumbered'
    <3>1. UNCHANGED <<slots, done, hasDone, alive, conns, emits, doneCalls>>
      BY DEF EndEmit
    <3> QED
      BY <1>1, <2>1, <3>1 DEF EmitInv, TypeOK, SlotsNumbered, Numbered
  <2>3. FramesNumbered' /\ ConnectionOrder' /\ SnapshotDelivered' /\ NoDeadListenerRuns'
    BY <2>1 DEF FramesNumbered, ConnectionOrder, SnapshotDelivered, NoDeadListenerRuns
  <2>4. OneDoneEmit' /\ DoneOnce'
    BY <2>1 DEF EndEmit, EmitInv, OneDoneEmit, DoneOnce
  <2> QED
    BY <2>2, <2>3, <2>4 DEF EmitInv
<1>4. CASE Below # <<>>
  <2>1. Len(Below) \in DOMAIN Below
    BY <1>2, <1>4
  <2>2. stack' = Below \/ stack' = [Below EXCEPT ![Len(Below)].cur = None]
    BY DEF EndEmit
  <2> QED
    BY <1>1, <1>2, <2>1, <2>2, ReturnsInv DEF EndEmit
<1> QED
  BY <1>3, <1>4

(* Garbage: an object in use is held, so that no running listener loses it. *)
LEMMA CollectInv ==
    ASSUME EmitInv, NEW o \in Obj, Collect(o)
    PROVE  EmitInv'
<1>1. /\ alive' = alive \ {o}
      /\ UNCHANGED <<done, hasDone, subDone, stack, conns, emits, doneCalls>>
  BY DEF Collect
<1>2. slots' \in [Chan -> SUBSET Slot] /\ \A c \in Chan : slots'[c] \subseteq slots[c]
  BY DEF Collect, WithoutRef, RemoveRef, EmitInv, TypeOK
<1>3. TypeOK'
  BY <1>1, <1>2 DEF EmitInv, TypeOK
<1>4. SlotsNumbered'
  BY <1>1, <1>2 DEF EmitInv, SlotsNumbered, Numbered
<1>5. FramesNumbered' /\ ConnectionOrder'
  BY <1>1 DEF EmitInv, FramesNumbered, Numbered, ConnectionOrder
<1>6. SnapshotDelivered'
  BY <1>1 DEF EmitInv, SnapshotDelivered, Dead
<1>7. NoDeadListenerRuns'
  BY <1>1 DEF EmitInv, NoDeadListenerRuns, Dead, Collect, Held
<1>8. OneDoneEmit' /\ DoneOnce'
  BY <1>1 DEF EmitInv, OneDoneEmit, DoneFrame, DoneOnce
<1> QED
  BY <1>3, <1>4, <1>5, <1>6, <1>7, <1>8 DEF EmitInv

LEMMA NextInv ==
    ASSUME EmitInv, [Next]_vars
    PROVE  EmitInv'
<1>1. CASE UNCHANGED vars
  <2>1. UNCHANGED TypeOK /\ UNCHANGED SlotsNumbered /\ UNCHANGED FramesNumbered
    BY <1>1 DEF vars, TypeOK, SlotsNumbered, FramesNumbered, Numbered
  <2>2. UNCHANGED ConnectionOrder /\ UNCHANGED SnapshotDelivered
        /\ UNCHANGED NoDeadListenerRuns
    BY <1>1 DEF vars, ConnectionOrder, SnapshotDelivered, NoDeadListenerRuns
  <2>3. UNCHANGED OneDoneEmit /\ UNCHANGED DoneOnce
    BY <1>1 DEF vars, OneDoneEmit, DoneFrame, DoneOnce
  <2> QED
    BY <2>1, <2>2, <2>3 DEF EmitInv
<1>2. CASE UserStep
  BY <1>2, ConnectInv, DisconnectInv, EmitActionInv, SetDoneInv, RaiseInv DEF UserStep
<1>3. CASE EmitStep
  BY <1>3, NextSlotInv, ReturnInv, EndEmitInv DEF EmitStep
<1>4. CASE GCStep
  BY <1>4, CollectInv, DisconnectInv DEF GCStep
<1> QED
  BY <1>1, <1>2, <1>3, <1>4 DEF Next
-----------------------------------------------------------------------------
(* The emit loop keeps its inductive invariant. *)
THEOREM EmitInvariant == Spec => []EmitInv
<1>1. Init => EmitInv
  BY InitInv
<1>2. EmitInv /\ [Next]_vars => EmitInv'
  BY NextInv
<1> QED
  BY <1>1, <1>2, PTL DEF Spec

(* Slots, frames and counters keep their types through every interleaving of
   emits, edits of the slots and collections. *)
THEOREM TypeCorrect == Spec => []TypeOK
<1>1. EmitInv => TypeOK
  BY DEF EmitInv
<1> QED
  BY <1>1, EmitInvariant, PTL

(* Every emit in progress has called its listeners in the order in which they
   were connected. *)
THEOREM DeliveredInOrder == Spec => []ConnectionOrder
<1>1. EmitInv => ConnectionOrder
  BY DEF EmitInv
<1> QED
  BY <1>1, EmitInvariant, PTL

(* Every emit in progress has called all the listeners of its beginning that it
   is past and that still exist, and no others. *)
THEOREM SnapshotKept == Spec => []SnapshotDelivered
<1>1. EmitInv => SnapshotDelivered
  BY DEF EmitInv
<1> QED
  BY <1>1, EmitInvariant, PTL

(* No listener runs on a collected object. *)
THEOREM NeverDead == Spec => []NoDeadListenerRuns
<1>1. EmitInv => NoDeadListenerRuns
  BY DEF EmitInv
<1> QED
  BY <1>1, EmitInvariant, PTL

(* Each done listener hears of the end at most once, and only of a real end. *)
THEOREM ToldOnce == Spec => []DoneOnce
<1>1. EmitInv => DoneOnce
  BY DEF EmitInv
<1> QED
  BY <1>1, EmitInvariant, PTL
-----------------------------------------------------------------------------
(* With reference counts no slot is listed whose object is gone, and only the
   innermost frame can be an error emit that has called nobody: nothing but the
   loop itself runs before its first listener, which is alive. *)
Unheard(i) == stack[i].raised /\ stack[i].called = {}

AllSlotsLive == \A c \in Chan : \A s \in slots[c] : ~Dead(s, alive)

UnheardOnTop ==
    \A i \in DOMAIN stack : Unheard(i) =>
        /\ i = Len(stack)
        /\ stack[i].cur = None
        /\ stack[i].rest # {}
        /\ \A s \in stack[i].rest : ~Dead(s, alive)

HeardInv == AllSlotsLive /\ UnheardOnTop

(* User code runs in a frame that has called its listener. *)
LEMMA UserCodeHeard ==
    ASSUME TypeOK, UnheardOnTop, InUserCode
    PROVE  \A i \in DOMAIN stack : ~Unheard(i)
BY DEF TypeOK, UnheardOnTop, InUserCode, Top

(* Edits of the slots by user code, and what the collector calls. *)
LEMMA EditHeard ==
    ASSUME HeardInv, UNCHANGED <<stack, alive>>, AllSlotsLive'
    PROVE  HeardInv'
BY DEF HeardInv, UnheardOnTop, Unheard

LEMMA ConnectHeard ==
    ASSUME EmitInv, HeardInv, NEW who \in Who, NEW keep \in BOOLEAN, Connect(who, keep)
    PROVE  HeardInv'
<1>1. UNCHANGED <<stack, alive>>
  BY DEF Connect
<1>2. AllSlotsLive'
  <2> SUFFICES ASSUME NEW c \in Chan, NEW s \in slots'[c] PROVE ~Dead(s, alive)
    BY <1>1 DEF AllSlotsLive
  <2>1. CASE s \in slots[c]
    BY <2>1 DEF HeardInv, AllSlotsLive
  <2>2. CASE s \notin slots[c]
    <3>1. c \in DOMAIN who /\ who[c].obj \in alive \cup {None}
      BY <2>2 DEF Connect
    <3>2. PICK k \in BOOLEAN : s = NewSlot(conns + 1, who[c], k)
      BY <2>2, <3>1 DEF Connect
    <3> QED
      BY <3>1, <3>2 DEF NewSlot, Dead
  <2> QED
    BY <2>1, <2>2
<1> QED
  BY <1>1, <1>2, EditHeard

LEMMA DisconnectHeard ==
    ASSUME EmitInv, HeardInv,
           \/ \E who \in Who, every \in BOOLEAN : Disconnect(who, every)
           \/ \E o \in Obj : DisconnectObj(o)
           \/ Clear
           \/ \E o \in Obj : OnFinalize(o)
    PROVE  HeardInv'
<1>1. slots \in [Chan -> SUBSET Slot]
  BY DEF EmitInv, TypeOK
<1>2. (\A c \in Chan : slots'[c] \subseteq slots[c]) /\ UNCHANGED <<stack, alive>>
  <2>1. ASSUME NEW who \in Who, NEW every \in BOOLEAN, Disconnect(who, every)
        PROVE  <1>2
    BY <1>1, <2>1 DEF Disconnect, RemoveEvery, RemoveOne
  <2>2. ASSUME NEW o \in Obj, DisconnectObj(o) PROVE <1>2
    BY <1>1, <2>2 DEF DisconnectObj, RemoveObj
  <2>3. CASE Clear
    BY <1>1, <2>3 DEF Clear, Chan
  <2>4. ASSUME NEW o \in Obj, OnFinalize(o) PROVE <1>2
    BY <1>1, <2>4 DEF OnFinalize, WithoutRef, RemoveRef
  <2> QED
    BY <2>1, <2>2, <2>3, <2>4
<1>3. AllSlotsLive'
  BY <1>2 DEF HeardInv, AllSlotsLive
<1> QED
  BY <1>2, <1>3, EditHeard

(* An emit begins in user code, or as the error emit of a listener that raised. *)
LEMMA PushHeard ==
    ASSUME EmitInv, HeardInv, InUserCode, NEW c \in Chan, NEW r \in BOOLEAN,
           r => slots[c] # {},
           stack' = Append(stack, NewFrame(c, r)),
           UNCHANGED <<slots, alive>>
    PROVE  HeardInv'
<1> DEFINE n == Len(stack) + 1
           F == NewFrame(c, r)
<1>1. F \in Frame /\ stack \in Seq(Frame)
  BY NewFrameType DEF EmitInv, TypeOK
<1>2. /\ F.raised = r /\ F.cur = None /\ F.rest = slots[c]
  BY DEF NewFrame
<1>3. /\ DOMAIN stack' = DOMAIN stack \cup {n} /\ n = Len(stack')
      /\ \A i \in DOMAIN stack : stack'[i] = stack[i]
      /\ stack'[n] = F
  <2> HIDE DEF F
  <2>1. stack' = Append(stack, F)
    BY DEF F
  <2>2. Len(stack') = n
    BY <1>1, <2>1
  <2> QED
    BY <1>1, <2>1, <2>2, Push
<1> HIDE DEF n, F
<1>4. \A i \in DOMAIN stack : ~Unheard(i)
  BY UserCodeHeard DEF EmitInv, HeardInv
<1>5. UnheardOnTop'
  <2> SUFFICES ASSUME NEW i \in DOMAIN stack', Unheard(i)'
               PROVE  /\ i = Len(stack') /\ stack'[i].cur = None /\ stack'[i].rest # {}
                      /\ \A s \in stack'[i].rest : ~Dead(s, alive)
    BY DEF UnheardOnTop
  <2>1. i = n
    BY <1>3, <1>4 DEF Unheard
  <2> QED
    BY <2>1, <1>2, <1>3 DEF Unheard, HeardInv, AllSlotsLive
<1> QED
  BY <1>5 DEF HeardInv, AllSlotsLive

(* The first listener of an error emit is alive, so that it is called. *)
LEMMA NextSlotHeard ==
    ASSUME EmitInv, HeardInv, NextSlot
    PROVE  HeardInv'
<1> DEFINE n == Len(stack)
<1>1. /\ n \in DOMAIN stack /\ stack[n] \in Frame /\ stack \in Seq(Frame)
      /\ UNCHANGED <<slots, alive>>
  BY DEF EmitInv, TypeOK, NextSlot
<1>2. PICK s \in stack[n].rest : stack' = [stack EXCEPT ![n] = Visit(stack[n], s)]
  BY <1>1 DEF NextSlot, Top
<1> DEFINE G == Visit(stack[n], s)
<1>3. s \in Slot /\ s.at \in ConnId
  BY <1>1, FrameType DEF EmitInv
<1>4. /\ G \in Frame /\ G.raised = stack[n].raised
      /\ G.called = IF Skipped(s) THEN stack[n].called ELSE stack[n].called \cup {s.at}
  BY <1>1, <1>3 DEF Visit, Frame
<1>5. /\ DOMAIN stack' = DOMAIN stack /\ Len(stack') = n
      /\ stack'[n] = G
      /\ \A i \in DOMAIN stack \ {n} : stack'[i] = stack[i]
  <2> HIDE DEF G
  <2> QED
    BY <1>1, <1>2, <1>4, Change DEF G
<1> HIDE DEF G
<1>6. ~(Unheard(n)')
  <2>1. CASE Unheard(n)
    <3>1. ~Skipped(s)
      BY <1>1, <1>2, <2>1 DEF HeardInv, UnheardOnTop, Skipped
    <3> QED
      BY <3>1, <1>4, <1>5 DEF Unheard
  <2>2. CASE ~Unheard(n)
    BY <2>2, <1>4, <1>5 DEF Unheard
  <2> QED
    BY <2>1, <2>2
<1>7. \A i \in DOMAIN stack \ {n} : ~Unheard(i)
  BY DEF HeardInv, UnheardOnTop
<1>8. \A i \in DOMAIN stack' : ~(Unheard(i)')
  BY <1>5, <1>6, <1>7 DEF Unheard
<1> QED
  BY <1>1, <1>8 DEF HeardInv, AllSlotsLive, UnheardOnTop

(* A listener or a whole emit comes to its end. *)
LEMMA ReturnsHeard ==
    ASSUME EmitInv, HeardInv, NEW q \in Seq(Frame), NEW n \in DOMAIN q,
           DOMAIN q \subseteq DOMAIN stack,
           \A i \in DOMAIN q : q[i] = stack[i],
           \A i \in DOMAIN q : ~Unheard(i),
           stack' = q \/ stack' = [q EXCEPT ![n].cur = None],
           UNCHANGED <<slots, alive>>
    PROVE  HeardInv'
<1> DEFINE G == [q[n] EXCEPT !.cur = None]
<1>1. q[n] \in Frame
  OBVIOUS
<1>2. G \in Frame /\ G.raised = q[n].raised /\ G.called = q[n].called
  BY <1>1 DEF Frame
<1>3. [q EXCEPT ![n].cur = None] = [q EXCEPT ![n] = G]
  OBVIOUS
<1> HIDE DEF G
<1>4. \A i \in DOMAIN stack' :
         /\ i \in DOMAIN q
         /\ stack'[i].raised = stack[i].raised /\ stack'[i].called = stack[i].called
  <2>1. CASE stack' = q
    BY <2>1
  <2>2. CASE stack' = [q EXCEPT ![n].cur = None]
    <3>1. stack' = [q EXCEPT ![n] = G]
      BY <2>2, <1>3
    <3>2. /\ DOMAIN stack' = DOMAIN q /\ stack'[n] = G
          /\ \A i \in DOMAIN q \ {n} : stack'[i] = q[i]
      BY <1>2, <3>1, Change
    <3> QED BY <1>2, <3>2
  <2> QED BY <2>1, <2>2
<1>5. \A i \in DOMAIN stack' : ~(Unheard(i)')
  BY <1>4 DEF Unheard
<1> QED
  BY <1>5 DEF HeardInv, AllSlotsLive, UnheardOnTop

LEMMA ReturnHeard ==
    ASSUME EmitInv, HeardInv, Return
    PROVE  HeardInv'
<1>1. stack \in Seq(Frame) /\ Len(stack) \in DOMAIN stack /\ InUserCode
  BY DEF EmitInv, TypeOK, Return, InUserCode
<1>2. \A i \in DOMAIN stack : ~Unheard(i)
  BY <1>1, UserCodeHeard DEF EmitInv, HeardInv
<1> QED
  BY <1>1, <1>2, ReturnsHeard DEF Return

LEMMA RaiseHeard ==
    ASSUME EmitInv, HeardInv, Raise
    PROVE  HeardInv'
<1>1. stack \in Seq(Frame) /\ Len(stack) \in DOMAIN stack /\ InUserCode
  BY DEF EmitInv, TypeOK, Raise, InUserCode
<1>2. UNCHANGED <<slots, alive>>
  BY DEF Raise
<1>3. CASE Top.chan = "value" /\ ErrorsHaveListeners
  <2>1. stack' = Append(stack, NewFrame("error", TRUE)) /\ slots["error"] # {}
    BY <1>3 DEF Raise, ErrorsHaveListeners
  <2> QED
    BY <1>1, <1>2, <2>1, PushHeard DEF Chan
<1>4. CASE ~(Top.chan = "value" /\ ErrorsHaveListeners)
  <2>1. stack' = [stack EXCEPT ![Len(stack)].cur = None]
    BY <1>4 DEF Raise
  <2>2. \A i \in DOMAIN stack : ~Unheard(i)
    BY <1>1, UserCodeHeard DEF EmitInv, HeardInv
  <2> QED
    BY <1>1, <1>2, <2>1, <2>2, ReturnsHeard
<1> QED
  BY <1>3, <1>4

LEMMA SetDoneHeard ==
    ASSUME EmitInv, HeardInv, SetDone
    PROVE  HeardInv'
<1>1. UNCHANGED <<slots, alive>> /\ InUserCode
  BY DEF SetDone
<1>2. CASE hasDone
  BY <1>1, <1>2, PushHeard DEF SetDone, Chan
<1>3. CASE ~hasDone
  BY <1>1, <1>3, EditHeard DEF SetDone, HeardInv, AllSlotsLive
<1> QED
  BY <1>2, <1>3

(* Only the innermost frame may be unheard, and it has something left to call. *)
LEMMA EndEmitHeard ==
    ASSUME EmitInv, HeardInv, EndEmit
    PROVE  HeardInv'
<1>1. UNCHANGED <<slots, alive>>
  BY DEF EndEmit
<1>2. /\ Below \in Seq(Frame) /\ DOMAIN Below \subseteq DOMAIN stack
      /\ \A i \in DOMAIN Below : Below[i] = stack[i]
  BY Pop DEF EndEmit, Below, EmitInv, TypeOK
<1>3. \A i \in DOMAIN stack : ~Unheard(i)
  BY DEF HeardInv, UnheardOnTop, EndEmit, Top
<1>4. stack' = Below \/ stack' = [Below EXCEPT ![Len(Below)].cur = None]
  BY DEF EndEmit
<1>5. CASE Below = <<>>
  <2>1. stack' = <<>>
    BY <1>5 DEF EndEmit
  <2> QED
    BY <1>1, <2>1 DEF HeardInv, AllSlotsLive, UnheardOnTop
<1>6. CASE Below # <<>>
  <2>1. Len(Below) \in DOMAIN Below
    BY <1>2, <1>6
  <2> QED
    BY <1>1, <1>2, <1>3, <1>4, <2>1, ReturnsHeard
<1> QED
  BY <1>5, <1>6

(* Reference counts: an object dies in user code, and its slots with it. *)
LEMMA CollectHeard ==
    ASSUME RefCounting, EmitInv, HeardInv, NEW o \in Obj, Collect(o)
    PROVE  HeardInv'
<1>1. /\ alive' = alive \ {o} /\ UNCHANGED stack /\ InUserCode
      /\ slots' = [c \in Chan |-> {s \in slots[c] : s.ref # o}]
  BY DEF Collect, WithoutRef, RemoveRef
<1>2. AllSlotsLive'
  BY <1>1 DEF HeardInv, AllSlotsLive, Dead
<1>3. \A i \in DOMAIN stack : ~Unheard(i)
  BY <1>1, UserCodeHeard DEF EmitInv, HeardInv
<1>4. UnheardOnTop'
  BY <1>1, <1>3 DEF UnheardOnTop, Unheard
<1> QED
  BY <1>2, <1>4 DEF HeardInv

LEMMA NextHeard ==
    ASSUME RefCounting, EmitInv, HeardInv, [Next]_vars
    PROVE  HeardInv'
<1>1. CASE UNCHANGED vars
  BY <1>1, EditHeard DEF vars, HeardInv, AllSlotsLive
<1>2. CASE UserStep
  <2>1. ASSUME NEW c \in Chan, Emit(c) PROVE HeardInv'
    BY <2>1, PushHeard DEF Emit
  <2> QED
    BY <1>2, <2>1, ConnectHeard, DisconnectHeard, SetDoneHeard, RaiseHeard DEF UserStep
<1>3. CASE EmitStep
  BY <1>3, NextSlotHeard, ReturnHeard, EndEmitHeard DEF EmitStep
<1>4. CASE GCStep
  BY <1>4, CollectHeard, DisconnectHeard DEF GCStep
<1> QED
  BY <1>1, <1>2, <1>3, <1>4 DEF Next

(* Where reference counts free the objects, the error of a listener that the
   error_event is chosen for reaches one of its listeners. *)
THEOREM ErrorsHeard == RefCounting => (Spec => []ErrorIsHeard)
<1> SUFFICES ASSUME RefCounting PROVE Spec => []ErrorIsHeard
  OBVIOUS
<1>1. Init => HeardInv
  BY DEF Init, HeardInv, AllSlotsLive, UnheardOnTop, Chan
<1>2. EmitInv /\ HeardInv /\ [Next]_vars => HeardInv'
  BY NextHeard
<1>3. HeardInv => ErrorIsHeard
  BY DEF HeardInv, UnheardOnTop, Unheard, ErrorIsHeard
<1> QED
  BY <1>1, <1>2, <1>3, EmitInvariant, PTL DEF Spec
-----------------------------------------------------------------------------
(* A slot holds its object in one way, and was made for a listener. *)
Formed(s) == (s.obj = None \/ s.ref = None) /\ ListenerOf(s) \in Listener
Fit(S) == IsFiniteSet(S) /\ \A s \in S : Formed(s)

(* What the connections that were made add to the invariant of the emit loop. *)
PictureInv ==
    /\ \A c \in Chan : Fit(slots[c])
    /\ \A i \in DOMAIN stack :
          /\ Fit(stack[i].snap)
          /\ stack[i].cur # None => Formed(stack[i].cur)
          /\ stack[i].raised => stack[i].chan = "error"
    /\ ~hasDone => slots["done"] = {}

Picture(q, objs) == [i \in DOMAIN q |-> Owed(q[i], objs)]
-----------------------------------------------------------------------------
(* The bag of a set of slots. *)
LEMMA Finds ==
    ASSUME NEW s, Formed(s), NEW l \in Listener
    PROVE  IsConnection(s, l) <=> ListenerOf(s) = l
<1>1. l \in [obj : Obj \cup {None}, func : Func \cup {None}]
  BY ListenerAssumption
<1>2. ListenerOf(s) = l <=> (l.func = s.func /\ l.obj = IF s.ref # None THEN s.ref ELSE s.obj)
  BY <1>1 DEF ListenerOf
<1> QED
  BY <1>2 DEF Formed, IsConnection

LEMMA Found ==
    ASSUME NEW S, Fit(S), NEW l \in Listener, NEW objs
    PROVE  /\ Live(S, l, objs) = {s \in S : ListenerOf(s) = l /\ ~Dead(s, objs)}
           /\ IsFiniteSet(Live(S, l, objs))
           /\ Cardinality(Live(S, l, objs)) \in Nat
<1>1. Live(S, l, objs) = {s \in S : ListenerOf(s) = l /\ ~Dead(s, objs)}
  BY Finds DEF Live, Fit
<1>2. IsFiniteSet(Live(S, l, objs))
  BY <1>1, FS_Subset DEF Fit
<1> QED
  BY <1>1, <1>2, FS_CardinalityType

LEMMA FitPart ==
    ASSUME NEW S, Fit(S), NEW T, T \subseteq S
    PROVE  Fit(T)
BY FS_Subset DEF Fit

LEMMA BagEmpty == \A objs : Subscribed({}, objs) = B!NoOne
<1> SUFFICES ASSUME NEW objs, NEW l \in Listener PROVE Cardinality(Live({}, l, objs)) = 0
  BY DEF Subscribed, B!NoOne
<1>1. Live({}, l, objs) = {}
  BY DEF Live
<1> QED
  BY <1>1, FS_EmptySet

LEMMA BagType ==
    ASSUME NEW S, Fit(S), NEW objs
    PROVE  Subscribed(S, objs) \in B!Bag
BY Found DEF Subscribed, B!Bag

LEMMA BagAdd ==
    ASSUME NEW S, Fit(S), NEW s, s \notin S, Formed(s), NEW objs, ~Dead(s, objs)
    PROVE  /\ Fit(S \cup {s})
           /\ Subscribed(S \cup {s}, objs) =
                [l \in Listener |-> IF l = ListenerOf(s) THEN Subscribed(S, objs)[l] + 1
                                    ELSE Subscribed(S, objs)[l]]
<1>1. Fit(S \cup {s})
  BY FS_AddElement DEF Fit
<1>2. ASSUME NEW l \in Listener
      PROVE  Cardinality(Live(S \cup {s}, l, objs)) =
                IF l = ListenerOf(s) THEN Cardinality(Live(S, l, objs)) + 1
                ELSE Cardinality(Live(S, l, objs))
  <2>1. CASE l = ListenerOf(s)
    <3>1. Live(S \cup {s}, l, objs) = Live(S, l, objs) \cup {s} /\ s \notin Live(S, l, objs)
      BY <1>1, <2>1, Found
    <3> QED
      BY <2>1, <3>1, Found, FS_AddElement
  <2>2. CASE l # ListenerOf(s)
    <3>1. Live(S \cup {s}, l, objs) = Live(S, l, objs)
      BY <1>1, <2>2, Found
    <3> QED
      BY <2>2, <3>1
  <2> QED BY <2>1, <2>2
<1> QED
  BY <1>1, <1>2 DEF Subscribed

LEMMA BagIs ==
    ASSUME NEW S, NEW objs
    PROVE  Subscribed(S, objs) = [l \in Listener |-> Subscribed(S, objs)[l]]
BY DEF Subscribed

LEMMA BagTake ==
    ASSUME NEW S, Fit(S), NEW s \in S, NEW objs
    PROVE  /\ Fit(S \ {s})
           /\ ListenerOf(s) \in Listener
           /\ Dead(s, objs) => Subscribed(S \ {s}, objs) = Subscribed(S, objs)
           /\ ~Dead(s, objs) => Subscribed(S, objs)[ListenerOf(s)] > 0
           /\ ~Dead(s, objs) => \A l \in Listener :
                Subscribed(S \ {s}, objs)[l] = IF l = ListenerOf(s) THEN Subscribed(S, objs)[l] - 1
                                               ELSE Subscribed(S, objs)[l]
<1>1. Fit(S \ {s}) /\ ListenerOf(s) \in Listener
  BY FitPart DEF Fit, Formed
<1>2. ASSUME NEW l \in Listener, l # ListenerOf(s) \/ Dead(s, objs)
      PROVE  Live(S \ {s}, l, objs) = Live(S, l, objs)
  BY <1>1, <1>2, Found
<1>3. CASE Dead(s, objs)
  <2>1. \A l \in Listener : Live(S \ {s}, l, objs) = Live(S, l, objs)
    BY <1>2, <1>3
  <2> QED BY <1>1, <1>3, <2>1 DEF Subscribed
<1>4. CASE ~Dead(s, objs)
  <2> DEFINE k == ListenerOf(s)
  <2>1. Live(S \ {s}, k, objs) = Live(S, k, objs) \ {s} /\ s \in Live(S, k, objs)
    BY <1>1, <1>4, Found
  <2>2. Cardinality(Live(S \ {s}, k, objs)) = Cardinality(Live(S, k, objs)) - 1
    BY <1>1, <2>1, Found, FS_RemoveElement
  <2>3. Cardinality(Live(S, k, objs)) > 0
    <3>1. Cardinality(Live(S, k, objs)) \in Nat /\ Cardinality(Live(S, k, objs)) # 0
      BY <1>1, <2>1, Found, FS_EmptySet
    <3> QED BY <3>1
  <2>4. \A l \in Listener : l # k => Live(S \ {s}, l, objs) = Live(S, l, objs)
    BY <1>2
  <2> QED BY <1>1, <1>4, <2>2, <2>3, <2>4 DEF Subscribed
<1> QED
  BY <1>3, <1>4
-----------------------------------------------------------------------------
(* The picture of a stack that grows, shrinks or changes. *)
LEMMA PictureType ==
    ASSUME NEW q \in Seq(Frame), NEW objs
    PROVE  /\ Picture(q, objs) \in Seq({Owed(F, objs) : F \in Frame})
           /\ Len(Picture(q, objs)) = Len(q)
           /\ DOMAIN Picture(q, objs) = DOMAIN q
           /\ \A i \in DOMAIN q : Picture(q, objs)[i] = Owed(q[i], objs)
BY DEF Picture

LEMMA PicturePush ==
    ASSUME NEW q \in Seq(Frame), NEW F \in Frame, NEW objs
    PROVE  Picture(Append(q, F), objs) = Append(Picture(q, objs), Owed(F, objs))
<1> DEFINE n == Len(q) + 1
           P == Picture(q, objs)
           X == Owed(F, objs)
           W == {Owed(G, objs) : G \in Frame}
<1>1. /\ DOMAIN Append(q, F) = 1 .. n /\ DOMAIN q = 1 .. Len(q) /\ Len(q) \in Nat
      /\ \A i \in 1 .. Len(q) : Append(q, F)[i] = q[i]
      /\ Append(q, F)[n] = F
  OBVIOUS
<1>2. /\ P \in Seq(W) /\ X \in W /\ Len(P) = Len(q)
      /\ \A i \in 1 .. Len(q) : P[i] = Owed(q[i], objs)
  BY <1>1, PictureType
<1> HIDE DEF P, X, W
<1>3. Append(P, X) = [i \in 1 .. n |-> IF i = n THEN X ELSE P[i]]
  <2>1. /\ Append(P, X) \in Seq(W) /\ DOMAIN Append(P, X) = 1 .. n
        /\ \A i \in 1 .. Len(q) : Append(P, X)[i] = P[i]
        /\ Append(P, X)[n] = X
    BY <1>1, <1>2, Push
  <2>2. Append(P, X) = [i \in 1 .. n |-> Append(P, X)[i]]
    BY <2>1, LenProperties
  <2>3. \A i \in 1 .. n : Append(P, X)[i] = IF i = n THEN X ELSE P[i]
    BY <1>1, <2>1
  <2> QED BY <2>2, <2>3
<1>4. \A i \in 1 .. n : Owed(Append(q, F)[i], objs) = IF i = n THEN X ELSE P[i]
  <2> SUFFICES ASSUME NEW i \in 1 .. n, i # n PROVE i \in 1 .. Len(q)
    BY <1>1, <1>2 DEF X
  <2> QED BY <1>1
<1>5. Picture(Append(q, F), objs) = [i \in 1 .. n |-> Owed(Append(q, F)[i], objs)]
  BY <1>1 DEF Picture
<1> QED
  BY <1>3, <1>4, <1>5 DEF P, X

LEMMA PicturePop ==
    ASSUME NEW q \in Seq(Frame), q # <<>>, NEW objs
    PROVE  Picture(SubSeq(q, 1, Len(q) - 1), objs) =
              SubSeq(Picture(q, objs), 1, Len(Picture(q, objs)) - 1)
<1> DEFINE P == Picture(q, objs)
           n == Len(q) - 1
<1>1. n \in Nat /\ n <= Len(q) /\ Len(P) = Len(q) /\ P \in Seq({Owed(F, objs) : F \in Frame})
  BY PictureType
<1>2. /\ DOMAIN SubSeq(q, 1, n) = 1 .. n
      /\ \A i \in 1 .. n : SubSeq(q, 1, n)[i] = q[i]
  BY <1>1
<1>3. SubSeq(P, 1, n) = [i \in 1 .. n |-> P[i]]
  BY <1>1
<1>4. \A i \in 1 .. n : P[i] = Owed(q[i], objs)
  BY <1>1, PictureType
<1> HIDE DEF P, n
<1>5. Picture(SubSeq(q, 1, n), objs) = SubSeq(P, 1, n)
  BY <1>2, <1>3, <1>4 DEF Picture
<1> QED
  BY <1>1, <1>5 DEF P, n

LEMMA PictureChange ==
    ASSUME NEW q \in Seq(Frame), NEW n \in DOMAIN q, NEW F \in Frame, NEW objs
    PROVE  Picture([q EXCEPT ![n] = F], objs) = [Picture(q, objs) EXCEPT ![n] = Owed(F, objs)]
BY DEF Picture

LEMMA PictureIdle ==
    ASSUME NEW q \in Seq(Frame), q # <<>>, NEW objs
    PROVE  Picture([q EXCEPT ![Len(q)].cur = None], objs) = B!Idle(Picture(q, objs))
<1> DEFINE n == Len(q)
           F == [q[n] EXCEPT !.cur = None]
<1>1. n \in DOMAIN q /\ q[n] \in Frame
  OBVIOUS
<1>2. F \in Frame /\ F.chan = q[n].chan /\ F.rest = q[n].rest /\ F.cur = None
  BY <1>1 DEF Frame
<1>3. [q EXCEPT ![n].cur = None] = [q EXCEPT ![n] = F]
  OBVIOUS
<1>4. Owed(F, objs) = [Owed(q[n], objs) EXCEPT !.busy = None]
  BY <1>2 DEF Owed
<1>5. Len(Picture(q, objs)) = n /\ Picture(q, objs)[n] = Owed(q[n], objs)
  BY <1>1, PictureType
<1> HIDE DEF n, F
<1>6. Picture([q EXCEPT ![n] = F], objs) = [Picture(q, objs) EXCEPT ![n] = Owed(F, objs)]
  BY <1>1, <1>2, PictureChange
<1>7. B!Idle(Picture(q, objs)) = [Picture(q, objs) EXCEPT ![n].busy = None]
  BY <1>5 DEF B!Idle
<1> QED
  BY <1>3, <1>4, <1>5, <1>6, <1>7 DEF n

-----------------------------------------------------------------------------
(* The invariant of the slots that were made, and of their copies. *)
LEMMA MadeFor ==
    ASSUME NEW l \in Listener, NEW keep \in BOOLEAN, NEW n
    PROVE  /\ Formed(NewSlot(n, l, keep))
           /\ ListenerOf(NewSlot(n, l, keep)) = l
           /\ \A objs : ~Dead(NewSlot(n, l, keep), objs) <=>
                           (keep \/ l.obj \in objs \cup {None})
<1>1. l \in [obj : Obj \cup {None}, func : Func \cup {None}]
  BY ListenerAssumption
<1> QED
  BY <1>1, NoneAssumption DEF NewSlot, Formed, ListenerOf, Dead

(* A step that changes no emit, but may take slots away. *)
LEMMA PictureFewer ==
    ASSUME PictureInv, \A c \in Chan : slots'[c] \subseteq slots[c], UNCHANGED <<stack, hasDone>>
    PROVE  PictureInv'
<1>1. \A c \in Chan : Fit(slots'[c])
  BY FitPart DEF PictureInv
<1>2. ~hasDone' => slots'["done"] = {}
  BY DEF PictureInv, Chan
<1> QED
  BY <1>1, <1>2 DEF PictureInv

LEMMA PictureConnect ==
    ASSUME EmitInv, PictureInv, NEW who \in Who, NEW keep \in BOOLEAN, Connect(who, keep)
    PROVE  PictureInv'
<1>1. ASSUME NEW c \in Chan PROVE Fit(slots'[c])
  <2>1. CASE c \in DOMAIN who
    <3>1. PICK k \in BOOLEAN : slots'[c] = slots[c] \cup {NewSlot(conns + 1, who[c], k)}
      BY <2>1 DEF Connect
    <3>2. Formed(NewSlot(conns + 1, who[c], k))
      BY <2>1, WhoListens, MadeFor
    <3> QED BY <3>1, <3>2, FS_AddElement DEF PictureInv, Fit
  <2>2. CASE c \notin DOMAIN who
    BY <2>2 DEF Connect, PictureInv
  <2> QED BY <2>1, <2>2
<1>2. ~hasDone' => slots'["done"] = {}
  BY DEF Connect, PictureInv, Chan
<1> QED
  BY <1>1, <1>2 DEF Connect, PictureInv

LEMMA PictureEmits ==
    ASSUME EmitInv, PictureInv, NEW c \in Chan, NEW r \in BOOLEAN, r => c = "error",
           stack' = Append(stack, NewFrame(c, r)), UNCHANGED <<slots, hasDone>>
    PROVE  PictureInv'
<1> DEFINE n == Len(stack) + 1
<1>1. /\ DOMAIN stack' = DOMAIN stack \cup {n} /\ n \notin DOMAIN stack
      /\ \A i \in DOMAIN stack : stack'[i] = stack[i]
      /\ stack'[n] = NewFrame(c, r)
  BY Push, NewFrameType DEF EmitInv, TypeOK
<1> HIDE DEF n
<1> QED
  BY <1>1 DEF PictureInv, NewFrame

(* What is left of a copy, and what is below the innermost emit. *)
LEMMA PictureFrames ==
    ASSUME EmitInv, PictureInv,
           DOMAIN stack' \subseteq DOMAIN stack,
           \A i \in DOMAIN stack' :
              /\ stack'[i].snap = stack[i].snap
              /\ stack'[i].cur \in {stack[i].cur, None} \cup stack[i].rest
              /\ stack'[i].raised = stack[i].raised /\ stack'[i].chan = stack[i].chan,
           UNCHANGED <<slots, hasDone>>
    PROVE  PictureInv'
<1>1. \A i \in DOMAIN stack : \A s \in stack[i].rest : Formed(s)
  BY DEF EmitInv, FramesNumbered, PictureInv, Fit
<1> QED
  BY <1>1 DEF PictureInv

LEMMA PictureVisits ==
    ASSUME EmitInv, PictureInv, NextSlot
    PROVE  PictureInv'
<1> DEFINE n == Len(stack)
<1>1. n \in DOMAIN stack /\ stack[n] \in Frame /\ UNCHANGED <<slots, hasDone>>
  BY DEF EmitInv, TypeOK, NextSlot
<1>2. PICK s \in stack[n].rest : stack' = [stack EXCEPT ![n] = Visit(stack[n], s)]
  BY <1>1 DEF NextSlot, Top
<1>3. /\ Visit(stack[n], s).snap = stack[n].snap
      /\ Visit(stack[n], s).cur \in {stack[n].cur, s}
      /\ Visit(stack[n], s).raised = stack[n].raised
      /\ Visit(stack[n], s).chan = stack[n].chan
  BY <1>1 DEF Visit, Frame
<1>4. /\ DOMAIN stack' = DOMAIN stack /\ stack'[n] = Visit(stack[n], s)
      /\ \A i \in DOMAIN stack \ {n} : stack'[i] = stack[i]
  BY <1>1, <1>2
<1> HIDE DEF n
<1> QED
  BY <1>1, <1>3, <1>4, PictureFrames

(* The listener of an emit returns, or the emit is over. *)
LEMMA PictureReturns ==
    ASSUME EmitInv, PictureInv, NEW q \in Seq(Frame), NEW n \in DOMAIN q \cup {0},
           DOMAIN q \subseteq DOMAIN stack, \A i \in DOMAIN q : q[i] = stack[i],
           stack' = q \/ stack' = [q EXCEPT ![n].cur = None],
           UNCHANGED <<slots, hasDone>>
    PROVE  PictureInv'
<1>1. DOMAIN stack' = DOMAIN q
  OBVIOUS
<1>2. ASSUME NEW i \in DOMAIN q
      PROVE  /\ stack'[i].snap = stack[i].snap
             /\ stack'[i].cur \in {stack[i].cur, None}
             /\ stack'[i].raised = stack[i].raised /\ stack'[i].chan = stack[i].chan
  <2>1. q[i] \in Frame /\ q[i] = stack[i]
    OBVIOUS
  <2>2. stack'[i] \in {q[i], [q[i] EXCEPT !.cur = None]}
    OBVIOUS
  <2> QED BY <2>1, <2>2 DEF Frame
<1> QED
  BY <1>1, <1>2, PictureFrames

LEMMA PictureInit == Init => PictureInv
<1>1. Fit({})
  BY FS_EmptySet DEF Fit
<1> QED
  BY <1>1 DEF Init, PictureInv, Chan

LEMMA PictureNext ==
    ASSUME EmitInv, PictureInv, [Next]_vars
    PROVE  PictureInv'
<1>1. CASE \E who \in Who, keep \in BOOLEAN : Connect(who, keep)
  BY <1>1, PictureConnect
<1>2. CASE \/ \E who \in Who, every \in BOOLEAN : Disconnect(who, every)
           \/ \E o \in Obj : DisconnectObj(o) \/ OnFinalize(o) \/ Collect(o)
           \/ Clear
           \/ UNCHANGED vars
  <2>1. (\A c \in Chan : slots'[c] \subseteq slots[c]) /\ UNCHANGED <<stack, hasDone>>
    <3>0. slots \in [Chan -> SUBSET Slot]
      BY DEF EmitInv, TypeOK
    <3>1. ASSUME NEW who \in Who, NEW every \in BOOLEAN, Disconnect(who, every) PROVE <2>1
      BY <3>1 DEF Disconnect, RemoveEvery, RemoveOne
    <3>2. ASSUME NEW o \in Obj, DisconnectObj(o) PROVE <2>1
      BY <3>2 DEF DisconnectObj, RemoveObj
    <3>3. ASSUME NEW o \in Obj, OnFinalize(o) \/ Collect(o) PROVE <2>1
      BY <3>3 DEF OnFinalize, Collect, WithoutRef, RemoveRef
    <3>4. CASE Clear
      BY <3>0, <3>4 DEF Clear, Chan
    <3>5. CASE UNCHANGED vars
      BY <3>5 DEF vars
    <3> QED BY <1>2, <3>1, <3>2, <3>3, <3>4, <3>5
  <2> QED BY <2>1, PictureFewer
<1>3. CASE \E c \in Chan : Emit(c)
  BY <1>3, PictureEmits DEF Emit
<1>4. CASE SetDone
  <2>1. CASE hasDone
    BY <1>4, <2>1, PictureEmits DEF SetDone, Chan
  <2>2. CASE ~hasDone
    BY <1>4, <2>2, PictureFewer DEF SetDone
  <2> QED BY <2>1, <2>2
<1>5. CASE Return \/ Raise
  <2>1. stack \in Seq(Frame) /\ Len(stack) \in DOMAIN stack
    <3>1. stack \in Seq(Frame) /\ stack # <<>>
      BY <1>5 DEF EmitInv, TypeOK, Return, Raise
    <3> QED BY <3>1
  <2>2. CASE stack' = Append(stack, NewFrame("error", TRUE))
    BY <1>5, <2>2, PictureEmits DEF Return, Raise, Chan
  <2>3. CASE stack' = [stack EXCEPT ![Len(stack)].cur = None]
    BY <1>5, <2>1, <2>3, PictureReturns DEF Return, Raise
  <2> QED BY <1>5, <2>2, <2>3 DEF Return, Raise
<1>6. CASE EndEmit
  <2>1. /\ Below \in Seq(Frame) /\ DOMAIN Below \subseteq DOMAIN stack
        /\ \A i \in DOMAIN Below : Below[i] = stack[i]
    BY <1>6, Pop DEF EndEmit, Below, EmitInv, TypeOK
  <2>2. Len(Below) \in DOMAIN Below \cup {0}
    BY <2>1
  <2> QED BY <1>6, <2>1, <2>2, PictureReturns DEF EndEmit
<1> QED
  BY <1>1, <1>2, <1>3, <1>4, <1>5, <1>6, PictureVisits DEF Next, UserStep, EmitStep, GCStep
-----------------------------------------------------------------------------
(* What a disconnect takes out of the bag. *)
LEMMA Earliest ==
    ASSUME NEW S \in SUBSET Slot, S # {}
    PROVE  \E s \in S : IsEarliest(s, S)
<1> DEFINE T == {s.at : s \in S}
<1>1. T \in SUBSET Nat /\ T # {}
  BY DEF Slot, ConnId
<1>2. PICK x \in T : \A y \in T : x <= y
  BY <1>1, Least
<1> QED
  BY <1>2 DEF IsEarliest

LEMMA MatchesIs ==
    ASSUME OwnFunctions, NEW s, Formed(s), NEW objs \in SUBSET Obj,
           NEW k \in Listener, k.obj \in objs \cup {None}
    PROVE  Matches(s, k, objs) <=> ListenerOf(s) = k /\ ~Dead(s, objs)
<1>1. /\ k \in [obj : Obj \cup {None}, func : Func \cup {None}]
      /\ ListenerOf(s) \in Listener /\ None \notin objs
  BY ListenerAssumption, NoneAssumption DEF Formed
<1>2. ListenerOf(s) = k <=> (k.func = s.func /\ k.obj = IF s.ref # None THEN s.ref ELSE s.obj)
  BY <1>1 DEF ListenerOf
<1>3. s.func = k.func => ((IF s.ref # None THEN s.ref ELSE s.obj) = None <=> k.obj = None)
  <2>1. ListenerOf(s).func = s.func /\ ListenerOf(s).obj = IF s.ref # None THEN s.ref ELSE s.obj
    BY DEF ListenerOf
  <2> QED BY <1>1, <2>1 DEF OwnFunctions
<1> QED
  BY <1>1, <1>2, <1>3 DEF Formed, Matches, SameObj, Dead

LEMMA DropOne ==
    ASSUME OwnFunctions, NEW S \in SUBSET Slot, Fit(S),
           \A s, t \in S : s.at = t.at => s = t,
           NEW objs \in SUBSET Obj, NEW k \in Listener, k.obj \in objs \cup {None}
    PROVE  Subscribed(RemoveOne(S, k, objs), objs) =
             [l \in Listener |-> IF k = l /\ Subscribed(S, objs)[l] > 0
                                THEN Subscribed(S, objs)[l] - 1 ELSE Subscribed(S, objs)[l]]
<1> DEFINE M == {s \in S : Matches(s, k, objs)}
           bag == Subscribed(S, objs)
<1>1. M = Live(S, k, objs)
  BY MatchesIs, Found DEF Fit
<1>2. bag \in [Listener -> Nat] /\ bag[k] = Cardinality(M)
  BY <1>1, BagType DEF B!Bag, Subscribed
<1>3. CASE M = {}
  <2>1. RemoveOne(S, k, objs) = S
    BY <1>3 DEF RemoveOne
  <2>2. bag[k] = 0
    BY <1>2, <1>3, FS_EmptySet
  <2> HIDE DEF bag
  <2>3. bag = [l \in Listener |-> IF k = l /\ bag[l] > 0 THEN bag[l] - 1 ELSE bag[l]]
    BY <1>2, <2>2
  <2> QED BY <2>1, <2>3 DEF bag
<1>4. CASE M # {}
  <2>1. PICK s \in M : IsEarliest(s, M)
    BY <1>4, Earliest
  <2>2. \A t \in M : IsEarliest(t, M) => t = s
    <3>1. \A t \in M : t.at \in Nat
      BY DEF Slot, ConnId
    <3> QED BY <2>1, <3>1 DEF IsEarliest
  <2>3. RemoveOne(S, k, objs) = S \ {s}
    BY <2>1, <2>2 DEF RemoveOne
  <2>4. s \in S /\ ListenerOf(s) = k /\ ~Dead(s, objs)
    BY MatchesIs DEF Fit
  <2>5. /\ bag[k] > 0
        /\ Subscribed(S \ {s}, objs) = [l \in Listener |-> IF l = k THEN bag[l] - 1 ELSE bag[l]]
    <3>1. /\ bag[k] > 0
          /\ \A l \in Listener : Subscribed(S \ {s}, objs)[l] = IF l = k THEN bag[l] - 1 ELSE bag[l]
      BY <2>4, BagTake
    <3>2. Subscribed(S \ {s}, objs) = [l \in Listener |-> Subscribed(S \ {s}, objs)[l]]
      BY BagIs
    <3> HIDE DEF bag
    <3> QED BY <3>1, <3>2
  <2> HIDE DEF bag
  <2>6. [l \in Listener |-> IF l = k THEN bag[l] - 1 ELSE bag[l]] =
        [l \in Listener |-> IF k = l /\ bag[l] > 0 THEN bag[l] - 1 ELSE bag[l]]
    BY <2>5
  <2> QED BY <2>3, <2>5, <2>6 DEF bag
<1> QED
  BY <1>3, <1>4

(* What is taken away is all of some listeners. *)
LEMMA DropAll ==
    ASSUME NEW S, Fit(S), NEW T \in SUBSET S, NEW objs, NEW gone, NEW L \in SUBSET Listener,
           \A s \in S : s \in T /\ ~Dead(s, gone) <=> ~Dead(s, objs) /\ ListenerOf(s) \notin L
    PROVE  \A l \in Listener :
              Subscribed(T, gone)[l] = IF l \in L THEN 0 ELSE Subscribed(S, objs)[l]
<1>1. Fit(T)
  BY FitPart
<1>2. ASSUME NEW l \in L PROVE Cardinality(Live(T, l, gone)) = 0
  <2>1. Live(T, l, gone) = {}
    BY <1>1, Found
  <2> QED BY <2>1, FS_EmptySet
<1>3. ASSUME NEW l \in Listener \ L PROVE Live(T, l, gone) = Live(S, l, objs)
  <2>1. Live(T, l, gone) = {s \in T : ListenerOf(s) = l /\ ~Dead(s, gone)}
    BY <1>1, Found
  <2>2. Live(S, l, objs) = {s \in S : ListenerOf(s) = l /\ ~Dead(s, objs)}
    BY Found
  <2> QED BY <2>1, <2>2
<1> QED
  BY <1>2, <1>3 DEF Subscribed

LEMMA DropEvery ==
    ASSUME OwnFunctions, NEW S, Fit(S), NEW objs \in SUBSET Obj,
           NEW k \in Listener, k.obj \in objs \cup {None}
    PROVE  \A l \in Listener : Subscribed(RemoveEvery(S, k, objs), objs)[l] =
              IF l = k THEN 0 ELSE Subscribed(S, objs)[l]
<1> DEFINE T == RemoveEvery(S, k, objs)
           L == {k}
<1>1. T \in SUBSET S /\ L \in SUBSET Listener
  BY DEF RemoveEvery
<1>2. \A s \in S : s \in T /\ ~Dead(s, objs) <=> ~Dead(s, objs) /\ ListenerOf(s) \notin L
  BY MatchesIs DEF RemoveEvery, Fit
<1>3. \A l \in L : l = k
  OBVIOUS
<1>4. k \in L
  OBVIOUS
<1> HIDE DEF T, L
<1>5. \A l \in Listener : Subscribed(T, objs)[l] = IF l \in L THEN 0 ELSE Subscribed(S, objs)[l]
  BY <1>1, <1>2, DropAll
<1> QED
  BY <1>3, <1>4, <1>5 DEF T

LEMMA DropObj ==
    ASSUME NEW S, Fit(S), NEW T \in SUBSET S, NEW objs, NEW gone, NEW o,
           \A s \in S : s \in T /\ ~Dead(s, gone) <=> ~Dead(s, objs) /\ ListenerOf(s).obj # o
    PROVE  Subscribed(T, gone) = B!Forget(Subscribed(S, objs), o)
<1> DEFINE L == {l \in Listener : l.obj = o}
<1>1. \A s \in S : s \in T /\ ~Dead(s, gone) <=> ~Dead(s, objs) /\ ListenerOf(s) \notin L
  BY DEF Fit, Formed
<1>2. L \in SUBSET Listener /\ \A l \in Listener : l \in L <=> l.obj = o
  OBVIOUS
<1> HIDE DEF L
<1>3. \A l \in Listener : Subscribed(T, gone)[l] = IF l \in L THEN 0 ELSE Subscribed(S, objs)[l]
  BY <1>1, <1>2, DropAll, SMTT(30)
<1>4. Subscribed(T, gone) = [l \in Listener |-> Subscribed(T, gone)[l]]
  BY BagIs
<1> QED
  BY <1>2, <1>3, <1>4 DEF B!Forget

-----------------------------------------------------------------------------
(* The picture of a state: the same code has the control. *)
LEMMA Pictured ==
    ASSUME EmitInv, PictureInv
    PROVE  /\ Emitting = Picture(stack, alive)
           /\ Emitting # <<>> <=> stack # <<>>
           /\ Len(Emitting) = Len(stack) /\ DOMAIN Emitting = DOMAIN stack
           /\ stack # <<>> =>
                /\ Len(stack) \in DOMAIN stack
                /\ B!Innermost = Owed(Top, alive)
                /\ B!Innermost.busy # None <=> Top.cur # None
                /\ B!Outer = Picture(Below, alive)
           /\ B!UserRuns <=> InUserCode
<1>1. stack \in Seq(Frame) /\ Emitting = Picture(stack, alive)
  BY DEF EmitInv, TypeOK, Emitting, Picture
<1>2. /\ Len(Emitting) = Len(stack) /\ DOMAIN Emitting = DOMAIN stack
      /\ \A i \in DOMAIN stack : Emitting[i] = Owed(stack[i], alive)
      /\ Emitting # <<>> <=> stack # <<>>
  <2>1. Len(Emitting) = Len(stack) /\ Emitting \in Seq({Owed(F, alive) : F \in Frame})
    BY <1>1, PictureType
  <2> QED BY <1>1, <2>1, PictureType, EmptySeq
<1>3. ASSUME stack # <<>>
      PROVE  /\ Len(stack) \in DOMAIN stack
             /\ B!Innermost = Owed(Top, alive)
             /\ B!Innermost.busy # None <=> Top.cur # None
             /\ B!Outer = Picture(Below, alive)
  <2>1. Len(stack) \in DOMAIN stack
    BY <1>1, <1>3
  <2>2. B!Innermost = Owed(Top, alive)
    BY <1>2, <2>1 DEF B!Innermost, Top
  <2>3. Top.cur # None => ListenerOf(Top.cur) # None
    BY <2>1, NoneAssumption DEF PictureInv, Formed, Top
  <2>4. B!Outer = Picture(Below, alive)
    BY <1>1, <1>3, PicturePop DEF B!Outer, Below
  <2> QED BY <2>1, <2>2, <2>3, <2>4 DEF Owed
<1> QED
  BY <1>1, <1>2, <1>3 DEF B!UserRuns, InUserCode

(* A step that only edits the slots leaves the emits in progress alone. *)
LEMMA SameEmits ==
    ASSUME UNCHANGED <<stack, alive>>
    PROVE  Emitting' = Emitting
BY DEF Emitting

LEMMA SimInit == Init => B!BInit
<1> SUFFICES ASSUME Init PROVE B!BInit
  OBVIOUS
<1>1. Subs = [c \in Chan |-> B!NoOne]
  BY BagEmpty DEF Init, Subs
<1>2. Emitting = <<>>
  BY DEF Init, Emitting
<1> QED
  BY <1>1, <1>2 DEF Init, B!BInit

LEMMA SimConnect ==
    ASSUME EmitInv, PictureInv, NEW who \in Who, NEW keep \in BOOLEAN, Connect(who, keep)
    PROVE  B!BNext
<1>1. B!UserRuns /\ UNCHANGED <<Emitting, done>>
  BY Pictured, SameEmits DEF Connect
<1>2. ASSUME NEW c \in Chan
      PROVE  Subscribed(slots'[c], alive) =
               [l \in Listener |-> IF c \in DOMAIN who /\ who[c] = l
                                  THEN Subs[c][l] + 1 ELSE Subs[c][l]]
  <2>0. Subs[c] = Subscribed(slots[c], alive) /\ Subs[c] \in B!Bag
    BY BagType DEF Subs, PictureInv
  <2>1. CASE c \in DOMAIN who
    <3>1. PICK k \in BOOLEAN : slots'[c] = slots[c] \cup {NewSlot(conns + 1, who[c], k)}
      BY <2>1 DEF Connect
    <3> DEFINE s == NewSlot(conns + 1, who[c], k)
    <3>2. who[c] \in Listener /\ who[c].obj \in alive \cup {None}
      BY <2>1, WhoListens DEF Connect
    <3>3. Formed(s) /\ ListenerOf(s) = who[c] /\ ~Dead(s, alive)
      BY <3>2, MadeFor
    <3>4. s \notin slots[c]
      <4>1. s.at = conns + 1 /\ conns \in Nat
        BY <3>2, NewSlotType DEF EmitInv, TypeOK, Connect
      <4>2. \A t \in slots[c] : t.at <= conns /\ t.at \in Nat
        BY DEF EmitInv, TypeOK, SlotsNumbered, Numbered, Slot, ConnId
      <4> QED BY <4>1, <4>2
    <3> HIDE DEF s
    <3>5. Subscribed(slots[c] \cup {s}, alive) =
            [l \in Listener |-> IF l = ListenerOf(s) THEN Subs[c][l] + 1 ELSE Subs[c][l]]
      BY <2>0, <3>3, <3>4, BagAdd DEF PictureInv
    <3> QED BY <2>1, <3>1, <3>3, <3>5 DEF s
  <2>2. CASE c \notin DOMAIN who
    <3>1. slots'[c] = slots[c]
      BY <2>2 DEF Connect
    <3> QED BY <2>0, <2>2, <3>1 DEF B!Bag
  <2> QED BY <2>1, <2>2
<1>3. alive' = alive
  BY DEF Connect
<1>4. B!Subscribe(who)
  BY <1>1, <1>2, <1>3 DEF B!Subscribe, Subs
<1>5. PICK D \in SUBSET Chan : who \in [D -> Listener]
  BY WhoAssumption
<1> QED
  BY <1>4, <1>5 DEF B!BNext

LEMMA SimDisconnect ==
    ASSUME OwnFunctions, EmitInv, PictureInv,
           NEW who \in Who, NEW every \in BOOLEAN, Disconnect(who, every)
    PROVE  B!BNext
<1>1. B!UserRuns /\ UNCHANGED <<Emitting, done>> /\ alive' = alive /\ alive \in SUBSET Obj
  BY Pictured, SameEmits DEF Disconnect, EmitInv, TypeOK
<1>2. ASSUME NEW c \in Chan
      PROVE  Subscribed(slots'[c], alive) =
               [l \in Listener |-> IF c \in DOMAIN who /\ who[c] = l /\ Subs[c][l] > 0
                                  THEN IF every THEN 0 ELSE Subs[c][l] - 1 ELSE Subs[c][l]]
  <2>1. /\ Subs[c] = Subscribed(slots[c], alive) /\ Subs[c] \in [Listener -> Nat]
        /\ Fit(slots[c]) /\ slots[c] \in SUBSET Slot
        /\ \A s, t \in slots[c] : s.at = t.at => s = t
    BY BagType DEF Subs, PictureInv, B!Bag, EmitInv, TypeOK, SlotsNumbered, Numbered
  <2>2. CASE c \notin DOMAIN who
    <3>1. slots'[c] = slots[c]
      BY <2>2 DEF Disconnect
    <3> QED BY <2>1, <2>2, <3>1
  <2>3. CASE c \in DOMAIN who
    <3>1. who[c] \in Listener /\ who[c].obj \in alive \cup {None}
      BY <2>3, WhoListens DEF Disconnect
    <3>2. CASE ~every
      <4>1. slots'[c] = RemoveOne(slots[c], who[c], alive)
        BY <2>3, <3>2 DEF Disconnect
      <4> QED BY <1>1, <2>1, <2>3, <3>1, <3>2, <4>1, DropOne
    <3>3. CASE every
      <4>1. slots'[c] = RemoveEvery(slots[c], who[c], alive)
        BY <2>3, <3>3 DEF Disconnect
      <4>4. \A l \in Listener : Subscribed(slots'[c], alive)[l] =
                IF l = who[c] THEN 0 ELSE Subscribed(slots[c], alive)[l]
        BY <1>1, <2>1, <3>1, <4>1, DropEvery
      <4>5. Subscribed(slots'[c], alive) = [l \in Listener |-> Subscribed(slots'[c], alive)[l]]
        BY BagIs
      <4>6. \A l \in Listener : Subs[c][l] \in Nat
        BY <2>1
      <4> QED BY <2>1, <2>3, <3>3, <4>4, <4>5, <4>6
    <3> QED BY <3>2, <3>3
  <2> QED BY <2>2, <2>3
<1>3. B!Unsubscribe(who, every)
  BY <1>1, <1>2 DEF B!Unsubscribe, Subs
<1>4. PICK D \in SUBSET Chan : who \in [D -> Listener]
  BY WhoAssumption
<1> QED
  BY <1>3, <1>4 DEF B!BNext

LEMMA SimDisconnectObj ==
    ASSUME EmitInv, PictureInv, NEW o \in Obj, DisconnectObj(o)
    PROVE  B!BNext
<1>1. B!UserRuns /\ UNCHANGED <<Emitting, done>> /\ alive' = alive
  BY Pictured, SameEmits DEF DisconnectObj
<1>2. ASSUME NEW c \in Chan
      PROVE  Subscribed(slots'[c], alive) = B!Forget(Subs[c], o)
  <2>1. slots'[c] = RemoveObj(slots[c], o, alive) /\ o \in alive /\ o # None
    BY NoneAssumption DEF DisconnectObj
  <2>2. \A s \in slots[c] : s \in slots'[c] /\ ~Dead(s, alive) <=>
                             ~Dead(s, alive) /\ ListenerOf(s).obj # o
    BY <2>1 DEF RemoveObj, SameObj, Dead, ListenerOf, PictureInv, Fit, Formed
  <2>3. slots'[c] \in SUBSET slots[c] /\ Fit(slots[c]) /\ Subs[c] = Subscribed(slots[c], alive)
    BY <2>1 DEF RemoveObj, PictureInv, Subs
  <2> QED BY <2>2, <2>3, DropObj
<1>3. B!UnsubscribeObj(o)
  BY <1>1, <1>2 DEF B!UnsubscribeObj, Subs
<1> QED
  BY <1>3 DEF B!BNext

LEMMA SimClear ==
    ASSUME EmitInv, PictureInv, Clear
    PROVE  B!BNext
<1>1. B!UserRuns /\ UNCHANGED <<Emitting, done>> /\ alive' = alive
  BY Pictured, SameEmits DEF Clear
<1>2. Subs' = [Subs EXCEPT !["value"] = B!NoOne]
  <2>1. \A c \in Chan : slots'[c] = IF c = "value" THEN {} ELSE slots[c]
    BY DEF Clear, EmitInv, TypeOK
  <2> QED BY <1>1, <2>1, BagEmpty DEF Subs
<1>3. B!UnsubscribeAll
  BY <1>1, <1>2 DEF B!UnsubscribeAll
<1> QED
  BY <1>3 DEF B!BNext

(* The bags do not change with the emits. *)
LEMMA SameSubs ==
    ASSUME UNCHANGED <<slots, alive>>
    PROVE  Subs' = Subs
BY DEF Subs

(* An emit begins and owes a call to every subscription. *)
LEMMA SimBegin ==
    ASSUME EmitInv, NEW c \in Chan, NEW r \in BOOLEAN,
           stack' = Append(stack, NewFrame(c, r)), alive' = alive
    PROVE  Emitting' = B!Begin(c)
<1>1. /\ stack \in Seq(Frame) /\ NewFrame(c, r) \in Frame
      /\ Emitting = Picture(stack, alive) /\ Emitting' = Picture(stack', alive)
  BY NewFrameType DEF EmitInv, TypeOK, Emitting, Picture
<1>2. Emitting' = Append(Emitting, Owed(NewFrame(c, r), alive))
  BY <1>1, PicturePush
<1>3. Owed(NewFrame(c, r), alive) = [chan |-> c, owed |-> Subs[c], busy |-> None]
  BY DEF Owed, NewFrame, Subs
<1> QED
  BY <1>2, <1>3 DEF B!Begin

LEMMA SimEmit ==
    ASSUME EmitInv, PictureInv, NEW c \in Chan, Emit(c)
    PROVE  B!BNext
<1>1. B!UserRuns /\ UNCHANGED <<Subs, done>> /\ c # "done"
  BY Pictured, SameSubs DEF Emit
<1>2. Emitting' = B!Begin(c)
  BY SimBegin DEF Emit
<1> QED
  BY <1>1, <1>2 DEF B!BNext, B!BeginEmit

LEMMA SimSetDone ==
    ASSUME EmitInv, PictureInv, SetDone
    PROVE  B!BNext
<1>1. B!UserRuns /\ UNCHANGED <<Subs, alive>> /\ ~done /\ done' = TRUE
  BY Pictured, SameSubs DEF SetDone, EmitInv, TypeOK
<1>2. CASE hasDone
  <2>1. Emitting' = B!Begin("done")
    BY <1>1, <1>2, SimBegin DEF SetDone, Chan
  <2> QED BY <1>1, <2>1 DEF B!BNext, B!End
<1>3. CASE ~hasDone
  <2>1. Emitting' = Emitting
    BY <1>1, <1>3, SameEmits DEF SetDone
  <2>2. Subs["done"] = B!NoOne
    BY <1>3, BagEmpty DEF PictureInv, Subs, Chan
  <2> QED BY <1>1, <2>1, <2>2 DEF B!BNext, B!End
<1> QED
  BY <1>2, <1>3

(* The loop pays one call, or skips a slot that owes none. *)
LEMMA SimNextSlot ==
    ASSUME EmitInv, PictureInv, NextSlot
    PROVE  B!BNext \/ UNCHANGED B!bvars
<1> DEFINE n == Len(stack)
           F == stack[n]
<1>1. /\ stack \in Seq(Frame) /\ stack # <<>> /\ n \in DOMAIN stack /\ F \in Frame
      /\ F.cur = None
      /\ UNCHANGED <<Subs, done, alive>>
  BY Pictured, SameSubs DEF EmitInv, TypeOK, NextSlot, Top
<1>2. PICK s \in F.rest : stack' = [stack EXCEPT ![n] = Visit(F, s)]
  BY <1>1 DEF NextSlot, Top
<1> DEFINE k == ListenerOf(s)
           G == Visit(F, s)
<1>3. Fit(F.rest) /\ s \in Slot /\ s.at \in ConnId /\ s # None
  BY <1>1, FitPart, FrameType, NoneAssumption DEF PictureInv, EmitInv, FramesNumbered
<1> HIDE DEF n
<1>4. /\ G \in Frame /\ G.chan = F.chan /\ G.rest = F.rest \ {s}
      /\ G.cur = IF Skipped(s) THEN None ELSE s
  BY <1>1, <1>3 DEF Visit, Frame
<1> HIDE DEF F, G
<1>5. Emitting = Picture(stack, alive) /\ Emitting' = Picture(stack', alive)
  BY <1>1 DEF Emitting, Picture
<1>6. Emitting' = [Emitting EXCEPT ![n] = Owed(G, alive)]
  <2>1. stack' = [stack EXCEPT ![n] = G]
    BY <1>2 DEF G
  <2>2. Picture([stack EXCEPT ![n] = G], alive) = [Picture(stack, alive) EXCEPT ![n] = Owed(G, alive)]
    BY <1>1, <1>4, PictureChange
  <2> QED BY <1>5, <2>1, <2>2
<1>7. /\ Len(Emitting) = n /\ n \in DOMAIN Emitting /\ Emitting # <<>>
      /\ B!Innermost = Owed(F, alive) /\ Emitting[n] = Owed(F, alive)
  BY <1>1, <1>5, Pictured DEF Top, Picture, n, F
<1>8. CASE Skipped(s)
  <2>1. Subscribed(G.rest, alive) = Subscribed(F.rest, alive)
    BY <1>3, <1>4, <1>8, BagTake DEF Skipped
  <2>2. Owed(G, alive) = Emitting[n]
    BY <1>1, <1>4, <1>7, <1>8, <2>1 DEF Owed
  <2>3. Emitting' = Emitting
    BY <1>5, <1>6, <2>2 DEF Picture
  <2> QED BY <1>1, <2>3 DEF B!bvars
<1>9. CASE ~Skipped(s)
  <2> DEFINE E == Owed(F, alive)
  <2>1. /\ k \in Listener /\ E.owed[k] > 0 /\ E.owed = Subscribed(F.rest, alive) /\ E.busy = None
        /\ E.chan = F.chan /\ E = [chan |-> E.chan, owed |-> E.owed, busy |-> E.busy]
    BY <1>1, <1>3, <1>9, BagTake DEF Skipped, Owed
  <2>2. \A l \in Listener : Subscribed(G.rest, alive)[l] = IF l = k THEN E.owed[l] - 1 ELSE E.owed[l]
    <3>1. \A l \in Listener : Subscribed(F.rest \ {s}, alive)[l] =
             IF l = ListenerOf(s) THEN Subscribed(F.rest, alive)[l] - 1 ELSE Subscribed(F.rest, alive)[l]
      BY <1>3, <1>9, BagTake DEF Skipped
    <3> QED BY <1>4, <2>1, <3>1
  <2>3. Subscribed(G.rest, alive) = [E.owed EXCEPT ![k] = @ - 1]
    <3>1. Subscribed(G.rest, alive) = [l \in Listener |-> Subscribed(G.rest, alive)[l]]
      BY BagIs
    <3>2. E.owed = [l \in Listener |-> E.owed[l]]
      BY <2>1, BagIs
    <3> HIDE DEF E
    <3> QED BY <2>1, <2>2, <3>1, <3>2
  <2>4. Owed(G, alive) = [chan |-> E.chan, owed |-> [E.owed EXCEPT ![k] = @ - 1], busy |-> k]
    BY <1>3, <1>4, <1>9, <2>1, <2>3 DEF Owed
  <2> HIDE DEF E, k
  <2>5. Emitting' = [Emitting EXCEPT ![Len(Emitting)] = B!Paying(B!Innermost, k)]
    BY <1>6, <1>7, <2>4 DEF E, B!Paying
  <2>6. B!Deliver(k)
    BY <1>1, <1>7, <2>1, <2>5 DEF B!Deliver, E
  <2> QED BY <2>1, <2>6 DEF B!BNext
<1> QED
  BY <1>8, <1>9

(* The listener of the innermost emit is through, or has failed. *)
LEMMA SimFinish ==
    ASSUME EmitInv, PictureInv, Return \/ Raise
    PROVE  B!BNext
<1>1. stack \in Seq(Frame) /\ stack # <<>> /\ Top.cur # None /\ UNCHANGED <<Subs, done, alive>>
  BY SameSubs DEF EmitInv, TypeOK, Return, Raise
<1>2. /\ Emitting # <<>> /\ B!Innermost.busy # None /\ B!Innermost.chan = Top.chan
      /\ Emitting = Picture(stack, alive) /\ Emitting' = Picture(stack', alive)
  BY <1>1, Pictured DEF Owed, Emitting, Picture
<1>3. CASE stack' = [stack EXCEPT ![Len(stack)].cur = None]
  <2>1. Emitting' = B!Idle(Emitting)
    BY <1>1, <1>2, <1>3, PictureIdle
  <2> QED BY <1>1, <1>2, <2>1 DEF B!BNext, B!Finish
<1>4. CASE Top.chan = "value" /\ stack' = Append(stack, NewFrame("error", TRUE))
  <2>1. Emitting' = B!Begin("error")
    BY <1>1, <1>4, SimBegin DEF Chan
  <2> QED BY <1>1, <1>2, <1>4, <2>1 DEF B!BNext, B!Finish
<1> QED
  BY <1>3, <1>4 DEF Return, Raise

(* An emit is over when it owes nothing any more. *)
LEMMA SimEndEmit ==
    ASSUME EmitInv, PictureInv, EndEmit
    PROVE  B!BNext
<1>1. /\ stack \in Seq(Frame) /\ stack # <<>> /\ Top.cur = None /\ Top.rest = {}
      /\ UNCHANGED <<Subs, done, alive>>
  BY SameSubs DEF EmitInv, TypeOK, EndEmit
<1>2. /\ Emitting # <<>> /\ B!Innermost.busy = None /\ B!Innermost.owed = B!NoOne
      /\ B!Innermost.chan = Top.chan /\ B!Outer = Picture(Below, alive)
      /\ Emitting' = Picture(stack', alive)
  BY <1>1, Pictured, BagEmpty DEF Owed, Emitting, Picture
<1>3. Below \in Seq(Frame)
  BY <1>1, Pop DEF Below
<1>4. CASE stack' = Below
  BY <1>1, <1>2, <1>4 DEF B!BNext, B!Paid
<1>5. CASE Top.raised /\ Below # <<>> /\ stack' = [Below EXCEPT ![Len(Below)].cur = None]
  <2>1. Top.chan = "error"
    BY <1>1, <1>5, Pictured DEF PictureInv, Top
  <2>2. Emitting' = B!Idle(B!Outer) /\ B!Outer # <<>>
    <3>1. Picture([Below EXCEPT ![Len(Below)].cur = None], alive) = B!Idle(Picture(Below, alive))
      BY <1>3, <1>5, PictureIdle
    <3>2. Len(Picture(Below, alive)) = Len(Below) /\ Len(Below) # 0
      BY <1>3, <1>5, PictureType, EmptySeq
    <3>3. Picture(Below, alive) # <<>>
      BY <3>2
    <3> QED BY <1>2, <1>5, <3>1, <3>3
  <2> QED BY <1>1, <1>2, <2>1, <2>2 DEF B!BNext, B!Paid
<1>6. Below = <<>> => [Below EXCEPT ![Len(Below)].cur = None] = Below
  OBVIOUS
<1> QED
  BY <1>4, <1>5, <1>6 DEF EndEmit

(* A collected object is out of all bags at once. *)
LEMMA SimCollect ==
    ASSUME EmitInv, PictureInv, NEW o \in Obj, Collect(o)
    PROVE  B!BNext
<1>1. /\ alive' = alive \ {o} /\ o \in alive /\ ~Held(o) /\ o # None
      /\ done' = done /\ stack' = stack /\ stack \in Seq(Frame)
  BY NoneAssumption DEF Collect, EmitInv, TypeOK
<1>2. ASSUME NEW S, Fit(S), NEW T \in SUBSET S,
             \A s \in S : s.obj # o, \A s \in S \ T : s.ref = o
      PROVE  Subscribed(T, alive') = B!Forget(Subscribed(S, alive), o)
  <2>1. \A s \in S : s \in T /\ ~Dead(s, alive') <=> ~Dead(s, alive) /\ ListenerOf(s).obj # o
    BY <1>1, <1>2 DEF Dead, ListenerOf
  <2> QED BY <1>2, <2>1, DropObj
<1>3. ASSUME NEW c \in Chan
      PROVE  Subscribed(slots'[c], alive') = B!Forget(Subs[c], o)
  <2>1. /\ slots'[c] \in SUBSET slots[c] /\ \A s \in slots[c] \ slots'[c] : s.ref = o
        /\ \A s \in slots[c] : s.obj # o
        /\ Fit(slots[c]) /\ Subs[c] = Subscribed(slots[c], alive)
    BY <1>1 DEF Collect, WithoutRef, RemoveRef, Held, PictureInv, Subs
  <2> QED BY <1>2, <2>1
<1>4. ASSUME NEW i \in DOMAIN stack
      PROVE  Owed(stack[i], alive') = [Owed(stack[i], alive) EXCEPT !.owed = B!Forget(@, o)]
  <2>1. Fit(stack[i].rest) /\ \A s \in stack[i].rest : s.obj # o
    BY <1>1, FitPart DEF Held, PictureInv, EmitInv, FramesNumbered
  <2>2. Subscribed(stack[i].rest, alive') = B!Forget(Subscribed(stack[i].rest, alive), o)
    BY <1>2, <2>1
  <2> QED BY <2>2 DEF Owed
<1>5. B!Vanish(o)
  <2>1. Subs' = [c \in Chan |-> B!Forget(Subs[c], o)]
    BY <1>3 DEF Subs
  <2>2. Emitting' = [i \in DOMAIN Emitting |-> [Emitting[i] EXCEPT !.owed = B!Forget(@, o)]]
    <3>1. DOMAIN Emitting = DOMAIN stack /\ \A i \in DOMAIN stack : Emitting[i] = Owed(stack[i], alive)
      BY DEF Emitting
    <3> QED BY <1>1, <1>4, <3>1 DEF Emitting
  <2> QED BY <1>1, <2>1, <2>2 DEF B!Vanish
<1> QED
  BY <1>5 DEF B!BNext

(* Its slots are taken away when nobody counts them any more. *)
LEMMA SimOnFinalize ==
    ASSUME EmitInv, PictureInv, NEW o \in Obj, OnFinalize(o)
    PROVE  UNCHANGED B!bvars
<1>1. UNCHANGED <<Emitting, done, alive>> /\ o \notin alive /\ o # None
  BY SameEmits, NoneAssumption DEF OnFinalize
<1>2. ASSUME NEW c \in Chan
      PROVE  Subscribed(slots'[c], alive) = Subscribed(slots[c], alive)
  <2> DEFINE S == slots[c]
             T == slots'[c]
             L == {}
  <2>1. Fit(S) /\ T \in SUBSET S /\ L \in SUBSET Listener
    BY DEF OnFinalize, WithoutRef, RemoveRef, PictureInv
  <2>2. \A s \in S : s \in T /\ ~Dead(s, alive) <=> ~Dead(s, alive) /\ ListenerOf(s) \notin L
    BY <1>1 DEF OnFinalize, WithoutRef, RemoveRef, Dead
  <2>3. \A l \in Listener : l \notin L
    OBVIOUS
  <2> HIDE DEF S, T, L
  <2>4. \A l \in Listener : Subscribed(T, alive)[l] = Subscribed(S, alive)[l]
    BY <2>1, <2>2, <2>3, DropAll
  <2>5. /\ Subscribed(T, alive) = [l \in Listener |-> Subscribed(T, alive)[l]]
        /\ Subscribed(S, alive) = [l \in Listener |-> Subscribed(S, alive)[l]]
    BY BagIs
  <2> QED BY <2>4, <2>5 DEF S, T
<1>3. Subs' = Subs
  BY <1>1, <1>2 DEF Subs
<1> QED
  BY <1>1, <1>3 DEF B!bvars
-----------------------------------------------------------------------------
LEMMA SimNext ==
    ASSUME OwnFunctions, EmitInv, PictureInv, [Next]_vars
    PROVE  [B!BNext]_(B!bvars)
<1>1. CASE UNCHANGED vars
  BY <1>1, SameSubs, SameEmits DEF vars, B!bvars
<1>2. CASE UserStep
  BY <1>2, SimConnect, SimDisconnect, SimDisconnectObj, SimClear, SimEmit, SimSetDone, SimFinish
     DEF UserStep
<1>3. CASE EmitStep
  BY <1>3, SimNextSlot, SimFinish, SimEndEmit DEF EmitStep
<1>4. CASE GCStep
  BY <1>4, SimCollect, SimOnFinalize DEF GCStep
<1> QED
  BY <1>1, <1>2, <1>3, <1>4 DEF Next

(* The slots of an event, its weak references and the copies that its emits walk
   over implement bags of subscribers, of which an emit owes each one a call and
   pays it, whatever listeners do meanwhile. *)
THEOREM Refinement == OwnFunctions => (Spec => ImplementsBroadcast)
<1> SUFFICES ASSUME OwnFunctions PROVE Spec => ImplementsBroadcast
  OBVIOUS
<1>1. Init => B!BInit /\ PictureInv
  BY SimInit, PictureInit
<1>2. EmitInv /\ PictureInv /\ [Next]_vars => PictureInv'
  BY PictureNext
<1>3. EmitInv /\ PictureInv /\ [Next]_vars => [B!BNext]_(B!bvars)
  BY SimNext
<1> QED
  BY <1>1, <1>2, <1>3, EmitInvariant, PTL DEF Spec, ImplementsBroadcast, B!BSpec

(* The comparison of class Slots finds the connections of a living listener. *)
LEMMA MatchesMine ==
    ASSUME NEW S \in SUBSET Slot, NEW k \in Listener, NEW objs \in SUBSET Obj,
           k.obj \in objs \cup {None}, ~Confused(S, k), NEW s \in S
    PROVE  Matches(s, k, objs) <=> IsConnection(s, k)
<1>1. None \notin objs
  BY NoneAssumption
<1> QED
  BY <1>1 DEF Confused, Matches, SameObj, IsConnection

(* Slots.remove takes one connection, the earliest, if there is one. *)
LEMMA TakesTheEarliest ==
    ASSUME NEW S \in SUBSET Slot, \A s, t \in S : s.at = t.at => s = t,
           NEW k \in Listener, NEW objs \in SUBSET Obj,
           k.obj \in objs \cup {None}, ~Confused(S, k)
    PROVE  RemoveOne(S, k, objs) \in LessTheEarliest(S, k)
<1> DEFINE M == {s \in S : Matches(s, k, objs)}
           first == {s \in M : IsEarliest(s, M)}
<1>1. M = {s \in S : IsConnection(s, k)}
  BY MatchesMine
<1>2. RemoveOne(S, k, objs) = S \ first
  BY DEF RemoveOne
<1>3. CASE M = {}
  BY <1>1, <1>2, <1>3 DEF LessTheEarliest
<1>4. CASE M # {}
  <2>1. PICK s \in M : IsEarliest(s, M)
    BY <1>4, Earliest
  <2>2. first = {s}
    <3>1. \A t \in M : t.at \in Nat
      BY DEF Slot, ConnId
    <3> QED BY <2>1, <3>1 DEF IsEarliest
  <2> QED BY <1>1, <1>2, <1>4, <2>1, <2>2 DEF LessTheEarliest, IsEarliest
<1> QED BY <1>3, <1>4

(* A disconnect takes the earliest connection of the listener it names, or all of
   them, or all of an object, and no other slot of any channel (Slots.remove). *)
THEOREM DisconnectsOnly == Spec => DisconnectIsExact
<1> DEFINE Named == \A who \in Who, every \in BOOLEAN : Disconnect(who, every) =>
                      \A c \in Chan :
                         IF c \in DOMAIN who
                         THEN \/ Confused(slots[c], who[c])
                              \/ every /\ slots'[c] = {s \in slots[c] : ~IsConnection(s, who[c])}
                              \/ ~every /\ slots'[c] \in LessTheEarliest(slots[c], who[c])
                         ELSE slots'[c] = slots[c]
           OfObject == \A o \in Obj : DisconnectObj(o) =>
                         \A c \in Chan : slots'[c] = {s \in slots[c] : o \notin {s.obj, s.ref}}
<1>1. ASSUME EmitInv PROVE Named
  <2> SUFFICES ASSUME NEW who \in Who, NEW every \in BOOLEAN, Disconnect(who, every),
                      NEW c \in Chan, c \in DOMAIN who, ~Confused(slots[c], who[c])
               PROVE  IF every THEN slots'[c] = {s \in slots[c] : ~IsConnection(s, who[c])}
                               ELSE slots'[c] \in LessTheEarliest(slots[c], who[c])
    BY DEF Disconnect
  <2>1. /\ who[c] \in Listener /\ who[c].obj \in alive \cup {None}
        /\ alive \in SUBSET Obj /\ slots[c] \in SUBSET Slot
        /\ \A s, t \in slots[c] : s.at = t.at => s = t
    BY <1>1, WhoAssumption, WhoListens DEF Disconnect, EmitInv, TypeOK, SlotsNumbered, Numbered
  <2>2. slots'[c] = IF every THEN RemoveEvery(slots[c], who[c], alive)
                             ELSE RemoveOne(slots[c], who[c], alive)
    BY DEF Disconnect
  <2>3. CASE every
    <3>1. \A s \in slots[c] : Matches(s, who[c], alive) <=> IsConnection(s, who[c])
      BY <2>1, MatchesMine
    <3> QED BY <2>2, <2>3, <3>1 DEF RemoveEvery
  <2>4. CASE ~every
    BY <2>1, <2>2, <2>4, TakesTheEarliest
  <2> QED BY <2>3, <2>4
<1>2. ASSUME EmitInv PROVE OfObject
  <2> SUFFICES ASSUME NEW o \in Obj, DisconnectObj(o), NEW c \in Chan
               PROVE  slots'[c] = {s \in slots[c] : o \notin {s.obj, s.ref}}
    OBVIOUS
  <2>1. o \in alive /\ o # None /\ slots'[c] = RemoveObj(slots[c], o, alive)
    BY NoneAssumption DEF DisconnectObj
  <2> QED BY <2>1 DEF RemoveObj, SameObj
<1>3. EmitInv /\ [Next]_vars => [Named /\ OfObject]_vars
  BY <1>1, <1>2
<1> QED
  BY <1>3, EmitInvariant, PTL DEF Spec, DisconnectIsExact
-----------------------------------------------------------------------------
(* The list of slots, as the code edits it, next to the set of slots. *)
InOrder(q) == \A i, j \in DOMAIN q : i < j => q[i].at < q[j].at

ListInv == list \in Seq(Slot) /\ InOrder(list) /\ ToSet(list) = slots["value"]

LEMMA Numbers == \A q \in Seq(Slot) : \A i \in 1 .. Len(q) : q[i] \in Slot /\ q[i].at \in Nat
<1>1. \A s \in Slot : s.at \in Nat
  BY DEF Slot, ConnId
<1> QED BY <1>1

(* A filter leaves the slots that it does not name, in their order. *)
LEMMA FilterKeeps ==
    ASSUME ListInv, NEW S \in SUBSET slots["value"], slots'["value"] = S,
           list' = Keep(list, S)
    PROVE  ListInv'
<1> DEFINE k == Keep(list, S)
<1>1. list \in Seq(Slot) /\ DOMAIN list = 1 .. Len(list)
  BY DEF ListInv
<1>2. k \in Seq(Slot \cap S) /\ \E f : PlacesOf(f, list, S, Len(list), k)
  BY <1>1, KeptPlaces
<1>3. PICK f : PlacesOf(f, list, S, Len(list), k)
  BY <1>2
<1> HIDE DEF k
<1>4. k \in Seq(Slot) /\ DOMAIN k = 1 .. Len(k)
  BY <1>2
<1>5. ASSUME NEW i \in 1 .. Len(k), NEW j \in 1 .. Len(k), i < j PROVE k[i].at < k[j].at
  <2>1. /\ f[i] \in 1 .. Len(list) /\ f[j] \in 1 .. Len(list) /\ f[i] < f[j]
        /\ k[i] = list[f[i]] /\ k[j] = list[f[j]]
    BY <1>3, <1>5 DEF PlacesOf
  <2>2. list[f[i]].at < list[f[j]].at
    BY <1>1, <2>1 DEF ListInv, InOrder
  <2> QED BY <2>1, <2>2
<1>6. ToSet(k) = S
  <2>1. ASSUME NEW i \in 1 .. Len(k) PROVE k[i] \in S
    BY <1>3 DEF PlacesOf
  <2>2. ASSUME NEW s \in S PROVE \E i \in 1 .. Len(k) : k[i] = s
    <3>1. PICK n \in 1 .. Len(list) : list[n] = s
      BY <1>1 DEF ListInv, ToSet
    <3>2. PICK i \in 1 .. Len(k) : f[i] = n
      BY <1>3, <3>1 DEF PlacesOf
    <3> QED BY <1>3, <3>1, <3>2 DEF PlacesOf
  <2> QED BY <1>4, <2>1, <2>2 DEF ToSet
<1> QED BY <1>4, <1>5, <1>6 DEF ListInv, InOrder, k

(* connect appends a slot with a number that is larger than all of them. *)
LEMMA AddedAtEnd ==
    ASSUME EmitInv, ListInv, conns < MaxConn, NEW l \in Listener, NEW k \in BOOLEAN,
           slots'["value"] = slots["value"] \cup {NewSlot(conns + 1, l, k)},
           list' = Append(list, NewSlot(conns + 1, l, k))
    PROVE  ListInv'
<1> DEFINE x == NewSlot(conns + 1, l, k)
<1>1. x \in Slot /\ x.at = conns + 1 /\ conns \in Nat
  BY NewSlotType DEF EmitInv, TypeOK
<1>2. \A i \in DOMAIN list : list[i] \in Slot /\ list[i].at <= conns
  BY DEF ListInv, EmitInv, SlotsNumbered, Numbered, Chan, ToSet
<1> HIDE DEF x
<1>3. /\ list' \in Seq(Slot) /\ DOMAIN list' = DOMAIN list \cup {Len(list) + 1}
      /\ \A i \in DOMAIN list : list'[i] = list[i] /\ i < Len(list) + 1
      /\ list'[Len(list) + 1] = x /\ Len(list) \in Nat
  <2>1. list \in Seq(Slot) /\ list' = Append(list, x)
    BY DEF ListInv, x
  <2> QED BY <1>1, <2>1, Push
<1>4. InOrder(list')
  <2>1. \A i \in DOMAIN list : list[i].at < x.at
    BY <1>1, <1>2 DEF Slot, ConnId
  <2> QED BY <1>3, <2>1 DEF ListInv, InOrder
<1>5. ToSet(list') = slots'["value"]
  <2>1. ToSet(list') = ToSet(list) \cup {x}
    BY <1>3 DEF ToSet
  <2> QED BY <2>1 DEF ListInv, x
<1> QED BY <1>3, <1>4, <1>5 DEF ListInv

(* remove cuts out one slot, the earliest that matches. *)
LEMMA CutOut ==
    ASSUME ListInv, NEW i \in DOMAIN list, list' = Cut(i),
           slots'["value"] = slots["value"] \ {list[i]}
    PROVE  ListInv'
<1> DEFINE front == SubSeq(list, 1, i - 1)
           back == SubSeq(list, i + 1, Len(list))
<1>1. list \in Seq(Slot) /\ Len(list) \in Nat /\ i \in 1 .. Len(list)
  BY DEF ListInv
<1>2. /\ front \in Seq(Slot) /\ Len(front) = i - 1
      /\ \A n \in 1 .. i - 1 : front[n] = list[n]
  <2>1. i - 1 \in 0 .. Len(list)
    BY <1>1
  <2> QED BY <1>1, <2>1, Split
<1>3. /\ back \in Seq(Slot) /\ Len(back) = Len(list) - i
      /\ \A n \in 1 .. Len(list) - i : back[n] = list[i + n]
  <2>1. i \in 0 .. Len(list)
    BY <1>1
  <2> QED BY <1>1, <2>1, Split
<1> HIDE DEF front, back
<1>4. /\ front \o back \in Seq(Slot) /\ Len(front \o back) = Len(front) + Len(back)
      /\ \A n \in 1 .. Len(front) : (front \o back)[n] = front[n]
      /\ \A n \in Len(front) + 1 .. Len(front) + Len(back) :
            (front \o back)[n] = back[n - Len(front)]
  <2>1. front \in Seq(Slot) /\ back \in Seq(Slot)
    BY <1>2, <1>3
  <2> QED BY ONLY <2>1, Joined
<1>5. list' = front \o back
  BY DEF Cut, front, back
<1>6. list' \in Seq(Slot) /\ DOMAIN list' = 1 .. Len(list) - 1
  BY <1>1, <1>2, <1>3, <1>4, <1>5
<1>7. \A n \in 1 .. i - 1 : list'[n] = list[n]
  BY <1>2, <1>4, <1>5
<1>8. ASSUME NEW n \in i .. Len(list) - 1 PROVE list'[n] = list[n + 1]
  <2>1. /\ n \in Len(front) + 1 .. Len(front) + Len(back)
        /\ n - Len(front) \in 1 .. Len(list) - i /\ i + (n - Len(front)) = n + 1
    BY <1>1, <1>2, <1>3
  <2>2. (front \o back)[n] = back[n - Len(front)]
    BY <1>4, <2>1
  <2>3. back[n - Len(front)] = list[i + (n - Len(front))]
    BY <1>3, <2>1
  <2> QED BY <1>5, <2>1, <2>2, <2>3
<1>9. InOrder(list')
  <2>1. \A m, n \in 1 .. Len(list) : m < n => list[m].at < list[n].at
    BY <1>1 DEF ListInv, InOrder
  <2> DEFINE was(n) == IF n < i THEN n ELSE n + 1
  <2>2. \A n \in 1 .. Len(list) - 1 : was(n) \in 1 .. Len(list) /\ list'[n] = list[was(n)]
    BY <1>1, <1>7, <1>8
  <2>3. \A m, n \in 1 .. Len(list) - 1 : m < n => was(m) < was(n)
    BY <1>1
  <2> HIDE DEF was
  <2>4. \A m, n \in 1 .. Len(list) - 1 : m < n => list'[m].at < list'[n].at
    BY <2>1, <2>2, <2>3
  <2> QED BY <1>6, <2>4 DEF InOrder
<1>10. ToSet(list') = ToSet(list) \ {list[i]}
  <2>1. \A n \in 1 .. Len(list) : list[n] = list[i] => n = i
    <3>1. ASSUME NEW n \in 1 .. Len(list), list[n] = list[i], n # i PROVE FALSE
      <4>1. list[n].at < list[i].at \/ list[i].at < list[n].at
        BY <1>1, <3>1 DEF ListInv, InOrder
      <4>2. list[i].at \in Nat
        BY <1>1, Numbers
      <4> QED BY <3>1, <4>1, <4>2
    <3> QED BY <3>1
  <2>2. ASSUME NEW n \in 1 .. Len(list) - 1
        PROVE  \E m \in 1 .. Len(list) : m # i /\ list'[n] = list[m]
    BY <1>1, <1>7, <1>8
  <2>3. ASSUME NEW m \in 1 .. Len(list), m # i
        PROVE  \E n \in 1 .. Len(list) - 1 : list'[n] = list[m]
    <3>1. CASE m < i
      <4>1. m \in 1 .. i - 1 /\ m \in 1 .. Len(list) - 1
        BY <1>1, <3>1
      <4> QED BY <1>7, <4>1
    <3>2. CASE ~(m < i)
      <4>1. m - 1 \in i .. Len(list) - 1 /\ m - 1 \in 1 .. Len(list) - 1 /\ m - 1 + 1 = m
        BY <1>1, <2>3, <3>2
      <4> QED BY <1>8, <4>1
    <3> QED BY <3>1, <3>2
  <2>4. DOMAIN list = 1 .. Len(list)
    BY <1>1
  <2>5. \A s : s \in ToSet(list') <=> \E n \in 1 .. Len(list) - 1 : list'[n] = s
    BY <1>6 DEF ToSet
  <2>6. \A s : s \in ToSet(list) <=> \E n \in 1 .. Len(list) : list[n] = s
    BY <2>4 DEF ToSet
  <2>7. ASSUME NEW s \in ToSet(list') PROVE s \in ToSet(list) /\ s # list[i]
    <3>1. PICK n \in 1 .. Len(list) - 1 : list'[n] = s
      BY <2>5, <2>7
    <3>2. PICK m \in 1 .. Len(list) : m # i /\ s = list[m]
      BY <2>2, <3>1
    <3> QED BY <2>1, <2>6, <3>2
  <2>8. ASSUME NEW s \in ToSet(list), s # list[i] PROVE s \in ToSet(list')
    BY <2>3, <2>5, <2>6, <2>8
  <2> QED BY <2>7, <2>8
<1> QED BY <1>6, <1>9, <1>10 DEF ListInv

LEMMA FoundAndCut ==
    ASSUME ListInv, NEW l, slots'["value"] = RemoveOne(slots["value"], l, alive),
           list' = RemoveFound(l)
    PROVE  ListInv'
<1> DEFINE hit == {i \in DOMAIN list : Matches(list[i], l, alive)}
           M == {s \in slots["value"] : Matches(s, l, alive)}
<1>1. list \in Seq(Slot) /\ DOMAIN list = 1 .. Len(list) /\ Len(list) \in Nat
  BY DEF ListInv
<1>2. M = {list[i] : i \in hit}
  BY <1>1 DEF ListInv, ToSet
<1>3. CASE hit = {}
  <2>1. list' = list /\ slots'["value"] = slots["value"]
    BY <1>2, <1>3 DEF RemoveFound, RemoveOne
  <2> QED BY <2>1 DEF ListInv
<1>4. CASE hit # {}
  <2>1. \E n \in hit : \A m \in hit : n <= m
    <3>1. hit \in SUBSET Nat
      BY <1>1
    <3> HIDE DEF hit
    <3> QED BY <1>4, <3>1, Least
  <2> DEFINE i == CHOOSE n \in hit : \A m \in hit : n <= m
  <2>2. i \in hit /\ \A m \in hit : i <= m
    BY <2>1
  <2>3. list' = Cut(i)
    BY <1>4 DEF RemoveFound
  <2> HIDE DEF i, hit
  <2>4. i \in 1 .. Len(list) /\ \A m \in hit : m \in 1 .. Len(list)
    BY <1>1, <2>2 DEF hit
  <2>5. \A m \in hit : list[m].at \in Nat /\ (m # i => list[i].at < list[m].at)
    <3>1. ASSUME NEW m \in hit, m # i PROVE list[i].at < list[m].at
      <4>1. i < m
        BY <2>2, <2>4, <3>1
      <4> QED BY <1>1, <2>4, <4>1 DEF ListInv, InOrder
    <3>2. ASSUME NEW m \in hit PROVE list[m].at \in Nat
      BY <1>1, <2>4, Numbers
    <3> QED BY <3>1, <3>2
  <2>6. {s \in M : IsEarliest(s, M)} = {list[i]}
    <3> HIDE DEF M
    <3>1. list[i] \in M /\ IsEarliest(list[i], M)
      BY <1>2, <2>2, <2>5 DEF IsEarliest
    <3>2. ASSUME NEW s \in M, IsEarliest(s, M) PROVE s = list[i]
      <4>1. PICK m \in hit : s = list[m]
        BY <1>2
      <4>2. list[m].at <= list[i].at
        BY <3>1, <3>2, <4>1 DEF IsEarliest
      <4> QED BY <2>2, <2>5, <4>1, <4>2
    <3> QED BY <3>1, <3>2
  <2>7. slots'["value"] = slots["value"] \ {list[i]}
    BY <2>6 DEF RemoveOne
  <2> QED BY <1>1, <2>3, <2>4, <2>7, CutOut
<1> QED BY <1>3, <1>4

LEMMA ListNext == EmitInv /\ ListInv /\ LNext => ListInv'
<1> SUFFICES ASSUME EmitInv, ListInv, LNext PROVE ListInv'
  OBVIOUS
<1>0. "value" \in Chan /\ slots \in [Chan -> SUBSET Slot] /\ ToSet(list) = slots["value"]
  BY DEF Chan, EmitInv, TypeOK, ListInv
<1>1. ASSUME NEW who \in Who, NEW keep \in BOOLEAN, Connect(who, keep), list' = Added(who, keep)
      PROVE  ListInv'
  <2>1. CASE "value" \in DOMAIN who
    <3> DEFINE kept == keep /\ ("value" = "value" \/ DOMAIN who = {"value"})
    <3>1. kept = keep
      OBVIOUS
    <3>2. slots'["value"] = slots["value"] \cup {NewSlot(conns + 1, who["value"], kept)}
      BY <1>0, <1>1, <2>1 DEF Connect
    <3>3. list' = Append(list, NewSlot(conns + 1, who["value"], keep)) /\ conns < MaxConn
      BY <1>1, <2>1 DEF Added, Connect
    <3> HIDE DEF kept
    <3>4. who["value"] \in Listener
      BY <2>1, WhoListens
    <3> QED BY <3>1, <3>2, <3>3, <3>4, AddedAtEnd
  <2>2. CASE "value" \notin DOMAIN who
    <3>1. slots'["value"] = slots["value"] /\ list' = list
      BY <1>0, <1>1, <2>2 DEF Connect, Added
    <3> QED BY <3>1 DEF ListInv
  <2> QED BY <2>1, <2>2
<1>2. ASSUME NEW who \in Who, NEW every \in BOOLEAN, Disconnect(who, every),
             list' = Removed(who, every)
      PROVE  ListInv'
  <2>1. CASE "value" \notin DOMAIN who
    <3>1. slots'["value"] = slots["value"] /\ list' = list
      BY <1>0, <1>2, <2>1 DEF Disconnect, Removed
    <3> QED BY <3>1 DEF ListInv
  <2>2. CASE "value" \in DOMAIN who /\ every
    <3>1. slots'["value"] = RemoveEvery(slots["value"], who["value"], alive)
      BY <1>0, <1>2, <2>2 DEF Disconnect
    <3>2. list' = RemoveEach(who["value"])
      BY <1>2, <2>2 DEF Removed
    <3> QED BY <1>0, <3>1, <3>2, FilterKeeps DEF RemoveEach, RemoveEvery
  <2>3. CASE "value" \in DOMAIN who /\ ~every
    <3>1. slots'["value"] = RemoveOne(slots["value"], who["value"], alive)
      BY <1>0, <1>2, <2>3 DEF Disconnect
    <3>2. list' = RemoveFound(who["value"])
      BY <1>2, <2>3 DEF Removed
    <3> QED BY <3>1, <3>2, FoundAndCut
  <2> QED BY <2>1, <2>2, <2>3
<1>3. ASSUME NEW o \in Obj, DisconnectObj(o), list' = RemoveObject(o) PROVE ListInv'
  <2>1. slots'["value"] = RemoveObj(slots["value"], o, alive)
    BY <1>0, <1>3 DEF DisconnectObj
  <2> QED BY <1>0, <1>3, <2>1, FilterKeeps DEF RemoveObject, RemoveObj
<1>4. ASSUME NEW o \in Obj, slots' = WithoutRef(o), list' = RemoveWeakref(o) PROVE ListInv'
  <2>1. slots'["value"] = RemoveRef(slots["value"], o)
    BY <1>0, <1>4 DEF WithoutRef
  <2> QED BY <1>0, <1>4, <2>1, FilterKeeps DEF RemoveWeakref, RemoveRef
<1>5. ASSUME NEW o \in Obj, Collect(o), list' = IF RefCounting THEN RemoveWeakref(o) ELSE list
      PROVE  ListInv'
  <2>1. CASE RefCounting
    BY <1>4, <1>5, <2>1 DEF Collect
  <2>2. CASE ~RefCounting
    BY <1>5, <2>2 DEF Collect, ListInv
  <2> QED BY <2>1, <2>2
<1>6. ASSUME NEW o \in Obj, OnFinalize(o), list' = RemoveWeakref(o) PROVE ListInv'
  BY <1>4, <1>6 DEF OnFinalize
<1>7. ASSUME Clear, list' = <<>> PROVE ListInv'
  <2>1. slots'["value"] = {}
    BY <1>0, <1>7 DEF Clear
  <2>2. list' \in Seq(Slot) /\ DOMAIN list' = {}
    BY <1>7
  <2> QED BY <2>1, <2>2 DEF ListInv, InOrder, ToSet
<1>8. ASSUME (\E c \in Chan : Emit(c)) \/ SetDone \/ Raise \/ EmitStep, UNCHANGED list
      PROVE  ListInv'
  <2>1. slots' = slots
    BY <1>8 DEF Emit, SetDone, Raise, EmitStep, NextSlot, Return, EndEmit
  <2> QED BY <1>8, <2>1 DEF ListInv
<1> QED BY <1>1, <1>2, <1>3, <1>5, <1>6, <1>7, <1>8 DEF LNext

(* The list that class Slots edits with slices and filters is at all times the
   set of slots in the order of their connections. *)
THEOREM ListAndSet == LSpec => []ListIsTheSet
<1>1. LInit => EmitInv /\ ListInv
  <2>1. ASSUME LInit PROVE list \in Seq(Slot) /\ DOMAIN list = {} /\ slots["value"] = {}
    BY <2>1 DEF LInit, Init, Chan
  <2> QED BY <2>1, InitInv DEF LInit, ListInv, InOrder, ToSet
<1>2. EmitInv /\ ListInv /\ [LNext]_<<vars, list>> => EmitInv' /\ ListInv'
  <2>1. LNext => Next
    BY DEF LNext, Next, UserStep, GCStep
  <2>2. EmitInv /\ ListInv /\ UNCHANGED list /\ UNCHANGED vars => ListInv'
    BY DEF ListInv, vars
  <2> QED BY <2>1, <2>2, NextInv, ListNext
<1>3. ListInv => ListIsTheSet
  BY DEF ListInv, InOrder, ListIsTheSet
<1> QED
  BY <1>1, <1>2, <1>3, PTL DEF LSpec
=============================================================================
