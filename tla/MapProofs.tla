----------------------------- MODULE MapProofs -----------------------------
(***************************************************************************)
(* Map and PoolMap, proved for every limit, chunk size, number of values   *)
(* and mix of listeners: first the task list, then, when no listener feeds *)
(* the source, the order of the source, which they keep, and at last what  *)
(* becomes of each value.                                                  *)
(***************************************************************************)
EXTENDS MapTasks, Integers, SequenceLemmas

(* What is behind the limit and the end.  Tasks and queue hold each submitted
   awaitable at most once; what is queued was not started; a Map has no chunk, a
   PoolMap no queue, and nothing waits in a chunk after the source. *)
Submissions ==
    /\ chunk <= arrived
    /\ (size = 0 => chunk = 0) /\ (size # 0 => queue = <<>>)
    /\ source = "gone" => chunk = 0
    /\ \A id \in Id : Finished(id) => id <= arrived - chunk

Below(s) == \A k \in DOMAIN s : s[k] <= arrived - chunk

Places ==
    /\ IsInjective(tasks) /\ IsInjective(queue)
    /\ \A i \in DOMAIN tasks, j \in DOMAIN queue : tasks[i] # queue[j]
    /\ Below(tasks) /\ Below(queue)
    /\ \A j \in DOMAIN queue : ~Finished(queue[j])

(* Who will emit what is finished: in order, the callback of the head of the
   list; else each task has a callback of its own, or is being emitted. *)
Callbacks ==
    /\ IsInjective(ready)
    /\ \A k \in DOMAIN ready : Finished(ready[k])
    /\ ~ordered => \A k \in DOMAIN ready : ready[k] \in ToSet(tasks) /\ ready[k] # emitting

Turns ==
    /\ emitting # None => emitting \in ToSet(tasks) /\ (ordered => emitting = Head(tasks))
    /\ ~ordered => \A k \in DOMAIN tasks :
          (Finished(tasks[k]) => tasks[k] = emitting \/ tasks[k] \in ToSet(ready))
    /\ ordered /\ emitting = None /\ tasks # <<>> =>
          (Finished(Head(tasks)) => Head(tasks) \in ToSet(ready))

(* Work waits only while all places are taken. *)
Limits ==
    /\ Limit # 0 /\ size = 0 => Len(tasks) <= Limit
    /\ emitting = None /\ queue # <<>> => Limit # 0 /\ Len(tasks) = Limit

MapInv == TypeOK /\ Submissions /\ Places /\ Callbacks /\ Turns /\ Limits /\ EndsLast
-----------------------------------------------------------------------------
LEMMA Kinds ==
    ASSUME TypeOK
    PROVE  /\ None \notin Id /\ size \in Nat /\ Limit \in Nat /\ MaxItems \in Nat
           /\ arrived \in Nat /\ arrived <= MaxItems /\ chunk \in Nat
           /\ Len(tasks) \in Nat /\ DOMAIN tasks = 1 .. Len(tasks)
           /\ Len(queue) \in Nat /\ DOMAIN queue = 1 .. Len(queue)
           /\ Len(ready) \in Nat /\ DOMAIN ready = 1 .. Len(ready)
           /\ \A k \in DOMAIN tasks : tasks[k] \in Id
           /\ \A k \in DOMAIN queue : queue[k] \in Id
           /\ \A k \in DOMAIN ready : ready[k] \in Id
BY LimitAssumption, SizesAssumption, BoundAssumption, NoneAssumption DEF TypeOK, Id

LEMMA MapInit == Init => MapInv
<1> SUFFICES ASSUME Init PROVE MapInv
  OBVIOUS
<1>1. TypeOK
  <2>1. outcome \in [Id -> Outcome \cup {None}]
    BY DEF Init
  <2>2. <<>> \in Seq(Id) /\ 0 \in 0 .. MaxItems /\ 0 \in Nat
    BY BoundAssumption
  <2> QED BY <2>1, <2>2 DEF Init, TypeOK
<1>2. Submissions /\ Places /\ Callbacks /\ Turns /\ Limits /\ EndsLast
  BY LimitAssumption, BoundAssumption DEF Init, Submissions, Places, Below, Callbacks, Turns,
     Limits, EndsLast, IsInjective, Finished
<1> QED
  BY <1>1, <1>2 DEF MapInv

(* The values of a chunk, and what a finished task has to emit. *)
LEMMA FirstRange == ASSUME TypeOK, NEW id \in Id PROVE First(id) \in 1 .. id
<1>1. id \in Nat \ {0} /\ size \in Nat
  BY Kinds DEF Id
<1>2. CASE size = 0
  BY <1>1, <1>2 DEF First
<1>3. CASE size # 0
  <2>1. id - ((id - 1) % size) \in 1 .. id
    BY <1>1, <1>3
  <2> QED BY <1>3, <2>1 DEF First
<1> QED
  BY <1>2, <1>3

LEMMA ChunkValues ==
    ASSUME TypeOK, NEW id \in Id
    PROVE  Owed(id) \in Seq(Id)
<1>1. First(id) \in 1 .. id
  BY FirstRange
<1>2. \A k \in 1 .. id - First(id) + 1 : First(id) + k - 1 \in Id
  BY <1>1, Kinds DEF Id
<1>3. Values(id) \in [1 .. id - First(id) + 1 -> Id] /\ id - First(id) + 1 \in Nat
  BY <1>1, <1>2, Kinds DEF Values, Id
<1>4. Values(id) \in Seq(Id)
  BY <1>3
<1> QED
  BY <1>4 DEF Owed

LEMMA EmitTyped ==
    ASSUME TypeOK, NEW id \in Id, Finished(id), EmitTask(id), UNCHANGED outcome
    PROVE  /\ emitting' = id /\ outs' \in Seq(Id) /\ left' \in Seq(Id)
           /\ emitting' \in {i \in Id : Finished(i)'}
<1>1. Owed(id) \in Seq(Id)
  BY ChunkValues
<1>2. ASSUME Owed(id) = <<>> PROVE outs' \in Seq(Id) /\ left' \in Seq(Id)
  BY <1>2 DEF EmitTask, TypeOK
<1>3. ASSUME Owed(id) # <<>> PROVE outs' \in Seq(Id) /\ left' \in Seq(Id)
  <2>1. Tail(Owed(id)) \in Seq(Id) /\ Head(Owed(id)) \in Id
    BY <1>1, <1>3, Taken
  <2>2. outs' = Append(outs, Head(Owed(id))) /\ left' = Tail(Owed(id)) /\ outs \in Seq(Id)
    BY <1>3 DEF EmitTask, TypeOK
  <2> QED BY <2>1, <2>2, Grown
<1>4. emitting' = id /\ emitting' \in {i \in Id : Finished(i)'}
  BY DEF EmitTask, Finished
<1> QED
  BY <1>2, <1>3, <1>4

(* How many of the queue are started: as many as there is room for. *)
LEMMA RefillFacts ==
    ASSUME NEW ts \in Seq(Id), queue \in Seq(Id), Limit # 0 => Len(ts) <= Limit \/ queue = <<>>
    PROVE  /\ Refill(ts) \in 0 .. Len(queue)
           /\ Refill(ts) < Len(queue) => Limit # 0 /\ Len(ts) + Refill(ts) = Limit
           /\ Limit # 0 /\ Len(ts) <= Limit => Len(ts) + Refill(ts) <= Limit
BY LimitAssumption DEF Refill

-----------------------------------------------------------------------------
(* What a step leaves of the list of tasks and of the callbacks: no others, and
   without order a callback only for a task that is left. *)
Kept(ts, rd) ==
    /\ ts \in Seq(Id) /\ IsInjective(ts) /\ Len(ts) <= Len(tasks)
    /\ \A k \in DOMAIN ts : ts[k] \in ToSet(tasks)
    /\ rd \in Seq(Id) /\ IsInjective(rd)
    /\ \A k \in DOMAIN rd : Finished(rd[k])
    /\ ~ordered => \A k \in DOMAIN rd : rd[k] \in ToSet(ts)

LEMMA KeptTasks ==
    ASSUME MapInv, NEW ts, NEW rd, Kept(ts, rd)
    PROVE  /\ Below(ts) /\ \A k \in DOMAIN ts : ts[k] \in Id
           /\ \A i \in DOMAIN ts, j \in DOMAIN queue : ts[i] # queue[j]
BY Kinds DEF MapInv, Places, Below, Kept, ToSet

(* A task of the list starts to be emitted. *)
LEMMA StartEmit ==
    ASSUME MapInv, NEW ts, NEW id \in Id, Kept(ts, ready'), EmitTask(id), Finished(id),
           id \in ToSet(ts), ordered => id = Head(ts),
           ~ordered => \A k \in DOMAIN ready' : ready'[k] # id,
           ~ordered => \A k \in DOMAIN ts : Finished(ts[k]) => ts[k] = id \/ ts[k] \in ToSet(ready'),
           tasks' = ts,
           UNCHANGED <<fixed, source, arrived, chunk, outcome, ended, queue>>
    PROVE  MapInv'
<1> USE DEF fixed
<1>1. TypeOK'
  <2>1. /\ emitting' = id /\ outs' \in Seq(Id) /\ left' \in Seq(Id)
        /\ emitting' \in {i \in Id : Finished(i)'}
    BY EmitTyped DEF MapInv
  <2> QED BY <2>1 DEF MapInv, TypeOK, Kept
<1>2. emitting' = id /\ \A i \in Id : Finished(i)' = Finished(i)
  BY DEF EmitTask, Finished
<1>3. Submissions'
  BY <1>2 DEF MapInv, Submissions
<1>4. Places'
  <2>1. /\ Below(ts) /\ Below(queue) /\ IsInjective(ts) /\ IsInjective(queue)
        /\ \A i \in DOMAIN ts, j \in DOMAIN queue : ts[i] # queue[j]
    BY KeptTasks DEF MapInv, Places, Kept
  <2>2. Below(tasks)' /\ Below(queue)'
    BY <2>1 DEF Below
  <2>3. \A j \in DOMAIN queue : ~Finished(queue[j])'
    BY DEF MapInv, Places, Finished
  <2> QED BY <2>1, <2>2, <2>3 DEF Places
<1>5. Callbacks'
  BY <1>2 DEF Callbacks, Kept, Finished
<1>6. Turns'
  <2>1. id # None
    BY Kinds DEF MapInv
  <2> QED BY <1>2, <2>1 DEF Turns, Finished
<1>7. Limits'
  <2>1. Len(ts) \in Nat /\ Limit # 0 /\ size = 0 => Len(ts) <= Limit
    BY Kinds DEF MapInv, Limits, Kept
  <2>2. emitting' # None
    BY <1>2, Kinds DEF MapInv
  <2> QED BY <2>1, <2>2 DEF Limits
<1>8. EndsLast'
  <2>1. tasks # <<>> /\ ts # <<>>
    BY DEF ToSet, Kept
  <2>2. emitting' # None
    BY <1>2, Kinds DEF MapInv
  <2> QED BY <2>1, <2>2 DEF MapInv, EndsLast
<1> QED
  BY <1>1, <1>3, <1>4, <1>5, <1>6, <1>7, <1>8 DEF MapInv

(* The callback is over: what is queued is started, or the end comes. *)
LEMMA LeaveInv ==
    ASSUME MapInv, NEW ts, Kept(ts, ready'), LeaveCallback(ts),
           ~ordered => \A k \in DOMAIN ts : Finished(ts[k]) => ts[k] \in ToSet(ready'),
           ordered /\ ts # <<>> => ~Finished(Head(ts)),
           UNCHANGED <<fixed, source, arrived, chunk, outcome>>
    PROVE  MapInv'
<1> USE DEF fixed
<1> DEFINE n == Refill(ts)
           more == SubSeq(queue, 1, n)
<1>1. /\ tasks' = ts \o more /\ queue' = SubSeq(queue, n + 1, Len(queue))
      /\ emitting' = None /\ UNCHANGED <<left, outs>>
      /\ ended' = (ended \/ (tasks' = <<>> /\ source = "gone"))
  BY DEF LeaveCallback
<1>2. /\ ts \in Seq(Id) /\ queue \in Seq(Id) /\ Len(ts) \in Nat /\ Len(queue) \in Nat
      /\ DOMAIN ts = 1 .. Len(ts) /\ Limit \in Nat /\ size \in Nat
  BY Kinds DEF MapInv, TypeOK, Kept
<1>3. Limit # 0 /\ size = 0 => Len(ts) <= Limit
  <2>1. Limit # 0 /\ size = 0 => Len(tasks) <= Limit
    BY DEF MapInv, Limits
  <2>2. Len(ts) <= Len(tasks) /\ Len(tasks) \in Nat
    BY Kinds DEF MapInv, Kept
  <2> QED BY <1>2, <2>1, <2>2
<1>4. size # 0 => queue = <<>>
  BY DEF MapInv, Submissions
<1>5. /\ n \in 0 .. Len(queue)
      /\ n < Len(queue) => Limit # 0 /\ Len(ts) + n = Limit
      /\ Limit # 0 /\ Len(ts) <= Limit => Len(ts) + n <= Limit
  BY <1>2, <1>3, <1>4, RefillFacts
<1> HIDE DEF n
<1>6. /\ more \in Seq(Id) /\ Len(more) = n /\ \A i \in 1 .. n : more[i] = queue[i]
      /\ queue' \in Seq(Id) /\ Len(queue') = Len(queue) - n
      /\ \A i \in 1 .. Len(queue) - n : queue'[i] = queue[n + i]
  BY <1>1, <1>2, <1>5, Split
<1> HIDE DEF more
<1>7. /\ tasks' \in Seq(Id) /\ Len(tasks') = Len(ts) + n
      /\ \A i \in 1 .. Len(ts) : tasks'[i] = ts[i]
      /\ \A i \in Len(ts) + 1 .. Len(ts) + n : tasks'[i] = queue[i - Len(ts)]
  <2>1. /\ tasks' \in Seq(Id) /\ Len(tasks') = Len(ts) + Len(more)
        /\ \A i \in 1 .. Len(ts) : tasks'[i] = ts[i]
        /\ \A i \in Len(ts) + 1 .. Len(ts) + Len(more) : tasks'[i] = more[i - Len(ts)]
    <3>1. ts \in Seq(Id) /\ more \in Seq(Id)
      BY <1>2, <1>6
    <3>2. /\ ts \o more \in Seq(Id) /\ Len(ts \o more) = Len(ts) + Len(more)
          /\ \A i \in 1 .. Len(ts) : (ts \o more)[i] = ts[i]
          /\ \A i \in Len(ts) + 1 .. Len(ts) + Len(more) : (ts \o more)[i] = more[i - Len(ts)]
      BY ONLY <3>1, Joined
    <3> QED BY <1>1, <3>2
  <2>2. \A i \in Len(ts) + 1 .. Len(ts) + n : i - Len(ts) \in 1 .. n
    BY <1>2, <1>5
  <2> QED BY <1>6, <2>1, <2>2
<1>8. /\ DOMAIN tasks' = 1 .. Len(ts) + n /\ DOMAIN queue' = 1 .. Len(queue) - n
      /\ DOMAIN queue = 1 .. Len(queue) /\ n \in Nat
      /\ \A j \in DOMAIN queue' : n + j \in DOMAIN queue /\ queue'[j] = queue[n + j]
      /\ \A i \in DOMAIN tasks' : i \in DOMAIN ts \/
            (i \notin DOMAIN ts /\ i - Len(ts) \in DOMAIN queue /\ i - Len(ts) <= n
             /\ tasks'[i] = queue[i - Len(ts)])
  <2>1. /\ DOMAIN tasks' = 1 .. Len(ts) + n /\ DOMAIN queue' = 1 .. Len(queue) - n
        /\ DOMAIN queue = 1 .. Len(queue) /\ n \in Nat
    BY <1>2, <1>5, <1>6, <1>7
  <2>2. ASSUME NEW j \in DOMAIN queue'
        PROVE  n + j \in DOMAIN queue /\ queue'[j] = queue[n + j]
    BY <1>2, <1>5, <1>6, <2>1
  <2>3. ASSUME NEW i \in DOMAIN tasks', i \notin DOMAIN ts
        PROVE  /\ i - Len(ts) \in DOMAIN queue /\ i - Len(ts) <= n
               /\ tasks'[i] = queue[i - Len(ts)]
    <3>1. i \in Len(ts) + 1 .. Len(ts) + n
      BY <1>2, <2>1, <2>3
    <3>2. tasks'[i] = queue[i - Len(ts)]
      BY <1>7, <3>1
    <3> QED BY <1>2, <1>5, <2>1, <3>1, <3>2
  <2> QED BY <2>1, <2>2, <2>3
<1>9. TypeOK'
  BY <1>1, <1>6, <1>7 DEF MapInv, TypeOK, Kept, Finished
<1>10. \A i \in Id : Finished(i)' = Finished(i)
  BY DEF Finished
<1>11. Submissions'
  <2>1. queue = <<>> => queue' = <<>>
    BY <1>5, <1>6
  <2> QED BY <1>10, <2>1 DEF MapInv, Submissions
<1>12. Places'
  <2>1. /\ \A i \in DOMAIN ts, j \in DOMAIN queue : ts[i] # queue[j]
        /\ IsInjective(ts) /\ IsInjective(queue) /\ Below(ts) /\ Below(queue)
        /\ \A j \in DOMAIN queue : ~Finished(queue[j])
    BY KeptTasks DEF MapInv, Places, Kept
  <2>2. IsInjective(tasks')
    BY <1>2, <1>7, <1>8, <2>1 DEF IsInjective
  <2>3. IsInjective(queue')
    BY <1>2, <1>8, <2>1 DEF IsInjective
  <2>4. \A i \in DOMAIN tasks', j \in DOMAIN queue' : tasks'[i] # queue'[j]
    BY <1>2, <1>7, <1>8, <2>1 DEF IsInjective
  <2>5. Below(tasks)' /\ Below(queue)'
    BY <1>2, <1>7, <1>8, <2>1 DEF Below
  <2>6. \A j \in DOMAIN queue' : ~Finished(queue'[j])
    BY <1>8, <2>1
  <2> QED BY <2>2, <2>3, <2>4, <2>5, <2>6 DEF Places, Finished
<1>13. \A k \in DOMAIN tasks' : Finished(tasks'[k]) => k \in DOMAIN ts /\ tasks'[k] = ts[k]
  BY <1>2, <1>7, <1>8 DEF MapInv, Places
<1>14. Callbacks'
  <2>1. \A i \in Id : i \in ToSet(ts) => i \in ToSet(tasks')
    BY <1>2, <1>5, <1>7, <1>8 DEF ToSet
  <2>2. \A k \in DOMAIN ready' : ready'[k] \in Id /\ ready'[k] # emitting'
    BY <1>1, Kinds DEF MapInv, Kept
  <2> QED BY <1>10, <2>1, <2>2 DEF Callbacks, Kept, Finished
<1>15. ordered /\ tasks' # <<>> => ~Finished(Head(tasks'))
  <2>1. ASSUME tasks' # <<>> PROVE Head(tasks') = tasks'[1] /\ 1 \in DOMAIN tasks'
    BY <1>7, <2>1, Taken
  <2>2. 1 \in DOMAIN ts => Head(ts) = ts[1] /\ ts # <<>>
    BY <1>2
  <2> QED BY <1>13, <2>1, <2>2
<1>16. Turns'
  BY <1>1, <1>13, <1>15 DEF Turns, Finished
<1>17. Limits'
  <2>1. Limit # 0 /\ size = 0 => Len(tasks') <= Limit
    BY <1>3, <1>5, <1>7
  <2>2. queue' # <<>> => Limit # 0 /\ Len(tasks') = Limit
    BY <1>2, <1>5, <1>6, <1>7
  <2> QED BY <2>1, <2>2 DEF Limits
<1>18. EndsLast'
  <2>1. ended => tasks = <<>> /\ queue = <<>> /\ chunk = 0 /\ source = "gone"
    BY DEF MapInv, EndsLast
  <2>2. tasks = <<>> => ts = <<>>
    BY <1>2, Kinds DEF MapInv, Kept
  <2>3. tasks' = <<>> => ts = <<>> /\ queue = <<>>
    BY <1>2, <1>5, <1>7
  <2>4. queue = <<>> => queue' = <<>> /\ n = 0
    BY <1>2, <1>5, <1>6
  <2>5. ended => tasks' = <<>>
    BY <1>2, <1>7, <2>1, <2>2, <2>4
  <2>6. source = "gone" => chunk = 0
    BY DEF MapInv, Submissions
  <2> QED BY <1>1, <2>1, <2>3, <2>4, <2>5, <2>6 DEF EndsLast
<1> QED
  BY <1>9, <1>11, <1>12, <1>14, <1>16, <1>17, <1>18 DEF MapInv

-----------------------------------------------------------------------------
(* A new awaitable is put at the end of the list or of the queue. *)
LEMMA Added ==
    ASSUME NEW q \in Seq(Id), NEW r \in Seq(Id), NEW id \in Id, IsInjective(q),
           \A k \in DOMAIN q : q[k] # id, \A k \in DOMAIN r : r[k] # id,
           \A i \in DOMAIN q, j \in DOMAIN r : q[i] # r[j]
    PROVE  /\ IsInjective(Append(q, id))
           /\ \A i \in DOMAIN Append(q, id), j \in DOMAIN r : Append(q, id)[i] # r[j]
<1>1. /\ DOMAIN q = 1 .. Len(q) /\ Len(q) \in Nat
      /\ DOMAIN Append(q, id) = 1 .. Len(q) + 1
      /\ \A i \in 1 .. Len(q) : Append(q, id)[i] = q[i]
      /\ Append(q, id)[Len(q) + 1] = id
  BY Grown
<1>2. \A i \in DOMAIN Append(q, id) : i \in DOMAIN q \/ i = Len(q) + 1
  BY <1>1
<1>3. IsInjective(Append(q, id))
  BY <1>1, <1>2 DEF IsInjective
<1> QED
  BY <1>1, <1>2, <1>3

LEMMA ArriveInv == ASSUME MapInv, Arrive PROVE MapInv'
<1> USE DEF fixed
<1> DEFINE id == arrived + 1
<1>1. /\ TypeOK /\ Submissions /\ Places /\ Callbacks /\ Turns /\ Limits /\ EndsLast
      /\ source = "live" /\ arrived < MaxItems /\ arrived' = id
      /\ UNCHANGED <<fixed, source, ended, outcome, ready, emitting, left, outs>>
  BY DEF MapInv, Arrive
<1>2. /\ id \in Id /\ id \in 0 .. MaxItems /\ id \in Nat /\ chunk \in Nat /\ arrived \in Nat /\ size \in Nat
      /\ chunk <= arrived
  BY <1>1, Kinds DEF Id, Submissions
<1>3. ~Finished(id) /\ \A i \in Id : Finished(i)' = Finished(i)
  BY <1>1, <1>2 DEF Submissions, Finished
<1>4. /\ \A k \in DOMAIN tasks : tasks[k] # id /\ tasks[k] <= arrived - chunk /\ tasks[k] \in Id
      /\ \A k \in DOMAIN queue : queue[k] # id /\ queue[k] <= arrived - chunk /\ queue[k] \in Id
  BY <1>1, <1>2, Kinds DEF Places, Below, Id
<1>5. EndsLast'
  BY <1>1 DEF EndsLast
<1>6. CASE ~Completes
  <2>1. chunk' = chunk + 1 /\ UNCHANGED <<tasks, queue>> /\ chunk + 1 < size
    BY <1>2, <1>6 DEF Arrive, Completes
  <2>2. arrived' - chunk' = arrived - chunk /\ size # 0 /\ chunk' \in Nat /\ chunk' <= arrived'
    BY <1>1, <1>2, <2>1
  <2>3. TypeOK'
    BY <1>1, <1>2, <2>1, <2>2 DEF TypeOK, Finished
  <2>4. Submissions'
    BY <1>1, <1>3, <2>1, <2>2 DEF Submissions
  <2>5. Places' /\ Callbacks' /\ Turns' /\ Limits'
    BY <1>1, <2>1, <2>2 DEF Places, Below, Callbacks, Turns, Limits, Finished
  <2> QED BY <1>5, <2>3, <2>4, <2>5 DEF MapInv
<1>7. CASE Completes
  <2>1. chunk' = 0 /\ arrived' - chunk' = id /\ chunk' <= arrived' /\ chunk' \in Nat
    BY <1>1, <1>2, <1>7 DEF Arrive
  <2>2. /\ \A k \in DOMAIN tasks : tasks[k] <= id
        /\ \A k \in DOMAIN queue : queue[k] <= id
        /\ \A i \in Id : Finished(i) => i <= id
    BY <1>1, <1>2, <1>4 DEF Id, Submissions
  <2>3. Places => /\ IsInjective(tasks) /\ IsInjective(queue)
                  /\ \A i \in DOMAIN tasks, j \in DOMAIN queue : tasks[i] # queue[j]
                  /\ \A j \in DOMAIN queue : ~Finished(queue[j])
    BY DEF Places
  <2>4. tasks \in Seq(Id) /\ queue \in Seq(Id)
    BY <1>1 DEF TypeOK
  <2>5. CASE HasRoom(tasks)
    <3>1. tasks' = Append(tasks, id) /\ queue' = queue
      BY <1>7, <2>5 DEF Arrive
    <3>2. /\ tasks' \in Seq(Id) /\ Len(tasks) \in Nat /\ DOMAIN tasks = 1 .. Len(tasks)
          /\ Len(tasks') = Len(tasks) + 1 /\ DOMAIN tasks' = 1 .. Len(tasks) + 1
          /\ \A i \in 1 .. Len(tasks) : tasks'[i] = tasks[i]
          /\ tasks'[Len(tasks) + 1] = id
      <4> HIDE DEF id
      <4> QED BY <1>2, <2>4, <3>1, Grown
    <3>3. TypeOK'
      BY <1>1, <1>2, <2>1, <3>1, <3>2 DEF TypeOK, Finished
    <3>4. Submissions'
      BY <1>1, <1>3, <2>1, <2>2, <3>1 DEF Submissions
    <3>5. Places'
      <4>1. IsInjective(tasks') /\ \A i \in DOMAIN tasks', j \in DOMAIN queue : tasks'[i] # queue[j]
        <5> HIDE DEF id
        <5> QED BY <1>1, <1>2, <1>4, <2>3, <2>4, <3>1, Added
      <4>2. \A k \in DOMAIN tasks' : tasks'[k] <= id
        BY <1>2, <2>2, <3>2
      <4> QED BY <1>1, <1>3, <1>4, <2>1, <2>2, <2>3, <3>1, <4>1, <4>2 DEF Places, Below
    <3>6. \A i \in Id : i \in ToSet(tasks) => i \in ToSet(tasks')
      BY <3>2 DEF ToSet
    <3>7. Callbacks'
      BY <1>1, <1>3, <3>6, Kinds DEF Callbacks
    <3>8. tasks # <<>> => Head(tasks') = Head(tasks)
      BY <2>4, <3>2
    <3>9. tasks = <<>> => Head(tasks') = id
      BY <3>1
    <3>10. Turns'
      <4>1. \A k \in DOMAIN tasks' : Finished(tasks'[k]) => k \in DOMAIN tasks /\ tasks'[k] = tasks[k]
        BY <1>3, <3>2
      <4>2. emitting # None => tasks # <<>>
        BY <1>1 DEF Turns, ToSet
      <4>3. emitting # None => emitting \in Id
        BY <1>1 DEF TypeOK
      <4> QED BY <1>1, <1>3, <3>6, <3>8, <3>9, <4>1, <4>2, <4>3 DEF Turns, Finished
    <3>11. Limits'
      <4>1. emitting = None => queue = <<>>
        BY <1>1, <2>5, <3>2, Kinds DEF Limits, HasRoom, Submissions
      <4>2. Limit # 0 /\ size = 0 => Len(tasks') <= Limit
        BY <2>5, <3>2, LimitAssumption DEF HasRoom
      <4> QED BY <1>1, <3>1, <4>1, <4>2 DEF Limits
    <3> QED BY <1>5, <3>3, <3>4, <3>5, <3>7, <3>10, <3>11 DEF MapInv
  <2>6. CASE ~HasRoom(tasks)
    <3>1. queue' = Append(queue, id) /\ tasks' = tasks
      BY <1>7, <2>6 DEF Arrive
    <3>2. /\ queue' \in Seq(Id) /\ Len(queue) \in Nat /\ DOMAIN queue = 1 .. Len(queue)
          /\ DOMAIN queue' = 1 .. Len(queue) + 1
          /\ \A i \in 1 .. Len(queue) : queue'[i] = queue[i]
          /\ queue'[Len(queue) + 1] = id
      <4> HIDE DEF id
      <4> QED BY <1>2, <2>4, <3>1, Grown
    <3>3. TypeOK'
      BY <1>1, <1>2, <2>1, <3>1, <3>2 DEF TypeOK, Finished
    <3>4. size = 0 /\ Limit # 0 /\ Len(tasks) >= Limit
      BY <1>1, <2>6, Kinds DEF HasRoom
    <3>5. Submissions'
      BY <1>1, <1>3, <2>1, <2>2, <3>4 DEF Submissions
    <3>6. Places'
      <4>1. IsInjective(queue') /\ \A i \in DOMAIN queue', j \in DOMAIN tasks : queue'[i] # tasks[j]
        <5> HIDE DEF id
        <5> QED BY <1>1, <1>2, <1>4, <2>3, <2>4, <3>1, Added
      <4>2. \A k \in DOMAIN queue' : queue'[k] <= id /\ ~Finished(queue'[k])
        BY <1>1, <1>2, <1>3, <2>2, <2>3, <3>2
      <4> QED BY <1>1, <1>3, <2>1, <2>2, <2>3, <3>1, <3>2, <4>1, <4>2 DEF Places, Below, Finished
    <3>7. Callbacks' /\ Turns'
      BY <1>1, <3>1 DEF Callbacks, Turns, Finished
    <3>8. Limits'
      BY <1>1, <3>1, <3>4, Kinds DEF Limits
    <3> QED BY <1>5, <3>3, <3>5, <3>6, <3>7, <3>8 DEF MapInv
  <2> QED BY <2>5, <2>6
<1> QED
  BY <1>6, <1>7

LEMMA SourceDoneInv == ASSUME MapInv, SourceDone PROVE MapInv'
<1> USE DEF fixed
<1>1. /\ TypeOK /\ Submissions /\ Places /\ Callbacks /\ Turns /\ Limits /\ EndsLast
      /\ source = "live" /\ source' = "gone" /\ tasks' = LastChunk /\ chunk' = 0
      /\ ended' = (tasks' = <<>>)
      /\ UNCHANGED <<fixed, arrived, queue, outcome, ready, emitting, left, outs>>
  BY DEF MapInv, SourceDone, EndNow
<1>2. \A i \in Id : Finished(i)' = Finished(i)
  BY <1>1 DEF Finished
<1>3. EndsLast'
  <2>1. CASE emitting = None
    <3>1. tasks = <<>> => queue = <<>>
      BY <1>1, <2>1, Kinds DEF Limits
    <3>2. tasks' = <<>> => tasks = <<>>
      <4>1. tasks \in Seq(Id)
        BY <1>1 DEF TypeOK
      <4> QED BY <1>1, <4>1 DEF LastChunk
    <3> QED BY <1>1, <3>1, <3>2 DEF EndsLast
  <2>2. CASE emitting # None
    <3>1. tasks # <<>>
      BY <1>1, <2>2 DEF Turns, ToSet
    <3>2. tasks' # <<>>
      <4>1. tasks \in Seq(Id)
        BY <1>1 DEF TypeOK
      <4> QED BY <1>1, <3>1, <4>1 DEF LastChunk
    <3> QED BY <1>1, <2>2, <3>2 DEF EndsLast
  <2> QED BY <2>1, <2>2
<1>4. CASE chunk = 0
  <2>1. tasks' = tasks
    BY <1>1, <1>4 DEF LastChunk
  <2>2. TypeOK' /\ Submissions' /\ Places' /\ Callbacks' /\ Turns' /\ Limits'
    BY <1>1, <1>4, <2>1 DEF TypeOK, Submissions, Places, Below, Callbacks, Turns, Limits, Finished
  <2> QED BY <1>3, <2>2 DEF MapInv
<1>5. CASE chunk # 0
  <2>1. /\ arrived \in Id /\ arrived \in Nat /\ arrived - chunk < arrived /\ arrived - chunk' = arrived
        /\ chunk' <= arrived' /\ chunk' \in Nat
    BY <1>1, <1>5, Kinds DEF Id, Submissions
  <2>2. queue = <<>> /\ size # 0
    BY <1>1, <1>5 DEF Submissions
  <2>3. tasks' = Append(tasks, arrived) /\ tasks \in Seq(Id) /\ queue \in Seq(Id)
    BY <1>1, <1>5 DEF LastChunk, TypeOK
  <2>4. /\ tasks' \in Seq(Id) /\ Len(tasks) \in Nat /\ DOMAIN tasks = 1 .. Len(tasks)
        /\ DOMAIN tasks' = 1 .. Len(tasks) + 1
        /\ \A i \in 1 .. Len(tasks) : tasks'[i] = tasks[i]
        /\ tasks'[Len(tasks) + 1] = arrived
    BY <2>1, <2>3, Grown
  <2>5. /\ \A k \in DOMAIN tasks : tasks[k] # arrived /\ tasks[k] <= arrived
        /\ \A i \in Id : Finished(i) => i <= arrived /\ i # arrived
    BY <1>1, <2>1, Kinds DEF Places, Below, Submissions, Id
  <2>6. TypeOK'
    BY <1>1, <2>1, <2>4 DEF TypeOK, Finished
  <2>7. Submissions'
    BY <1>1, <1>2, <2>1, <2>2, <2>5 DEF Submissions
  <2>8. Places'
    <3>1. IsInjective(tasks) /\ \A j \in DOMAIN queue : FALSE
      BY <1>1, <2>2 DEF Places
    <3>2. IsInjective(tasks')
      BY <2>1, <2>3, <2>5, <3>1, Added
    <3>3. \A k \in DOMAIN tasks' : tasks'[k] <= arrived
      BY <2>1, <2>4, <2>5
    <3> QED BY <1>1, <2>1, <2>2, <3>1, <3>2, <3>3 DEF Places, Below
  <2>9. \A i \in Id : i \in ToSet(tasks) => i \in ToSet(tasks')
    BY <2>4 DEF ToSet
  <2>10. Callbacks'
    BY <1>1, <1>2, <2>9, Kinds DEF Callbacks
  <2>11. Turns'
    <3>1. \A k \in DOMAIN tasks' : Finished(tasks'[k]) => k \in DOMAIN tasks /\ tasks'[k] = tasks[k]
      BY <2>1, <2>4, <2>5
    <3>2. emitting # None => tasks # <<>> /\ emitting \in Id
      BY <1>1 DEF Turns, ToSet, TypeOK
    <3>3. tasks # <<>> => Head(tasks') = Head(tasks)
      BY <2>3, <2>4
    <3>4. tasks = <<>> => Head(tasks') = arrived
      BY <2>3
    <3> QED BY <1>1, <1>2, <2>1, <2>5, <2>9, <3>1, <3>2, <3>3, <3>4 DEF Turns, Finished
  <2>12. Limits'
    BY <1>1, <2>2 DEF Limits
  <2> QED BY <1>3, <2>6, <2>7, <2>8, <2>10, <2>11, <2>12 DEF MapInv
<1> QED
  BY <1>4, <1>5

LEMMA CompleteInv == ASSUME MapInv, NEW id \in Id, NEW how \in Outcome, Complete(id, how) PROVE MapInv'
<1> USE DEF fixed
<1>1. /\ TypeOK /\ Submissions /\ Places /\ Callbacks /\ Turns /\ Limits /\ EndsLast
      /\ Started(id) /\ ~Finished(id)
      /\ outcome' = [outcome EXCEPT ![id] = how] /\ ready' = Append(ready, id)
      /\ UNCHANGED <<fixed, source, ended, arrived, chunk, queue, tasks, emitting, left, outs>>
  BY DEF MapInv, Complete
<1>2. how # None /\ outcome \in [Id -> Outcome \cup {None}]
  BY <1>1, NoneAssumption DEF TypeOK, Outcome
<1>3. Finished(id)' /\ \A i \in Id : i # id => Finished(i)' = Finished(i)
  BY <1>1, <1>2 DEF Finished
<1>4. /\ ready' \in Seq(Id) /\ Len(ready) \in Nat /\ DOMAIN ready = 1 .. Len(ready)
      /\ DOMAIN ready' = 1 .. Len(ready) + 1
      /\ \A i \in 1 .. Len(ready) : ready'[i] = ready[i]
      /\ ready'[Len(ready) + 1] = id
  BY <1>1, Grown DEF TypeOK
<1>5. TypeOK'
  <2>1. outcome' \in [Id -> Outcome \cup {None}]
    BY <1>1, <1>2
  <2>2. emitting' \in {i \in Id : Finished(i)'} \cup {None}
    BY <1>1, <1>3 DEF TypeOK
  <2> QED BY <1>1, <1>4, <2>1, <2>2 DEF TypeOK
<1>6. PICK p \in DOMAIN tasks : tasks[p] = id
  BY <1>1 DEF Started, ToSet
<1>7. Submissions'
  BY <1>1, <1>3, <1>6 DEF Submissions, Places, Below
<1>8. Places'
  <2>1. \A j \in DOMAIN queue : queue[j] # id /\ queue[j] \in Id
    BY <1>1, <1>6, Kinds DEF Places
  <2> QED BY <1>1, <1>3, <2>1 DEF Places, Below
<1>9. Callbacks'
  <2>1. \A k \in DOMAIN ready : ready[k] # id /\ ready[k] \in Id
    BY <1>1, Kinds DEF Callbacks
  <2>2. emitting # id
    BY <1>1, Kinds DEF TypeOK
  <2>3. IsInjective(ready')
    BY <1>1, <1>4, <2>1 DEF Callbacks, IsInjective
  <2>4. \A k \in DOMAIN ready' : outcome'[ready'[k]] # None
    <3>1. ASSUME NEW k \in DOMAIN ready PROVE outcome'[ready'[k]] # None
      BY <1>1, <1>3, <1>4, <2>1 DEF Callbacks, Finished
    <3>2. outcome'[ready'[Len(ready) + 1]] # None
      BY <1>3, <1>4 DEF Finished
    <3>3. \A k \in DOMAIN ready' : k \in DOMAIN ready \/ k = Len(ready) + 1
      BY <1>4
    <3> QED BY <3>1, <3>2, <3>3
  <2>5. ~ordered => \A k \in DOMAIN ready' : ready'[k] \in ToSet(tasks) /\ ready'[k] # emitting
    BY <1>1, <1>4, <2>2 DEF Callbacks, Started
  <2> QED BY <1>1, <2>3, <2>4, <2>5 DEF Callbacks, Finished
<1>10. Turns'
  <2>1. id \in ToSet(ready') /\ \A i \in Id : i \in ToSet(ready) => i \in ToSet(ready')
    BY <1>4 DEF ToSet
  <2>2. \A k \in DOMAIN tasks : tasks[k] \in Id
    BY <1>1, Kinds
  <2>3. tasks # <<>> => Head(tasks) \in Id
    BY <1>1 DEF TypeOK
  <2> QED BY <1>1, <1>3, <2>1, <2>2, <2>3 DEF Turns
<1>11. Limits' /\ EndsLast'
  BY <1>1 DEF Limits, EndsLast
<1> QED
  BY <1>5, <1>7, <1>8, <1>9, <1>10, <1>11 DEF MapInv

LEMMA EmitNextInv == ASSUME MapInv, EmitNext PROVE MapInv'
<1> USE DEF fixed
<1>1. outs' \in Seq(Id) /\ left' \in Seq(Id)
  <2>1. left \in Seq(Id) /\ left # <<>> /\ outs \in Seq(Id)
    BY DEF MapInv, TypeOK, EmitNext
  <2>2. Tail(left) \in Seq(Id) /\ Head(left) \in Id
    BY <2>1, Taken
  <2> QED BY <2>1, <2>2, Grown DEF EmitNext
<1>2. TypeOK'
  BY <1>1 DEF MapInv, TypeOK, EmitNext, Finished
<1>3. (Submissions /\ Places /\ Callbacks)'
  BY DEF MapInv, EmitNext, Submissions, Places, Below, Callbacks, Finished
<1>4. (Turns /\ Limits /\ EndsLast)'
  BY DEF MapInv, EmitNext, Turns, Limits, EndsLast, Finished
<1> QED
  BY <1>2, <1>3, <1>4 DEF MapInv

LEMMA CallbackInv == ASSUME MapInv, Callback PROVE MapInv'
<1> USE DEF fixed
<1>1. /\ TypeOK /\ Submissions /\ Places /\ Callbacks /\ Turns
      /\ emitting = None /\ ready # <<>> /\ ready' = Tail(ready)
      /\ UNCHANGED <<fixed, source, arrived, chunk, outcome>>
  BY DEF MapInv, Callback
<1> DEFINE first == Head(ready)
           next == NextDone(tasks, first)
<1>2. /\ ready' \in Seq(Id) /\ Len(ready) \in Nat \ {0} /\ DOMAIN ready = 1 .. Len(ready)
      /\ first = ready[1] /\ first \in Id
      /\ DOMAIN ready' = 1 .. Len(ready) - 1
      /\ \A i \in 1 .. Len(ready) - 1 : ready'[i] = ready[i + 1]
  BY <1>1, Taken DEF TypeOK
<1>3. /\ IsInjective(ready') /\ \A k \in DOMAIN ready' : ready'[k] # first
      /\ \A k \in DOMAIN ready' : Finished(ready'[k])
      /\ ~ordered => \A k \in DOMAIN ready' : ready'[k] \in ToSet(tasks)
  <2>1. \A k \in DOMAIN ready' : k + 1 \in DOMAIN ready /\ 1 \in DOMAIN ready /\ k + 1 # 1
    BY <1>2
  <2> QED BY <1>1, <1>2, <2>1 DEF Callbacks, IsInjective
<1>4. Kept(tasks, ready')
  BY <1>1, <1>2, <1>3, Kinds DEF Kept, TypeOK, Places, ToSet
<1>5. \A i \in ToSet(ready) : i = first \/ i \in ToSet(ready')
  <2>1. \A k \in DOMAIN ready : k = 1 \/ (k - 1 \in DOMAIN ready' /\ ready'[k - 1] = ready[k])
    BY <1>2
  <2> QED BY <1>2, <2>1 DEF ToSet
<1>6. \/ \E id \in next : EmitTask(id) /\ UNCHANGED <<ended, queue, tasks>>
      \/ next = {} /\ LeaveCallback(tasks)
  BY DEF Callback
<1>7. first \in ToSet(ready) /\ Finished(first)
  BY <1>1, <1>2 DEF Callbacks, ToSet
<1>8. CASE ordered
  <2>1. /\ \A id \in next : tasks # <<>> /\ id = Head(tasks) /\ Finished(id) /\ id \in ToSet(tasks) /\ id \in Id
        /\ next = {} /\ tasks # <<>> => ~Finished(Head(tasks))
    <3>1. next = {i \in {tasks[k] : k \in DOMAIN tasks \cap {1}} : Finished(i)}
      BY <1>8 DEF NextDone
    <3>2. 1 \in DOMAIN tasks <=> tasks # <<>>
      BY <1>1 DEF TypeOK
    <3>3. tasks # <<>> => Head(tasks) = tasks[1] /\ tasks[1] \in Id /\ tasks[1] \in ToSet(tasks)
      BY <1>1, <3>2, Taken DEF TypeOK, ToSet
    <3> HIDE DEF next
    <3> QED BY <3>1, <3>2, <3>3
  <2> HIDE DEF next
  <2>2. ASSUME NEW id \in next, EmitTask(id), UNCHANGED <<ended, queue, tasks>> PROVE MapInv'
    BY <1>1, <1>4, <1>8, <2>1, <2>2, StartEmit
  <2>3. ASSUME next = {}, LeaveCallback(tasks) PROVE MapInv'
    BY <1>1, <1>4, <1>8, <2>1, <2>3, LeaveInv
  <2> QED BY <1>6, <2>2, <2>3
<1>9. CASE ~ordered
  <2>1. next = {first}
    BY <1>9 DEF NextDone
  <2>2. EmitTask(first) /\ UNCHANGED <<ended, queue, tasks>>
    BY <1>6, <2>1
  <2>3. first \in ToSet(tasks)
    BY <1>1, <1>2, <1>9 DEF Callbacks
  <2>4. \A k \in DOMAIN tasks : Finished(tasks[k]) => tasks[k] = first \/ tasks[k] \in ToSet(ready')
    BY <1>1, <1>5, <1>9, Kinds DEF Turns, TypeOK, Finished
  <2> HIDE DEF first, next
  <2> QED BY <1>1, <1>2, <1>3, <1>4, <1>7, <1>9, <2>2, <2>3, <2>4, StartEmit
<1> QED
  BY <1>8, <1>9

(* The list without the task that was emitted. *)
LEMMA LeftFacts ==
    ASSUME MapInv, emitting # None
    PROVE  /\ Left \in Seq(Id) /\ IsInjective(Left) /\ Len(Left) <= Len(tasks)
           /\ \A k \in DOMAIN Left : Left[k] \in ToSet(tasks) /\ Left[k] # emitting
           /\ \A i \in ToSet(tasks) : i = emitting \/ i \in ToSet(Left)
<1>1. /\ tasks \in Seq(Id) /\ IsInjective(tasks) /\ emitting \in ToSet(tasks)
      /\ ordered => emitting = Head(tasks)
  BY DEF MapInv, TypeOK, Places, Turns
<1>2. tasks # <<>> /\ DOMAIN tasks = 1 .. Len(tasks) /\ Len(tasks) \in Nat
  BY <1>1 DEF ToSet
<1>3. PICK p \in 1 .. Len(tasks) :
        /\ tasks[p] = emitting
        /\ Left \in Seq(Id) /\ Len(Left) = Len(tasks) - 1
        /\ \A i \in 1 .. p - 1 : Left[i] = tasks[i]
        /\ \A i \in p .. Len(tasks) - 1 : Left[i] = tasks[i + 1]
  <2>1. CASE ordered
    <3>1. /\ Left \in Seq(Id) /\ Len(Left) = Len(tasks) - 1
          /\ \A i \in 1 .. Len(tasks) - 1 : Left[i] = tasks[i + 1]
      BY <1>1, <1>2, <2>1, Taken DEF Left
    <3>2. 1 \in 1 .. Len(tasks) /\ tasks[1] = emitting
      BY <1>1, <1>2, <2>1
    <3> QED BY <3>1, <3>2
  <2>2. CASE ~ordered
    <3>1. PICK p \in 1 .. Len(tasks) : tasks[p] = emitting
      BY <1>1, <1>2 DEF ToSet
    <3>2. Left = RemoveFirst(tasks, tasks[p])
      BY <2>2, <3>1 DEF Left
    <3> QED BY <1>1, <3>1, <3>2, RemovedOne
  <2> QED BY <2>1, <2>2
<1>4. DOMAIN Left = 1 .. Len(tasks) - 1
  BY <1>2, <1>3
<1> DEFINE place(k) == IF k < p THEN k ELSE k + 1
<1>5. \A k \in DOMAIN Left : place(k) \in DOMAIN tasks /\ place(k) # p /\ Left[k] = tasks[place(k)]
  BY <1>2, <1>3, <1>4
<1>6. IsInjective(Left)
  BY <1>1, <1>2, <1>4, <1>5 DEF IsInjective
<1>7. \A k \in DOMAIN Left : Left[k] \in ToSet(tasks) /\ Left[k] # emitting
  BY <1>1, <1>2, <1>3, <1>5 DEF IsInjective, ToSet
<1>8. ASSUME NEW j \in DOMAIN tasks, j # p PROVE tasks[j] \in ToSet(Left)
  <2>1. CASE j < p
    <3>1. j \in DOMAIN Left /\ Left[j] = tasks[j]
      BY <1>2, <1>3, <1>4, <1>8, <2>1
    <3> QED BY <3>1 DEF ToSet
  <2>2. CASE j > p
    <3>1. j - 1 \in DOMAIN Left /\ Left[j - 1] = tasks[j]
      BY <1>2, <1>3, <1>4, <1>8, <2>2
    <3> QED BY <3>1 DEF ToSet
  <2> QED BY <1>2, <1>8, <2>1, <2>2
<1> QED
  BY <1>2, <1>3, <1>6, <1>7, <1>8 DEF ToSet

LEMMA EmittedInv == ASSUME MapInv, Emitted PROVE MapInv'
<1> USE DEF fixed
<1> DEFINE next == IF ordered THEN NextDone(Left, None) ELSE {}
<1>1. /\ TypeOK /\ Callbacks /\ Turns /\ emitting # None
      /\ UNCHANGED <<fixed, source, arrived, chunk, outcome, ready>>
      /\ \/ \E id \in next : EmitTask(id) /\ tasks' = Left /\ UNCHANGED <<ended, queue>>
         \/ next = {} /\ LeaveCallback(Left)
  BY DEF MapInv, Emitted
<1>2. /\ Left \in Seq(Id) /\ IsInjective(Left) /\ Len(Left) <= Len(tasks)
      /\ \A k \in DOMAIN Left : Left[k] \in ToSet(tasks) /\ Left[k] # emitting
      /\ \A i \in ToSet(tasks) : i = emitting \/ i \in ToSet(Left)
  BY <1>1, LeftFacts
<1>3. Kept(Left, ready')
  BY <1>1, <1>2 DEF Kept, Callbacks, TypeOK
<1>4. CASE ordered
  <2>1. /\ \A id \in next : Left # <<>> /\ id = Head(Left) /\ Finished(id) /\ id \in ToSet(Left) /\ id \in Id
        /\ next = {} /\ Left # <<>> => ~Finished(Head(Left))
    <3>1. next = {i \in {Left[k] : k \in DOMAIN Left \cap {1}} : Finished(i)}
      BY <1>4 DEF NextDone
    <3>2. 1 \in DOMAIN Left <=> Left # <<>>
      BY <1>2
    <3>3. Left # <<>> => Head(Left) = Left[1] /\ Left[1] \in Id /\ Left[1] \in ToSet(Left)
      BY <1>2, <3>2, Taken DEF ToSet
    <3> HIDE DEF next
    <3> QED BY <3>1, <3>2, <3>3
  <2> HIDE DEF next
  <2>2. ASSUME NEW id \in next, EmitTask(id), tasks' = Left, UNCHANGED <<ended, queue>> PROVE MapInv'
    BY <1>1, <1>3, <1>4, <2>1, <2>2, StartEmit
  <2>3. ASSUME next = {}, LeaveCallback(Left) PROVE MapInv'
    BY <1>1, <1>3, <1>4, <2>1, <2>3, LeaveInv
  <2> QED BY <1>1, <2>2, <2>3
<1>5. CASE ~ordered
  <2>1. LeaveCallback(Left)
    BY <1>1, <1>5
  <2>2. ASSUME NEW k \in DOMAIN Left, Finished(Left[k]) PROVE Left[k] \in ToSet(ready)
    <3>1. PICK j \in DOMAIN tasks : tasks[j] = Left[k]
      BY <1>2 DEF ToSet
    <3> QED BY <1>1, <1>2, <1>5, <2>2, <3>1 DEF Turns
  <2> QED BY <1>1, <1>3, <1>5, <2>1, <2>2, LeaveInv
<1> QED
  BY <1>4, <1>5

LEMMA MapNext == MapInv /\ [Next]_vars => MapInv'
<1> SUFFICES ASSUME MapInv, [Next]_vars PROVE MapInv'
  OBVIOUS
<1>1. CASE UNCHANGED vars
  <2>1. (TypeOK /\ Submissions /\ Places)'
    BY <1>1 DEF vars, fixed, MapInv, TypeOK, Submissions, Places, Below, Finished
  <2>2. (Callbacks /\ Turns /\ Limits /\ EndsLast)'
    BY <1>1 DEF vars, fixed, MapInv, Callbacks, Turns, Limits, EndsLast, Finished
  <2> QED BY <2>1, <2>2 DEF MapInv
<1>2. CASE LoopStep
  BY <1>2, CallbackInv, EmitNextInv, EmittedInv DEF LoopStep
<1>3. CASE \E id \in Id : Settle(id)
  BY <1>3, CompleteInv DEF Settle
<1> QED
  BY <1>1, <1>2, <1>3, ArriveInv, SourceDoneInv DEF Next
-----------------------------------------------------------------------------
(* The list of tasks keeps its inductive invariant. *)
THEOREM MapInvariant == Spec => []MapInv
<1> QED
  BY MapInit, MapNext, PTL DEF Spec

(* Queues, tasks and outcomes keep their types. *)
THEOREM MapTypes == Spec => []TypeOK
<1>1. MapInv => TypeOK
  BY DEF MapInv
<1> QED
  BY <1>1, MapInvariant, PTL

(* At most the limit of tasks, none idle place while work waits, and every
   finished task has a turn ahead. *)
THEOREM LimitKept == Spec => []LimitIsUsed
<1>1. MapInv => LimitIsUsed
  <2> SUFFICES ASSUME MapInv PROVE LimitIsUsed
    OBVIOUS
  <2>1. Turns /\ Limits
    BY DEF MapInv
  <2>2. ASSUME emitting = None, NEW k \in DOMAIN tasks, Finished(tasks[k])
        PROVE  \/ tasks[k] \in ToSet(ready)
               \/ ordered /\ \E n \in 1 .. k : ~Finished(tasks[n]) \/ tasks[n] \in ToSet(ready)
    <3>1. /\ k \in Nat \ {0} /\ 1 \in 1 .. k /\ tasks[k] # None
          /\ tasks # <<>> /\ Head(tasks) = tasks[1]
      BY <2>2, Kinds, Taken DEF MapInv, TypeOK
    <3> QED BY <2>1, <2>2, <3>1 DEF Turns
  <2> QED BY <2>1, <2>2 DEF LimitIsUsed, Limits
<1> QED
  BY <1>1, MapInvariant, PTL

(* The operator ends after all its tasks, its queue and its last chunk, and as
   soon as they are done. *)
THEOREM MapEndsLast == Spec => []EndsLast
<1>1. MapInv => EndsLast
  BY DEF MapInv
<1> QED
  BY <1>1, MapInvariant, PTL
-----------------------------------------------------------------------------
(* Euclidean division, for what a chunk counts. *)
LEMMA Division ==
    ASSUME NEW n \in Nat \ {0}, NEW a \in Nat
    PROVE  a = n * (a \div n) + (a % n) /\ a \div n \in Nat /\ a % n \in 0 .. n - 1
OBVIOUS

LEMMA OneRemainder ==
    ASSUME NEW n \in Nat \ {0}, NEW p \in Int, NEW q \in Int,
           NEW r \in 0 .. n - 1, NEW s \in 0 .. n - 1, n * p + r = n * q + s
    PROVE  r = s
<1>1. n * (p - q) = s - r
  BY Z3
<1>2. CASE p = q
  BY <1>2
<1>3. CASE p > q
  <2>1. n * (p - q) >= n
    BY <1>3, Z3
  <2> QED BY <1>1, <2>1
<1>4. CASE p < q
  <2>1. n * (p - q) <= -n
    BY <1>4, Z3
  <2> QED BY <1>1, <2>1
<1> QED
  BY <1>2, <1>3, <1>4

LEMMA NextRemainder ==
    ASSUME NEW n \in Nat \ {0}, NEW a \in Nat
    PROVE  (a + 1) % n = IF (a % n) + 1 >= n THEN 0 ELSE (a % n) + 1
<1> DEFINE q == a \div n
           r == a % n
           b == a + 1
           p == b \div n
           s == b % n
<1>1. a = n * q + r /\ q \in Int /\ r \in 0 .. n - 1
  BY Division
<1>2. b = n * p + s /\ p \in Int /\ s \in 0 .. n - 1
  <2>1. b \in Nat
    OBVIOUS
  <2> HIDE DEF b
  <2> QED BY <2>1, Division
<1>3. b = a + 1 /\ r \in Nat /\ n \in Nat
  BY <1>1
<1> HIDE DEF b, p, q, r, s
<1>4. CASE r + 1 < n
  <2>1. n * q + (r + 1) = n * p + s /\ r + 1 \in 0 .. n - 1
    BY <1>1, <1>2, <1>3, <1>4
  <2>2. s = r + 1
    BY <1>1, <1>2, <2>1, OneRemainder
  <2>3. ~(r + 1 >= n)
    BY <1>3, <1>4
  <2> QED BY <2>2, <2>3 DEF b, r, s
<1>5. CASE r + 1 >= n
  <2>1. n * (q + 1) + 0 = n * p + s /\ q + 1 \in Int /\ 0 \in 0 .. n - 1
    BY <1>1, <1>2, <1>3, <1>5, Z3
  <2>2. s = 0
    BY <1>2, <2>1, OneRemainder
  <2> QED BY <1>5, <2>2 DEF b, r, s
<1> QED
  BY <1>3, <1>4, <1>5

(* The values of a task: from its first, in order, to the one it is named by. *)
LEMMA OwedFacts ==
    ASSUME TypeOK, NEW id \in Id
    PROVE  /\ First(id) \in 1 .. id /\ Owed(id) \in Seq(Id)
           /\ \A k \in DOMAIN Owed(id) : First(id) <= Owed(id)[k] /\ Owed(id)[k] <= id
           /\ \A j, k \in DOMAIN Owed(id) : j < k => Owed(id)[j] < Owed(id)[k]
<1>1. First(id) \in 1 .. id /\ id \in Nat
  BY FirstRange DEF Id
<1>2. Owed(id) \in Seq(Id)
  BY ChunkValues
<1>3. CASE Owed(id) = Values(id)
  <2>1. /\ DOMAIN Values(id) = 1 .. id - First(id) + 1
        /\ \A k \in DOMAIN Values(id) : Values(id)[k] = First(id) + k - 1
    BY DEF Values
  <2> QED BY <1>1, <1>2, <1>3, <2>1
<1>4. CASE Owed(id) = <<id>>
  BY <1>1, <1>2, <1>4
<1>5. CASE Owed(id) = <<>>
  BY <1>1, <1>2, <1>5
<1> QED
  BY <1>3, <1>4, <1>5 DEF Owed

-----------------------------------------------------------------------------
(* What is behind the order: a chunk counts the values after the last multiple
   of its size, so that the values of an awaitable come after those before it;
   what was emitted comes before all that is listed or queued; and within an
   emission, before what is left of it. *)
Unfed == ordered /\ "feed" \notin listeners

Chunks == size # 0 /\ source = "live" => chunk = arrived % size

Rising(q) == \A i, k \in DOMAIN q : i < k => q[i] < First(q[k])
Ahead(q, r) == \A i \in DOMAIN q, k \in DOMAIN r : q[i] < First(r[k])
Increasing(q) == \A i, k \in DOMAIN q : i < k => q[i] < q[k]

Lined(ts) == Rising(ts) /\ Rising(queue) /\ Ahead(ts, queue)

Released ==
    /\ Increasing(outs)
    /\ \A i \in DOMAIN outs : outs[i] <= arrived - chunk
    /\ Ahead(outs, queue)
    /\ emitting = None => Ahead(outs, tasks)

Emission ==
    /\ emitting # None => \A i \in DOMAIN outs : outs[i] <= emitting
    /\ \A i \in DOMAIN outs, j \in DOMAIN left : outs[i] < left[j]
    /\ \A j \in DOMAIN left : left[j] <= emitting
    /\ Increasing(left)

Idle == emitting = None => left = <<>>

OrderInv == Chunks /\ Idle /\ (Unfed => Lined(tasks) /\ Released /\ Emission)

LEMMA OrderInit == Init => OrderInv
<1> SUFFICES ASSUME Init PROVE OrderInv
  OBVIOUS
<1>1. Chunks
  <2>1. size \in Nat
    BY SizesAssumption DEF Init
  <2>2. size # 0 => 0 % size = 0
    BY <2>1
  <2> QED BY <2>2 DEF Init, Chunks
<1> QED
  BY <1>1 DEF Init, OrderInv, Idle, Lined, Rising, Ahead, Released, Emission, Increasing

(* The values of the next awaitable come after all that was submitted. *)
LEMMA IdIsNat == \A id \in Id : id \in Nat
BY BoundAssumption DEF Id

LEMMA NextFirst ==
    ASSUME TypeOK, Submissions, Chunks, source = "live"
    PROVE  /\ First(arrived + 1) > arrived - chunk
           /\ chunk # 0 => First(arrived) > arrived - chunk
<1>1. arrived \in Nat /\ chunk \in Nat /\ size \in Nat
  BY Kinds
<1>2. CASE size = 0
  BY <1>1, <1>2 DEF First, Submissions
<1>3. CASE size # 0
  <2>1. chunk = arrived % size
    BY <1>3 DEF Chunks
  <2>2. First(arrived + 1) = arrived + 1 - chunk
    <3> DEFINE id == arrived + 1
    <3>1. id - 1 = arrived
      BY <1>1
    <3> HIDE DEF id
    <3>2. First(id) = id - ((id - 1) % size)
      BY <1>3 DEF First
    <3>3. First(id) = id - chunk
      BY <2>1, <3>1, <3>2
    <3> QED BY <1>1, <3>3 DEF id
  <2>3. ASSUME chunk # 0 PROVE First(arrived) > arrived - chunk
    <3>1. arrived - 1 \in Nat /\ (arrived - 1) + 1 = arrived
      BY <1>1, <2>3 DEF Submissions
    <3> DEFINE r == (arrived - 1) % size
    <3>2. r \in Nat
      BY <1>1, <1>3, <3>1, Division
    <3>3. chunk = IF r + 1 >= size THEN 0 ELSE r + 1
      BY <1>1, <1>3, <2>1, <3>1, NextRemainder
    <3>4. First(arrived) = arrived - r
      BY <1>3 DEF First
    <3> HIDE DEF r
    <3> QED BY <1>1, <2>3, <3>2, <3>3, <3>4
  <2> QED BY <1>1, <2>2, <2>3
<1> QED
  BY <1>2, <1>3

(* The head of the list starts to be emitted, after all that was. *)
LEMMA OrderStart ==
    ASSUME MapInv, OrderInv, Unfed, NEW ts \in Seq(Id), NEW id \in Id,
           ts # <<>>, id = Head(ts), Below(ts), EmitTask(id), left = <<>>,
           Lined(ts), Ahead(outs, ts), tasks' = ts,
           UNCHANGED <<fixed, source, arrived, chunk, outcome, queue>>
    PROVE  OrderInv'
<1> USE DEF fixed
<1> DEFINE owed == Owed(id)
<1>1. /\ owed \in Seq(Id) /\ First(id) \in 1 .. id /\ id \in Nat
      /\ \A k \in DOMAIN owed : First(id) <= owed[k] /\ owed[k] <= id
      /\ \A j, k \in DOMAIN owed : j < k => owed[j] < owed[k]
  BY OwedFacts DEF MapInv, Id
<1>2. /\ 1 \in DOMAIN ts /\ ts[1] = id /\ DOMAIN ts = 1 .. Len(ts) /\ Len(ts) \in Nat
      /\ id <= arrived - chunk
  BY DEF Below
<1>3. /\ outs \in Seq(Id) /\ queue \in Seq(Id) /\ DOMAIN outs = 1 .. Len(outs) /\ Len(outs) \in Nat
      /\ \A i \in DOMAIN outs : outs[i] \in Nat /\ outs[i] < First(id) /\ outs[i] <= arrived - chunk
      /\ arrived \in Nat /\ chunk \in Nat
  <2>1. outs \in Seq(Id) /\ queue \in Seq(Id) /\ arrived \in Nat /\ chunk \in Nat
    BY Kinds DEF MapInv, TypeOK
  <2>2. DOMAIN outs = 1 .. Len(outs) /\ Len(outs) \in Nat /\ \A i \in DOMAIN outs : outs[i] \in Id
    BY <2>1
  <2>3. \A i \in DOMAIN outs : outs[i] < First(id) /\ outs[i] <= arrived - chunk
    BY <1>2 DEF OrderInv, Released, Ahead
  <2> QED BY <2>1, <2>2, <2>3, IdIsNat
<1>4. /\ emitting' = id /\ id # None
      /\ IF owed = <<>> THEN UNCHANGED <<outs, left>>
         ELSE outs' = Append(outs, Head(owed)) /\ left' = Tail(owed)
  BY Kinds DEF EmitTask, MapInv
<1>5. (Chunks /\ Idle)' /\ Unfed' /\ \A i \in Id : First(i)' = First(i)
  BY <1>4 DEF OrderInv, Chunks, Idle, Unfed, First
<1> HIDE DEF owed
<1>6. Lined(tasks)'
  BY DEF Lined, Rising, Ahead, First
<1>7. Increasing(outs) /\ Ahead(outs, queue)
  BY DEF OrderInv, Released
<1>8. \A k \in DOMAIN queue : queue[k] \in Nat /\ id < First(queue[k]) /\ First(queue[k]) \in Nat
  <2>1. \A k \in DOMAIN queue : queue[k] \in Id /\ queue[k] \in Nat
    <3>1. \A k \in DOMAIN queue : queue[k] \in Id
      BY Kinds DEF MapInv
    <3> QED BY <3>1, IdIsNat
  <2>2. \A k \in DOMAIN queue : First(queue[k]) \in Nat
    BY <2>1, FirstRange DEF MapInv
  <2> QED BY <1>2, <2>1, <2>2 DEF Lined, Ahead
<1>9. CASE owed = <<>>
  <2>1. outs' = outs /\ left' = <<>>
    BY <1>4, <1>9, SMTT(30)
  <2>2. Released'
    BY <1>3, <1>4, <1>7, <2>1 DEF Released, Ahead, Increasing, First
  <2>3. Emission'
    <3>1. \A i \in DOMAIN outs : outs[i] <= id
      BY <1>1, <1>3
    <3>2. DOMAIN left' = {}
      BY <2>1
    <3> QED BY <1>4, <2>1, <3>1, <3>2 DEF Emission, Increasing
  <2> QED BY <1>5, <1>6, <2>2, <2>3 DEF OrderInv
<1>10. CASE owed # <<>>
  <2>1. outs' = Append(outs, Head(owed)) /\ left' = Tail(owed)
    BY <1>4, <1>10
  <2>2. /\ Head(owed) = owed[1] /\ owed[1] \in Id /\ DOMAIN owed = 1 .. Len(owed) /\ Len(owed) \in Nat \ {0}
        /\ DOMAIN left' = 1 .. Len(owed) - 1 /\ \A i \in DOMAIN left' : left'[i] = owed[i + 1]
    BY <1>1, <1>10, <2>1, Taken
  <2>3. /\ DOMAIN outs' = 1 .. Len(outs) + 1
        /\ \A i \in DOMAIN outs : outs'[i] = outs[i] /\ outs'[i] < First(id)
        /\ outs'[Len(outs) + 1] = owed[1]
    BY <1>3, <2>1, <2>2, Grown
  <2>4. /\ owed[1] \in Nat /\ First(id) <= owed[1] /\ owed[1] <= id /\ First(id) \in Nat
        /\ \A i \in DOMAIN outs' : i \in DOMAIN outs \/ i = Len(outs) + 1
    <3>1. 1 \in DOMAIN owed /\ owed[1] \in Nat
      BY <2>2, IdIsNat
    <3>2. \A i \in DOMAIN outs' : i \in DOMAIN outs \/ i = Len(outs) + 1
      BY <1>3, <2>3
    <3> QED BY <1>1, <3>1, <3>2
  <2>5. \A i \in DOMAIN outs' : outs'[i] <= id /\ outs'[i] <= owed[1] /\ outs'[i] \in Nat
    <3>1. \A i \in DOMAIN outs : outs[i] \in Nat /\ outs[i] < First(id)
      BY <1>3
    <3>2. ASSUME NEW i \in DOMAIN outs'
          PROVE  outs'[i] <= id /\ outs'[i] <= owed[1] /\ outs'[i] \in Nat
      <4>1. CASE i \in DOMAIN outs
        <5>1. outs'[i] = outs[i]
          BY <2>3, <4>1
        <5> QED BY <1>1, <2>4, <3>1, <4>1, <5>1
      <4>2. CASE i = Len(outs) + 1
        BY <1>1, <2>3, <2>4, <4>2
      <4> QED BY <2>4, <4>1, <4>2
    <3> QED BY <3>2
  <2>6. Increasing(outs')
    BY <1>3, <1>7, <2>3, <2>4 DEF Increasing
  <2>7. Ahead(outs', queue)
    BY <1>1, <1>8, <2>5 DEF Ahead
  <2>8. Released'
    <3>1. \A i \in DOMAIN outs' : outs'[i] <= arrived - chunk
      BY <1>1, <1>2, <1>3, <2>5
    <3> QED BY <1>4, <2>6, <2>7, <3>1 DEF Released, Ahead, Increasing, First
  <2>9. Emission'
    <3>1. \A j \in DOMAIN left' : /\ left'[j] = owed[j + 1] /\ j + 1 \in DOMAIN owed /\ 1 < j + 1
                                  /\ left'[j] \in Nat /\ owed[1] < left'[j] /\ left'[j] <= id
      <4>1. \A j \in DOMAIN left' : j + 1 \in DOMAIN owed /\ 1 < j + 1 /\ 1 \in DOMAIN owed
        BY <2>2
      <4>2. \A j \in DOMAIN owed : owed[j] \in Nat
        <5>1. \A j \in DOMAIN owed : owed[j] \in Id
          BY <1>1
        <5> QED BY <5>1, IdIsNat
      <4> QED BY <1>1, <2>2, <4>1, <4>2
    <3>2. \A i \in DOMAIN outs', j \in DOMAIN left' : outs'[i] < left'[j]
      BY <2>4, <2>5, <3>1
    <3>3. Increasing(left')
      BY <1>1, <2>2, <3>1 DEF Increasing
    <3> QED BY <1>4, <2>5, <3>1, <3>2, <3>3 DEF Emission, Increasing
  <2> QED BY <1>5, <1>6, <2>8, <2>9 DEF OrderInv
<1> QED
  BY <1>9, <1>10

(* The callback is over: what was emitted comes before what is listed now. *)
LEMMA OrderLeave ==
    ASSUME MapInv, OrderInv, Unfed, NEW ts \in Seq(Id), LeaveCallback(ts), left = <<>>,
           Lined(ts), Ahead(outs, ts), Limit # 0 => Len(ts) <= Limit \/ queue = <<>>,
           UNCHANGED <<fixed, source, arrived, chunk>>
    PROVE  OrderInv'
<1> USE DEF fixed
<1> DEFINE n == Refill(ts)
           more == SubSeq(queue, 1, n)
<1>1. /\ tasks' = ts \o more /\ queue' = SubSeq(queue, n + 1, Len(queue))
      /\ emitting' = None /\ UNCHANGED <<left, outs>>
  BY DEF LeaveCallback
<1>2. queue \in Seq(Id) /\ Len(ts) \in Nat /\ Len(queue) \in Nat /\ n \in 0 .. Len(queue)
  BY Kinds, RefillFacts DEF MapInv, TypeOK
<1> HIDE DEF n
<1>3. /\ more \in Seq(Id) /\ Len(more) = n /\ \A i \in 1 .. n : more[i] = queue[i]
      /\ queue' \in Seq(Id) /\ Len(queue') = Len(queue) - n
      /\ \A i \in 1 .. Len(queue) - n : queue'[i] = queue[n + i]
  BY <1>1, <1>2, Split
<1> HIDE DEF more
<1>4. /\ tasks' \in Seq(Id) /\ Len(tasks') = Len(ts) + Len(more)
      /\ \A i \in 1 .. Len(ts) : tasks'[i] = ts[i]
      /\ \A i \in Len(ts) + 1 .. Len(ts) + Len(more) : tasks'[i] = more[i - Len(ts)]
  <2>1. ts \in Seq(Id) /\ more \in Seq(Id)
    BY <1>3
  <2>2. /\ ts \o more \in Seq(Id) /\ Len(ts \o more) = Len(ts) + Len(more)
        /\ \A i \in 1 .. Len(ts) : (ts \o more)[i] = ts[i]
        /\ \A i \in Len(ts) + 1 .. Len(ts) + Len(more) : (ts \o more)[i] = more[i - Len(ts)]
    BY ONLY <2>1, Joined
  <2> QED BY <1>1, <2>2
<1>5. \A k \in DOMAIN queue' : n + k \in DOMAIN queue /\ k \in Nat /\ n < n + k /\ queue'[k] = queue[n + k]
  <2>1. DOMAIN queue' = 1 .. Len(queue) - n /\ DOMAIN queue = 1 .. Len(queue)
    BY <1>2, <1>3
  <2> QED BY <1>2, <1>3, <2>1
<1>6. ASSUME NEW k \in DOMAIN tasks'
      PROVE  \/ k \in DOMAIN ts /\ tasks'[k] = ts[k]
             \/ /\ k \notin DOMAIN ts /\ k - Len(ts) \in DOMAIN queue /\ k - Len(ts) <= n
                /\ tasks'[k] = queue[k - Len(ts)]
  <2>1. k \in 1 .. Len(ts) + n
    BY <1>3, <1>4
  <2>2. CASE k <= Len(ts)
    BY <1>2, <1>4, <2>1, <2>2
  <2>3. CASE k > Len(ts)
    <3>1. k \in Len(ts) + 1 .. Len(ts) + Len(more) /\ k - Len(ts) \in 1 .. n
      BY <1>2, <1>3, <2>1, <2>3
    <3>2. tasks'[k] = queue[k - Len(ts)]
      BY <1>3, <1>4, <3>1
    <3> QED BY <1>2, <2>3, <3>1, <3>2
  <2> QED BY <1>2, <2>1, <2>2, <2>3
<1>7. (Chunks /\ Idle)' /\ Unfed' /\ \A i \in Id : First(i)' = First(i)
  BY <1>1 DEF OrderInv, Chunks, Idle, Unfed, First
<1>8. DOMAIN tasks' \subseteq Nat /\ DOMAIN ts = 1 .. Len(ts) /\ n \in Nat
  BY <1>2, <1>4
<1>9. Rising(tasks')
  <2> SUFFICES ASSUME NEW i \in DOMAIN tasks', NEW k \in DOMAIN tasks', i < k
               PROVE  tasks'[i] < First(tasks'[k])
    BY DEF Rising
  <2>1. CASE k \in DOMAIN ts
    <3>1. i \in DOMAIN ts
      BY <1>2, <1>8, <2>1
    <3>2. tasks'[i] = ts[i] /\ tasks'[k] = ts[k]
      BY <1>6, <2>1, <3>1
    <3> QED BY <2>1, <3>1, <3>2 DEF Lined, Rising
  <2>2. CASE k \notin DOMAIN ts /\ i \in DOMAIN ts
    <3>1. tasks'[i] = ts[i] /\ k - Len(ts) \in DOMAIN queue /\ tasks'[k] = queue[k - Len(ts)]
      BY <1>6, <2>2
    <3> QED BY <2>2, <3>1 DEF Lined, Ahead
  <2>3. CASE k \notin DOMAIN ts /\ i \notin DOMAIN ts
    <3>1. /\ i - Len(ts) \in DOMAIN queue /\ tasks'[i] = queue[i - Len(ts)]
          /\ k - Len(ts) \in DOMAIN queue /\ tasks'[k] = queue[k - Len(ts)]
          /\ i - Len(ts) < k - Len(ts)
      BY <1>2, <1>6, <1>8, <2>3
    <3> QED BY <3>1 DEF Lined, Rising
  <2> QED BY <2>1, <2>2, <2>3
<1>10. Rising(queue')
  <2> SUFFICES ASSUME NEW i \in DOMAIN queue', NEW k \in DOMAIN queue', i < k
               PROVE  queue'[i] < First(queue'[k])
    BY DEF Rising
  <2>1. n + i \in DOMAIN queue /\ n + k \in DOMAIN queue /\ n + i < n + k
    BY <1>5, <1>8
  <2> QED BY <1>5, <2>1 DEF Lined, Rising
<1>11. Ahead(tasks', queue')
  <2> SUFFICES ASSUME NEW i \in DOMAIN tasks', NEW k \in DOMAIN queue'
               PROVE  tasks'[i] < First(queue'[k])
    BY DEF Ahead
  <2>1. CASE i \in DOMAIN ts
    BY <1>5, <1>6, <2>1 DEF Lined, Ahead
  <2>2. CASE i \notin DOMAIN ts
    <3>1. i - Len(ts) \in DOMAIN queue /\ i - Len(ts) < n + k /\ tasks'[i] = queue[i - Len(ts)]
      BY <1>2, <1>5, <1>6, <1>8, <2>2
    <3> QED BY <1>5, <3>1 DEF Lined, Rising
  <2> QED BY <2>1, <2>2
<1>12. Ahead(outs, tasks') /\ Ahead(outs, queue')
  <2>1. Ahead(outs, queue)
    BY DEF OrderInv, Released
  <2> QED BY <1>5, <1>6, <2>1 DEF Ahead
<1>13. Lined(tasks)'
  BY <1>9, <1>10, <1>11 DEF Lined, Rising, Ahead, First
<1>14. Released'
  <2>1. Increasing(outs) /\ \A i \in DOMAIN outs : outs[i] <= arrived - chunk
    BY DEF OrderInv, Released
  <2>2. UNCHANGED <<outs, arrived, chunk, size>>
    BY <1>1
  <2>3. Ahead(outs, tasks)' /\ Ahead(outs, queue)'
    BY <1>12, <2>2 DEF Ahead, First
  <2> QED BY <2>1, <2>2, <2>3 DEF Released, Increasing
<1>15. Emission'
  BY <1>1 DEF Emission, Increasing
<1> QED
  BY <1>7, <1>13, <1>14, <1>15 DEF OrderInv

-----------------------------------------------------------------------------
LEMMA LastInLine ==
    ASSUME NEW q \in Seq(Id), NEW id \in Id, \A k \in DOMAIN q : q[k] < First(id)
    PROVE  /\ Rising(q) => Rising(Append(q, id))
           /\ \A r \in Seq(Id) : Ahead(r, q) /\ (\A k \in DOMAIN r : r[k] < First(id)) =>
                 Ahead(r, Append(q, id))
<1>1. /\ DOMAIN q = 1 .. Len(q) /\ Len(q) \in Nat
      /\ DOMAIN Append(q, id) = 1 .. Len(q) + 1
      /\ \A i \in 1 .. Len(q) : Append(q, id)[i] = q[i]
      /\ Append(q, id)[Len(q) + 1] = id
  BY Grown
<1>2. \A i \in DOMAIN Append(q, id) : i \in DOMAIN q \/ i = Len(q) + 1
  BY <1>1
<1>3. ASSUME Rising(q) PROVE Rising(Append(q, id))
  <2> SUFFICES ASSUME NEW i \in DOMAIN Append(q, id), NEW k \in DOMAIN Append(q, id), i < k
               PROVE  Append(q, id)[i] < First(Append(q, id)[k])
    BY DEF Rising
  <2>1. i \in DOMAIN q /\ Append(q, id)[i] = q[i]
    BY <1>1
  <2> QED BY <1>1, <1>2, <1>3, <2>1 DEF Rising
<1>4. ASSUME NEW r \in Seq(Id), Ahead(r, q), \A k \in DOMAIN r : r[k] < First(id)
      PROVE  Ahead(r, Append(q, id))
  BY <1>1, <1>2, <1>4 DEF Ahead
<1> QED
  BY <1>3, <1>4

LEMMA OrderArrive == ASSUME MapInv, OrderInv, Arrive PROVE OrderInv'
<1> USE DEF fixed
<1> DEFINE id == arrived + 1
<1>1. /\ TypeOK /\ Submissions /\ Places /\ Limits /\ Chunks /\ source = "live"
      /\ arrived < MaxItems /\ arrived' = id
      /\ UNCHANGED <<fixed, source, emitting, left, outs>>
  BY DEF MapInv, OrderInv, Arrive
<1>2. /\ arrived \in Nat /\ chunk \in Nat /\ size \in Nat /\ id \in Id /\ chunk <= arrived
      /\ tasks \in Seq(Id) /\ queue \in Seq(Id) /\ outs \in Seq(Id)
  BY <1>1, Kinds DEF TypeOK, Submissions, Id
<1>3. First(id) > arrived - chunk
  BY <1>1, NextFirst
<1>4. First(id) \in Nat
  BY <1>1, <1>2, FirstRange
<1>5. chunk' = IF Completes THEN 0 ELSE chunk + 1
  BY DEF Arrive
<1>6. arrived - chunk <= arrived' - chunk' /\ chunk' \in Nat /\ arrived - chunk \in Nat
  BY <1>1, <1>2, <1>5
<1>7. Chunks'
  <2>1. ASSUME size # 0 PROVE chunk' = arrived' % size
    <3>1. chunk = arrived % size
      BY <1>1, <2>1 DEF Chunks
    <3>2. (arrived + 1) % size = IF chunk + 1 >= size THEN 0 ELSE chunk + 1
      BY <1>2, <2>1, <3>1, NextRemainder
    <3> QED BY <1>1, <1>5, <3>2 DEF Completes
  <2> QED BY <1>1, <2>1 DEF Chunks
<1>8. Idle'
  BY <1>1 DEF OrderInv, Idle
<1>9. Unfed' = Unfed /\ \A i \in Id : First(i)' = First(i)
  BY <1>1 DEF Unfed, First
<1>10. ASSUME Unfed PROVE Lined(tasks)' /\ Released' /\ Emission'
  <2>1. emitting = None /\ Lined(tasks) /\ Released /\ Emission
    BY <1>10 DEF OrderInv, Arrive, InUserCode, Unfed
  <2>2. Increasing(outs) /\ Ahead(outs, queue) /\ Ahead(outs, tasks)
    BY <2>1 DEF Released
  <2>3. Emission'
    BY <1>1, <2>1 DEF Emission, Increasing
  <2>4. /\ \A k \in DOMAIN tasks : tasks[k] \in Nat /\ tasks[k] < First(id)
        /\ \A k \in DOMAIN queue : queue[k] \in Nat /\ queue[k] < First(id)
        /\ \A k \in DOMAIN outs : outs[k] \in Nat /\ outs[k] < First(id) /\ outs[k] <= arrived' - chunk'
    <3>1. /\ \A k \in DOMAIN tasks : tasks[k] \in Nat /\ tasks[k] <= arrived - chunk
          /\ \A k \in DOMAIN queue : queue[k] \in Nat /\ queue[k] <= arrived - chunk
      BY <1>1, Kinds, IdIsNat DEF Places, Below
    <3>2. \A k \in DOMAIN outs : outs[k] \in Id
      BY <1>2
    <3>3. \A k \in DOMAIN outs : outs[k] \in Nat /\ outs[k] <= arrived - chunk
      BY <2>1, <3>2, IdIsNat DEF Released
    <3>4. arrived' - chunk' \in Int
      BY <1>1, <1>2, <1>6
    <3> HIDE DEF id
    <3> QED BY <1>3, <1>4, <1>6, <3>1, <3>3, <3>4
  <2>5. CASE UNCHANGED <<tasks, queue>>
    <3>1. Lined(tasks)'
      BY <1>1, <2>1, <2>5 DEF Lined, Rising, Ahead, First
    <3>2. Released'
      BY <1>1, <2>1, <2>2, <2>4, <2>5 DEF Released, Ahead, Increasing, First
    <3> QED BY <2>3, <3>1, <3>2
  <2>6. CASE Completes /\ HasRoom(tasks) /\ tasks' = Append(tasks, id) /\ UNCHANGED queue
    <3>1. queue = <<>>
      BY <1>1, <2>1, <2>6, Kinds DEF Limits, HasRoom, Submissions
    <3> HIDE DEF id
    <3>2. Rising(tasks') /\ Ahead(outs, tasks')
      BY <1>2, <2>1, <2>2, <2>4, <2>6, LastInLine DEF Lined
    <3>3. Rising(queue) /\ Ahead(tasks', queue)
      BY <3>1 DEF Rising, Ahead
    <3>4. Lined(tasks)'
      BY <1>1, <2>6, <3>2, <3>3 DEF Lined, Rising, Ahead, First
    <3>5. Released'
      BY <1>1, <2>2, <2>4, <2>6, <3>2 DEF Released, Ahead, Increasing, First
    <3> QED BY <2>3, <3>4, <3>5
  <2>7. CASE UNCHANGED tasks /\ queue' = Append(queue, id)
    <3> HIDE DEF id
    <3>1. Rising(queue') /\ Ahead(outs, queue') /\ Ahead(tasks, queue')
      BY <1>2, <2>1, <2>2, <2>4, <2>7, LastInLine DEF Lined
    <3>2. Lined(tasks)'
      BY <1>1, <2>1, <2>7, <3>1 DEF Lined, Rising, Ahead, First
    <3>3. Released'
      BY <1>1, <2>2, <2>4, <2>7, <3>1 DEF Released, Ahead, Increasing, First
    <3> QED BY <2>3, <3>2, <3>3
  <2> QED BY <2>5, <2>6, <2>7 DEF Arrive
<1> QED
  BY <1>7, <1>8, <1>9, <1>10 DEF OrderInv

LEMMA OrderSourceDone == ASSUME MapInv, OrderInv, SourceDone PROVE OrderInv'
<1> USE DEF fixed
<1>1. /\ TypeOK /\ Submissions /\ Places /\ Chunks /\ source = "live" /\ source' = "gone"
      /\ tasks' = LastChunk /\ chunk' = 0
      /\ UNCHANGED <<fixed, arrived, queue, emitting, left, outs>>
  BY DEF MapInv, OrderInv, SourceDone
<1>2. /\ arrived \in Nat /\ chunk \in Nat /\ arrived - chunk <= arrived' - chunk'
      /\ arrived' - chunk' \in Int /\ arrived - chunk \in Int
      /\ tasks \in Seq(Id) /\ queue \in Seq(Id) /\ outs \in Seq(Id)
  BY <1>1, Kinds DEF TypeOK
<1>3. Chunks' /\ Idle' /\ Unfed' = Unfed /\ \A i \in Id : First(i)' = First(i)
  BY <1>1 DEF OrderInv, Chunks, Idle, Unfed, First
<1>4. ASSUME Unfed PROVE Lined(tasks)' /\ Released' /\ Emission'
  <2>1. emitting = None /\ Lined(tasks) /\ Released /\ Emission
    BY <1>4 DEF OrderInv, SourceDone, InUserCode, Unfed
  <2>2. Increasing(outs) /\ Ahead(outs, queue) /\ Ahead(outs, tasks)
    BY <2>1 DEF Released
  <2>3. Emission'
    BY <1>1, <2>1 DEF Emission, Increasing
  <2>4. \A k \in DOMAIN outs : outs[k] \in Nat /\ outs[k] <= arrived - chunk /\ outs[k] <= arrived' - chunk'
    <3>1. \A k \in DOMAIN outs : outs[k] \in Id
      BY <1>2
    <3>2. \A k \in DOMAIN outs : outs[k] \in Nat /\ outs[k] <= arrived - chunk
      BY <2>1, <3>1, IdIsNat DEF Released
    <3> QED BY <1>2, <3>2
  <2>5. CASE chunk = 0
    <3>1. tasks' = tasks
      BY <1>1, <2>5 DEF LastChunk
    <3>2. Lined(tasks)'
      BY <1>1, <2>1, <3>1 DEF Lined, Rising, Ahead, First
    <3>3. Released'
      BY <1>1, <2>2, <2>4, <3>1 DEF Released, Ahead, Increasing, First
    <3> QED BY <2>3, <3>2, <3>3
  <2>6. CASE chunk # 0
    <3>1. queue = <<>> /\ tasks' = Append(tasks, arrived)
      BY <1>1, <2>6 DEF Submissions, LastChunk
    <3>2. arrived \in Id /\ First(arrived) > arrived - chunk /\ First(arrived) \in Nat
      <4>1. arrived \in Id
        BY <1>1, <1>2, <2>6, Kinds DEF Submissions, Id
      <4> QED BY <1>1, <2>6, <4>1, NextFirst, FirstRange
    <3>3. /\ \A k \in DOMAIN tasks : tasks[k] < First(arrived)
          /\ \A k \in DOMAIN outs : outs[k] < First(arrived)
      <4>1. \A k \in DOMAIN tasks : tasks[k] \in Nat /\ tasks[k] <= arrived - chunk
        BY <1>1, Kinds, IdIsNat DEF Places, Below
      <4> QED BY <1>2, <2>4, <3>2, <4>1
    <3>4. Rising(tasks') /\ Ahead(outs, tasks')
      BY <1>2, <2>1, <2>2, <3>1, <3>2, <3>3, LastInLine DEF Lined
    <3>5. Rising(queue) /\ Ahead(tasks', queue)
      BY <3>1 DEF Rising, Ahead
    <3>6. Lined(tasks)'
      BY <1>1, <3>4, <3>5 DEF Lined, Rising, Ahead, First
    <3>7. Released'
      BY <1>1, <2>2, <2>4, <3>4 DEF Released, Ahead, Increasing, First
    <3> QED BY <2>3, <3>6, <3>7
  <2> QED BY <2>5, <2>6
<1> QED
  BY <1>3, <1>4 DEF OrderInv

LEMMA OrderComplete ==
    ASSUME OrderInv, NEW id \in Id, NEW how \in Outcome, Complete(id, how)
    PROVE  OrderInv'
BY DEF OrderInv, Complete, fixed, Chunks, Idle, Unfed, Lined, Rising, Ahead, Released, Emission,
   Increasing, First

LEMMA OrderEmitNext == ASSUME MapInv, OrderInv, EmitNext PROVE OrderInv'
<1> USE DEF fixed
<1>1. /\ left # <<>> /\ outs' = Append(outs, Head(left)) /\ left' = Tail(left)
      /\ left \in Seq(Id) /\ outs \in Seq(Id) /\ queue \in Seq(Id)
      /\ UNCHANGED <<fixed, source, arrived, chunk, queue, tasks, emitting>>
  BY DEF EmitNext, MapInv, TypeOK
<1>2. emitting # None /\ emitting \in Id
  BY <1>1 DEF OrderInv, Idle, MapInv, TypeOK
<1>3. Chunks' /\ Idle' /\ Unfed' = Unfed
  BY <1>1, <1>2 DEF OrderInv, Chunks, Idle, Unfed
<1>4. ASSUME Unfed PROVE Lined(tasks)' /\ Released' /\ Emission'
  <2>1. Lined(tasks) /\ Released /\ Emission
    BY <1>4 DEF OrderInv
  <2>2. Lined(tasks)'
    BY <1>1, <2>1 DEF Lined, Rising, Ahead, First
  <2>3. /\ DOMAIN left = 1 .. Len(left) /\ Len(left) \in Nat \ {0} /\ Head(left) = left[1]
        /\ DOMAIN left' = 1 .. Len(left) - 1 /\ \A i \in DOMAIN left' : left'[i] = left[i + 1]
        /\ left[1] \in Id
    BY <1>1, Taken
  <2>4. /\ DOMAIN outs = 1 .. Len(outs) /\ Len(outs) \in Nat /\ DOMAIN outs' = 1 .. Len(outs) + 1
        /\ \A i \in DOMAIN outs : outs'[i] = outs[i]
        /\ outs'[Len(outs) + 1] = left[1]
    BY <1>1, <2>3, Grown
  <2>5. \A i \in DOMAIN outs' : i \in DOMAIN outs \/ i = Len(outs) + 1
    BY <2>4
  <2>6. /\ 1 \in DOMAIN left /\ left[1] \in Nat /\ left[1] <= emitting /\ emitting \in Nat
        /\ \A i \in DOMAIN outs : outs[i] < left[1]
        /\ \A j \in DOMAIN left' : j + 1 \in DOMAIN left /\ left[1] < left[j + 1] /\ left[j + 1] <= emitting
    <3>1. 1 \in DOMAIN left /\ \A j \in DOMAIN left' : j + 1 \in DOMAIN left /\ 1 < j + 1
      BY <2>3
    <3> QED BY <1>2, <2>1, <2>3, <3>1, IdIsNat DEF Emission, Increasing
  <2>7. \A i \in DOMAIN outs' : outs'[i] <= left[1] /\ outs'[i] \in Nat
    <3>1. \A i \in DOMAIN outs : outs[i] \in Id
      BY <1>1
    <3> QED BY <2>4, <2>5, <2>6, <3>1, IdIsNat
  <2>8. PICK p \in DOMAIN tasks : tasks[p] = emitting
    BY <1>2 DEF MapInv, Turns, ToSet
  <2>9. emitting <= arrived - chunk /\ arrived - chunk \in Int
    BY <2>8, Kinds DEF MapInv, Places, Below
  <2>10. \A k \in DOMAIN queue : emitting < First(queue[k]) /\ First(queue[k]) \in Nat
    <3>1. \A k \in DOMAIN queue : queue[k] \in Id
      BY <1>1
    <3>2. \A k \in DOMAIN queue : First(queue[k]) \in 1 .. queue[k] /\ queue[k] \in Nat
      BY <3>1, FirstRange, IdIsNat DEF MapInv
    <3> QED BY <2>1, <2>8, <3>2 DEF Lined, Ahead
  <2>11. Released'
    <3>1. Increasing(outs')
      BY <2>1, <2>4, <2>5, <2>6 DEF Released, Increasing
    <3>2. \A i \in DOMAIN outs' : outs'[i] <= emitting
      BY <2>6, <2>7
    <3>3. \A i \in DOMAIN outs' : outs'[i] <= arrived - chunk
      BY <2>6, <2>7, <2>9, <3>2
    <3>4. Ahead(outs', queue)
      BY <2>6, <2>7, <2>10, <3>2 DEF Ahead
    <3> QED BY <1>1, <1>2, <3>1, <3>3, <3>4 DEF Released, Increasing, Ahead, First
  <2>12. Emission'
    <3>1. \A i \in DOMAIN outs' : outs'[i] <= emitting
      BY <2>6, <2>7
    <3>2. \A j \in DOMAIN left' : left'[j] \in Nat /\ left[1] < left'[j] /\ left'[j] <= emitting
      <4>1. \A j \in DOMAIN left : left[j] \in Id
        BY <1>1
      <4> QED BY <2>3, <2>6, <4>1, IdIsNat
    <3>3. \A i \in DOMAIN outs', j \in DOMAIN left' : outs'[i] < left'[j]
      BY <2>6, <2>7, <3>2
    <3>4. Increasing(left')
      BY <2>1, <2>3, <2>6 DEF Emission, Increasing
    <3> QED BY <1>1, <3>1, <3>2, <3>3, <3>4 DEF Emission, Increasing
  <2> QED BY <2>2, <2>11, <2>12
<1> QED
  BY <1>3, <1>4 DEF OrderInv

LEMMA OrderCallback == ASSUME MapInv, OrderInv, Callback PROVE OrderInv'
<1> USE DEF fixed
<1> DEFINE next == NextDone(tasks, Head(ready))
<1>1. /\ TypeOK /\ Places /\ Limits /\ emitting = None /\ left = <<>>
      /\ UNCHANGED <<fixed, source, arrived, chunk, outcome>>
      /\ \/ \E id \in next : EmitTask(id) /\ UNCHANGED <<ended, queue, tasks>>
         \/ next = {} /\ LeaveCallback(tasks)
  BY DEF MapInv, OrderInv, Idle, Callback
<1>2. CASE ~Unfed
  <2>1. Chunks' /\ ~Unfed'
    BY <1>1, <1>2 DEF OrderInv, Chunks, Unfed
  <2>2. Idle'
    <3>1. ASSUME NEW id \in next, EmitTask(id) PROVE Idle'
      <4>1. id # None
        BY <1>1, <3>1, Kinds, Taken DEF NextDone, Finished, ToSet, Callback, TypeOK
      <4> QED BY <3>1, <4>1 DEF EmitTask, Idle
    <3>2. ASSUME LeaveCallback(tasks) PROVE Idle'
      BY <1>1, <3>2 DEF LeaveCallback, Idle
    <3> QED BY <1>1, <3>1, <3>2
  <2> QED BY <2>1, <2>2 DEF OrderInv
<1>3. CASE Unfed
  <2>1. Lined(tasks) /\ Ahead(outs, tasks) /\ tasks \in Seq(Id) /\ Below(tasks)
    BY <1>1, <1>3 DEF OrderInv, Released, TypeOK, Places
  <2>2. ASSUME NEW id \in next, EmitTask(id), UNCHANGED <<queue, tasks>> PROVE OrderInv'
    <3>1. id \in {tasks[k] : k \in DOMAIN tasks \cap {1}}
      BY <1>3, <2>2 DEF NextDone, Unfed
    <3>2. tasks # <<>> /\ id = Head(tasks) /\ id \in Id
      BY <2>1, <3>1
    <3> QED BY <1>1, <1>3, <2>1, <2>2, <3>2, OrderStart
  <2>3. ASSUME LeaveCallback(tasks) PROVE OrderInv'
    <3>1. Limit # 0 => Len(tasks) <= Limit \/ queue = <<>>
      BY <1>1 DEF MapInv, Limits, Submissions
    <3> QED BY <1>1, <1>3, <2>1, <2>3, <3>1, OrderLeave
  <2> QED BY <1>1, <2>2, <2>3
<1> QED
  BY <1>2, <1>3

LEMMA OrderEmitted == ASSUME MapInv, OrderInv, Emitted PROVE OrderInv'
<1> USE DEF fixed
<1> DEFINE next == IF ordered THEN NextDone(Left, None) ELSE {}
<1>1. /\ TypeOK /\ Places /\ Limits /\ Turns /\ emitting # None /\ left = <<>>
      /\ UNCHANGED <<fixed, source, arrived, chunk, outcome>>
      /\ \/ \E id \in next : EmitTask(id) /\ tasks' = Left /\ UNCHANGED queue
         \/ next = {} /\ LeaveCallback(Left)
  BY DEF MapInv, Emitted
<1>2. CASE ~Unfed
  <2>1. Chunks' /\ ~Unfed'
    BY <1>1, <1>2 DEF OrderInv, Chunks, Unfed
  <2>2. Idle'
    <3>1. ASSUME NEW id \in next, EmitTask(id) PROVE Idle'
      <4>1. id \in {Left[k] : k \in DOMAIN Left}
        BY <3>1 DEF NextDone
      <4>2. id # None
        BY <1>1, <4>1, Kinds, LeftFacts
      <4> QED BY <3>1, <4>2 DEF EmitTask, Idle
    <3>2. ASSUME LeaveCallback(Left) PROVE Idle'
      BY <1>1, <3>2 DEF LeaveCallback, Idle
    <3> QED BY <1>1, <3>1, <3>2
  <2> QED BY <2>1, <2>2 DEF OrderInv
<1>3. CASE Unfed
  <2>1. /\ tasks \in Seq(Id) /\ queue \in Seq(Id) /\ outs \in Seq(Id) /\ tasks # <<>>
        /\ emitting = Head(tasks) /\ Left = Tail(tasks)
        /\ Lined(tasks) /\ \A i \in DOMAIN outs : outs[i] <= emitting
    BY <1>1, <1>3 DEF OrderInv, Emission, TypeOK, Turns, Unfed, Left, ToSet
  <2>2. /\ Left \in Seq(Id) /\ DOMAIN tasks = 1 .. Len(tasks) /\ Len(tasks) \in Nat \ {0}
        /\ DOMAIN Left = 1 .. Len(tasks) - 1 /\ Len(Left) = Len(tasks) - 1
        /\ \A k \in DOMAIN Left : Left[k] = tasks[k + 1]
        /\ emitting = tasks[1] /\ emitting \in Id
    BY <2>1, Taken
  <2>3. \A k \in DOMAIN Left : k + 1 \in DOMAIN tasks /\ 1 \in DOMAIN tasks /\ 1 < k + 1
    BY <2>2
  <2>4. Lined(Left)
    BY <2>1, <2>2, <2>3 DEF Lined, Rising, Ahead
  <2>5. Below(Left)
    BY <1>1, <2>2, <2>3 DEF Places, Below
  <2>6. Ahead(outs, Left)
    <3>1. \A i \in DOMAIN outs : outs[i] \in Nat /\ outs[i] <= emitting /\ emitting \in Nat
      <4>1. \A i \in DOMAIN outs : outs[i] \in Id
        BY <2>1
      <4> QED BY <2>1, <2>2, <4>1, IdIsNat
    <3>2. \A k \in DOMAIN Left : emitting < First(Left[k])
      BY <2>1, <2>2, <2>3 DEF Lined, Rising
    <3>3. \A k \in DOMAIN Left : Left[k] \in Id
      BY <2>2
    <3>4. \A k \in DOMAIN Left : First(Left[k]) \in 1 .. Left[k] /\ Left[k] \in Nat
      BY <1>1, <3>3, FirstRange, IdIsNat
    <3> QED BY <3>1, <3>2, <3>4 DEF Ahead
  <2>7. ASSUME NEW id \in next, EmitTask(id), tasks' = Left, UNCHANGED queue PROVE OrderInv'
    <3>1. id \in {Left[k] : k \in DOMAIN Left \cap {1}}
      BY <1>3, <2>7 DEF NextDone, Unfed
    <3>2. Left # <<>> /\ id = Head(Left) /\ id \in Id
      BY <2>2, <3>1
    <3> QED BY <1>1, <1>3, <2>2, <2>4, <2>5, <2>6, <2>7, <3>2, OrderStart
  <2>8. ASSUME LeaveCallback(Left) PROVE OrderInv'
    <3>1. Limit # 0 => Len(tasks) <= Limit \/ queue = <<>>
      BY <1>1 DEF MapInv, Limits, Submissions
    <3>2. Limit # 0 => Len(Left) <= Limit \/ queue = <<>>
      BY <2>2, <3>1, LimitAssumption
    <3> QED BY <1>1, <1>3, <2>2, <2>4, <2>6, <2>8, <3>2, OrderLeave
  <2> QED BY <1>1, <2>7, <2>8
<1> QED
  BY <1>2, <1>3

LEMMA OrderNext == MapInv /\ OrderInv /\ [Next]_vars => OrderInv'
<1> SUFFICES ASSUME MapInv, OrderInv, [Next]_vars PROVE OrderInv'
  OBVIOUS
<1>1. CASE UNCHANGED vars
  BY <1>1 DEF vars, fixed, OrderInv, Chunks, Idle, Unfed, Lined, Rising, Ahead, Released,
     Emission, Increasing, First
<1>2. CASE LoopStep
  BY <1>2, OrderCallback, OrderEmitNext, OrderEmitted DEF LoopStep
<1>3. CASE \E id \in Id : Settle(id)
  BY <1>3, OrderComplete DEF Settle
<1> QED
  BY <1>1, <1>2, <1>3, OrderArrive, OrderSourceDone DEF Next
-----------------------------------------------------------------------------
(* "The order of emitted results preserves the order of the source values",
   chunks and a limit or not, when no listener feeds the source. *)
THEOREM MapOrder == Spec => []OrderPreservedUnfed
<1>1. OrderInv => OrderPreservedUnfed
  BY DEF OrderInv, Unfed, Released, Increasing, OrderPreservedUnfed, OrderPreserved
<1>2. Init => MapInv /\ OrderInv
  BY MapInit, OrderInit
<1>3. MapInv /\ OrderInv /\ [Next]_vars => (MapInv /\ OrderInv)'
  BY MapNext, OrderNext
<1> QED
  BY <1>1, <1>2, <1>3, PTL DEF Spec
-----------------------------------------------------------------------------
(* Chunks do not overlap: two values have the same first value, or one chunk
   ends before the other begins. *)
EndOf(n) == ((n - 1) \div size + 1) * size

LEMMA Apart ==
    ASSUME NEW s \in Nat \ {0}, NEW p \in Nat, NEW q \in Nat, p < q
    PROVE  s * p + s <= s * q
<1>1. s * (q - p - 1) >= 0
  BY Z3
<1> QED BY <1>1, Z3

LEMMA ChunkOf ==
    ASSUME TypeOK, size # 0, NEW n \in Nat \ {0}
    PROVE  /\ First(n) \in Nat /\ 0 < First(n) /\ First(n) <= n /\ n < First(n) + size
           /\ EndOf(n) = First(n) - 1 + size
           /\ \E p \in Nat : First(n) = size * p + 1
<1> DEFINE q == (n - 1) \div size
           r == (n - 1) % size
<1>1. size \in Nat \ {0} /\ n - 1 \in Nat
  BY Kinds
<1>2. n - 1 = size * q + r /\ q \in Nat /\ r \in 0 .. size - 1
  <2> DEFINE m == n - 1
  <2> HIDE DEF m
  <2>1. m \in Nat => m = size * (m \div size) + (m % size) /\ m \div size \in Nat /\ m % size \in 0 .. size - 1
    BY <1>1, Division
  <2> QED BY <1>1, <2>1 DEF m
<1>3. First(n) = n - r /\ EndOf(n) = (q + 1) * size
  BY DEF First, EndOf
<1> HIDE DEF q, r
<1>4. (q + 1) * size = size * q + size /\ size * q \in Nat
  BY <1>1, <1>2, Z3
<1>5. First(n) = size * q + 1
  BY <1>1, <1>2, <1>3, <1>4
<1> QED BY <1>1, <1>2, <1>3, <1>4, <1>5

LEMMA ChunksApart ==
    ASSUME TypeOK, size # 0, NEW m \in Nat \ {0}, NEW n \in Nat \ {0}
    PROVE  First(m) = First(n) \/ First(m) + size <= First(n) \/ First(n) + size <= First(m)
<1>1. size \in Nat \ {0}
  BY Kinds
<1>2. PICK p \in Nat : First(m) = size * p + 1
  BY ChunkOf
<1>3. PICK q \in Nat : First(n) = size * q + 1
  BY ChunkOf
<1>4. size * p \in Nat /\ size * q \in Nat
  BY <1>1, Z3
<1>5. p < q => size * p + size <= size * q
  BY <1>1, Apart
<1>6. q < p => size * q + size <= size * p
  BY <1>1, Apart
<1> QED BY <1>1, <1>2, <1>3, <1>4, <1>5, <1>6

(* The values of a task are those that are accounted for with it. *)
LEMMA TaskFacts ==
    ASSUME TypeOK, NEW id \in Id, TaskOf(id) = id, NEW n \in Nat \ {0}, n <= arrived
    PROVE  TaskOf(n) = id <=> First(id) <= n /\ n <= id
<1>1. arrived \in Nat /\ id \in Nat \ {0} /\ size \in Nat
  BY Kinds DEF Id
<1>2. CASE size = 0
  BY <1>1, <1>2 DEF TaskOf, First
<1>3. CASE size # 0
  <2>1. /\ First(n) \in Nat /\ First(n) <= n /\ n < First(n) + size /\ EndOf(n) = First(n) - 1 + size
        /\ First(id) \in Nat /\ First(id) <= id /\ id < First(id) + size
        /\ EndOf(id) = First(id) - 1 + size
    BY <1>1, <1>3, ChunkOf
  <2>2. First(n) = First(id) \/ First(n) + size <= First(id) \/ First(id) + size <= First(n)
    BY <1>1, <1>3, ChunksApart
  <2>3. /\ TaskOf(n) = IF EndOf(n) <= arrived THEN EndOf(n) ELSE arrived
        /\ id = IF EndOf(id) <= arrived THEN EndOf(id) ELSE arrived
    BY <1>3 DEF TaskOf, EndOf
  <2> QED BY <1>1, <1>3, <2>1, <2>2, <2>3
<1> QED BY <1>2, <1>3

(* The task of a submitted value is submitted, and has that value. *)
LEMMA TaskOfRange ==
    ASSUME TypeOK, Submissions, Chunks, NEW n \in Id, Submitted(n)
    PROVE  /\ TaskOf(n) \in Id /\ n <= TaskOf(n) /\ Submitted(TaskOf(n))
           /\ size # 0 /\ source = "live" => TaskOf(n) = EndOf(n) /\ EndOf(n) <= arrived - chunk
<1>1. /\ arrived \in Nat /\ arrived <= MaxItems /\ MaxItems \in Nat /\ n \in Nat \ {0}
      /\ size \in Nat /\ chunk \in Nat /\ n <= arrived - chunk /\ n <= arrived
  BY Kinds DEF Id, Submitted
<1>2. CASE size = 0
  BY <1>1, <1>2 DEF TaskOf, Id, Submitted
<1>3. CASE size # 0
  <2>1. /\ First(n) \in Nat /\ First(n) <= n /\ n < First(n) + size /\ EndOf(n) = First(n) - 1 + size
    BY <1>1, <1>3, ChunkOf
  <2>2. TaskOf(n) = IF EndOf(n) <= arrived THEN EndOf(n) ELSE arrived
    BY <1>3 DEF TaskOf, EndOf
  <2>3. ASSUME source = "live" PROVE EndOf(n) <= arrived - chunk
    <3> DEFINE b == arrived + 1
    <3>1. b \in Nat \ {0} /\ b - 1 = arrived
      BY <1>1
    <3> HIDE DEF b
    <3>2. chunk = arrived % size
      BY <1>3, <2>3 DEF Chunks
    <3>3. First(b) = b - chunk
      BY <1>3, <3>1, <3>2 DEF First
    <3>4. First(n) = First(b) \/ First(n) + size <= First(b) \/ First(b) + size <= First(n)
      BY <1>1, <1>3, <3>1, ChunksApart
    <3> QED BY <1>1, <1>3, <2>1, <3>1, <3>3, <3>4
  <2>4. source = "live" \/ (source = "gone" /\ chunk = 0)
    BY DEF TypeOK, Submissions
  <2> QED BY <1>1, <1>3, <2>1, <2>2, <2>3, <2>4 DEF Id, Submitted
<1> QED BY <1>2, <1>3

(* The values that a new task takes: those that waited for it. *)
LEMMA NewChunk ==
    ASSUME TypeOK, Submissions, Chunks, size # 0, source = "live",
           NEW n \in Nat \ {0}, n > arrived - chunk, n <= arrived + 1
    PROVE  /\ EndOf(n) = arrived - chunk + size
           /\ Completes => EndOf(n) = arrived + 1
           /\ ~Completes => EndOf(n) > arrived + 1
           /\ EndOf(n) > arrived
<1>1. /\ arrived \in Nat /\ size \in Nat \ {0} /\ chunk = arrived % size /\ chunk \in 0 .. size - 1
      /\ chunk <= arrived
  <2>1. arrived \in Nat /\ size \in Nat \ {0} /\ chunk = arrived % size /\ chunk <= arrived
    BY Kinds DEF Chunks, Submissions
  <2>2. arrived % size \in 0 .. size - 1
    BY <2>1, Division
  <2> QED BY <2>1, <2>2
<1> DEFINE b == arrived + 1
<1>2. b \in Nat \ {0} /\ b - 1 = arrived
  BY <1>1
<1> HIDE DEF b
<1>3. First(b) = b - chunk
  BY <1>1, <1>2 DEF First
<1>4. First(n) = First(b) \/ First(n) + size <= First(b) \/ First(b) + size <= First(n)
  BY <1>2, ChunksApart
<1>5. /\ First(n) \in Nat /\ First(n) <= n /\ n < First(n) + size /\ EndOf(n) = First(n) - 1 + size
  BY ChunkOf
<1>6. n <= b
  BY DEF b
<1>7. First(n) = b - chunk
  BY <1>1, <1>2, <1>3, <1>4, <1>5, <1>6
<1> QED BY <1>1, <1>2, <1>5, <1>7 DEF Completes
-----------------------------------------------------------------------------
(* What is behind the accounts: every task is that of its own number; what was
   emitted is of no task that waits, and of none that is listed but the one that
   is being emitted; what is left of an emission was not emitted yet; and the
   values of a task are out before it leaves the list. *)
TasksNamed == \A id \in ToSet(tasks) \cup ToSet(queue) : TaskOf(id) = id

Given ==
    /\ IsInjective(outs)
    /\ \A v \in ToSet(outs) :
          /\ Submitted(v) /\ TaskOf(v) \notin ToSet(queue)
          /\ TaskOf(v) \in ToSet(tasks) => TaskOf(v) = emitting

Giving ==
    /\ IsInjective(left)
    /\ \A v \in ToSet(left) : v \notin ToSet(outs) /\ Submitted(v) /\ TaskOf(v) = emitting

Due ==
    emitting # None =>
       /\ outcome[emitting] = "value" =>
             \A n \in Id : Submitted(n) /\ TaskOf(n) = emitting =>
                n \in ToSet(outs) \cup ToSet(left)
       /\ outcome[emitting] = "error" => emitting \in ToSet(outs)

Homes ==
    \A n \in Id : Submitted(n) => TaskOf(n) \in ToSet(queue) \cup ToSet(tasks) \/ Answered(n)

AcctInv == TasksNamed /\ Given /\ Giving /\ Due /\ Homes

Sound == MapInv /\ Chunks /\ Idle

LEMMA AcctTypes ==
    ASSUME Sound
    PROVE  /\ TypeOK /\ Submissions /\ Places
           /\ ToSet(tasks) \subseteq Id /\ ToSet(queue) \subseteq Id
           /\ ToSet(outs) \subseteq Id /\ ToSet(left) \subseteq Id
           /\ \A id \in ToSet(tasks) \cup ToSet(queue) : Submitted(id)
           /\ emitting # None => emitting \in Id /\ emitting \in ToSet(tasks)
<1>1. TypeOK /\ Submissions /\ Places
  BY DEF Sound, MapInv
<1>2. ToSet(tasks) \subseteq Id /\ ToSet(queue) \subseteq Id
  BY <1>1, Kinds DEF ToSet
<1>3. ToSet(outs) \subseteq Id /\ ToSet(left) \subseteq Id
  <2>1. \A q \in Seq(Id) : ToSet(q) \subseteq Id
    BY DEF ToSet
  <2> QED BY <1>1, <2>1 DEF TypeOK
<1>4. \A id \in ToSet(tasks) \cup ToSet(queue) : Submitted(id)
  BY <1>1 DEF Places, Below, ToSet, Submitted
<1>5. emitting # None => emitting \in Id /\ emitting \in ToSet(tasks)
  BY <1>1 DEF Sound, MapInv, Turns, TypeOK
<1> QED BY <1>1, <1>2, <1>3, <1>4, <1>5

LEMMA AcctInit == Init => AcctInv
<1> SUFFICES ASSUME Init PROVE AcctInv
  OBVIOUS
<1>1. ToSet(<<>>) = {} /\ IsInjective(<<>>)
  BY DEF ToSet, IsInjective
<1>2. \A n \in Id : ~Submitted(n)
  BY BoundAssumption DEF Init, Submitted, Id
<1> QED BY <1>1, <1>2 DEF Init, AcctInv, TasksNamed, Given, Giving, Due, Homes

LEMMA SetOfGrown ==
    ASSUME NEW q \in Seq(Id), NEW x \in Id
    PROVE  /\ ToSet(Append(q, x)) = ToSet(q) \cup {x}
           /\ IsInjective(q) /\ x \notin ToSet(q) => IsInjective(Append(q, x))
<1>1. /\ DOMAIN q = 1 .. Len(q) /\ Len(q) \in Nat /\ DOMAIN Append(q, x) = 1 .. Len(q) + 1
      /\ \A i \in 1 .. Len(q) : Append(q, x)[i] = q[i]
      /\ Append(q, x)[Len(q) + 1] = x
  BY Grown
<1>2. /\ \A i \in DOMAIN Append(q, x) : i \in DOMAIN q \/ i = Len(q) + 1
      /\ \A i \in DOMAIN q : i \in DOMAIN Append(q, x) /\ i # Len(q) + 1
      /\ Len(q) + 1 \in DOMAIN Append(q, x)
  BY <1>1
<1> DEFINE r == Append(q, x)
<1> HIDE DEF r
<1>3. ToSet(r) = ToSet(q) \cup {x}
  BY <1>1, <1>2 DEF ToSet, r
<1>4. IsInjective(q) /\ x \notin ToSet(q) => IsInjective(r)
  BY <1>1, <1>2 DEF IsInjective, ToSet, r
<1> QED BY <1>3, <1>4 DEF r

LEMMA SetOfTaken ==
    ASSUME NEW q \in Seq(Id), q # <<>>
    PROVE  /\ Head(q) \in Id /\ Tail(q) \in Seq(Id)
           /\ ToSet(q) = {Head(q)} \cup ToSet(Tail(q))
           /\ IsInjective(q) => Head(q) \notin ToSet(Tail(q)) /\ IsInjective(Tail(q))
<1> DEFINE r == Tail(q)
<1>1. /\ r \in Seq(Id) /\ Len(q) \in Nat \ {0} /\ DOMAIN q = 1 .. Len(q)
      /\ Head(q) = q[1] /\ q[1] \in Id /\ DOMAIN r = 1 .. Len(q) - 1
      /\ \A i \in 1 .. Len(q) - 1 : r[i] = q[i + 1]
  BY Taken
<1> HIDE DEF r
<1>2. /\ \A i \in DOMAIN r : i + 1 \in DOMAIN q /\ i + 1 # 1 /\ r[i] = q[i + 1]
      /\ \A i \in DOMAIN q : i = 1 \/ (i - 1 \in DOMAIN r /\ r[i - 1] = q[i])
      /\ 1 \in DOMAIN q
  BY <1>1
<1>3. ToSet(q) = {Head(q)} \cup ToSet(r)
  BY <1>1, <1>2 DEF ToSet
<1>4. ASSUME IsInjective(q), NEW i \in DOMAIN r PROVE r[i] # Head(q)
  <2>1. i + 1 \in DOMAIN q /\ 1 \in DOMAIN q /\ i + 1 # 1 /\ r[i] = q[i + 1]
    BY <1>2
  <2> HIDE DEF r
  <2>2. q[i + 1] # q[1]
    BY <1>4, <2>1 DEF IsInjective
  <2> QED BY <1>1, <2>1, <2>2
<1>5. ASSUME IsInjective(q) PROVE IsInjective(r)
  <2>1. \A i, j \in DOMAIN r : i \in Nat /\ j \in Nat /\ (i + 1 = j + 1 => i = j)
    BY <1>1
  <2> QED BY <1>2, <1>5, <2>1 DEF IsInjective
<1>6. IsInjective(q) => Head(q) \notin ToSet(r)
  BY <1>4 DEF ToSet
<1> QED BY <1>1, <1>3, <1>5, <1>6 DEF r

(* Nothing of the accounts moves but what the step moves. *)
LEMMA SameTasks ==
    ASSUME UNCHANGED <<size, arrived, chunk>>
    PROVE  /\ \A n \in Id : TaskOf(n)' = TaskOf(n)
           /\ \A n \in Id : Submitted(n)' = Submitted(n)
BY DEF TaskOf, Submitted

(* What a finished task emits, or will have emitted. *)
LEMMA OwedValues ==
    ASSUME Sound, AcctInv, NEW id \in ToSet(tasks), Finished(id)
    PROVE  /\ id \in Id /\ Owed(id) \in Seq(Id) /\ IsInjective(Owed(id))
           /\ \A v \in ToSet(Owed(id)) : v \in Id /\ Submitted(v) /\ TaskOf(v) = id
           /\ outcome[id] = "value" =>
                 \A n \in Id : Submitted(n) /\ TaskOf(n) = id => n \in ToSet(Owed(id))
           /\ outcome[id] = "error" => id \in ToSet(Owed(id))
<1>1. TypeOK /\ id \in Id /\ Submitted(id) /\ TaskOf(id) = id
  BY AcctTypes DEF AcctInv, TasksNamed
<1>2. /\ First(id) \in 1 .. id /\ Owed(id) \in Seq(Id)
      /\ \A k \in DOMAIN Owed(id) : First(id) <= Owed(id)[k] /\ Owed(id)[k] <= id
      /\ \A j, k \in DOMAIN Owed(id) : j < k => Owed(id)[j] < Owed(id)[k]
  BY <1>1, OwedFacts
<1>3. id \in Nat \ {0} /\ arrived \in Nat /\ chunk \in Nat /\ id <= arrived - chunk
  BY <1>1, Kinds DEF Id, Submitted
<1>4. \A k \in DOMAIN Owed(id) : Owed(id)[k] \in Id /\ Owed(id)[k] \in Nat \ {0} /\ k \in Nat
  <2>1. \A k \in DOMAIN Owed(id) : Owed(id)[k] \in Id /\ k \in Nat
    BY <1>2
  <2>2. \A v \in Id : v \in Nat \ {0}
    BY BoundAssumption DEF Id
  <2> QED BY <2>1, <2>2
<1> DEFINE owed == Owed(id)
<1>5. /\ owed \in Seq(Id) /\ \A k \in DOMAIN owed : owed[k] \in Nat \ {0} /\ owed[k] \in Id /\ k \in Nat
      /\ \A k \in DOMAIN owed : First(id) <= owed[k] /\ owed[k] <= id
      /\ \A j, k \in DOMAIN owed : j < k => owed[j] < owed[k]
  BY <1>2, <1>4
<1>6. outcome[id] = "value" => owed = Values(id)
  BY DEF Owed
<1>7. outcome[id] = "error" => owed = <<id>>
  BY DEF Owed
<1> HIDE DEF owed
<1>8. IsInjective(owed)
  <2> SUFFICES ASSUME NEW j \in DOMAIN owed, NEW k \in DOMAIN owed, owed[j] = owed[k], j # k
               PROVE  FALSE
    BY DEF IsInjective
  <2>1. j < k \/ k < j
    BY <1>5
  <2> QED BY <1>5, <2>1
<1>9. ASSUME NEW v \in ToSet(owed) PROVE v \in Id /\ Submitted(v) /\ TaskOf(v) = id
  <2>1. v \in Id /\ v \in Nat \ {0} /\ First(id) <= v /\ v <= id
    BY <1>5 DEF ToSet
  <2>2. v <= arrived - chunk /\ v <= arrived
    BY <1>3, <2>1
  <2> QED BY <1>1, <2>1, <2>2, TaskFacts DEF Submitted
<1>10. ASSUME outcome[id] = "value", NEW n \in Id, Submitted(n), TaskOf(n) = id
       PROVE  n \in ToSet(owed)
  <2>1. n \in Nat \ {0} /\ n <= arrived
    BY <1>3, <1>10 DEF Id, Submitted
  <2>2. First(id) <= n /\ n <= id
    BY <1>1, <1>10, <2>1, TaskFacts
  <2> DEFINE k == n - First(id) + 1
  <2>3. k \in 1 .. id - First(id) + 1 /\ First(id) + k - 1 = n
    BY <1>2, <1>3, <2>1, <2>2
  <2> HIDE DEF k
  <2>4. k \in DOMAIN owed /\ owed[k] = n
    BY <1>6, <1>10, <2>3 DEF Values
  <2> QED BY <2>4 DEF ToSet
<1>11. ASSUME outcome[id] = "error" PROVE id \in ToSet(owed)
  <2>1. 1 \in DOMAIN owed /\ owed[1] = id
    BY <1>7, <1>11
  <2> QED BY <2>1 DEF ToSet
<1> QED BY <1>1, <1>2, <1>8, <1>9, <1>10, <1>11 DEF owed

(* A task of the list starts to be emitted. *)
LEMMA AcctStart ==
    ASSUME Sound, AcctInv, NEW ts \in Seq(Id), ToSet(ts) \subseteq ToSet(tasks),
           NEW id \in ToSet(ts), Finished(id), EmitTask(id), left = <<>>, tasks' = ts,
           \A v \in ToSet(outs) : TaskOf(v) \notin ToSet(ts),
           \A n \in Id : Submitted(n) /\ TaskOf(n) \in ToSet(tasks) \ ToSet(ts) => Answered(n),
           UNCHANGED <<fixed, source, arrived, chunk, outcome, queue>>
    PROVE  AcctInv'
<1> USE DEF fixed
<1> DEFINE owed == Owed(id)
<1>1. /\ id \in Id /\ owed \in Seq(Id) /\ IsInjective(owed)
      /\ \A v \in ToSet(owed) : v \in Id /\ Submitted(v) /\ TaskOf(v) = id
      /\ outcome[id] = "value" =>
            \A n \in Id : Submitted(n) /\ TaskOf(n) = id => n \in ToSet(owed)
      /\ outcome[id] = "error" => id \in ToSet(owed)
  BY OwedValues
<1>2. emitting' = id
  BY DEF EmitTask
<1>3. IF owed = <<>> THEN UNCHANGED <<outs, left>>
      ELSE outs' = Append(outs, Head(owed)) /\ left' = Tail(owed)
  BY DEF EmitTask
<1> HIDE DEF owed
<1>4. /\ TypeOK /\ Places /\ ToSet(tasks) \subseteq Id /\ ToSet(queue) \subseteq Id /\ ToSet(outs) \subseteq Id
      /\ outs \in Seq(Id)
  BY AcctTypes DEF TypeOK
<1>5. /\ \A n \in Id : TaskOf(n)' = TaskOf(n) /\ Submitted(n)' = Submitted(n)
      /\ outcome' = outcome
  BY SameTasks
<1>6. TasksNamed /\ Given /\ Homes
  BY DEF AcctInv
<1>7. id \notin ToSet(queue)
  BY <1>4 DEF Places, ToSet
<1>8. /\ ToSet(outs') \cup ToSet(left') = ToSet(outs) \cup ToSet(owed)
      /\ ToSet(outs) \subseteq ToSet(outs') /\ ToSet(left') \subseteq ToSet(owed)
      /\ IsInjective(outs') /\ IsInjective(left')
      /\ \A v \in ToSet(left') : v \notin ToSet(outs')
  <2>0. ToSet(<<>>) = {} /\ IsInjective(<<>>)
    BY DEF ToSet, IsInjective
  <2>1. CASE owed = <<>>
    BY <1>3, <1>6, <2>0, <2>1 DEF Given
  <2>2. CASE owed # <<>>
    <3>1. /\ Head(owed) \in Id /\ Tail(owed) \in Seq(Id)
          /\ ToSet(owed) = {Head(owed)} \cup ToSet(Tail(owed))
          /\ Head(owed) \notin ToSet(Tail(owed)) /\ IsInjective(Tail(owed))
      BY <1>1, <2>2, SetOfTaken
    <3>2. \A v \in ToSet(owed) : v \notin ToSet(outs)
      BY <1>1
    <3>3. ToSet(outs') = ToSet(outs) \cup {Head(owed)} /\ IsInjective(outs')
      <4>1. outs' = Append(outs, Head(owed)) /\ Head(owed) \in Id /\ outs \in Seq(Id)
        BY <1>3, <1>4, <2>2, <3>1, Zenon
      <4>2. IsInjective(outs) /\ Head(owed) \notin ToSet(outs)
        BY <1>6, <3>1, <3>2 DEF Given
      <4> QED BY <4>1, <4>2, SetOfGrown, Zenon
    <3>4. left' = Tail(owed)
      BY <1>3, <2>2
    <3> QED BY <3>1, <3>2, <3>3, <3>4
  <2> QED BY <2>1, <2>2
<1>9. ToSet(outs') \subseteq ToSet(outs) \cup ToSet(owed)
  BY <1>8
<1>10. TasksNamed'
  BY <1>4, <1>5, <1>6 DEF TasksNamed
<1>11. Given'
  <2> SUFFICES ASSUME NEW v \in ToSet(outs')
               PROVE  /\ Submitted(v)' /\ TaskOf(v)' \notin ToSet(queue)
                      /\ TaskOf(v)' \in ToSet(ts) => TaskOf(v)' = id
    BY <1>2, <1>8 DEF Given
  <2>1. CASE v \in ToSet(outs)
    BY <1>4, <1>5, <1>6, <2>1 DEF Given
  <2>2. CASE v \in ToSet(owed)
    BY <1>1, <1>5, <1>7, <2>2
  <2> QED BY <1>9, <2>1, <2>2
<1>12. Giving'
  BY <1>1, <1>2, <1>5, <1>8 DEF Giving
<1>13. Due'
  <2>1. ASSUME outcome[id] = "value", NEW n \in Id, Submitted(n), TaskOf(n) = id
        PROVE  n \in ToSet(outs') \cup ToSet(left')
    BY <1>1, <1>8, <2>1
  <2>2. ASSUME outcome[id] = "error" PROVE id \in ToSet(outs')
    <3>1. owed = <<id>>
      BY <2>2 DEF owed, Owed
    <3>2. outs' = Append(outs, id)
      BY <1>3, <3>1
    <3> QED BY <1>1, <1>4, <3>2, SetOfGrown
  <2> QED BY <1>2, <1>5, <2>1, <2>2 DEF Due
<1>14. Homes'
  <2> SUFFICES ASSUME NEW n \in Id, Submitted(n)
               PROVE  TaskOf(n)' \in ToSet(queue') \cup ToSet(tasks') \/ Answered(n)'
    BY <1>5 DEF Homes
  <2>1. ASSUME Answered(n) PROVE Answered(n)'
    BY <1>5, <1>8, <2>1 DEF Answered
  <2>2. TaskOf(n) \in ToSet(queue) \cup ToSet(tasks) \/ Answered(n)
    BY <1>6 DEF Homes
  <2> QED BY <1>5, <2>1, <2>2
<1> QED BY <1>10, <1>11, <1>12, <1>13, <1>14 DEF AcctInv

(* The callback is over: what is queued moves to the list. *)
LEMMA LeaveSets ==
    ASSUME MapInv, NEW ts \in Seq(Id), Kept(ts, ready'), LeaveCallback(ts)
    PROVE  /\ emitting' = None /\ UNCHANGED <<outs, left>>
           /\ ToSet(tasks') \cup ToSet(queue') = ToSet(ts) \cup ToSet(queue)
           /\ ToSet(ts) \subseteq ToSet(tasks') /\ ToSet(queue') \subseteq ToSet(queue)
<1> DEFINE n == Refill(ts)
           more == SubSeq(queue, 1, n)
           rest == SubSeq(queue, n + 1, Len(queue))
<1>1. /\ tasks' = ts \o more /\ queue' = rest /\ emitting' = None /\ UNCHANGED <<left, outs>>
  BY DEF LeaveCallback
<1>2. queue \in Seq(Id) /\ Len(ts) \in Nat /\ Len(queue) \in Nat
  BY Kinds DEF MapInv, TypeOK
<1>3. Limit # 0 => Len(ts) <= Limit \/ queue = <<>>
  <2>1. /\ Limit # 0 /\ size = 0 => Len(tasks) <= Limit
        /\ size # 0 => queue = <<>>
        /\ Len(ts) <= Len(tasks) /\ Len(tasks) \in Nat /\ Limit \in Nat
    BY Kinds DEF MapInv, Limits, Submissions, Kept
  <2> QED BY <1>2, <2>1
<1>4. n \in 0 .. Len(queue)
  BY <1>2, <1>3, RefillFacts
<1> HIDE DEF n
<1>5. /\ more \in Seq(Id) /\ rest \in Seq(Id) /\ Len(more) = n /\ Len(rest) = Len(queue) - n
      /\ \A i \in 1 .. n : more[i] = queue[i]
      /\ \A i \in 1 .. Len(queue) - n : rest[i] = queue[n + i]
  BY <1>2, <1>4, Split
<1> HIDE DEF more, rest
<1>6. /\ DOMAIN more = 1 .. n /\ DOMAIN rest = 1 .. Len(queue) - n /\ DOMAIN queue = 1 .. Len(queue)
      /\ DOMAIN ts = 1 .. Len(ts) /\ n \in Nat
  BY <1>2, <1>4, <1>5
<1>7. ToSet(ts \o more) = ToSet(ts) \cup ToSet(more)
  <2> DEFINE b == ts \o more
  <2>1. /\ b \in Seq(Id) /\ Len(b) = Len(ts) + Len(more)
        /\ \A i \in 1 .. Len(ts) : b[i] = ts[i]
        /\ \A i \in 1 .. Len(more) : b[Len(ts) + i] = more[i]
        /\ \A i \in Len(ts) + 1 .. Len(ts) + Len(more) : b[i] = more[i - Len(ts)]
    <3>1. ts \in Seq(Id) /\ more \in Seq(Id)
      BY <1>5
    <3> QED BY ONLY <3>1, Joined
  <2> HIDE DEF b
  <2>2. DOMAIN b = 1 .. Len(ts) + n
    BY <1>2, <1>4, <1>5, <2>1
  <2>3. \A i \in DOMAIN b : i \in DOMAIN ts \/ (i - Len(ts) \in DOMAIN more /\ b[i] = more[i - Len(ts)])
    BY <1>2, <1>4, <1>5, <1>6, <2>1, <2>2
  <2>4. \A i \in DOMAIN more : Len(ts) + i \in DOMAIN b /\ b[Len(ts) + i] = more[i]
    BY <1>2, <1>4, <1>5, <1>6, <2>1, <2>2
  <2>5. \A i \in DOMAIN ts : i \in DOMAIN b /\ b[i] = ts[i]
    BY <1>2, <1>4, <1>6, <2>1, <2>2
  <2>6. ToSet(b) = ToSet(ts) \cup ToSet(more)
    BY <2>3, <2>4, <2>5 DEF ToSet
  <2> QED BY <2>6 DEF b
<1>8. ToSet(queue) = ToSet(more) \cup ToSet(rest)
  <2>1. \A i \in DOMAIN queue : \/ i \in DOMAIN more /\ more[i] = queue[i]
                                \/ i - n \in DOMAIN rest /\ rest[i - n] = queue[i]
    BY <1>2, <1>4, <1>5, <1>6
  <2>2. \A i \in DOMAIN more : i \in DOMAIN queue /\ more[i] = queue[i]
    BY <1>2, <1>4, <1>5, <1>6
  <2>3. \A i \in DOMAIN rest : n + i \in DOMAIN queue /\ rest[i] = queue[n + i]
    BY <1>2, <1>4, <1>5, <1>6
  <2> QED BY <2>1, <2>2, <2>3 DEF ToSet
<1> QED BY <1>1, <1>7, <1>8

LEMMA AcctLeave ==
    ASSUME Sound, AcctInv, NEW ts \in Seq(Id), Kept(ts, ready'), LeaveCallback(ts), left = <<>>,
           \A v \in ToSet(outs) : TaskOf(v) \notin ToSet(ts),
           \A n \in Id : Submitted(n) /\ TaskOf(n) \in ToSet(tasks) \ ToSet(ts) => Answered(n),
           UNCHANGED <<fixed, source, arrived, chunk, outcome>>
    PROVE  AcctInv'
<1> USE DEF fixed
<1>1. /\ emitting' = None /\ UNCHANGED <<outs, left>>
      /\ ToSet(tasks') \cup ToSet(queue') = ToSet(ts) \cup ToSet(queue)
      /\ ToSet(ts) \subseteq ToSet(tasks') /\ ToSet(queue') \subseteq ToSet(queue)
  BY LeaveSets DEF Sound
<1>2. /\ ToSet(tasks) \subseteq Id /\ ToSet(queue) \subseteq Id /\ ToSet(outs) \subseteq Id
      /\ ToSet(ts) \subseteq ToSet(tasks)
  BY AcctTypes DEF Kept, ToSet
<1>3. /\ \A n \in Id : TaskOf(n)' = TaskOf(n) /\ Submitted(n)' = Submitted(n)
      /\ outcome' = outcome
  BY SameTasks
<1>4. TasksNamed /\ Given /\ Homes
  BY DEF AcctInv
<1>5. TasksNamed'
  BY <1>1, <1>2, <1>3, <1>4 DEF TasksNamed
<1>6. Given'
  BY <1>1, <1>2, <1>3, <1>4 DEF Given
<1>7. Giving'
  <2>1. ToSet(<<>>) = {} /\ IsInjective(<<>>)
    BY DEF ToSet, IsInjective
  <2> QED BY <1>1, <2>1 DEF Giving
<1>8. Due'
  BY <1>1 DEF Due
<1>9. Homes'
  <2> SUFFICES ASSUME NEW n \in Id, Submitted(n)
               PROVE  TaskOf(n)' \in ToSet(queue') \cup ToSet(tasks') \/ Answered(n)'
    BY <1>3 DEF Homes
  <2>1. Answered(n) => Answered(n)'
    BY <1>1, <1>3 DEF Answered
  <2>2. TaskOf(n) \in ToSet(queue) \cup ToSet(tasks) \/ Answered(n)
    BY <1>4 DEF Homes
  <2> QED BY <1>1, <1>3, <2>1, <2>2
<1> QED BY <1>5, <1>6, <1>7, <1>8, <1>9 DEF AcctInv

LEMMA AcctCallback == ASSUME Sound, AcctInv, Callback PROVE AcctInv'
<1> USE DEF fixed
<1> DEFINE first == Head(ready)
           next == NextDone(tasks, first)
<1>1. /\ MapInv /\ TypeOK /\ Callbacks /\ Places /\ emitting = None /\ ready # <<>> /\ ready' = Tail(ready)
      /\ left = <<>> /\ tasks \in Seq(Id)
      /\ UNCHANGED <<fixed, source, arrived, chunk, outcome>>
      /\ \/ \E id \in next : EmitTask(id) /\ UNCHANGED <<ended, queue, tasks>>
         \/ next = {} /\ LeaveCallback(tasks)
  BY DEF Sound, MapInv, Idle, Callback, TypeOK
<1>2. /\ \A v \in ToSet(outs) : TaskOf(v) \notin ToSet(tasks)
      /\ \A n \in Id : Submitted(n) /\ TaskOf(n) \in ToSet(tasks) \ ToSet(tasks) => Answered(n)
  <2>1. None \notin Id /\ ToSet(tasks) \subseteq Id
    BY <1>1, Kinds, AcctTypes
  <2> QED BY <1>1, <2>1 DEF AcctInv, Given
<1>3. \A id \in next : id \in ToSet(tasks) /\ Finished(id)
  <2>1. CASE ordered
    <3>1. next = {i \in {tasks[k] : k \in DOMAIN tasks \cap {1}} : Finished(i)}
      BY <2>1 DEF NextDone
    <3> HIDE DEF next
    <3> QED BY <3>1 DEF ToSet
  <2>2. CASE ~ordered
    <3>1. 1 \in DOMAIN ready /\ first = ready[1]
      BY <1>1, Taken DEF TypeOK
    <3> QED BY <1>1, <2>2, <3>1 DEF Callbacks, NextDone
  <2> QED BY <1>1, <2>1, <2>2 DEF TypeOK
<1> HIDE DEF next
<1>4. ASSUME NEW id \in next, EmitTask(id), UNCHANGED <<ended, queue, tasks>> PROVE AcctInv'
  BY <1>1, <1>2, <1>3, <1>4, AcctStart
<1>5. ASSUME next = {}, LeaveCallback(tasks) PROVE AcctInv'
  <2>1. Kept(tasks, ready')
    <3>1. /\ ready' \in Seq(Id) /\ DOMAIN ready = 1 .. Len(ready) /\ Len(ready) \in Nat
          /\ DOMAIN ready' = 1 .. Len(ready) - 1
          /\ \A i \in 1 .. Len(ready) - 1 : ready'[i] = ready[i + 1]
      BY <1>1, Taken DEF TypeOK
    <3>2. \A k \in DOMAIN ready' : k \in Nat /\ k + 1 \in DOMAIN ready /\ ready'[k] = ready[k + 1]
      BY <3>1
    <3>3. IsInjective(ready')
      BY <1>1, <3>2 DEF Callbacks, IsInjective
    <3>4. \A k \in DOMAIN tasks : tasks[k] \in ToSet(tasks)
      BY DEF ToSet
    <3>5. IsInjective(tasks) /\ Len(tasks) <= Len(tasks)
      BY <1>1, Kinds DEF Places
    <3> QED BY <1>1, <3>1, <3>2, <3>3, <3>4, <3>5 DEF Kept, Callbacks
  <2> QED BY <1>1, <1>2, <1>5, <2>1, AcctLeave
<1> QED BY <1>1, <1>4, <1>5

LEMMA AcctEmitted == ASSUME Sound, AcctInv, Emitted PROVE AcctInv'
<1> USE DEF fixed
<1> DEFINE next == IF ordered THEN NextDone(Left, None) ELSE {}
<1>1. /\ MapInv /\ TypeOK /\ Callbacks /\ Places /\ emitting # None /\ left = <<>>
      /\ UNCHANGED <<fixed, source, arrived, chunk, outcome, ready>>
      /\ \/ \E id \in next : EmitTask(id) /\ tasks' = Left /\ UNCHANGED <<ended, queue>>
         \/ next = {} /\ LeaveCallback(Left)
  BY DEF Sound, MapInv, Emitted
<1>2. /\ Left \in Seq(Id) /\ IsInjective(Left) /\ Len(Left) <= Len(tasks)
      /\ \A k \in DOMAIN Left : Left[k] \in ToSet(tasks) /\ Left[k] # emitting
      /\ \A i \in ToSet(tasks) : i = emitting \/ i \in ToSet(Left)
  BY <1>1, LeftFacts
<1>3. ToSet(Left) \subseteq ToSet(tasks) /\ emitting \notin ToSet(Left)
  BY <1>2 DEF ToSet
<1>4. Kept(Left, ready')
  BY <1>1, <1>2 DEF Kept, Callbacks, TypeOK
<1>5. \A v \in ToSet(outs) : TaskOf(v) \notin ToSet(Left)
  BY <1>3 DEF AcctInv, Given
<1>6. ASSUME NEW n \in Id, Submitted(n), TaskOf(n) \in ToSet(tasks) \ ToSet(Left) PROVE Answered(n)
  <2>1. TaskOf(n) = emitting
    BY <1>2, <1>6
  <2>2. outcome[emitting] \in Outcome
    BY <1>1 DEF TypeOK, Finished
  <2>3. ToSet(left) = {}
    BY <1>1 DEF ToSet
  <2>4. CASE outcome[emitting] = "value"
    BY <1>1, <1>6, <2>1, <2>3, <2>4 DEF AcctInv, Due, Answered
  <2>5. CASE outcome[emitting] = "error"
    BY <1>1, <1>6, <2>1, <2>5 DEF AcctInv, Due, Answered
  <2>6. CASE outcome[emitting] = "cancelled"
    BY <1>6, <2>1, <2>6 DEF Answered
  <2> QED BY <2>2, <2>4, <2>5, <2>6 DEF Outcome
<1>7. \A id \in next : id \in ToSet(Left) /\ Finished(id)
  <2>1. CASE ordered
    <3>1. next = {i \in {Left[k] : k \in DOMAIN Left \cap {1}} : Finished(i)}
      BY <2>1 DEF NextDone
    <3> HIDE DEF next
    <3> QED BY <3>1 DEF ToSet
  <2> QED BY <2>1
<1> HIDE DEF next
<1>8. ASSUME NEW id \in next, EmitTask(id), tasks' = Left, UNCHANGED <<ended, queue>> PROVE AcctInv'
  BY <1>1, <1>2, <1>3, <1>5, <1>6, <1>7, <1>8, AcctStart
<1>9. ASSUME next = {}, LeaveCallback(Left) PROVE AcctInv'
  BY <1>1, <1>2, <1>4, <1>5, <1>6, <1>9, AcctLeave
<1> QED BY <1>1, <1>8, <1>9

LEMMA AcctEmitNext == ASSUME Sound, AcctInv, EmitNext PROVE AcctInv'
<1> USE DEF fixed
<1>1. /\ left # <<>> /\ outs' = Append(outs, Head(left)) /\ left' = Tail(left)
      /\ UNCHANGED <<fixed, source, ended, arrived, chunk, queue, tasks, outcome, ready, emitting>>
      /\ left \in Seq(Id) /\ outs \in Seq(Id)
  BY DEF EmitNext, Sound, MapInv, TypeOK
<1>2. /\ ToSet(tasks) \subseteq Id /\ ToSet(queue) \subseteq Id /\ ToSet(outs) \subseteq Id
      /\ emitting # None => emitting \in Id /\ emitting \in ToSet(tasks)
      /\ \A i \in ToSet(tasks) : i \notin ToSet(queue)
  BY AcctTypes DEF Places, ToSet
<1>3. /\ \A n \in Id : TaskOf(n)' = TaskOf(n) /\ Submitted(n)' = Submitted(n)
      /\ outcome' = outcome
  BY <1>1, SameTasks
<1>4. TasksNamed /\ Given /\ Giving /\ Due /\ Homes
  BY DEF AcctInv
<1>5. /\ Head(left) \in Id /\ Tail(left) \in Seq(Id)
      /\ ToSet(left) = {Head(left)} \cup ToSet(left')
      /\ Head(left) \notin ToSet(left') /\ IsInjective(left')
  BY <1>1, <1>4, SetOfTaken DEF Giving
<1>6. ToSet(outs') = ToSet(outs) \cup {Head(left)} /\ IsInjective(outs')
  BY <1>1, <1>4, <1>5, SetOfGrown DEF Given, Giving
<1>7. emitting # None
  BY <1>1 DEF Sound, Idle
<1>8. TasksNamed'
  BY <1>1, <1>2, <1>3, <1>4 DEF TasksNamed
<1>9. Given'
  <2> SUFFICES ASSUME NEW v \in ToSet(outs')
               PROVE  /\ Submitted(v)' /\ TaskOf(v)' \notin ToSet(queue)
                      /\ TaskOf(v)' \in ToSet(tasks) => TaskOf(v)' = emitting
    BY <1>1, <1>6 DEF Given
  <2>1. CASE v \in ToSet(outs)
    BY <1>2, <1>3, <1>4, <2>1 DEF Given
  <2>2. CASE v = Head(left)
    <3>1. v \in ToSet(left) /\ v \in Id
      BY <1>5, <2>2
    <3> QED BY <1>2, <1>3, <1>4, <1>7, <3>1 DEF Giving
  <2> QED BY <1>6, <2>1, <2>2
<1>10. Giving'
  <2> SUFFICES ASSUME NEW v \in ToSet(left')
               PROVE  v \notin ToSet(outs') /\ Submitted(v)' /\ TaskOf(v)' = emitting
    BY <1>1, <1>5 DEF Giving
  <2>1. v \in ToSet(left) /\ v # Head(left) /\ v \in Id
    <3>1. ToSet(left) \subseteq Id
      BY AcctTypes
    <3> QED BY <1>5, <3>1
  <2> QED BY <1>3, <1>4, <1>6, <2>1 DEF Giving
<1>11. Due'
  <2>1. ToSet(outs) \cup ToSet(left) = ToSet(outs') \cup ToSet(left') /\ ToSet(outs) \subseteq ToSet(outs')
    BY <1>5, <1>6
  <2>2. ASSUME outcome[emitting] = "value", NEW n \in Id, Submitted(n), TaskOf(n) = emitting
        PROVE  n \in ToSet(outs') \cup ToSet(left')
    BY <1>4, <1>7, <2>1, <2>2 DEF Due
  <2>3. ASSUME outcome[emitting] = "error" PROVE emitting \in ToSet(outs')
    BY <1>4, <1>7, <2>1, <2>3 DEF Due
  <2> QED BY <1>1, <1>3, <2>2, <2>3 DEF Due
<1>12. Homes'
  <2> SUFFICES ASSUME NEW n \in Id, Submitted(n)
               PROVE  TaskOf(n)' \in ToSet(queue') \cup ToSet(tasks') \/ Answered(n)'
    BY <1>3 DEF Homes
  <2>1. Answered(n) => Answered(n)'
    BY <1>3, <1>6 DEF Answered
  <2>2. TaskOf(n) \in ToSet(queue) \cup ToSet(tasks) \/ Answered(n)
    BY <1>4 DEF Homes
  <2> QED BY <1>1, <1>3, <2>1, <2>2
<1> QED BY <1>8, <1>9, <1>10, <1>11, <1>12 DEF AcctInv

LEMMA AcctComplete ==
    ASSUME Sound, AcctInv, NEW id \in Id, NEW how \in Outcome, Complete(id, how)
    PROVE  AcctInv'
<1> USE DEF fixed
<1>1. /\ outcome' = [outcome EXCEPT ![id] = how] /\ ~Finished(id)
      /\ outcome \in [Id -> Outcome \cup {None}]
      /\ UNCHANGED <<fixed, source, ended, arrived, chunk, queue, tasks, emitting, left, outs>>
  BY DEF Complete, Sound, MapInv, TypeOK
<1>2. /\ ToSet(outs) \subseteq Id /\ ToSet(left) \subseteq Id /\ ToSet(tasks) \subseteq Id /\ ToSet(queue) \subseteq Id
  BY AcctTypes
<1>3. \A n \in Id : TaskOf(n)' = TaskOf(n) /\ Submitted(n)' = Submitted(n)
  BY <1>1, SameTasks
<1>4. TasksNamed /\ Given /\ Giving /\ Due /\ Homes
  BY DEF AcctInv
<1>5. TasksNamed' /\ Given' /\ Giving'
  BY <1>1, <1>2, <1>3, <1>4 DEF TasksNamed, Given, Giving
<1>6. emitting # None => emitting \in Id /\ emitting # id /\ outcome'[emitting] = outcome[emitting]
  BY <1>1 DEF Sound, MapInv, TypeOK, Finished
<1>7. Due'
  BY <1>1, <1>3, <1>4, <1>6 DEF Due
<1>8. Homes'
  <2> SUFFICES ASSUME NEW n \in Id, Submitted(n)
               PROVE  TaskOf(n)' \in ToSet(queue') \cup ToSet(tasks') \/ Answered(n)'
    BY <1>3 DEF Homes
  <2>1. TaskOf(n) \in Id
    BY AcctTypes, TaskOfRange DEF Sound
  <2>2. Answered(n) => Answered(n)'
    <3>1. outcome[TaskOf(n)] # None => outcome'[TaskOf(n)] = outcome[TaskOf(n)]
      BY <1>1, <2>1 DEF Finished
    <3>2. "error" # None /\ "cancelled" # None
      BY NoneAssumption DEF Outcome
    <3> QED BY <1>1, <1>3, <3>1, <3>2 DEF Answered
  <2>3. TaskOf(n) \in ToSet(queue) \cup ToSet(tasks) \/ Answered(n)
    BY <1>4 DEF Homes
  <2> QED BY <1>1, <1>3, <2>2, <2>3
<1> QED BY <1>5, <1>7, <1>8 DEF AcctInv

(* New tasks come from the source: one for all that waited for it, or none. *)
LEMMA AcctAdd ==
    ASSUME Sound, AcctInv, NEW last \in Id,
           ToSet(tasks') \cup ToSet(queue') = ToSet(tasks) \cup ToSet(queue) \cup {last},
           ToSet(tasks) \subseteq ToSet(tasks'), ToSet(queue) \subseteq ToSet(queue'),
           ToSet(queue') \subseteq ToSet(queue) \cup {last},
           \A n \in Id : Submitted(n) => Submitted(n)' /\ TaskOf(n)' = TaskOf(n),
           \A n \in Id : Submitted(n)' /\ ~Submitted(n) => TaskOf(n)' = last,
           ~Submitted(last), Submitted(last)',
           UNCHANGED <<outcome, emitting, left, outs>>
    PROVE  AcctInv'
<1>1. /\ TypeOK /\ ToSet(tasks) \subseteq Id /\ ToSet(queue) \subseteq Id
      /\ ToSet(outs) \subseteq Id /\ ToSet(left) \subseteq Id
      /\ \A id \in ToSet(tasks) \cup ToSet(queue) : Submitted(id)
      /\ emitting # None => emitting \in Id /\ emitting \in ToSet(tasks)
  BY AcctTypes
<1>2. TasksNamed /\ Given /\ Giving /\ Due /\ Homes
  BY DEF AcctInv
<1>3. \A n \in Id : Submitted(n) => TaskOf(n) # last
  BY AcctTypes, TaskOfRange DEF Sound
<1>4. TasksNamed'
  BY <1>1, <1>2 DEF TasksNamed
<1>5. Given'
  BY <1>1, <1>2, <1>3 DEF Given
<1>6. Giving'
  BY <1>1, <1>2 DEF Giving
<1>7. Due'
  BY <1>1, <1>2 DEF Due
<1>8. Homes'
  BY <1>2 DEF Homes, Answered
<1> QED BY <1>4, <1>5, <1>6, <1>7, <1>8 DEF AcctInv

LEMMA AcctArrive == ASSUME Sound, AcctInv, Arrive PROVE AcctInv'
<1> USE DEF fixed
<1>0. PICK last \in Id : last = arrived + 1
  BY Kinds DEF Sound, MapInv, Id, Arrive
<1>1. /\ TypeOK /\ Submissions /\ Chunks /\ Places /\ source = "live" /\ arrived < MaxItems
      /\ arrived' = last /\ chunk' = IF Completes THEN 0 ELSE chunk + 1
      /\ UNCHANGED <<fixed, source, ended, outcome, ready, emitting, left, outs>>
      /\ tasks \in Seq(Id) /\ queue \in Seq(Id)
  BY <1>0 DEF Arrive, Sound, MapInv, TypeOK
<1>2. /\ arrived \in Nat /\ chunk \in Nat /\ size \in Nat /\ chunk <= arrived
      /\ last \in Id /\ last \in Nat /\ last = arrived + 1
  BY <1>0, <1>1, Kinds DEF Id, Submissions
<1>3. \A n \in Id : n \in Nat \ {0}
  BY BoundAssumption DEF Id
<1>4. ASSUME NEW n \in Id, Submitted(n) PROVE TaskOf(n)' = TaskOf(n)
  <2>1. CASE size = 0
    BY <1>1, <2>1 DEF TaskOf
  <2>2. CASE size # 0
    <3>1. TaskOf(n) = EndOf(n) /\ EndOf(n) <= arrived - chunk
      BY <1>1, <1>4, <2>2, TaskOfRange
    <3>2. TaskOf(n)' = IF EndOf(n) <= last THEN EndOf(n) ELSE last
      BY <1>1, <2>2 DEF TaskOf, EndOf
    <3>3. TaskOf(n) \in Id
      BY <1>1, <1>4, TaskOfRange
    <3>4. EndOf(n) \in Nat
      BY <1>3, <3>1, <3>3
    <3> QED BY <1>2, <3>1, <3>2, <3>4
  <2> QED BY <2>1, <2>2
<1>5. CASE ~Completes
  <2>1. /\ size # 0 /\ chunk' = chunk + 1 /\ UNCHANGED <<tasks, queue>>
    BY <1>1, <1>2, <1>5 DEF Arrive, Completes
  <2>2. \A n \in Id : Submitted(n)' = Submitted(n)
    BY <1>1, <1>2, <1>3, <2>1 DEF Submitted
  <2>3. /\ ToSet(tasks) \subseteq Id /\ ToSet(queue) \subseteq Id
        /\ ToSet(outs) \subseteq Id /\ ToSet(left) \subseteq Id
        /\ \A id \in ToSet(tasks) \cup ToSet(queue) : Submitted(id)
    BY AcctTypes
  <2>4. TasksNamed /\ Given /\ Giving /\ Due /\ Homes
    BY DEF AcctInv
  <2>5. TasksNamed'
    BY <1>4, <2>1, <2>3, <2>4 DEF TasksNamed
  <2>6. Given'
    BY <1>1, <1>4, <2>1, <2>2, <2>3, <2>4 DEF Given
  <2>7. Giving'
    BY <1>1, <1>4, <2>2, <2>3, <2>4 DEF Giving
  <2>8. Due'
    BY <1>1, <1>4, <2>2, <2>4 DEF Due
  <2>9. Homes'
    BY <1>1, <1>4, <2>1, <2>2, <2>4 DEF Homes, Answered
  <2> QED BY <2>5, <2>6, <2>7, <2>8, <2>9 DEF AcctInv
<1>6. CASE Completes
  <2>1. chunk' = 0 /\ arrived' - chunk' = last
    BY <1>1, <1>2, <1>6
  <2>2. \A n \in Id : (Submitted(n)' <=> n <= last) /\ (Submitted(n) <=> n <= arrived - chunk)
    BY <1>1, <2>1 DEF Submitted
  <2>3. ASSUME NEW n \in Id, n <= last, n > arrived - chunk PROVE TaskOf(n)' = last
    <3>1. n \in Nat \ {0}
      BY <1>3
    <3>2. CASE size = 0
      <4>1. n = last
        BY <1>1, <1>2, <2>3, <3>1, <3>2 DEF Submissions
      <4> QED BY <1>1, <3>2, <4>1 DEF TaskOf
    <3>3. CASE size # 0
      <4>1. EndOf(n) = arrived + 1
        BY <1>1, <1>2, <1>6, <2>3, <3>1, <3>3, NewChunk
      <4>2. TaskOf(n)' = IF EndOf(n) <= last THEN EndOf(n) ELSE last
        BY <1>1, <3>3 DEF TaskOf, EndOf
      <4> QED BY <1>2, <4>1, <4>2
    <3> QED BY <3>2, <3>3
  <2>4. /\ ToSet(tasks') \cup ToSet(queue') = ToSet(tasks) \cup ToSet(queue) \cup {last}
        /\ ToSet(tasks) \subseteq ToSet(tasks') /\ ToSet(queue) \subseteq ToSet(queue')
        /\ ToSet(queue') \subseteq ToSet(queue) \cup {last}
    <3>1. CASE HasRoom(tasks)
      <4>1. tasks' = Append(tasks, last) /\ queue' = queue
        BY <1>0, <1>6, <3>1 DEF Arrive
      <4>2. ToSet(tasks') = ToSet(tasks) \cup {last}
        BY <1>1, <1>2, <4>1, SetOfGrown
      <4> QED BY <4>1, <4>2
    <3>2. CASE ~HasRoom(tasks)
      <4>1. queue' = Append(queue, last) /\ tasks' = tasks
        BY <1>0, <1>6, <3>2 DEF Arrive
      <4>2. ToSet(queue') = ToSet(queue) \cup {last}
        BY <1>1, <1>2, <4>1, SetOfGrown
      <4> QED BY <4>1, <4>2
    <3> QED BY <3>1, <3>2
  <2>5. /\ \A n \in Id : Submitted(n) => Submitted(n)'
        /\ ~Submitted(last) /\ Submitted(last)'
    BY <1>2, <1>3, <2>2
  <2>6. \A n \in Id : Submitted(n)' /\ ~Submitted(n) => TaskOf(n)' = last
    BY <1>2, <1>3, <2>2, <2>3
  <2>7. \A n \in Id : Submitted(n) => Submitted(n)' /\ TaskOf(n)' = TaskOf(n)
    BY <1>4, <2>5
  <2> QED BY <1>1, <1>2, <2>4, <2>5, <2>6, <2>7, AcctAdd
<1> QED BY <1>5, <1>6

LEMMA AcctSourceDone == ASSUME Sound, AcctInv, SourceDone PROVE AcctInv'
<1> USE DEF fixed
<1>1. /\ TypeOK /\ Submissions /\ Chunks /\ source = "live" /\ chunk' = 0 /\ tasks' = LastChunk
      /\ UNCHANGED <<fixed, arrived, queue, outcome, ready, emitting, left, outs>>
      /\ tasks \in Seq(Id)
  BY DEF SourceDone, Sound, MapInv, TypeOK
<1>2. /\ arrived \in Nat /\ chunk \in Nat /\ size \in Nat /\ chunk <= arrived /\ arrived <= MaxItems
      /\ MaxItems \in Nat
  BY <1>1, Kinds DEF Submissions
<1>3. \A n \in Id : n \in Nat \ {0} /\ TaskOf(n)' = TaskOf(n)
  BY <1>1, BoundAssumption DEF Id, TaskOf
<1>4. CASE chunk = 0
  <2>1. UNCHANGED <<tasks, chunk>> /\ \A n \in Id : Submitted(n)' = Submitted(n)
    BY <1>1, <1>4 DEF LastChunk, Submitted
  <2>2. /\ ToSet(tasks) \subseteq Id /\ ToSet(queue) \subseteq Id
        /\ ToSet(outs) \subseteq Id /\ ToSet(left) \subseteq Id
    BY AcctTypes
  <2>3. TasksNamed /\ Given /\ Giving /\ Due /\ Homes
    BY DEF AcctInv
  <2>4. TasksNamed' /\ Given' /\ Giving'
    BY <1>1, <1>3, <2>1, <2>2, <2>3 DEF TasksNamed, Given, Giving
  <2>5. Due' /\ Homes'
    BY <1>1, <1>3, <2>1, <2>3 DEF Due, Homes, Answered
  <2> QED BY <2>4, <2>5 DEF AcctInv
<1>5. CASE chunk # 0
  <2>0. PICK last \in Id : last = arrived
    BY <1>2, <1>5 DEF Id
  <2>1. tasks' = Append(tasks, last) /\ size # 0 /\ last = arrived
    BY <1>1, <1>2, <1>5, <2>0 DEF LastChunk, Submissions
  <2>2. ToSet(tasks') = ToSet(tasks) \cup {last}
    BY <1>1, <2>1, SetOfGrown
  <2>3. \A n \in Id : (Submitted(n)' <=> n <= arrived) /\ (Submitted(n) <=> n <= arrived - chunk)
    BY <1>1, <1>2 DEF Submitted
  <2>4. ASSUME NEW n \in Id, Submitted(n)', ~Submitted(n) PROVE TaskOf(n)' = last
    <3>1. n \in Nat \ {0} /\ n > arrived - chunk /\ n <= arrived /\ n <= arrived + 1
      BY <1>2, <1>3, <2>3, <2>4
    <3>2. EndOf(n) = arrived - chunk + size /\ EndOf(n) > arrived
      BY <1>1, <2>1, <3>1, NewChunk
    <3>3. TaskOf(n) = IF EndOf(n) <= arrived THEN EndOf(n) ELSE arrived
      BY <2>1 DEF TaskOf, EndOf
    <3>4. ~(EndOf(n) <= arrived)
      BY <1>2, <3>2
    <3> QED BY <1>3, <2>1, <3>3, <3>4
  <2>5. \A n \in Id : Submitted(n) => Submitted(n)'
    BY <1>2, <1>3, <2>3
  <2>6. ~Submitted(last) /\ Submitted(last)'
    BY <1>2, <1>5, <2>1, <2>3
  <2>7. \A n \in Id : Submitted(n) => Submitted(n)' /\ TaskOf(n)' = TaskOf(n)
    BY <1>3, <2>5
  <2> QED BY <1>1, <2>1, <2>2, <2>4, <2>6, <2>7, AcctAdd
<1> QED BY <1>4, <1>5

LEMMA AcctNext == Sound /\ AcctInv /\ [Next]_vars => AcctInv'
<1> SUFFICES ASSUME Sound, AcctInv, [Next]_vars PROVE AcctInv'
  OBVIOUS
<1>1. CASE UNCHANGED vars
  BY <1>1 DEF vars, fixed, AcctInv, TasksNamed, Given, Giving, Due, Homes, TaskOf, Submitted, Answered
<1>2. CASE LoopStep
  BY <1>2, AcctCallback, AcctEmitNext, AcctEmitted DEF LoopStep
<1>3. CASE \E id \in Id : Settle(id)
  BY <1>3, AcctComplete DEF Settle
<1> QED
  BY <1>1, <1>2, <1>3, AcctArrive, AcctSourceDone DEF Next

(* Each value that was given to a task is accounted for exactly once, whatever
   the limit, the chunks, the order of completion and the listeners: its task is
   queued or listed, or it has come out, failed or was cancelled with it. *)
THEOREM MapLosesNothing == Spec => []NothingLost
<1>1. ASSUME Sound, AcctInv PROVE NothingLost
  <2>1. IsInjective(outs)
    BY <1>1 DEF AcctInv, Given
  <2>2. IsInjective(tasks \o queue)
    <3>1. /\ tasks \in Seq(Id) /\ queue \in Seq(Id) /\ IsInjective(tasks) /\ IsInjective(queue)
          /\ \A i \in DOMAIN tasks, j \in DOMAIN queue : tasks[i] # queue[j]
          /\ Len(tasks) \in Nat /\ DOMAIN tasks = 1 .. Len(tasks)
          /\ Len(queue) \in Nat /\ DOMAIN queue = 1 .. Len(queue)
      BY <1>1, Kinds DEF Sound, MapInv, TypeOK, Places
    <3> DEFINE b == tasks \o queue
    <3>2. /\ b \in Seq(Id) /\ Len(b) = Len(tasks) + Len(queue)
          /\ \A i \in 1 .. Len(tasks) : b[i] = tasks[i]
          /\ \A i \in Len(tasks) + 1 .. Len(tasks) + Len(queue) : b[i] = queue[i - Len(tasks)]
      <4>1. tasks \in Seq(Id) /\ queue \in Seq(Id)
        BY <3>1
      <4> QED BY ONLY <4>1, Joined
    <3> HIDE DEF b
    <3>3. \A i \in DOMAIN b : /\ i \in Nat
                              /\ \/ i \in DOMAIN tasks /\ b[i] = tasks[i]
                                 \/ /\ i - Len(tasks) \in DOMAIN queue
                                    /\ b[i] = queue[i - Len(tasks)]
      BY <3>1, <3>2
    <3>4. ASSUME NEW i \in DOMAIN b, NEW j \in DOMAIN b, b[i] = b[j] PROVE i = j
      <4>1. CASE i \in DOMAIN tasks /\ b[i] = tasks[i]
        BY <3>1, <3>3, <3>4, <4>1 DEF IsInjective
      <4>2. CASE i - Len(tasks) \in DOMAIN queue /\ b[i] = queue[i - Len(tasks)]
        <5>1. j - Len(tasks) \in DOMAIN queue /\ b[j] = queue[j - Len(tasks)]
          BY <3>1, <3>3, <3>4, <4>2
        <5>2. i - Len(tasks) = j - Len(tasks)
          BY <3>1, <3>4, <4>2, <5>1 DEF IsInjective
        <5> QED BY <3>1, <3>3, <5>2
      <4> QED BY <3>3, <4>1, <4>2
    <3> QED BY <3>4 DEF IsInjective, b
  <2>3. ASSUME NEW n \in 1 .. arrived, Submitted(n)
        PROVE  \/ TaskOf(n) \in ToSet(queue)
               \/ Started(TaskOf(n)) /\ (n \in ToSet(outs) => TaskOf(n) = emitting)
               \/ Answered(n)
    <3>1. n \in Id
      BY <1>1, Kinds DEF Sound, MapInv, Id
    <3> QED BY <1>1, <2>3, <3>1 DEF AcctInv, Homes, Given, Started
  <2> QED BY <2>1, <2>2, <2>3 DEF NothingLost
<1>2. Init => MapInv /\ OrderInv /\ AcctInv
  BY MapInit, OrderInit, AcctInit
<1>3. MapInv /\ OrderInv => Sound
  BY DEF Sound, OrderInv
<1>4. MapInv /\ OrderInv /\ AcctInv /\ [Next]_vars => (MapInv /\ OrderInv /\ AcctInv)'
  BY <1>3, MapNext, OrderNext, AcctNext
<1> QED
  BY <1>1, <1>2, <1>3, <1>4, PTL DEF Spec
=============================================================================
