------------------------------ MODULE MapTasks -----------------------------
(***************************************************************************)
(* The Map operator with a function that returns awaitables: tasks on the  *)
(* event loop, at most Limit at a time, the others queued; results in the  *)
(* order of the source values or of their completion.  asyncio runs the    *)
(* done callback of a task in a later turn of the loop, so that several    *)
(* tasks may be done before the first callback.  The emits of a callback   *)
(* run listeners, which may make the source emit or end.                   *)
(* Awaitables are numbered by the source values that they come from, those *)
(* of PoolMap, which stand for a chunk of values, by the last one.         *)
(*                                                                         *)
(* Left out: a function that returns a plain result, and an executor that  *)
(* refuses a chunk.                                                        *)
(***************************************************************************)
EXTENDS Naturals, Sequences, SequencesExt

CONSTANTS
    Limit,       \* Map._task_limit, 0 for none
    Sizes,       \* PoolMap._chunksize, 0 for a Map
    Behaviours,  \* what listeners may do: sets of "feed" (make the source
                 \* emit or end)
    None,
    MaxItems     \* bound: values of the source

ASSUME LimitAssumption == Limit \in Nat
ASSUME SizesAssumption == Sizes \subseteq Nat
ASSUME BoundAssumption == MaxItems \in Nat
ASSUME BehaviourAssumption == Behaviours \subseteq SUBSET {"feed"}

Id == 1 .. MaxItems
\* How an awaitable ends: a result, an exception (a timeout too), cancelled.
Outcome == {"value", "error", "cancelled"}

ASSUME NoneAssumption == None \notin Nat \cup Outcome

VARIABLES
    ordered,     \* _ordered
    size,        \* the class: 0 for a Map, the chunksize of a PoolMap, fixed
    listeners,   \* what the listeners of this operator do, fixed
    source,      \* "live", or "gone": _source is None
    ended,       \* Map._done
    arrived,     \* the values that came from the source
    chunk,       \* how many values wait in PoolMap._chunk
    queue,       \* _coro_q
    tasks,       \* _tasks
    outcome,     \* what each awaitable came to, None while it has not
    ready,       \* the done callbacks that the loop has scheduled
    emitting,    \* the task whose outcome is being emitted
    left,        \* ... and the values of its chunk still to be emitted
    outs         \* history: the values whose outcome was emitted

fixed == <<ordered, size, listeners>>
vars == <<fixed, source, ended, arrived, chunk, queue, tasks, outcome, ready,
          emitting, left, outs>>

InUserCode == emitting # None => "feed" \in listeners /\ outcome[emitting] # "cancelled"
Finished(id) == outcome[id] # None
Started(id) == id \in ToSet(tasks)
-----------------------------------------------------------------------------
Init ==
    /\ ordered \in BOOLEAN
    /\ size \in Sizes
    /\ listeners \in Behaviours
    /\ source = "live"
    /\ ended = FALSE
    /\ arrived = 0
    /\ chunk = 0
    /\ queue = <<>>
    /\ tasks = <<>>
    /\ outcome = [id \in Id |-> None]
    /\ ready = <<>>
    /\ emitting = None
    /\ left = <<>>
    /\ outs = <<>>

\* A PoolMap has no task limit.
HasRoom_OffByOne(ts) == size # 0 \/ Limit = 0 \/ Len(ts) <= Limit
HasRoom(ts) == size # 0 \/ Limit = 0 \/ Len(ts) < Limit

\* on_source: a chunk is complete with this value (Map: it is one).
Completes == chunk + 1 >= size

Arrive ==
    /\ InUserCode
    /\ source = "live"
    /\ arrived < MaxItems
    /\ arrived' = arrived + 1
    /\ chunk' = IF Completes THEN 0 ELSE chunk + 1
    /\ CASE ~Completes -> UNCHANGED <<tasks, queue>>
         [] Completes /\ HasRoom(tasks) ->
              tasks' = Append(tasks, arrived + 1) /\ UNCHANGED queue
         [] OTHER -> queue' = Append(queue, arrived + 1) /\ UNCHANGED tasks
    /\ UNCHANGED <<fixed, source, ended, outcome, ready, emitting, left, outs>>

\* PoolMap submits the last, partial chunk first.
LastChunk_Forgotten == tasks
LastChunk == IF chunk = 0 THEN tasks ELSE Append(tasks, arrived)

\* on_source_done: ends only when no task is pending.
EndNow_Always(ts) == TRUE
EndNow(ts) == ts = <<>>

SourceDone ==
    /\ InUserCode
    /\ source = "live"
    /\ source' = "gone"
    /\ tasks' = LastChunk
    /\ chunk' = 0
    /\ ended' = EndNow(tasks')
    /\ UNCHANGED <<fixed, arrived, queue, outcome, ready, emitting, left, outs>>

\* A task gets its outcome and its done callback is scheduled.
Complete(id, how) ==
    /\ InUserCode
    /\ Started(id)
    /\ ~Finished(id)
    /\ outcome' = [outcome EXCEPT ![id] = how]
    /\ ready' = Append(ready, id)
    /\ UNCHANGED <<fixed, source, ended, arrived, chunk, queue, tasks, emitting, left, outs>>

\* The values of a task: chunks are cut off at multiples of the size.
First(id) == IF size = 0 THEN id ELSE id - ((id - 1) % size)
Values(id) == [k \in 1 .. id - First(id) + 1 |-> First(id) + k - 1]

\* _emit_task: one emit for each value, of its result or its error; one for a
\* task that failed as a whole.
Owed(id) ==
    CASE outcome[id] = "cancelled" -> <<>>
      [] outcome[id] = "error" -> <<id>>
      [] OTHER -> Values(id)

\* ... up to the listeners of the first one.
EmitTask(id) ==
    /\ emitting' = id
    /\ IF Owed(id) = <<>>
       THEN UNCHANGED <<outs, left>>
       ELSE outs' = Append(outs, Head(Owed(id))) /\ left' = Tail(Owed(id))

EmitNext ==
    /\ left # <<>>
    /\ outs' = Append(outs, Head(left))
    /\ left' = Tail(left)
    /\ UNCHANGED <<fixed, source, ended, arrived, chunk, queue, tasks, outcome, ready, emitting>>

\* The rest of _on_task_done: start what is queued, end when all is done.
Refill_None(ts) == 0
Refill(ts) ==
    CASE Limit = 0 \/ Len(ts) + Len(queue) <= Limit -> Len(queue)
      [] Len(ts) < Limit /\ Limit < Len(ts) + Len(queue) -> Limit - Len(ts)
      [] OTHER -> 0

LeaveCallback(ts) ==
    LET n == Refill(ts)
        now == ts \o SubSeq(queue, 1, n)
    IN  /\ emitting' = None
        /\ tasks' = now
        /\ queue' = SubSeq(queue, n + 1, Len(queue))
        /\ ended' = (ended \/ (now = <<>> /\ source = "gone"))
        /\ UNCHANGED <<left, outs>>

\* In order: the tasks at the head that are done; else the task of the callback.
NextDone_Any(ts, id) == {id} \cap Id
NextDone(ts, id) ==
    IF ordered THEN {i \in {ts[k] : k \in DOMAIN ts \cap {1}} : Finished(i)}
    ELSE {id}

Callback ==
    /\ emitting = None
    /\ ready # <<>>
    /\ ready' = Tail(ready)
    /\ LET next == NextDone(tasks, Head(ready))
       IN  \/ \E id \in next : EmitTask(id) /\ UNCHANGED <<ended, queue, tasks>>
           \/ next = {} /\ LeaveCallback(tasks)
    /\ UNCHANGED <<fixed, source, arrived, chunk, outcome>>

\* _tasks without the task that was emitted: the head in order, else that task.
Left == IF ordered THEN Tail(tasks) ELSE RemoveFirst(tasks, emitting)

\* The emit is over: the task is removed, and in order the next one emitted.
Emitted ==
    /\ emitting # None
    /\ left = <<>>
    /\ LET next == IF ordered THEN NextDone(Left, None) ELSE {}
       IN  \/ \E id \in next : EmitTask(id) /\ tasks' = Left /\ UNCHANGED <<ended, queue>>
           \/ next = {} /\ LeaveCallback(Left)
    /\ UNCHANGED <<fixed, source, arrived, chunk, outcome, ready>>

LoopStep == Callback \/ EmitNext \/ Emitted
Settle(id) == \E how \in Outcome : Complete(id, how)

Next == Arrive \/ SourceDone \/ LoopStep \/ \E id \in Id : Settle(id)

Spec == Init /\ [][Next]_vars

\* The loop runs its callbacks and listeners return; awaitables complete.
FairSpec == Spec /\ WF_vars(LoopStep) /\ \A id \in Id : WF_vars(Settle(id))
-----------------------------------------------------------------------------
\* Queues, tasks and outcomes have their types.
TypeOK ==
    /\ ordered \in BOOLEAN
    /\ listeners \in Behaviours
    /\ source \in {"live", "gone"}
    /\ ended \in BOOLEAN
    /\ size \in Sizes
    /\ arrived \in 0 .. MaxItems
    /\ chunk \in Nat
    /\ left \in Seq(Id)
    /\ queue \in Seq(Id) /\ tasks \in Seq(Id) /\ ready \in Seq(Id)
    /\ outcome \in [Id -> Outcome \cup {None}]
    /\ emitting \in {id \in Id : Finished(id)} \cup {None}
    /\ outs \in Seq(Id)

\* "The order of emitted results preserves the order of the source values."
OrderPreserved ==
    ordered => \A i, j \in DOMAIN outs : i < j => outs[i] < outs[j]

\* ... when no listener feeds the source.
OrderPreservedUnfed == "feed" \notin listeners => OrderPreserved

\* The task that a value is for, once it is submitted.
TaskOf(n) ==
    IF size = 0 THEN n
    ELSE LET end == ((n - 1) \div size + 1) * size IN IF end <= arrived THEN end ELSE arrived
Submitted(n) == n <= arrived - chunk

\* Its outcome has come out, alone or as that of its task, or it was cancelled.
Answered(n) ==
    /\ Submitted(n)
    /\ \/ n \in ToSet(outs)
       \/ outcome[TaskOf(n)] = "error" /\ TaskOf(n) \in ToSet(outs)
       \/ outcome[TaskOf(n)] = "cancelled"

\* Every submitted value is accounted for exactly once: its task is queued or
\* listed, or it is answered.  Nothing is emitted twice by two callbacks.
NothingLost ==
    /\ IsInjective(outs) /\ IsInjective(tasks \o queue)
    /\ \A n \in 1 .. arrived :
          LET id == TaskOf(n)
          IN  Submitted(n) =>
                \/ id \in ToSet(queue)
                \/ Started(id) /\ (n \in ToSet(outs) => id = emitting)
                \/ Answered(n)

\* "Max number of concurrent tasks", also when listeners add work while finished
\* tasks are still listed; work waits only while all places are taken; and every
\* finished task that is still listed has its turn ahead: a callback, or an
\* unfinished task before it.
LimitIsUsed ==
    /\ Limit # 0 /\ size = 0 => Len(tasks) <= Limit
    /\ emitting = None =>
          /\ queue # <<>> => Limit # 0 /\ Len(tasks) = Limit
          /\ \A k \in DOMAIN tasks : Finished(tasks[k]) =>
                \/ tasks[k] \in ToSet(ready)
                \/ ordered /\ \E n \in 1 .. k : ~Finished(tasks[n]) \/ tasks[n] \in ToSet(ready)

\* "Pending work is delivered first": the end comes after the last task, and
\* comes at once when the source has ended and no task is left.
EndsLast ==
    /\ ended => tasks = <<>> /\ queue = <<>> /\ chunk = 0 /\ source = "gone"
    /\ emitting = None /\ source = "gone" /\ tasks = <<>> => ended

\* All submitted values get their outcome, those of the last chunk too, and after
\* the source the operator ends.
AllServed ==
    /\ \A n \in Id : Submitted(n) ~> Answered(n)
    /\ (source = "gone") ~> ended
=============================================================================
