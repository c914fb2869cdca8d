-------------------------------- MODULE Run --------------------------------
(***************************************************************************)
(* Event.run: it attaches a collector to a pipeline, runs the loop until   *)
(* that has ended or failed, and then cancels what is left running of the  *)
(* pipeline, and only that.  A pipeline is a graph of events; tasks belong *)
(* to its sources (Wait, Aiterate) and to maps with awaitables.  What an   *)
(* event tells its listeners is a list of signals that are all heard in    *)
(* one turn of the loop; between the turns others may use the loop too.    *)
(*                                                                         *)
(* An operator is modelled by what it may do to the graph: pass a value    *)
(* on or not, end and cut its links, start a task.                         *)
(***************************************************************************)
EXTENDS Naturals, SequencesExt, Filter, FiniteSets

CONSTANTS
    Node,
    Pipelines,   \* the pipelines to look at: the class and the links of each node,
                 \* which joins connect with partials, who is listened to from
                 \* outside, the node that is run, the limit of tasks of a map
    Collector,   \* the ListOp of run
    Outside,     \* a plain callback that does not belong to the pipeline
    MaxValues    \* bound: values of all sources

Class == {"source", "map", "op", "join", "emap", "nested"}
\* What a source emits comes from nowhere else.
Pipeline ==
    {p \in [class : [Node -> Class], links : [Node -> SUBSET Node], partial : SUBSET Node,
            outside : SUBSET Node, root : Node, limit : Nat] :
        /\ \A n \in Node : p.class[n] \in {"source", "nested"} => p.links[n] = {}
        /\ p.class[p.root] # "nested"}

VARIABLES
    pipe,       \* the pipeline, fixed
    links,      \* _source, _sources, _parent, _joiner of each node: its upstream
    slots,      \* who listens to a node, and whether the slot has no object to
                \* tell it by (a function or a partial)
    ended,      \* the nodes that have ended
    started,    \* how many tasks a node has started
    running,    \* the tasks that are not done
    due,        \* tasks of maps that are done, before _on_task_done
    waiting,    \* how many awaitables wait in a map's _coro_q
    cancelled,  \* the tasks that cancel() was called on
    signals,    \* what is still to be heard in this turn of the loop
    sent,       \* values of sources so far
    phase,      \* of run: "before", "waiting", "cleaning", "returned"
    result,     \* run's future has a result or an exception
    nodes,      \* the events of the pipeline as found at the start
    owned       \* ... and the tasks; when cleaning, all that is awaited

graph == <<links, slots, ended>>
work == <<started, running, due, waiting>>
run == <<phase, nodes, owned, cancelled>>
vars == <<pipe, graph, work, run, signals, sent, result>>

ClassOf(n) == IF n = Collector THEN "op" ELSE pipe.class[n]
Task(n, k) == [of |-> n, no |-> k]
TasksOf(n, set) == {t \in set : t.of = n}
Quiet == signals = <<>>
LoopRuns == Quiet /\ phase # "returned"

\* All that step leads to from the members of a set: the least set that has them
\* and is closed under step.
Closed(step, set) == \A x \in set : step[x] \subseteq set
Closure(step, set) ==
    {x \in DOMAIN step :
        \A s \in SUBSET DOMAIN step : set \subseteq s /\ Closed(step, s) => x \in s}
-----------------------------------------------------------------------------
\* connect, with keep_ref; the partials of a join are slots without an object.
SlotOf(m) == [to |-> m, plain |-> m = Outside \/ m \in pipe.partial]
Listen(m, sl, n) == [sl EXCEPT ![n] = Append(@, SlotOf(m))]
Unlisten(m, sl, set) ==
    [n \in Node |-> IF n \in set THEN Keep(sl[n], {s \in ToSet(sl[n]) : s.to # m}) ELSE sl[n]]

Signals(what, n) ==
    [i \in DOMAIN slots[n] |-> [what |-> what, from |-> n, to |-> slots[n][i].to]]
After(t) == [what |-> "after", from |-> t.of, to |-> t.of, task |-> t]

Init ==
    /\ pipe \in Pipelines
    /\ links = [n \in Node \cup {Collector} |-> IF n = Collector THEN {} ELSE pipe.links[n]]
    /\ slots = [n \in Node |->
                  [i \in DOMAIN SetToSeq({m \in Node : n \in pipe.links[m]}) |->
                      SlotOf(SetToSeq({m \in Node : n \in pipe.links[m]})[i])]
                  \o (IF n \in pipe.outside THEN <<SlotOf(Outside)>> ELSE <<>>)]
    /\ ended = {}
    /\ started = [n \in Node |-> IF pipe.class[n] = "source" THEN 1 ELSE 0]
    /\ running = {Task(n, 1) : n \in {n \in Node : pipe.class[n] = "source"}}
    /\ due = {}
    /\ waiting = [n \in Node |-> 0]
    /\ cancelled = {}
    /\ signals = <<>>
    /\ sent = 0
    /\ phase = "before"
    /\ result = FALSE
    /\ nodes = {}
    /\ owned = {}
-----------------------------------------------------------------------------
\* _looper: the source emits; at the end of its task, or when that is cancelled or
\* fails, it ends.
SourceEmits(n) ==
    /\ LoopRuns
    /\ TasksOf(n, running) \ cancelled # {}
    /\ pipe.class[n] \in {"source", "nested"}
    /\ sent < MaxValues
    /\ sent' = sent + 1
    /\ signals' = Signals("value", n)
    /\ UNCHANGED <<pipe, graph, work, run, result>>

SourceStops(n) ==
    /\ LoopRuns
    /\ TasksOf(n, running) # {}
    /\ pipe.class[n] \in {"source", "nested"}
    /\ running' = running \ TasksOf(n, running)
    /\ ended' = ended \cup {n}
    /\ \E fails \in BOOLEAN :
          /\ fails => TasksOf(n, running) \cap cancelled = {}
          /\ signals' = (IF fails THEN Signals("error", n) ELSE <<>>) \o Signals("end", n)
    /\ UNCHANGED <<pipe, links, slots, started, due, waiting, run, sent, result>>

\* An awaitable of a map is done, and its done callback is scheduled.
TaskDone(t) ==
    /\ LoopRuns
    /\ t \in running
    /\ pipe.class[t.of] = "map"
    /\ running' = running \ {t}
    /\ due' = due \cup {t}
    /\ UNCHANGED <<pipe, graph, started, waiting, run, signals, sent, result>>

\* Map._on_task_done up to the emit of the value or the error.
Callback(t) ==
    /\ LoopRuns
    /\ t \in due
    /\ \E what \in {"value", "error"} :
          signals' = (IF t \in cancelled THEN <<>> ELSE Signals(what, t.of)) \o <<After(t)>>
    /\ UNCHANGED <<pipe, graph, work, run, sent, result>>
-----------------------------------------------------------------------------
Sig == Head(signals)
Rest == Tail(signals)
HasRoom(m) == pipe.limit = 0 \/ Cardinality(TasksOf(m, running \cup due)) < pipe.limit

\* The end of a node: it lets go of "froms" and tells its listeners.
EndOf(m, froms) ==
    /\ ended' = ended \cup {m}
    /\ links' = [links EXCEPT ![m] = {}]
    /\ slots' = Unlisten(m, slots, froms)

PassOn(m, what) == signals' = Signals(what, m) \o Rest /\ UNCHANGED <<graph, work, result>>
Drop == signals' = Rest /\ UNCHANGED <<graph, work, result>>

\* A value reaches a map: a task, or the queue.
ToMap(m) ==
    /\ signals' = Rest
    /\ IF HasRoom(m)
       THEN /\ started' = [started EXCEPT ![m] = @ + 1]
            /\ running' = running \cup {Task(m, started[m] + 1)}
            /\ UNCHANGED waiting
       ELSE waiting' = [waiting EXCEPT ![m] = @ + 1] /\ UNCHANGED <<started, running>>
    /\ UNCHANGED <<graph, due, result>>

\* ... an operator such as take, which may end with it.
ToOp(m) ==
    \/ Drop
    \/ PassOn(m, "value")
    \/ /\ m \notin ended
       /\ EndOf(m, links[m])
       /\ signals' = Signals("value", m) \o Signals("end", m) \o Rest
       /\ UNCHANGED <<work, result>>

\* ... an emap, from its source: a nested event is made, with a task, and followed.
Nest_Unlinked(m, e) == UNCHANGED links
Nest(m, e) == links' = [links EXCEPT ![m] = @ \cup {e}]

ToEmap(m) ==
    IF Sig.from \notin pipe.links[m] THEN PassOn(m, "value")
    ELSE \/ m \in ended /\ Drop
         \/ /\ m \notin ended
            /\ \E e \in {n \in Node : pipe.class[n] = "nested" /\ started[n] = 0} :
                  /\ Nest(m, e)
                  /\ slots' = Listen(m, slots, e)
                  /\ started' = [started EXCEPT ![e] = 1]
                  /\ running' = running \cup {Task(e, 1)}
            /\ signals' = Rest
            /\ UNCHANGED <<ended, due, waiting, result>>
         \/ /\ \A n \in Node : pipe.class[n] = "nested" => started[n] = 1
            /\ Drop

HearValue(m) ==
    IF m \in {Collector, Outside} THEN Drop
    ELSE \/ ClassOf(m) = "map" /\ ToMap(m)
         \/ ClassOf(m) = "op" /\ ToOp(m)
         \/ ClassOf(m) = "join" /\ (Drop \/ PassOn(m, "value"))
         \/ ClassOf(m) = "emap" /\ ToEmap(m)

\* on_values and on_error of run.
GotResult == result' = TRUE /\ signals' = Rest /\ UNCHANGED <<graph, work>>

\* on_source_done: a map ends with its last task, a join with its last source, an
\* emap with its source and its nested events.
HearEnd(m) ==
    LET left == links[m] \ {Sig.from}
        over == IF ClassOf(m) = "map" THEN TasksOf(m, running \cup due) = {} ELSE left = {}
    IN  IF over /\ m \notin ended
        THEN EndOf(m, {Sig.from}) /\ signals' = Signals("end", m) \o Rest /\ UNCHANGED <<work, result>>
        ELSE /\ links' = [links EXCEPT ![m] = left]
             /\ slots' = Unlisten(m, slots, {Sig.from})
             /\ signals' = Rest
             /\ UNCHANGED <<ended, work, result>>

\* The rest of Map._on_task_done.
AfterEmit(m) ==
    LET refill == waiting[m] > 0
        others == TasksOf(m, running \cup due) \ {Sig.task}
    IN  /\ due' = due \ {Sig.task}
        /\ IF refill
           THEN /\ waiting' = [waiting EXCEPT ![m] = @ - 1]
                /\ started' = [started EXCEPT ![m] = @ + 1]
                /\ running' = running \cup {Task(m, started[m] + 1)}
           ELSE UNCHANGED <<waiting, started, running>>
        /\ IF ~refill /\ others = {} /\ links[m] = {} /\ m \notin ended
           THEN EndOf(m, {}) /\ signals' = Signals("end", m) \o Rest
           ELSE UNCHANGED graph /\ signals' = Rest
        /\ UNCHANGED result

HearOther(m) ==
    IF m = Outside THEN Drop
    ELSE IF m = Collector THEN GotResult
    ELSE IF Sig.what = "error" THEN PassOn(m, "error") ELSE HearEnd(m)

Hear ==
    /\ ~Quiet
    /\ \/ Sig.what = "after" /\ AfterEmit(Sig.to)
       \/ Sig.what = "value" /\ HearValue(Sig.to)
       \/ Sig.what \in {"error", "end"} /\ HearOther(Sig.to)
    /\ UNCHANGED <<pipe, run, sent>>
-----------------------------------------------------------------------------
\* _pipeline_nodes: the roots and all that is upstream of them.
PipelineNodes(roots) == Closure(links, roots)

\* _listened_to_only_by
ListenedToOnlyBy_Nodes(sl, set) == TRUE
ListenedToOnlyBy(sl, set) == \A i \in DOMAIN sl : ~sl[i].plain /\ sl[i].to \in set

\* _pipeline_tasks
PipelineTasks(set, sl) ==
    {t \in running : t.of \in set /\ ListenedToOnlyBy(sl[t.of], set)}

\* run: the collector hears the end also of an event that has ended before.
EndedBefore_Missed == FALSE
EndedBefore == pipe.root \in ended

Begin ==
    /\ Quiet
    /\ phase = "before"
    /\ phase' = "waiting"
    /\ result' = EndedBefore
    /\ links' = [links EXCEPT ![Collector] = IF EndedBefore THEN {} ELSE {pipe.root}]
    /\ slots' = IF EndedBefore THEN slots ELSE Listen(Collector, slots, pipe.root)
    /\ nodes' = {Collector} \cup IF EndedBefore THEN {} ELSE PipelineNodes({pipe.root})
    /\ owned' = PipelineTasks(nodes', slots')
    /\ UNCHANGED <<pipe, ended, work, signals, sent, cancelled>>

\* _run_and_clean goes on in a later turn: it looks again at the same events and at
\* those linked to them since, and cancels what is not done.
Leftover_Owned == owned \cap running
Leftover == (owned \cup PipelineTasks(PipelineNodes(nodes), slots)) \cap running

Clean ==
    /\ Quiet
    /\ phase = "waiting"
    /\ result
    /\ phase' = IF Leftover = {} THEN "returned" ELSE "cleaning"
    /\ owned' = Leftover
    /\ cancelled' = cancelled \cup Leftover
    /\ UNCHANGED <<pipe, graph, work, signals, sent, result, nodes>>

\* gather: the done callbacks of the tasks run before its own.
Return ==
    /\ Quiet
    /\ phase = "cleaning"
    /\ owned \cap (running \cup due) = {}
    /\ phase' = "returned"
    /\ UNCHANGED <<pipe, graph, work, signals, sent, result, nodes, owned, cancelled>>

Stops == (\E n \in Node : SourceStops(n)) \/ (\E t \in running : TaskDone(t)) \/ (\E t \in due : Callback(t))

Next ==
    \/ \E n \in Node : SourceEmits(n)
    \/ Stops
    \/ Hear
    \/ Begin
    \/ Clean
    \/ Return

Spec == Init /\ [][Next]_vars
-----------------------------------------------------------------------------
\* All that a node has to do with downstream, whatever has been cut since.
Over ==
    [n \in Node |-> {m \in Node :
        n \in pipe.links[m] \/ (pipe.class[n] = "nested" /\ pipe.class[m] = "emap")}]
Downstream(n) == Closure(Over, {n})
Leads(n) == pipe.root \in Downstream(n)

\* Used for what is run and for nothing else.
Private(n) == \A m \in Downstream(n) : Leads(m) /\ m \notin pipe.outside

\* "stop what is left of it": after run has returned nothing that only its pipeline
\* uses is running, however early its end cut the links.  (The pipeline was whole
\* when run began: what an earlier end has cut off is not found.)
Whole == \A n \in Node : pipe.class[n] # "nested" /\ Leads(n) => n \in nodes
LeavesNothing ==
    phase = "returned" /\ Whole => \A t \in running : ~Private(t.of)

\* ... of pipelines that share nothing with others, without joins that connect with
\* partials, without task limits and with nothing that starts tasks for the values
\* of a map (whose last callbacks may come after the last look at its tasks).
Starts(n) == \E m \in Downstream(n) : pipe.class[m] \in {"map", "emap"}
Alone ==
    /\ pipe.partial = {} /\ pipe.limit = 0
    /\ \A n \in Node : Leads(n) => Private(n)
    /\ \A n \in Node : Leads(n) /\ pipe.class[n] = "map" => \A m \in Over[n] : ~Starts(m)
LeavesNothingAlone == Alone => LeavesNothing

\* With others that listen too, at least all is found that runs when it looks.
FindsAllNow ==
    phase = "waiting" /\ phase' # "waiting" /\ Whole /\ pipe.partial = {} =>
        \A t \in running : Private(t.of) => t \in cancelled'

\* "An upstream event with a listener outside the pipeline is left running."
SparesOthers == \A t \in cancelled : Downstream(t.of) \cap pipe.outside = {}

\* ... the event itself, if not what it depends on.
SparesListenedTo == \A t \in cancelled : t.of \notin pipe.outside

\* run returns, also for a pipeline that ended before or that fails.
Returned == phase = "returned"
=============================================================================
