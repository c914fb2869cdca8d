----------------------------- MODULE Consumers -----------------------------
(***************************************************************************)
(* The ways into and out of a pipeline besides its listeners: run, the     *)
(* iterator or awaitable an event is made into, and the emits that other   *)
(* threads hand over.                                                      *)
(***************************************************************************)
EXTENDS Naturals, FiniteSets

CONSTANTS
    Node, Pipelines, Collector, Outside,   \* of Run
    Modes, Late,                           \* of Iterate
    Worker, MaxLoops, MaxCalls,            \* of Threads
    None,
    MaxValues, MaxItems                    \* bounds: values of the sources

ASSUME NodeAssumption == IsFiniteSet(Node)
ASSUME StrangerAssumption == Collector # Outside /\ {Collector, Outside} \cap Node = {}
ASSUME NoneAssumption == None \notin Nat \cup {"main"}
ASSUME LateAssumption == Late \in BOOLEAN
ASSUME BoundAssumption == {MaxValues, MaxItems, MaxLoops, MaxCalls} \subseteq Nat
ASSUME WorkerAssumption == "main" \notin Worker

VARIABLES
    use,                                                      \* "run", "iterate" or "threads"
    pipe, links, slots, ended, started, running, due, waiting, cancelled,
    signals, sent, phase, result, nodes, owned,               \* of Run
    mode, done, told, connected, q, fut, task, cancel, relayDone, from, outs, \* of Iterate
    owner, closed, current, recorded, runs, used, looked, fate, ready, emitted \* of Threads

Run == INSTANCE Run
Iterate == INSTANCE Iterate
Threads == INSTANCE Threads

ASSUME PipelineAssumption == Pipelines \subseteq Run!Pipeline
ASSUME ModeAssumption == Modes \subseteq Iterate!AllModes

runVars == <<pipe, links, slots, ended, started, running, due, waiting, cancelled,
             signals, sent, phase, result, nodes, owned>>
iterateVars == <<mode, done, told, connected, q, fut, task, cancel, relayDone, from, outs>>
threadVars == <<owner, closed, current, recorded, runs, used, looked, fate, ready, emitted>>
vars == <<use, runVars, iterateVars, threadVars>>
-----------------------------------------------------------------------------
\* What is in use has its state, the other has none.
NoRun == /\ pipe = None /\ links = None /\ slots = None /\ ended = None /\ started = None
         /\ running = None /\ due = None /\ waiting = None /\ cancelled = None
         /\ signals = None /\ sent = None /\ phase = None /\ result = None
         /\ nodes = None /\ owned = None
NoIterate == /\ mode = None /\ done = None /\ told = None /\ connected = None /\ q = None
             /\ fut = None /\ task = None /\ cancel = None /\ relayDone = None
             /\ from = None /\ outs = None
NoThreads == /\ owner = None /\ closed = None /\ current = None /\ recorded = None
             /\ runs = None /\ used = None /\ looked = None /\ fate = None
             /\ ready = None /\ emitted = None

Init == \/ use = "run" /\ Run!Init /\ NoIterate /\ NoThreads
        \/ use = "iterate" /\ Iterate!Init /\ NoRun /\ NoThreads
        \/ use = "threads" /\ Threads!Init /\ NoRun /\ NoIterate

InRun == use = "run" /\ UNCHANGED <<use, iterateVars, threadVars>>
InIterate == use = "iterate" /\ UNCHANGED <<use, runVars, threadVars>>
InThreads == use = "threads" /\ UNCHANGED <<use, runVars, iterateVars>>

Next == (InRun /\ Run!Next) \/ (InIterate /\ Iterate!Next) \/ (InThreads /\ Threads!Next)

\* Tasks come to their end, the loop makes its turns and run is called.
Spec ==
    /\ Init /\ [][Next]_vars
    /\ WF_vars(InRun /\ Run!Stops) /\ WF_vars(InRun /\ Run!Hear)
    /\ WF_vars(InRun /\ (Run!Begin \/ Run!Clean \/ Run!Return))
    /\ WF_vars(InIterate /\ Iterate!LoopStep)
-----------------------------------------------------------------------------
\* After run has returned nothing is running that only its pipeline uses, as far
\* as the pipeline shares nothing with others and has neither partials nor task
\* limits (_run_and_clean).
LeavesNothingAlone == use = "run" => Run!LeavesNothingAlone

\* An event that others listen to keeps its task (_listened_to_only_by).
SparesListenedTo == use = "run" => Run!SparesListenedTo

\* When the pipeline has ended, all that is running of it is found, although its
\* end cut the links and tasks and nested events have come since (_pipeline_nodes,
\* _pipeline_tasks).
FindsAll == [][use = "run" => Run!FindsAllNow]_vars

\* The iteration yields what the event emits, in order, up to the first error; with
\* skip_to_last in order, and at most the last value waits; an await gives the
\* first of it (aiter, on_event, __await__).
YieldsByMode == use = "iterate" => Iterate!YieldsAll /\ Iterate!SkipsToLast

\* What other threads emit is handed over in order to the loop that the main thread
\* uses, and is emitted there or refused (emit_threadsafe, main_thread_loop).
HandedOver == use = "threads" => Threads!HandedOver

\* run returns, also for a pipeline that ended before or fails (run); an iteration
\* ends with its event or when it is cancelled, and then, as an await, listens to
\* it no more (_looper, on_future_done).
AllReturn ==
    <>[](/\ use = "run" => Run!Returned
         /\ use = "iterate" => Iterate!LetGo)
=============================================================================
