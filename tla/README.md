# eventkit in TLA+

This directory holds a formal model of eventkit: what an event promises to its
listeners, what the operators that hold state and timers promise to the values
that pass through them, and where the code departs from what its documentation
says. TLC checks every module on small instances; TLAPS proves, for every value of
the constants, nearly all of the invariants that these runs check, and that the
event implements its abstract specification.

`src/` below is the repository (`src/eventkit/` is the package).

## The system

eventkit runs on one event loop. An `Event` keeps a list of listeners and calls them
one after the other, inside `emit`. An operator (`Op`) is an event that listens
to another event; a pipeline is a chain of them. Other threads come in at one
place only, `emit_threadsafe`. What makes the code hard is:

- *Re-entrance.* A listener is user code inside `emit`. It may connect and
  disconnect listeners, emit on the same event, end it, feed the source of the
  operator that is just emitting, or drop the last reference to an object whose
  method is a listener. Every method of the package can therefore be entered
  while another call of it, on the same object, is half done.
- *The loop.* The timing operators, `map` with coroutines, the sources and the
  asynchronous iterators leave timers and tasks with asyncio. These run later,
  in an order that the code does not choose, when the state that they were made
  for may be gone.
- *The end.* An event ends once, and an operator with work pending has to deliver
  that first, whichever of its listeners, timers or tasks causes the end.
- *Cleaning up.* `run`, `await` and the iterators must return whatever the
  pipeline does, and leave nothing of it running that others do not use.
- *Collection.* Bound methods are held weakly. Their objects may vanish between
  two listeners of one emit (CPython) or be dead but still listed (PyPy).

### Inventory

| part | source | state | operations | what makes it correct |
|---|---|---|---|---|
| listener list | `event.py` `Slot`, `Slots` | the list of slots (object or weak reference, function) | `add`, `remove`, `remove_obj`, `remove_ref`, `exists`, `clear`, the call loop | order of connection; a removal takes exactly what it names; an emit in progress keeps its snapshot |
| event | `event.py` `Event` | slots, `_done`, the lazy `_error_event` and `_done_event`, `_value` | `connect`, `disconnect`, `disconnect_all`, `disconnect_obj`, `clear`, `emit`, `set_done` | every subscriber of the snapshot is called once; a listener's error is heard; the end is told once |
| operator base | `ops/op.py` | `_source` | `set_source`, `_detach`, the three handlers | detached and silent after its end |
| delay, timeout, debounce, throttle, sample | `ops/timing.py` | queues, the last time, one `TimerHandle` each | the handlers, the timer callbacks, `set_limit` | nothing early, late, lost, repeated or after the end; one timer, set while it is needed |
| map with awaitables, `PoolMap` | `ops/transform.py` | `_tasks`, `_coro_q` | the handlers, the done callback of a task | limit, order, nothing lost, end after the last task |
| chunk, chunk_with, partial, star, pack, deepcopy, ... | `ops/transform.py` | the list being collected | handlers | all values, in chunks, the last one at the end |
| higher-order maps | `ops/transform.py` | a map and a join | `set_source`, `on_source` | those of the join |
| joins | `ops/combine.py` | the sources, their queues and callbacks, the parent | `add_source`, `set_parent`, handlers | which source's values come out, in which order; the end |
| selection | `ops/select.py` | counters, flags, a notifier | handlers | nothing after the operator has ended itself |
| sources | `ops/create.py` | a task or a timer | `_loop`, callbacks | all values, then the end; errors end |
| iteration, `await`, `run` | `event.py` | a queue, a future, the tasks of the loop | `aiter`, `__await__`, `run` | first error raised; no hang; nothing left running |
| aggregates | `ops/aggregate.py` | an accumulator | handlers | the fold of the values |
| arrays | `ops/array.py` | a ring buffer | handlers | numerical |
| copying and pickling | `event.py` | the graph of a pipeline | `__reduce__` and helpers | the copy has the shape of the original |
| loops, threads | `util.py`, `event.py` | the loop the main thread last used | `get_event_loop`, `main_thread_loop`, `emit_threadsafe` | what a worker emits arrives on a loop that runs, in order, or is refused |
| errors | `ops/misc.py` | | `errors`, `end_on_error` | errors as values; an error as the end |

Interactions: an event calls its listeners directly; an operator's handlers are
listeners on the `slots`, `error_event` and `done_event` of its source, held
strongly; timers and tasks call back from the loop; a join follows a parent's
`done_event`; `run` and the iterators turn an event into asyncio futures.


## The modules

| module | models | builds on |
|---|---|---|
| `Slots` | what class `Slots` keeps and what its operations take away, as a set of numbered slots | |
| `Event` | one event with its `error_event` and `done_event`, and the emit loop | `Slots` |
| `SlotList` | the list edits of class `Slots`, in step with `Event` | `Event` |
| `Broadcast` | the abstract specification of `Event`: bags of subscribers, calls owed | |
| `Delay` | the operator of its name | |
| `Timeout`, `Debounce`, `Throttle` | the operators of their names | |
| `TimedSource` | `Sequence`, `Repeat`, `Range`, `Timer`, `Timerange`, `Marble`: when each value is due | |
| `Timers` | the four modules before, each alone: what keeps one timer on the loop | those four |
| `MapTasks` | `Map` with a function that returns awaitables, and `PoolMap` as a map of chunks | |
| `Join` | `Merge`, `Concat`, `Chain` and `Switch` with their parent, alone or as the joiner of an `Emap` | |
| `ZipJoin` | `Zip` and `Ziplatest`, a source at any number of positions | |
| `Fork` | `Fork.join`: the targets of a fork given to any of the six joins | `Join`, `ZipJoin` |
| `Handlers` | for 30 synchronous classes: what a handler changes before its emit, emits, changes after it, and when it ends | |
| `Rules` | what each of the 30 has to emit, as a function of the calls it has had | `Handlers` |
| `Operators` | such an operator on its source and side input, entered again by listeners | `Rules` |
| `Run` | `run`: the collector, the walk of the pipeline, the tasks it cancels, the turns of the loop | |
| `Iterate` | `aiter`, `__await__`, `Wait` and `Aiterate`: an event made into an iterator or awaitable and back | |
| `Threads` | `emit_threadsafe` and the choice of the loop | |
| `Consumers` | the three modules before, each alone: the ways into and out of a pipeline | those three |
| `SmallPipelines` | the pipelines that `Run` is checked on | |
| `MCEvent`, `MCSlotList`, `MCTimers`, `MCFork`, `MCRun`, `MCConsumers` | constants for TLC | |
| `Filter` | `Keep`: the sub-sequence of the elements of a set (the `SelectSeq` of the library, without its `RECURSIVE`) | |
| `SequenceLemmas` | what append, tail, removal, `Keep`, running sums and `FlattenSeq` return; least numbers and induction | `Filter` |
| `EventProofs` | the emit loop; that it implements `Broadcast`; its list | `Event`, `SlotList` |
| `DelayProofs`, `TimersProofs` | order, times and timers | `Delay`, `Timers` |
| `MapProofs` | limit, end and order of `map`, and that it loses nothing | `MapTasks` |
| `ForkProofs` | the rules and the end of the six joins | `Fork` |
| `OperatorsProofs` | the rules and the end of the 30 synchronous classes | `Operators` |
| `ConsumersProofs` | what iterations yield, `run` spares, finds and leaves, and threads hand over | `Consumers` |

`Timers`, `Fork` and `Consumers` put components side by side that do not
interact, so that one run explores them all: a variable says which of them an
instance is about, and the others have no state in it.

### How state and actions correspond to the code

*Calls.* Python runs one call at a time, so an action is what the code does from
one point where user code can run to the next: a whole handler when it does not
emit, otherwise the part up to the emit and the part after it. User code is
whatever runs at the top level or inside a listener; it is the free choice of
the next action (`UserStep` in `Event`, `Arrive`, `SourceDone` and so on in the
operators), guarded by `InUserCode`.

*Emits in progress* are a stack: `stack` in `Event` (a frame per `Slots.__call__`
with the rest of its copied list and the slot whose listener runs) and in
`Operators` (a frame per place where user code runs inside a handler: a listener
of the operator's emit, one of its `done_event`, and one of the source's that
comes before the operator in the same emit), `calls` in `Throttle` (a `_try_emit`
per entry), `emits` in `Timeout`, `walks` in `ZipJoin` (a walk over the callbacks
of one source per emit). Where nothing follows the emit in a handler, its nesting
is not kept: what a listener does is then the same as doing it afterwards
(`Debounce` with `on_first`, all of `Join` but the loop of a chain).

*What listeners do.* The operators have a variable, `listeners`, that never
changes: the set of things that the listeners of this instance do, out of
`"feed"` (make the source emit or end, or use any other event), `"slow"` (take
time) and `"early"` (a listener of the source that comes before the operator uses
or ends it). A run explores the instances of its `Behaviours` together. Some
properties hold only for some of them; they say so, and the section on
departures says why.

*Time* is the clock of the loop. It passes while the loop waits, never beyond the
next timer, and inside a slow listener. A timer is the deadline of the handle
that the operator keeps; `Delay` and `Timeout` keep the handle and the timer that
the loop really has apart, because they can differ. `TimedSource` has the wall
clock of `timerange` and the loop's in step: what matters there is which time
points lie ahead.

*Slots.* The position of a slot in the list is modelled by the number of its
connection, because every edit of the code keeps the order and `add` appends.
`SlotList` checks exactly this: it carries the list of the code along with
`Event` and shows that they agree. A weak slot names its object in `ref`; it is
dead when that is not in `alive`. `RefCounting` chooses between CPython (an
object goes, and its slots with it, in one step of user code) and a collector
that runs between any two steps and whose callbacks come later.

*Tasks* (`MapTasks`, `Run`) get their outcome at any time, in any order; asyncio
puts the done callback on a queue (`ready`, `due`) and runs it in a later turn, so
that several tasks may be done before the first callback. In `Iterate` the one
task has a state for every point where the loop may leave it: before its first
step, in an await, while listeners run, and between the two.

*Pipelines* (`Run`) are graphs of events with a class each. `slots` are the
listeners an event has, `links` what an event knows of its upstream
(`_source`, `_sources`, `_parent`, `_joiner`); the two differ when an operator has
let go of one side, and the walks of `_pipeline_nodes` and `_pipeline_tasks`
follow the second while `_listened_to_only_by` reads the first. What an event
tells its listeners is a list of `signals` heard one by one within a turn of the
loop; nothing else of the loop runs before they are heard.

*Values* are numbers. Where a handler looks at values (`Handlers`) they are 0, 1
and 2, and 0 is what `bool` takes for false.

*Histories* (`called`, `snap`, `doneCalls`, `sent`, `told`, `outs`, `emitted`,
`heard`, `steady`, ...) are read by properties only, except where a variable also
bounds the instance.

## What the runs check

| run | module | question | states |
|---|---|---|---|
| `EventOrder` | `MCSlotList` | does each emit call its snapshot in connection order, and each of it, while listeners edit the list, emit again, raise and lose their objects; do list and set agree; does a disconnect take the earliest connection of what it names, all of them, or those of an object, and no others | 272,000 |
| `EventEnds` | `MCEvent` | is the end told once, to everybody, also when it is asked for late or again; are errors heard; does `Event` implement `Broadcast` | 68,000 |
| `Delay` | `Delay` | order, completeness, timing, the one timer | 264,000 |
| `Timers` | `MCTimers` | `Timeout`, attached, detached and attached again at any time: one timer, expiry exactly after a full silence, one end. `Debounce`: exactly the firsts or lasts of the bursts, the end after them. `Throttle`: the sliding window, order, the retry timer under `set_limit`, the status. Timed sources: every point in time, without drift. All: an end | 1,030,000 |
| `Map` | `MapTasks` | order, limit, nothing lost or repeated, also of a partial chunk; the end after the last task; everything is served | 36,000 |
| `Fork` | `MCFork` | does each of the six joins let out what its rule names, in order; does it end exactly when nothing more can come, and let go | 1,010,000 |
| `Operators` | `Operators` | does each of 30 synchronous classes emit what its rule names, a function of the values heard so far; does it end exactly when it has to, let go of its inputs and stay silent | 384,000 |
| `Consumers` | `MCConsumers` | does `run` return and leave nothing running that only its pipeline uses, and leave alone what others listen to; do iteration and `await` give what the event emits, raise, return and let go; does what worker threads emit reach a loop in order, or is refused | 353,000 |
| `ChainFed` | `Join` | refuted: a chain ends although its listeners feed the sources | |
| `RunLeaves` | `MCRun` | refuted: `run` leaves nothing running, also of joins that connect with partials | |
| `RunShared` | `MCRun` | refuted: `run` leaves running what a listener outside still uses through a shared event | |
| `SkipError` | `Iterate` | refuted: iteration raises the first error, also with `skip_to_last` | |

Deadlock is not an error anywhere: when the bounds are used up and nothing is
pending the system is at rest, and the liveness properties say that it rests
only in the right states.

The rules of joins and operators (`ByTheRule`, `EmitsByRule`) are reference
definitions: what has come out is compared, in every state, with a function of
the whole history of what came in, written without the operator's attributes.

### Bounds

- `Event`: one object with one method and one plain function, i.e. one listener
  held weakly or strongly and one without an object. The cases of `remove` need
  two equal connections and a bystander, so `MaxConn` is 3. `EventOrder` has three
  emits, of values, with a late collector; `EventEnds` one, but also the
  sub-events, with reference counts. `MaxDepth` 3 lets a listener of a nested emit
  edit the list under two others; the error emit of a failing listener counts too.
- `Delay`: 4 items and a delay of one tick give two releases of two items with
  an arrival in between; all four mixes of listeners.
- `Timers`: a timeout of 3 ticks and 4 values cover a value right before, at and
  after the deadline, and two re-armings. An interval of 2 and 5 values are two
  bursts of Debounce, one of several values, and a value at exactly the interval.
  Costs 1 and 3 against maxima 2 and 1 and none are a value that fits, several
  that do not together, one that never fits; `MaxDepth` 3 entries of Throttle.
  `End` leaves the clock the time that the slowest limit needs. Timed sources have
  3 values, starts before, at and between their points, and up to 3 ticks between
  creation and the start of their task, in which points pass.
- `Map`: 4 values with a limit of 2, or two chunks of 2, or one and a rest: two
  tasks done before the first callback, two queued.
- `Fork`: 3 sources, 3 values, 3 additions (a source that is switched away from
  and another that is switched to need the third); 4 values where tuples are made
  of up to three positions, one source at two of them.
- `Operators`: counts of 2, 3 values, 4 calls of handlers: a count reached, passed,
  and entered again inside the emit that reaches it; sources, timers and notifiers
  that have ended before the operator is made.
- `Consumers`: pipelines of four events, the largest being two sources, a join
  and a `take`; an async map and an emap with two tasks; shared or not, with
  partials or not; a map whose source another operator listens to, and a map of a
  map. 3 values, so that the end, another value and a task can be
  under way when `run` looks. 4 things told to an iteration; one worker with 3
  calls and 3 loops, so that the loop a worker has looked up can be closed and
  replaced twice.

The proofs do not depend on these numbers.

### Fairness

Weak fairness is asked only of what asyncio or Python guarantees: the loop runs a
timer that is due and a callback that is scheduled (`LoopStep`, `Steps`, `Hear`), a
listener that was called returns (`EmitStep`, `Drains`), the clock goes on (`Tick`),
a caller of `run` lets it proceed (`Begin`, `Clean`, `Return`). `MapTasks` also takes
it that every awaitable completes, one condition per task, and `Run` that sources
and tasks stop some day (`Stops`); without it a map or `run` cannot promise
anything. Nothing else is asked of sources, of user code or of the collector.
`Operators` has no liveness property: its handlers end in the step that
`EndsWithItsInputs` names.

## What is proved

All theorems are about every value of the constants: every set of listeners,
sources' values, delay, limit, mix of listeners and bound, from the named
assumptions of the modules alone. Each safety invariant is proved from a stronger
one that is inductive; one lemma per action shows that the action keeps it.
Beyond the bounds being numbers, the assumptions are that a pipeline has finitely
many nodes (`NodeAssumption`), that its sources listen to nothing (`Pipeline`), that
the arguments of a timed source have the types that its class takes
(`SourcesAssumption`), that values compare as numbers below the `inf` that `Min` and
`Max` start from (`ValueAssumption`), and that layouts, modes and listeners are among those that
the modules know.

The sequence lemmas stand on two things. `Least` and `Induct` are induction over a
set of numbers, from the well-foundedness of `<`; with them `KeepExists`,
`SumsExist` and `FlattensExist` show that the functions behind `Keep`, a running
sum and `FlattenSeq` exist and satisfy their equations. The others follow: what
`Keep` returns for an appended, shortened or joined sequence, and that it keeps
places in order (`KeptPlaces`).

*The emit loop* (`EventProofs`): always `TypeOK`, `ConnectionOrder`,
`SnapshotDelivered`, `NoDeadListenerRuns` and `DoneOnce`, with both kinds of collector.
`EmitInv` adds that connection numbers are given once and not yet given above
`conns` (`SlotsNumbered`; otherwise a new slot could come before one already
called), that what is left of a copy is a part of a copy of numbered slots
(`FramesNumbered`; the next slot is then the only earliest one), and that at most
one emit of the done channel is in progress, of slots that have not heard of the
end (`OneDoneEmit`; otherwise the next step of two such emits could tell a listener
twice). The critical steps are `NextSlot`, which moves the earliest slot of the
copy to `called`, and `Collect`, where a listener cannot lose the object it runs on
because the call holds it. With reference counts also `ErrorIsHeard` (`ErrorsHeard`):
no slot is listed whose object is gone (`AllSlotsLive`), and an error emit that has
called nobody is the innermost frame, so that no user code runs before its first
listener (`UnheardOnTop`).

*The list* (`EventProofs`): `ListIsTheSet` (`ListAndSet`) - removing one, every, or an
object's slots from the list leaves what the set operations of `Slots` leave, in
the order of connection (`ListInv`). That every edit is a `Keep` with the right set
(`FilterKeeps`) or takes out one index (`RemovedOne`) is the argument.

*What a disconnect takes* (`EventProofs`): `DisconnectIsExact` (`DisconnectsOnly`) -
`disconnect` takes the earliest connection of the listener it names and just that
one, or nothing when there is none; `disconnect_all` takes all of them,
`disconnect_obj` those of the object; no other slot of any channel goes. Left out is
only the listener that the code confuses with another (`Confused`: a plain function
that is also the function of a weakly held method). `MatchesMine` says that the
slots that `remove` matches are then those of the listener, `TakesTheEarliest` which of
them goes.

*Refinement* (`EventProofs`): `Refinement` says that `Event` implements
`Broadcast` under the mapping `Subs`, `Emitting`, `done` - the bag of a channel counts
the live slots of each listener, a frame owes the live slots that are left of its
copy. It is stated under `OwnFunctions`: no plain function is also the function
of a listening method, because the code takes one for the other
(`event.py:109`, see below). Behind it is `PictureInv`: the slots of a channel
are finite (their number is what is counted), each was made for a listener and
holds its object in one way, and there are no done slots before there is a
`done_event`. Adding, removing one, all, or an object's slots, and the death of an
object are lemmas about bags (`BagAdd`, `DropOne`, `DropEvery`, `DropObj`, ...); a step
lemma per action (`SimConnect`, `SimNextSlot`, `SimCollect`, ...) maps it to a step
or a stutter.

*Delay* (`DelayProofs`): what came out followed by what is pending is what was sent
(`InArrivalOrder`, also with listeners that feed the source), and, unless listeners
feed the source, `OnTime` and `OneTimer`. The queue part is inductive with the
types. The timing part needs four more facts (`TimerInv`): a deadline is an arrival
plus the delay, arrivals are sorted by time (so that nothing is due before the
head), a release that nobody feeds has no timer and a limit that the clock has
reached, and with listeners that take no time nothing that waits is overdue.

*Timeout* (`TimersProofs`): `ExpiresInTime` and `EndsOnce`. The timer may be earlier
than the deadline of the last value, never later; an expiry has let go of timer
and source; with listeners that take no time the timer is never overdue. `EndsOnce`
(`TimeoutEndsOnce`): it expires at most once and never after its end, whatever it is
attached to later, and after its expiry or end it hears nothing unless somebody
attaches it again (`again`; the code lets one, see below).

*Debounce* (`TimersProofs`): `BurstRule`, both modes. The value that waits is the
last of the source and due one interval after it, or it is out already
(`WaitsForLast`); unless a listener is slow and feeds the source, nothing that waits
is overdue (`InTime`), so that a new value replaces one of its own burst only.

*Throttle* (`TimersProofs`): `NothingDropped` and `StatusIsTrue`, for every mix of
listeners and calls of `set_limit`. `ThrottleInv` knows of the queue that it
continues what was emitted, number by number, and of the flag that it is the last
status, also between nested calls.

*Throttle's window* (`TimersProofs`): `RateLimit` and `WaitsForAReason`
(`ThrottleLimits`, `ThrottleWaits`), when the limit is fixed (`steady`) and listeners
take no time. `PaceInv` says that the window is the last part of what was emitted
and that everything before it is out of the interval (`WindowIsLast`); the sum of
the costs within an interval is then a sum over the window, which `Fits` has looked
at. The timer is set while something waits and is never later than the moment the
head of the window leaves it (`TimerIsSet`, `TimerInTime`), and the head of the queue
did not fit (`HeadIsOver`).

*Timed sources* (`TimersProofs`): `OnSchedule`, all five classes. `SourceInv` ties the
turn of the loop to the schedule: what was given has an earlier turn, in order, at
its time or when the value before it was through, if that was later (`GivenSoFar`);
the sleep ends at the scheduled time of the turn (`OnItsWay`); a Marble has not
passed its bar, and a source that has ended has given all that is due
(`EndsRightly`).

*Map and PoolMap* (`MapProofs`): types, `LimitIsUsed`, `EndsLast` and,
when listeners do not feed the source, `OrderPreservedUnfed`. `MapInv` says of tasks,
queue and callbacks that no task is in two places (`Places`), that a finished task
that is still listed has its turn ahead (`Callbacks`, `Turns`: in order mode only the
head of the list needs a callback), and that work waits only while all places are
taken (`Limits`); `OrderInv` that tasks, then queue, then the open chunk continue
what was emitted. That chunks meet without gap or overlap is arithmetic of `%`
(`NextRemainder`). `NothingLost` (`MapLosesNothing`) holds with listeners that feed
the source, too. `AcctInv` keeps the account of every value: it belongs to one task
(`TaskOf`), which is queued, listed, or has answered for it (`Homes`); what was
emitted is of no task that waits (`Given`), and what is left of the emission in
progress is not out yet and completes its task (`Giving`, `Due`).

*Joins* (`ForkProofs`): `ByTheRule` and `EndsRight`, any number of sources and positions,
with listeners that use the sources and the parent. Two cases in which the code
departs are left out of them: a chain once a listener has made its loop fail
(`torn`), and, of `ByTheRule`, a `Ziplatest` with a source at several positions whose
listeners make a source emit.
For `Merge`, `Concat`, `Chain` and `Switch` (`JoinInv`, which holds until the chain is torn) the sources that are followed are
the connected ones, once each, and one that was added and is followed no more has
ended or was switched away from (`Wiring`, `AddedOnce`); each rule is then an
equation between what is out and what was sent since its source was added: for
`Concat` the first followed source is the first one that lives (`InTurn`), for
`Switch` the active source is that of the last value (`SwitchOuts`), and for `Chain`
every value is out or in the queue of its source, queues are later than what is
out and in order, and only the first source followed has none (`ChainQueues`,
`ChainOuts`). For `Zip` (`ZipInv`) the queue of a position holds exactly the values of
its source that are not in a tuple yet, less the one that the innermost emit has
still to hand over (`Keeps`); the count of ready positions is the number of queues
that are not empty, of which one always is (`ZipCounts`), so that a tuple is taken
exactly when the last queue fills. For `Ziplatest` only the innermost emit has
positions left to call (`OneAtATime`), the values known are the latest but for
those positions, and what is due is what is out followed by what these positions
will show (`ZipLatest`).

*Operators* (`OperatorsProofs`): `EndsWithItsInputs` and `SilentAfterEndAlone`, all 30
classes (`EndsAsItHasTo`, `Silent`), the first but for a `take` that listeners feed,
the second but for an operator that an earlier listener of its source ends, and for
`takewhile` and `sample` when listeners feed them. `OInv` says that an operator that has ended had to
by what it has heard (`HadTo`), and that one that has to end has ended or has a
handler in progress that is about to end it (`WillEnd`); a link that outlives the
end is one that such a handler will drop (`Dropped`). The count of `take` and
`iterate` is the number of values heard (`Counted`); unless listeners use the inputs,
only the innermost handler is at an emit (`Alone`).

*What operators emit* (`OperatorsProofs`): `EmitsByRule` (`EmitsAsItsRuleSays`), all 30
classes, any values and any count. For 23 of them it holds with listeners that use
the inputs (`Reentrant`), for 26 with an earlier listener of the source that ends
the operator (all but `SpoiltByLateValue`); for each of the others TLC finds a
violation as soon as its exclusion is dropped. A rule in `Rules` is a function of all the calls
heard, a handler in `Handlers` sees one value and the attributes it has kept;
`Right` says what the attributes of each class are a function of (the running total, the
set seen, the window, the chunk begun, the last value), and `Keeps` and
`Follows` that a handler turns the attributes of the calls `h` into those of `h` and
one more, and emits what the rule gains by it. `RInv` is the invariant: what is out
is what the rule says, with the attributes as they will be when the handler in
progress has made its changes (`NowOf`, since five classes change them after the
emit). The three classes that wait for the end have heard of it
once (`EInv`). Sums, products, minima and maxima are folds over the history;
that the fold exists and what one more value adds to it are lemmas (`FoldsExist`).

*Iteration* (`ConsumersProofs`): `YieldsByMode` (`Yields`). `IterInv`: what was yielded
followed by the queue is what was heard (`AllInOrder`); with `skip_to_last` the queue
is later than what was yielded and has no value that a later one has replaced
(`LatestInOrder`); an await has the first value since it was connected
(`FirstAwaited`).

*run* (`ConsumersProofs`): `SparesListenedTo` (`ListenedToIsSpared`). A listener outside
keeps its slot whatever the pipeline disconnects (`Heeded`), so that the event it
listens to is never one that only the pipeline uses, and none of its tasks is
taken for the pipeline's own or cancelled (`Spared`).

*What run leaves* (`ConsumersProofs`): `FindsAll` (`AllIsFound`) and
`LeavesNothingAlone` (`NothingIsLeft`), on every finite pipeline. What `_pipeline_nodes`
returns is the least set with its roots that is closed under the upstream links, and
what depends on an event the least one closed the other way; a least closed set
has its roots, is closed and is in every closed set with them (`ClosureHas`,
`ClosureClosed`, `ClosureLeast`), which is all that the proofs use of it. `AllIsFound`
is about the look of `_run_and_clean` at a pipeline without partials that was whole
when `run` began: an event that only the pipeline uses (`Private`) was found at the
start or is nested and linked to an emap that was, and nobody listens to it but
events that were found (`FindsPrivate`). For that, `WorkInv` says that the slots of an
event belong to those it was linked with, to an emap if it is nested, to the
collector or to who listens outside (`Hooked`), and that a nested event with a task
is in the links of an emap (`Tasks`, `Owner`), which holds because the end of a nested
event is heard only when its task is done (`Sound`). `NothingIsLeft` follows what
happens between that look and the return. Each private task that runs is awaited
and cancelled (`Swept`), because nothing starts one any more: without a limit
nothing is queued (`Unqueued`), a source that is cancelled emits nothing, and the
signals on their way carry no value to what starts tasks (`OnTheWay`, `Sound`). When
`run` returns there is none (`Settled`). `Alone`, which the theorem demands, is what
keeps the last point true: the pipeline shares nothing with others and has neither
partials nor limits, and no map in it has a map or an emap downstream, since the
callback of a task that is done but not told of starts one after the look.

*Threads* (`ConsumersProofs`): `HandedOver`, for any number of workers, loops and
calls. A loop that is recorded, run or looked up is one that the main thread made
(`MainLoops`), and each call has one place, which its fate names (`Places`, `Apart`),
so that closing a loop takes the calls down that wait in it and no others.

Only model-checked:

- everything about fairness (`EndIsTold`, `AllReleasedUnfed`, `AllEnd`, `AllServed`,
  `EndsTooUntorn`, `AllReturn`): the prover has no rules for it, nor for ENABLED.

Every invariant and every action property of a run that passes is the statement of
a theorem.

## Where the code departs from its documentation

Four departures have a run of their own:

- `ChainFed`: a chain walks the queue of the next source while the callback of
  that source still appends to it (`ops/combine.py:234`). A listener that makes
  it emit breaks the loop with a `RuntimeError` and the chain never goes on.
  `ByTheRule`, `EndsRight` and `EndsTooUntorn` exclude the chain from then on (`torn`).
- `RunLeaves`: joins such as `Zip` connect with partials, whose slots have no object
  (`event.py:84`, `ops/combine.py:270`). `run` takes them for listeners of others and
  leaves the tasks of their sources running.
- `RunShared`: `run` looks at the listeners of each event, not at those of the
  events that depend on it (`event.py:66`). The source of an event that a listener
  outside uses through a shared operator is cancelled.
- `SkipError`: with `skip_to_last` a value that follows an error takes its place in
  the queue (`event.py:653`), and the error is never raised.

Others were met while modelling. They are why a property has a precondition or a
model an assumption, and are listed so that nobody takes the precondition for a
formality.

Listeners that feed the source of the operator that is emitting:

- `Delay._release`: with a delay of 0 the feed leaves a timer whose item the
  running release takes away; it then pops from an empty queue
  (`ops/timing.py:56`) and no timer is ever set again. With a positive delay the
  stale timer releases a later item early. `OnTime`, `OneTimer` and
  `AllReleasedUnfed` exclude such listeners.
- `Debounce._delayed_emit` (`ops/timing.py:150`): a listener that makes the source
  emit and then end is told the end before the new value, and one that is also
  slow makes a value replace one that is overdue (`NothingAfterEndUnfed`, `Overdue`).
- `Map.on_source` (`ops/transform.py:253`) compares only the number of tasks with
  the limit. Between the emit of a finished task and the refill, a value fed in is
  started ahead of queued ones (`OrderPreservedUnfed`).
- `TakeWhile` and `Sample` emit after their end when a done listener feeds the
  source (`SilentAfterEndAlone`); `Take` that is fed past its count does not end
  (`ops/select.py:60`); `Changes`, `Pairwise`, `Enumerate`, `Chunk` and `ChunkWith` put
  their state right only after their emit, and repeat or mix values
  (`EmitsByRule` excludes these and `TakeWhile`).
- `Ziplatest` with a source at several positions has one callback per position
  (`ops/combine.py:338`). A listener that makes the source emit at the first
  is answered with the new values, and the positions left then put the older
  value back (`ByTheRule` excludes it).

Operators that have ended:

- `Op.set_source` (`ops/op.py:50`) looks only whether there is a source, not whether
  the operator has ended. One that has ended or expired has none: attached to a live
  source it emits again, against `ARCHITECTURE.md:115`. `Timeout` models it, the
  operator most likely to be made without a source and attached when its timer has
  run; `EndsOnce` excepts an operator that was attached again. The models of the
  other operators attach once, when they are made.
- An earlier listener of the source that ends the operator, or makes it end, does
  not spare it the value: its slot is already in the copy (`event.py:154`), and it
  emits after its end. `Operators` models it. `SilentAfterEndAlone` excludes it;
  `EmitsByRule` holds all the same except for `Last`, `List` and `Chunk`, whose value, list or
  chunk at the end lacks it, and `TakeWhile`, which lets it through.
- `Sample` and `ChunkWith` connect to their timer without asking whether it has ended
  (`ops/timing.py:281`, `ops/transform.py:203`); only `TakeUntil` asks. With a timer that
  had ended before they end with their source only, against
  `ARCHITECTURE.md:118`, and `Sample` emits nothing. `HasToEnd` counts the ends that an
  operator hears.

Listeners that take time:

- `Throttle._try_emit` (`ops/timing.py:229`) reads the clock once. A value emitted
  after a slow listener enters the window with an earlier time, and the next
  interval takes too many (`RateLimit`).

Ends and errors:

- `Delay.on_source_error` (`ops/timing.py:34`) emits on the `error_event` without
  the fall back to the log that other operators have.
- `_errors_have_listeners` (`event.py:275`) counts slots, dead ones too: with a late
  collector an error can be handed to nobody. `ErrorIsHeard` is checked with
  reference counts.
- `Map.on_source_done` (`ops/transform.py:268`) forgets its source without
  disconnecting when tasks are pending; the handlers stay connected.
- `Marble`: the task of its sequence goes on after the bar has ended it.
- `Slots.remove` (`event.py:109`) matches a weakly held bound method with the plain
  function of its class, both having no `obj`: disconnecting `C.m` can take `c.m`.
  `ImplementsBroadcast` is proved without such functions (`OwnFunctions`), and
  `DisconnectIsExact` excludes the disconnect of such a function (`Confused`).

`run`, iteration and threads (each is an assumption of `Run`, `Iterate` or `Threads`
or a precondition of their properties):

- `await event` has no listener for the end (`event.py:735`): it hangs when the
  event ends without a value. `AllReturn` asks of an await only that it lets go.
- `Event.aiterate(event)` fails, because an event has no `__qualname__`; it works
  with `event.aiter()`.
- An event that emits after its end drops the end from a `skip_to_last` queue, and
  the iteration does not stop. No run has such events: `Late` is FALSE in each.
- A map with a task limit starts queued awaitables when `run` cancels the ones
  before them; a pipeline that had ended before `run` is not cleaned; the due
  callback of an async map ahead of a map or an emap starts a task after `run` has
  looked, since the task it belongs to is done and not in `leftover` (`event.py:524`),
  and `run` returns while the new task goes on; a shared source may feed a map that is still connected while `run` cleans
  up; a listener that connects from outside during the run is not seen; a nested
  event that `switchmap` has dropped is out of reach. `LeavesNothingAlone` excludes
  pipelines with task limits, partials and sharing, and those with a map ahead of
  another map or an emap.
- `emit_threadsafe` hands over to the loop that the main thread last used eventkit
  in (`util.py:102`): one that has been closed meanwhile refuses, one that is never
  run again drops.

## Not modelled

- `Constant`, `Timestamp`, `Partial`, `PartialRight`, `Star`, `Pack`, `Pluck`, `Copy`,
  `Deepcopy`: no state; they emit one function of the arguments. `Ema` and the
  reductions of an `Array`: floating point and NumPy, one value at a time.
- Copying and pickling: `__reduce__` names the event, nothing of its state is kept.
- The factory methods (`event.map`, `event.take`, ...) and `Event.create`: each makes
  the operator or source of its name.
- Of `Event`: the last value (`_value`), an awaitable that a listener returns (handed
  to asyncio and forgotten), and a `BaseException` out of a listener, which unwinds
  every emit.
- Of `Map`: a function that returns a plain result, which is an emit; a timeout is
  an error of its task.
- Of the joins: a source added again while it is followed, and errors, which are
  passed on. Of `Emap`: the call of its constructor.
- Of `Op`: `set_source` of an operator that has a source already, which goes up the
  chain; of operators other than `Timeout`, one that is called after they were made.
- The notebooks, of which there is nothing to model.

## Plan

What is left, most useful first:

1. Abstract specifications: a FIFO with delivery times that `Delay` implements, and
   a bag of pending work for `MapTasks`.
2. The list edits of `SlotList` inside `Event`'s proofs, in place of numbered slots.
3. Errors in `Join`, and a source that is added twice.
