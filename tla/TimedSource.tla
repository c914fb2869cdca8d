---------------------------- MODULE TimedSource ----------------------------
(***************************************************************************)
(* The sources that wait for a time before each value: Sequence (Repeat    *)
(* and Range are Sequences), with an interval or with times, Timer,        *)
(* Timerange and Marble.  Each is a task of the loop that sleeps, emits,   *)
(* and goes on when the listeners are through.  Listeners may be slow.     *)
(*                                                                         *)
(* Left out: the cancellation of the task, which is that of Iterate.tla,   *)
(* and a wall clock that is set while a Timerange sleeps.                  *)
(***************************************************************************)
EXTENDS Integers, Sequences

CONSTANTS
    Sources,         \* the sources to look at, with their arguments
    Behaviours,      \* what listeners may do; here "slow" (time passes) counts
    None,
    MaxTurns,        \* bound: values of a source without end
    Horizon,         \* bound: when the loop is started
    End              \* bound: the clock

VARIABLES
    script,     \* class and arguments, fixed
    listeners,  \* what the listeners do, fixed
    now,        \* the clock of the loop, and the wall clock
    task,       \* of the source: "scheduled", "sleeping", "emitting", "over"
    begun,      \* t0, the time of its first step
    point,      \* Timerange: its first time point
    turn,       \* the number of the value that comes next, or is emitted
    wake,       \* when the sleep ends
    ended,      \* the event has ended
    gives       \* history: what came out and when, and when the listeners were through

fixed == <<script, listeners>>
vars == <<fixed, now, task, begun, point, turn, wake, ended, gives>>

Marble == script.class = "marble"
\* What a marble leaves out, and what ends it.
Gap == "-"
Bar == "|"
-----------------------------------------------------------------------------
Init ==
    /\ script \in Sources
    /\ listeners \in Behaviours
    /\ now = 0
    /\ task = "scheduled"
    /\ begun = None /\ point = None /\ wake = None
    /\ turn = 1
    /\ ended = FALSE
    /\ gives = <<>>

\* The first point of a Timerange: a start in seconds counts from now, rounded
\* down to a step; one that has passed moves to the next point to come.
Rounded(t) == script.step * (t \div script.step)
FirstPoint ==
    LET t == IF script.relative THEN Rounded(now + script.start) ELSE script.start
    IN  IF t < now THEN t - ((t - now) \div script.step) * script.step ELSE t

\* The deadlines count from the first step, whatever the listeners take.
Deadline_FromNow(t0, first, i) ==
    CASE script.class \in {"sequence", "marble"} -> now + script.interval
      [] script.class = "times" -> t0 + script.times[i]
      [] script.class = "timer" -> now + script.interval
      [] script.class = "timerange" -> first + (i - 1) * script.step
Deadline(t0, first, i) ==
    CASE script.class \in {"sequence", "marble"} -> t0 + (i - 1) * script.interval
      [] script.class = "times" -> t0 + script.times[i]
      [] script.class = "timer" -> t0 + i * script.interval
      [] script.class = "timerange" -> first + (i - 1) * script.step

\* zip(times, values), enumerate(values), "count is None or i < count",
\* "end is None or t <= end".
HasMore(t0, first, i) ==
    CASE script.class \in {"sequence", "marble"} -> i <= Len(script.values)
      [] script.class = "times" -> i <= Len(script.times) /\ i <= Len(script.values)
      [] script.class = "timer" -> script.count = None \/ i <= script.count
      [] script.class = "timerange" ->
           script.end = None \/ Deadline(t0, first, i)
                <= (IF script.relative THEN t0 + script.end ELSE script.end)

\* To the next sleep, or the end of the generator.
Onward(t0, first, i) ==
    /\ turn' = i
    /\ IF HasMore(t0, first, i)
       THEN task' = "sleeping" /\ wake' = Deadline(t0, first, i)
       ELSE task' = "over" /\ wake' = None

Begin ==
    /\ task = "scheduled"
    /\ begun' = now
    /\ point' = IF script.class = "timerange" THEN FirstPoint ELSE None
    /\ Onward(now, point', 1)
    /\ ended' = (task' = "over")
    /\ UNCHANGED <<fixed, now, gives>>

\* A Marble is a Sequence through filter and takewhile.
Stops == Marble /\ script.values[turn] = Bar
Passes == ~ended /\ ~(Marble /\ script.values[turn] \in {Gap, Bar})

Wake ==
    /\ task = "sleeping"
    /\ wake <= now
    /\ turn <= MaxTurns
    /\ IF Passes
       THEN /\ gives' = Append(gives, [n |-> turn, at |-> now, through |-> None])
            /\ task' = "emitting"
            /\ UNCHANGED <<turn, wake, ended>>
       ELSE /\ Onward(begun, point, turn + 1)
            /\ ended' = (ended \/ Stops \/ task' = "over")
            /\ UNCHANGED gives
    /\ UNCHANGED <<fixed, now, begun, point>>

Return ==
    /\ task = "emitting"
    /\ gives' = [gives EXCEPT ![Len(gives)].through = now]
    /\ Onward(begun, point, turn + 1)
    /\ ended' = (ended \/ task' = "over")
    /\ UNCHANGED <<fixed, now, begun, point>>

\* Time passes: the loop is not late, but it may be started late.
Tick ==
    /\ now < End
    /\ CASE task = "scheduled" -> now < Horizon
         [] task = "sleeping" -> wake > now
         [] task = "emitting" -> "slow" \in listeners
         [] OTHER -> TRUE
    /\ now' = now + 1
    /\ UNCHANGED <<fixed, task, begun, point, turn, wake, ended, gives>>

Step == Begin \/ Wake \/ Return

Next == Step \/ Tick
-----------------------------------------------------------------------------
\* The time of the n-th value in the words of the docs: "space between values", an
\* offset each, every interval, "periodically until certain time points are
\* reached"; those of a Timerange are the multiples of the step, or whole steps
\* away from the start, that are not in the past.
Scheduled(n) ==
    IF script.class # "timerange"
    THEN CASE script.class = "times" -> begun + script.times[n]
           [] script.class = "timer" -> begun + n * script.interval
           [] OTHER -> begun + (n - 1) * script.interval
    ELSE LET OnGrid(t) == (t - (IF script.relative THEN 0 ELSE script.start)) % script.step = 0
             from == IF script.relative
                     THEN begun + script.start - script.step + 1 ELSE script.start
             first == CHOOSE t \in begun .. begun + script.start + script.step :
                         /\ t >= from /\ OnGrid(t)
                         /\ \A s \in begun .. t - 1 : s >= from => ~OnGrid(s)
         IN  first + (n - 1) * script.step

\* What is due to come out of a source, once it has begun.
Due ==
    CASE script.class = "sequence" -> DOMAIN script.values
      [] script.class = "times" -> DOMAIN script.values \cap DOMAIN script.times
      [] script.class = "timer" -> 1 .. (IF script.count = None THEN MaxTurns ELSE script.count)
      [] script.class = "marble" ->
           {n \in DOMAIN script.values :
               /\ script.values[n] # Gap
               /\ \A k \in 1 .. n : script.values[k] # Bar}
      [] OTHER ->
           {n \in 1 .. MaxTurns :
               script.end # None =>
                   Scheduled(n) <= (IF script.relative THEN begun + script.end ELSE script.end)}

\* No value is early, and slow listeners do not shift those that follow: each comes
\* at its time, or at once if it is late, none is left out, and the event ends
\* after the last.
OnSchedule ==
    /\ \A k \in DOMAIN gives :
          LET n == gives[k].n
              before == {Scheduled(j) : j \in 1 .. n}
                            \cup (IF k = 1 THEN {} ELSE {gives[k - 1].through})
          IN  /\ gives[k].at \in before
              /\ \A t \in before : t <= gives[k].at
    /\ begun # None =>
          {n \in Due : n < turn} \subseteq {gives[k].n : k \in DOMAIN gives}
    /\ \A k \in DOMAIN gives : gives[k].n \in Due /\ (k > 1 => gives[k - 1].n < gives[k].n)
    /\ ended /\ ~Marble => Due = {gives[k].n : k \in DOMAIN gives}

\* A source with an end comes to it.
Settled == ended \/ (task = "sleeping" /\ turn > MaxTurns)
=============================================================================
