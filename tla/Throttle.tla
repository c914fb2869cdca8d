------------------------------ MODULE Throttle -----------------------------
(***************************************************************************)
(* The Throttle operator: values wait in a queue until their cost fits in  *)
(* the sliding window of what was emitted in the last interval.  A value   *)
(* listener runs inside _try_emit and may make the source emit, which      *)
(* enters _try_emit again: the calls in progress are a stack.  Listeners   *)
(* of status_event are taken not to call back.                             *)
(***************************************************************************)
EXTENDS Naturals, Sequences, SequencesExt

CONSTANTS
    Costs,           \* the costs of the values that arrive
    Limits,          \* limits [maximum, interval, inclusive], for set_limit too
    Behaviours,      \* what value listeners may do: sets of "feed" (make the
                     \* source emit or end) and "slow" (time passes)
    None,
    MaxItems,        \* bound: values of the source
    MaxDepth,        \* bound: calls of _try_emit in progress
    Horizon,         \* bound: when the source falls silent
    End              \* bound: when the clock stops

VARIABLES
    listeners,   \* what the listeners of this operator do, fixed
    now,         \* the clock of the loop
    attached,    \* Throttle._source is not None
    ended,       \* set_done was called, here and on status_event
    steady,      \* history: set_limit has not been called
    limit,       \* _maximum, _interval and _inclusive
    q,           \* Throttle._q: the numbers and costs of the waiting values
    window,      \* _time_q and _cost_q
    throttling,  \* _is_throttling
    timer,       \* the deadline of _handle and of the loop's timer behind it
    calls,       \* the calls of _try_emit in progress, innermost last
    arrived,     \* history: the number of values that arrived
    emitted,     \* history: what was emitted, and when
    status       \* history: what status_event emitted

vars == <<listeners, steady, now, attached, ended, limit, q, window, throttling, timer, calls,
          arrived, emitted, status>>

Innermost == calls[Len(calls)]
Outer == SubSeq(calls, 1, Len(calls) - 1)

\* User code runs: the loop waits, or a value listener has the control.
InUserCode == calls # <<>> => "feed" \in listeners /\ Innermost.emitting

Total(w) ==
    LET sum[n \in 0 .. Len(w)] == IF n = 0 THEN 0 ELSE sum[n - 1] + w[n].cost
    IN  sum[Len(w)]

Over(total, l) == IF l.inclusive THEN total > l.maximum ELSE total >= l.maximum

\* "while q": the head goes out unless it is over budget with a window that is
\* not empty; no limit at all is a maximum of 0.
Fits(cost, w) ==
    \/ limit.maximum = 0
    \/ w = <<>>
    \/ ~Over(cost + Total(w), limit)
-----------------------------------------------------------------------------
Init ==
    /\ listeners \in Behaviours
    /\ steady = TRUE
    /\ now = 0
    /\ attached = TRUE
    /\ ended = FALSE
    /\ limit \in Limits
    /\ q = <<>>
    /\ window = <<>>
    /\ throttling = FALSE
    /\ timer = None
    /\ calls = <<>>
    /\ arrived = 0
    /\ emitted = <<>>
    /\ status = <<>>

\* Times are forgotten one interval later, from the left up to the first that is
\* younger (a nested call of _try_emit may have left an older one behind it).
From(w, young) == IF young = {} THEN <<>> ELSE SubSeq(w, Min(young), Len(w))
Forget_Early(w, t) == From(w, {i \in DOMAIN w : w[i].at + limit.interval > t + 1})
Forget(w, t) == From(w, {i \in DOMAIN w : w[i].at + limit.interval > t})

\* _try_emit up to its loop; t is the time it goes by.
Enter(t) ==
    /\ window' = Forget(window, t)
    /\ calls' = Append(calls, [t |-> t, emitting |-> FALSE])

\* on_source
Enqueue_Front(x) == <<x>> \o q
Enqueue(x) == Append(q, x)

Arrive(cost) ==
    /\ InUserCode
    /\ attached
    /\ now <= Horizon
    /\ arrived < MaxItems
    /\ Len(calls) < MaxDepth
    /\ arrived' = arrived + 1
    /\ q' = Enqueue([id |-> arrived + 1, cost |-> cost])
    /\ Enter(now)
    /\ UNCHANGED <<listeners, steady, now, attached, ended, limit, throttling, timer, emitted, status>>

\* _on_retry: the deadline counts as now.
Retry ==
    /\ calls = <<>>
    /\ timer # None
    /\ timer <= now
    /\ timer' = None
    /\ Enter(IF timer > now THEN timer ELSE now)
    /\ UNCHANGED <<listeners, steady, now, attached, ended, limit, q, throttling, arrived, emitted, status>>

\* One turn of the loop, up to the listeners of the value.
EmitHead ==
    /\ calls # <<>>
    /\ ~Innermost.emitting
    /\ q # <<>>
    /\ Fits(Head(q).cost, window)
    /\ q' = Tail(q)
    /\ window' = Append(window, [at |-> Innermost.t, cost |-> Head(q).cost])
    /\ emitted' = Append(emitted, [id |-> Head(q).id, cost |-> Head(q).cost, at |-> now])
    /\ calls' = [calls EXCEPT ![Len(calls)].emitting = TRUE]
    /\ UNCHANGED <<listeners, steady, now, attached, ended, limit, throttling, timer, arrived, status>>

Return ==
    /\ calls # <<>>
    /\ Innermost.emitting
    /\ calls' = [calls EXCEPT ![Len(calls)].emitting = FALSE]
    /\ UNCHANGED <<listeners, steady, now, attached, ended, limit, q, window, throttling, timer,
                   arrived, emitted, status>>

\* The part of _try_emit after the loop.
Status_Always(s) == Append(s, q # <<>>)
Status(s) == IF throttling # (q # <<>>) THEN Append(s, q # <<>>) ELSE s

NextTimer_Kept(w) == timer
NextTimer_FromLast(w) ==
    IF timer = None /\ q # <<>> THEN w[Len(w)].at + limit.interval ELSE timer
NextTimer(w) == IF timer = None /\ q # <<>> THEN w[1].at + limit.interval ELSE timer

Exhausted == q = <<>> /\ ~attached

Leave ==
    /\ calls # <<>>
    /\ ~Innermost.emitting
    /\ q # <<>> => ~Fits(Head(q).cost, window)
    /\ status' = Status(status)
    /\ timer' = NextTimer(window)
    /\ throttling' = (q # <<>>)
    /\ ended' = (ended \/ Exhausted)
    /\ calls' = Outer
    /\ UNCHANGED <<listeners, steady, now, attached, limit, q, window, arrived, emitted>>

SourceDone ==
    /\ InUserCode
    /\ attached
    /\ attached' = FALSE
    /\ ended' = (ended \/ q = <<>>)
    /\ UNCHANGED <<listeners, steady, now, limit, q, window, throttling, timer, calls, arrived, emitted, status>>

SetLimit(l) ==
    /\ InUserCode
    /\ limit' = l
    /\ steady' = FALSE
    /\ UNCHANGED <<listeners, now, attached, ended, q, window, throttling, timer, calls,
                   arrived, emitted, status>>

\* Time passes: the loop is not late, a slow listener may be.
Tick ==
    /\ now < End
    /\ IF calls = <<>> THEN timer # None => timer > now
       ELSE "slow" \in listeners /\ Innermost.emitting
    /\ now' = now + 1
    /\ UNCHANGED <<listeners, steady, attached, ended, limit, q, window, throttling, timer, calls,
                   arrived, emitted, status>>

Step == Retry \/ EmitHead \/ Return \/ Leave

Next ==
    \/ \E cost \in Costs : Arrive(cost)
    \/ Step
    \/ SourceDone
    \/ \E l \in Limits : SetLimit(l)
    \/ Tick

Spec == Init /\ [][Next]_vars

-----------------------------------------------------------------------------
\* Clock, queue, window, calls and histories have their types.
TypeOK ==
    /\ listeners \in Behaviours
    /\ steady \in BOOLEAN
    /\ now \in 0 .. End
    /\ attached \in BOOLEAN
    /\ ended \in BOOLEAN
    /\ limit \in Limits
    /\ q \in Seq([id : 1 .. MaxItems, cost : Costs])
    /\ window \in Seq([at : Nat, cost : Costs])
    /\ throttling \in BOOLEAN
    /\ timer \in Nat \cup {None}
    /\ calls \in Seq([t : Nat, emitting : BOOLEAN])
    /\ arrived \in 0 .. MaxItems
    /\ emitted \in Seq([id : 1 .. MaxItems, cost : Costs, at : Nat])
    /\ status \in Seq(BOOLEAN)

\* "Limit number of emits per time": values emitted within one interval stay
\* within the limit; a value that alone exceeds it goes out on its own.  (The
\* limit is a fixed one, and listeners take no time.)
RateLimit ==
    steady /\ "slow" \notin listeners =>
        \A i, j \in DOMAIN emitted :
            i < j /\ emitted[j].at < emitted[i].at + limit.interval /\ limit.maximum # 0
                => ~Over(Total(SubSeq(emitted, i, j)), limit)

\* "... without dropping values": emitted and waiting values together are all
\* that arrived, in order, also when a listener's value comes in between.
InOrder ==
    /\ \A i \in DOMAIN emitted : emitted[i].id = i
    /\ \A i \in DOMAIN q : q[i].id = Len(emitted) + i
    /\ Len(emitted) + Len(q) = arrived

\* A value waits only while it must: at rest the retry timer is set, whatever
\* set_limit has changed; with a fixed limit it is set at the latest for when the
\* window first moves, and until then the head is over budget.
WaitsForAReason ==
    calls = <<>> /\ q # <<>> =>
        /\ timer # None
        /\ steady => /\ timer <= window[1].at + limit.interval
                     /\ timer > now => ~Fits(Head(q).cost, Forget(window, now))

\* status_event tells the truth: it alternates, starts with True and agrees with
\* the queue at rest, although nested calls of _try_emit share the flag.
StatusIsTrue ==
    /\ \A i \in DOMAIN status : status[i] = (i % 2 = 1)
    /\ calls = <<>> => (q # <<>>) = (status # <<>> /\ status[Len(status)])

\* The end comes after the last value: never with values waiting, and at rest as
\* soon as source and queue are both exhausted.
EndsLast ==
    /\ ended => q = <<>> /\ ~attached
    /\ calls = <<>> /\ ~attached /\ q = <<>> => ended

\* Every value that arrived goes out, and after the source the throttle ends.
Settled == arrived = Len(emitted) /\ (attached \/ ended)
=============================================================================
