------------------------------- MODULE Iterate ------------------------------
(***************************************************************************)
(* An event made into an asynchronous iterator or awaitable and back:      *)
(* Event.aiterate(event.aiter(skip_to_last)) and Event.wait(event).  A     *)
(* task of the relay iterates or awaits; what the event tells goes into a  *)
(* queue or a future.  Listeners of the relay may use the event, which may *)
(* emit, fail, end and, as the code has it, emit after its end.  Anyone    *)
(* may cancel the task.                                                    *)
(***************************************************************************)
EXTENDS Naturals, Sequences, SequencesExt, Filter

CONSTANTS
    None,
    Modes,       \* out of AllModes
    Late,        \* BOOLEAN: the event may emit after its end
    MaxItems     \* bound: values and errors of the event

\* aiter(), aiter(skip_to_last=True), __await__
AllModes == {"aiter", "last", "await"}

VARIABLES
    mode,
    done,       \* the event has ended
    told,       \* history: what the event emitted, "value" or "error"
    connected,  \* on_event, on_error and on_done are connected
    q,          \* the queue of aiter: numbers of what was told, 0 for the end
    fut,        \* the future of __await__: None, or the number it was set to
    task,       \* of the relay: "scheduled", "suspended" in an await, "looping"
                \* (between two awaits), "emitting" (listeners run), "done" (its
                \* done callback is due), "over"
    cancel,     \* the task was asked to stop
    relayDone,  \* Aiterate._done, Wait._done
    from,       \* history: how much was told before the listeners connected
    outs        \* history: what the relay emitted; Wait alone also an empty value,
                \* 0, and the error of an event that had ended, None

vars == <<mode, done, told, connected, q, fut, task, cancel, relayDone, from, outs>>

END == 0
Iterates == mode # "await"
InUserCode == task # "looping"
-----------------------------------------------------------------------------
Init ==
    /\ mode \in Modes
    /\ done \in BOOLEAN
    /\ told = <<>>
    /\ connected = FALSE
    /\ q = <<>>
    /\ fut = None
    /\ task = "scheduled"
    /\ cancel = FALSE
    /\ relayDone = FALSE
    /\ from = 0
    /\ outs = <<>>

\* on_event and on_error: into the queue, or the future if it is not done.
OnEvent_KeepsAll(n) == Append(q, n)
OnEvent(n) == IF mode = "last" THEN <<n>> ELSE Append(q, n)
Put(n, what) == IF what = "value" THEN OnEvent(n) ELSE Append(q, n)

EventTells(what) ==
    /\ InUserCode
    /\ done => Late
    /\ Len(told) < MaxItems
    /\ told' = Append(told, what)
    /\ q' = IF connected /\ Iterates THEN Put(Len(told) + 1, what) ELSE q
    /\ fut' = IF connected /\ ~Iterates /\ fut = None THEN Len(told) + 1 ELSE fut
    /\ UNCHANGED <<mode, done, connected, task, cancel, relayDone, from, outs>>

\* set_done of the event: __await__ has no listener for it.
EventEnds ==
    /\ InUserCode
    /\ ~done
    /\ done' = TRUE
    /\ q' = IF connected /\ Iterates THEN Append(q, END) ELSE q
    /\ UNCHANGED <<mode, told, connected, fut, task, cancel, relayDone, from, outs>>

Cancel ==
    /\ task \in {"scheduled", "suspended"} \/ (task = "emitting" /\ Iterates)
    /\ ~cancel
    /\ cancel' = TRUE
    /\ UNCHANGED <<mode, done, told, connected, q, fut, task, relayDone, from, outs>>
-----------------------------------------------------------------------------
\* The end of _looper, also when cancelled: the finally of aiter disconnects, its
\* own one ends the relay.
LooperEnds ==
    /\ connected' = FALSE
    /\ task' = "over"
    /\ relayDone' = TRUE

\* The first step of the task: the body of aiter or __await__ begins.
\* Cancelled before it, the done callback alone ends the relay.
Start ==
    /\ task = "scheduled"
    /\ ~cancel
    /\ from' = Len(told)
    /\ IF done
       THEN IF Iterates
            THEN LooperEnds
            ELSE task' = "done" /\ UNCHANGED <<connected, relayDone>>
       ELSE connected' = TRUE /\ task' = "suspended" /\ UNCHANGED relayDone
    /\ UNCHANGED <<mode, done, told, q, fut, cancel, outs>>

Stop == task \in {"scheduled", "suspended"}

Cancelled ==
    /\ cancel
    /\ Stop
    /\ LooperEnds
    /\ UNCHANGED <<mode, done, told, q, fut, cancel, from, outs>>

\* "what, args = await q.get()" with something in the queue; a task that does not
\* have to wait does not see that it was cancelled.
Get ==
    /\ Iterates
    /\ q # <<>>
    /\ task = "looping" \/ (task = "suspended" /\ ~cancel)
    /\ q' = Tail(q)
    /\ IF Head(q) = END
       THEN LooperEnds /\ UNCHANGED outs
       ELSE /\ outs' = Append(outs, Head(q))
            /\ task' = "emitting"
            /\ connected' = IF told[Head(q)] = "error" THEN FALSE ELSE connected
            /\ UNCHANGED relayDone
    /\ UNCHANGED <<mode, done, told, fut, cancel, from>>

\* The listeners of the value return, or those of the error, after which _looper
\* is through; Wait emits an error, then no value, and ends.
IsError(n) == IF n \in Nat \ {0} THEN told[n] = "error" ELSE n = None
Raised == IsError(Last(outs))

Emitted ==
    /\ task = "emitting"
    /\ IF Iterates
       THEN IF Raised THEN LooperEnds ELSE task' = "looping" /\ UNCHANGED <<connected, relayDone>>
       ELSE IF Raised
            THEN UNCHANGED <<task, connected, relayDone>>
            ELSE task' = "over" /\ relayDone' = TRUE /\ UNCHANGED connected
    /\ outs' = IF ~Iterates /\ Raised THEN Append(outs, 0) ELSE outs
    /\ UNCHANGED <<mode, done, told, q, fut, cancel, from>>

Suspend ==
    /\ task = "looping"
    /\ q = <<>>
    /\ task' = "suspended"
    /\ UNCHANGED <<mode, done, told, connected, q, fut, cancel, relayDone, from, outs>>

\* The future is set: on_future_done disconnects, the task of Wait has its result.
Resolved ==
    /\ task = "suspended"
    /\ fut # None
    /\ ~cancel
    /\ connected' = FALSE
    /\ task' = "done"
    /\ UNCHANGED <<mode, done, told, q, fut, cancel, relayDone, from, outs>>

\* Wait._on_task_done; without a future the event had ended: a ValueError.
WaitEmits ==
    /\ task = "done"
    /\ task' = "emitting"
    /\ outs' = Append(outs, fut)
    /\ UNCHANGED <<mode, done, told, connected, q, fut, cancel, relayDone, from>>

LoopStep == Start \/ Cancelled \/ Get \/ Emitted \/ Suspend \/ Resolved \/ WaitEmits

Next ==
    \/ \E what \in {"value", "error"} : EventTells(what)
    \/ EventEnds
    \/ Cancel
    \/ LoopStep

Spec == Init /\ [][Next]_vars
-----------------------------------------------------------------------------
\* What the event told since the listeners connected, up to the first error.
Heard == SubSeq([n \in DOMAIN told |-> n], from + 1, Len(told))

\* aiter yields all that the event emits while it iterates, in order and once,
\* up to the first error, which it raises; await gives the first of it.
YieldsAll ==
    /\ mode = "aiter" =>
          /\ IsPrefix(outs, Heard)
          /\ \A i \in DOMAIN outs : i < Len(outs) => ~IsError(outs[i])
          /\ connected => outs \o Keep(q, Nat \ {END}) = Heard
    /\ mode = "await" /\ outs # <<>> /\ outs[1] # None => outs[1] = Heard[1]

\* With skip_to_last at most one value waits, the latest one, and values come in
\* order.
SkipsToLast ==
    mode = "last" =>
        /\ \A i, j \in DOMAIN outs : i < j => outs[i] < outs[j]
        /\ connected => \A n \in ToSet(q) \ {END} : told[n] = "value" =>
              \A k \in n + 1 .. Len(told) : told[k] = "error"

\* "raise the first error that reaches them": no value that came after an error
\* comes out of the iteration.
FirstErrorRaised ==
    Iterates => \A i \in DOMAIN outs, k \in from + 1 .. Len(told) :
                    told[k] = "error" => outs[i] <= k

\* The end of the event, a cancel or what was awaited ends the relay, and one that
\* has ended listens to the event no more.
LetGo ==
    /\ (Iterates /\ done) \/ fut # None \/ cancel => relayDone
    /\ relayDone => ~connected
=============================================================================
