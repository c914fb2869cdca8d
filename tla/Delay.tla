------------------------------- MODULE Delay -------------------------------
(***************************************************************************)
(* The Delay operator: one queue of what arrived, in arrival order, and    *)
(* one loop timer for its head.  Values, errors and the end of the source  *)
(* all go through the queue.  The callbacks of a release are listeners:    *)
(* they may be slow, and they may make the source emit.                    *)
(*                                                                         *)
(* Time is the loop's clock.  It passes while the loop waits, up to the    *)
(* next timer, and while a slow listener runs.                             *)
(***************************************************************************)
EXTENDS Naturals, Sequences

CONSTANTS
    Wait,            \* Delay._delay
    Behaviours,      \* what listeners may do: sets of "feed" (make the source
                     \* emit) and "slow" (time passes)
    None,
    MaxItems,        \* bound: what the source emits
    Horizon          \* bound: when the source falls silent

ASSUME WaitAssumption == Wait \in Nat
ASSUME BoundAssumption == MaxItems \in Nat /\ Horizon \in Nat
ASSUME BehaviourAssumption == Behaviours \subseteq SUBSET {"feed", "slow"}
ASSUME NoneAssumption == None \notin Nat

Kind == {"value", "error", "done"}

VARIABLES
    now,        \* the clock of the loop
    attached,   \* the operator listens to its source
    sent,       \* history: what the source emitted, and when
    pending,    \* Delay._pending: the number of the item and its deadline
    handle,     \* Delay._handle: the deadline of the timer it stands for
    timer,      \* the timer the loop really has
    limit,      \* the "limit" of a _release that is running
    outs,       \* history: what was released, and when
    listeners   \* what the listeners of this operator do, fixed

vars == <<now, attached, sent, pending, handle, timer, limit, outs, listeners>>

Time == 0 .. Horizon + Wait
Item == [id : 1 .. MaxItems, due : Time]
Later(a, b) == IF a >= b THEN a ELSE b

\* User code runs: the loop is waiting, or a callback of _release is running.
InUserCode == limit # None => "feed" \in listeners
-----------------------------------------------------------------------------
Init ==
    /\ now = 0
    /\ attached = TRUE
    /\ sent = <<>>
    /\ pending = <<>>
    /\ handle = None
    /\ timer = None
    /\ limit = None
    /\ outs = <<>>
    /\ listeners \in Behaviours

\* The deadline of what arrives now.
Deadline_Accumulated(kind) ==
    (IF pending = <<>> THEN now ELSE pending[Len(pending)].due) + Wait
Deadline(kind) == now + Wait

\* call_at(pending[0][0], self._release)
CallAt(q) == handle' = Head(q).due /\ timer' = Head(q).due

\* on_source, on_source_error, on_source_done and _schedule.
Arrive(kind) ==
    /\ InUserCode
    /\ attached
    /\ now <= Horizon
    /\ Len(sent) < MaxItems
    /\ sent' = Append(sent, [kind |-> kind, at |-> now])
    /\ pending' = Append(pending, [id |-> Len(sent) + 1, due |-> Deadline(kind)])
    /\ IF handle = None THEN CallAt(pending') ELSE UNCHANGED <<handle, timer>>
    /\ attached' = (kind # "done")
    /\ UNCHANGED <<now, limit, outs, listeners>>

\* popleft and callback(*args), which hands the item to listeners.
Release_Pop ==
    /\ outs' = Append(outs, [id |-> pending[Len(pending)].id, at |-> now])
    /\ pending' = SubSeq(pending, 1, Len(pending) - 1)
Release ==
    /\ outs' = Append(outs, [id |-> Head(pending).id, at |-> now])
    /\ pending' = Tail(pending)

\* _release up to its first callback.
Fire ==
    /\ limit = None
    /\ timer # None
    /\ timer <= now
    /\ pending # <<>>
    /\ timer' = None
    /\ handle' = None
    /\ limit' = Later(Head(pending).due, now)
    /\ Release
    /\ UNCHANGED <<now, attached, sent, listeners>>

\* _release finds nothing: popleft raises IndexError, the handle stays.
FireEmpty ==
    /\ limit = None
    /\ timer # None
    /\ timer <= now
    /\ pending = <<>>
    /\ timer' = None
    /\ UNCHANGED <<now, attached, sent, pending, handle, limit, outs, listeners>>

\* "while pending and pending[0][0] <= limit"
DueNow(q) == q # <<>> /\ Head(q).due <= limit

ReleaseMore ==
    /\ limit # None
    /\ DueNow(pending)
    /\ Release
    /\ UNCHANGED <<now, attached, sent, handle, timer, limit, listeners>>

\* The finally clause.
Rearm_Never == UNCHANGED <<handle, timer>>
Rearm == IF pending # <<>> /\ handle = None
         THEN CallAt(pending) ELSE UNCHANGED <<handle, timer>>

Finish ==
    /\ limit # None
    /\ ~DueNow(pending)
    /\ limit' = None
    /\ Rearm
    /\ UNCHANGED <<now, attached, sent, pending, outs, listeners>>

\* Time passes: the loop is not late, a slow listener may be.
Tick ==
    /\ now < Horizon + Wait
    /\ IF limit = None THEN timer # None => timer > now ELSE "slow" \in listeners
    /\ now' = now + 1
    /\ UNCHANGED <<attached, sent, pending, handle, timer, limit, outs, listeners>>

LoopStep == Fire \/ FireEmpty \/ ReleaseMore \/ Finish

Next == (\E kind \in Kind : Arrive(kind)) \/ LoopStep \/ Tick

Spec == Init /\ [][Next]_vars

\* The loop runs its timers and its callbacks return; the clock goes on.
FairSpec == Spec /\ WF_vars(LoopStep) /\ WF_vars(Tick)
-----------------------------------------------------------------------------
\* The queue, the clock and the histories have their types.
TypeOK ==
    /\ now \in Time
    /\ attached \in BOOLEAN
    /\ sent \in Seq([kind : Kind, at : Time]) /\ Len(sent) <= MaxItems
    /\ pending \in Seq(Item)
    /\ handle \in Time \cup {None}
    /\ timer \in Time \cup {None}
    /\ limit \in Time \cup {None}
    /\ outs \in Seq([id : 1 .. MaxItems, at : Time])
    /\ listeners \in Behaviours

\* Nothing is reordered, lost or repeated: what was released followed by what
\* is pending is what the source sent (errors and the end included).
InArrivalOrder ==
    /\ Len(outs) + Len(pending) = Len(sent)
    /\ \A i \in DOMAIN outs : outs[i].id = i
    /\ \A i \in DOMAIN pending : pending[i].id = Len(outs) + i

\* The rest holds as long as no listener feeds the source during a release.
Fed == "feed" \in listeners

\* "Time-shift all source events by a delay": nothing comes out before its time,
\* however many items one release lets go, and with listeners that take no time
\* it comes out exactly then.
OnTime ==
    ~Fed =>
        \A i \in DOMAIN outs :
            LET due == sent[outs[i].id].at + Wait
            IN  IF "slow" \in listeners THEN outs[i].at >= due ELSE outs[i].at = due

\* While the loop waits there is a timer exactly when something is pending, and
\* it is set for the head: "the one timer, set for the head's deadline".
OneTimer ==
    ~Fed /\ limit = None =>
        IF pending = <<>> THEN handle = None /\ timer = None
        ELSE handle = Head(pending).due /\ timer = handle

\* All that was sent comes out in the end, the end of the source last.
AllReleased == \A n \in 1 .. MaxItems : (Len(sent) >= n) ~> (Len(outs) >= n)

\* ... when no listener feeds the source.
AllReleasedUnfed == ~Fed => AllReleased
=============================================================================
