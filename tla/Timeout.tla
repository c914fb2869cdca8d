------------------------------ MODULE Timeout ------------------------------
(***************************************************************************)
(* The Timeout operator: passes values on and ends with an empty emit when *)
(* the source has been silent for the timeout.  A value does not move the  *)
(* timer; the timer, when it fires, looks whether a value came and is set  *)
(* again.  Listeners may be slow and may make the source emit or end.      *)
(* Whoever has the operator may detach it and attach it to a source, also  *)
(* after its end, which nothing in set_source looks at.                    *)
(***************************************************************************)
EXTENDS Naturals, Sequences

CONSTANTS
    Limit,           \* Timeout._timeout
    None,
    MaxItems,        \* bound: values of the source
    MaxDepth,        \* bound: emits in progress
    Horizon          \* bound: when a live source falls silent

VARIABLES
    now,        \* the clock of the loop
    last,       \* _last_time
    source,     \* Op._source: "none" (not attached) or "live"
    ended,      \* Timeout._done
    handle,     \* _handle: the deadline of its timer
    timer,      \* the timer the loop has
    emits,      \* the emits in progress: "value" or "expired", innermost last
    heard,      \* history: values that the operator got
    expired,    \* history: when the empty emit was made
    silentSince,   \* history: the last value before that, or the creation
    again,      \* history: attached to a live source after the expiry or the end
    slow        \* time passes inside listeners, fixed

vars == <<now, last, source, ended, handle, timer, emits, heard, expired, silentSince, again, slow>>

LastTick == Horizon + 2 * Limit
Innermost == emits[Len(emits)]
Outer == SubSeq(emits, 1, Len(emits) - 1)
-----------------------------------------------------------------------------
CallAt(t) == handle' = t /\ timer' = t

\* Made with a live source or with none yet: the timer runs at once.  Made with one
\* that has ended, the operator ends without it.
Init ==
    /\ now = 0
    /\ last = 0
    /\ source \in {"none", "live"}
    /\ ended \in BOOLEAN
    /\ ended => source = "none"
    /\ handle = IF ended THEN None ELSE Limit
    /\ timer = handle
    /\ emits = <<>>
    /\ heard = 0
    /\ expired = None
    /\ silentSince = None
    /\ again = FALSE
    /\ slow \in BOOLEAN

\* on_source_done cancels the timer.
CancelTimer == handle' = None /\ timer' = None

Over == ended \/ expired # None

\* set_source later, connect(op): a live source, or one that has ended already, for
\* which on_source_done is called.
SetSource(live) ==
    /\ source = "none"
    /\ IF live
       THEN /\ source' = "live"
            /\ again' = (again \/ Over)
            /\ UNCHANGED <<ended, handle, timer>>
       ELSE /\ ended' = TRUE
            /\ CancelTimer
            /\ UNCHANGED <<source, again>>
    /\ UNCHANGED <<now, last, emits, heard, expired, silentSince, slow>>

\* disconnect(op), its inverse.
Detach ==
    /\ source = "live"
    /\ source' = "none"
    /\ UNCHANGED <<now, last, ended, handle, timer, emits, heard, expired, silentSince, again, slow>>

\* on_source: the time is taken before the listeners run.
Arrive ==
    /\ source = "live"
    /\ now <= Horizon
    /\ heard < MaxItems
    /\ Len(emits) < MaxDepth
    /\ heard' = heard + 1
    /\ last' = now
    /\ emits' = Append(emits, "value")
    /\ UNCHANGED <<now, source, ended, handle, timer, expired, silentSince, again, slow>>

SourceDone ==
    /\ source = "live"
    /\ source' = "none"
    /\ ended' = TRUE
    /\ CancelTimer
    /\ UNCHANGED <<now, last, emits, heard, expired, silentSince, again, slow>>

\* _on_timer: expired unless a value came after the timer was set.
Silent == last + Limit <= handle

Deadline_FromNow == now + Limit
Deadline == last + Limit

AfterExpiry_Attached == source
AfterExpiry == "none"

Fire ==
    /\ emits = <<>>
    /\ timer # None
    /\ timer <= now
    /\ IF ended \/ handle = None
       THEN timer' = None /\ UNCHANGED <<source, handle, emits, expired, silentSince>>
       ELSE IF Silent
            THEN /\ source' = AfterExpiry
                 /\ expired' = now
                 /\ silentSince' = last
                 /\ emits' = <<"expired">>
                 /\ timer' = None
                 /\ UNCHANGED handle
            ELSE CallAt(Deadline) /\ UNCHANGED <<source, emits, expired, silentSince>>
    /\ UNCHANGED <<now, last, ended, heard, again, slow>>

\* Listeners return; after the empty emit the operator ends.
EndsAfter(e) == e = "expired"

Return ==
    /\ emits # <<>>
    /\ emits' = Outer
    /\ ended' = (ended \/ EndsAfter(Innermost))
    /\ UNCHANGED <<now, last, source, handle, timer, heard, expired, silentSince, again, slow>>

Tick ==
    /\ now < LastTick
    /\ IF emits = <<>> THEN timer # None => timer > now ELSE slow
    /\ now' = now + 1
    /\ UNCHANGED <<last, source, ended, handle, timer, emits, heard, expired, silentSince, again, slow>>

Next == (\E live \in BOOLEAN : SetSource(live)) \/ Detach \/ Arrive \/ SourceDone \/ Fire \/ Return \/ Tick

Spec == Init /\ [][Next]_vars
-----------------------------------------------------------------------------
\* "Expired unless a value arrived after this timer was set": the empty emit
\* comes after a full timeout of silence, and with listeners that take no time
\* exactly then, although values leave the timer alone.
ExpiresInTime ==
    expired # None =>
        IF slow THEN expired >= silentSince + Limit ELSE expired = silentSince + Limit

\* An operator that lives has its one timer, never later than the deadline of
\* the last value; one that has ended leaves no timer on the loop, and gets none
\* when it is attached again.
OneTimer ==
    /\ ~Over => timer # None /\ handle = timer /\ timer <= last + Limit
    /\ ended => timer = None

\* The operator expires at most once and never after its end, and after either it
\* hears nothing more, unless somebody attaches it again.
OneEnd ==
    /\ Over => expired' = expired
    /\ Over /\ ~again => heard' = heard

\* A source that falls silent for good, ends or never comes ends the operator.
Settled == ended
=============================================================================
