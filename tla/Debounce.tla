------------------------------ MODULE Debounce -----------------------------
(***************************************************************************)
(* The Debounce operator.  With onFirst it emits the first value of a      *)
(* burst at once, else the last one when the source has been silent for    *)
(* the interval.  Listeners may be slow and may feed or end the source.    *)
(***************************************************************************)
EXTENDS Naturals, Sequences

CONSTANTS
    Interval,        \* Debounce._interval
    Behaviours,      \* what listeners may do: sets of "feed" (make the source
                     \* emit or end) and "slow" (time passes)
    None,
    MaxItems,        \* bound: values of the source
    Horizon          \* bound: when the source falls silent

VARIABLES
    onFirst,    \* Debounce._on_first
    listeners,  \* what the listeners of this operator do, fixed
    now,        \* the clock of the loop
    attached,   \* Debounce._source is not None
    ended,      \* Debounce._done
    times,      \* history: when the values of the source came
    handle,     \* Debounce._handle: the value that waits and its deadline
    emitting,   \* an emit is in progress: "no", "first" or "delayed" (nothing
                \* follows a "first" emit, so that its nesting is not kept)
    outs        \* history: what was emitted, when, and whether after the end

fixed == <<onFirst, listeners>>
vars == <<fixed, now, attached, ended, times, handle, emitting, outs>>

LastTick == Horizon + Interval
InUserCode == emitting # "no" => "feed" \in listeners
-----------------------------------------------------------------------------
Init ==
    /\ onFirst \in BOOLEAN
    /\ listeners \in Behaviours
    /\ now = 0
    /\ attached = TRUE
    /\ ended = FALSE
    /\ times = <<>>
    /\ handle = None
    /\ emitting = "no"
    /\ outs = <<>>

Emitted(id) == Append(outs, [id |-> id, at |-> now, late |-> ended])

\* on_source: _last_time is the time of the last value, -inf before the first.
LongSilence == times # <<>> => now - times[Len(times)] >= Interval

\* The waiting value is cancelled and this one waits instead.
Wait_KeepsTimer(id) == IF handle # None THEN handle ELSE [id |-> id, due |-> now + Interval]
Wait(id) == [id |-> id, due |-> now + Interval]

Arrive ==
    /\ InUserCode
    /\ attached
    /\ now <= Horizon
    /\ Len(times) < MaxItems
    /\ times' = Append(times, now)
    /\ IF onFirst
       THEN /\ UNCHANGED handle
            /\ IF LongSilence
               THEN emitting' = "first" /\ outs' = Emitted(Len(times) + 1)
               ELSE UNCHANGED <<emitting, outs>>
       ELSE /\ handle' = Wait(Len(times) + 1)
            /\ UNCHANGED <<emitting, outs>>
    /\ UNCHANGED <<fixed, now, attached, ended>>

\* _delayed_emit, up to its listeners.
Fire ==
    /\ emitting = "no"
    /\ handle # None
    /\ handle.due <= now
    /\ handle' = None
    /\ emitting' = "delayed"
    /\ outs' = Emitted(handle.id)
    /\ UNCHANGED <<fixed, now, attached, ended, times>>

\* The listeners return; a delayed emit then ends an operator without source.
EndsAfterEmit == emitting = "delayed" /\ ~attached

Return ==
    /\ emitting # "no"
    /\ emitting' = "no"
    /\ ended' = (ended \/ EndsAfterEmit)
    /\ UNCHANGED <<fixed, now, attached, times, handle, outs>>

\* on_source_done waits for the value that waits.
EndsAtOnce == handle = None

SourceDone ==
    /\ InUserCode
    /\ attached
    /\ attached' = FALSE
    /\ ended' = EndsAtOnce
    /\ UNCHANGED <<fixed, now, times, handle, emitting, outs>>

\* Time passes: the loop is not late, a slow listener may be.
Tick ==
    /\ now < LastTick
    /\ IF emitting = "no" THEN handle # None => handle.due > now ELSE "slow" \in listeners
    /\ now' = now + 1
    /\ UNCHANGED <<fixed, attached, ended, times, handle, emitting, outs>>

Next == Arrive \/ Fire \/ Return \/ SourceDone \/ Tick

Spec == Init /\ [][Next]_vars
-----------------------------------------------------------------------------
\* Which values the operator owes: "the first value of a burst or the last one".
\* A burst ends with a silence of one interval.
FirstOfBurst(i) == i > 1 => times[i] - times[i - 1] >= Interval
SilenceAfter(i) == i < Len(times) => times[i + 1] - times[i] >= Interval

\* With onFirst the values emitted are the first ones of the bursts, all of them
\* and at once, however the listeners feed the source.
FirstsOnly ==
    onFirst =>
        /\ {outs[k].id : k \in DOMAIN outs} = {i \in DOMAIN times : FirstOfBurst(i)}
        /\ \A k \in DOMAIN outs : outs[k].at = times[outs[k].id]

\* A listener that takes its time and then makes the source emit replaces a value
\* that is overdue: "the last of a burst" then goes missing.
Overdue == {"feed", "slow"} \subseteq listeners

\* Else they are the last ones, one interval after they came: none from the
\* middle of a burst, none twice, and none is missing that was followed by more
\* than an interval of silence (at exactly an interval either may come first).
LastsOnly ==
    ~onFirst =>
        /\ \A k \in DOMAIN outs :
              /\ SilenceAfter(outs[k].id)
              /\ outs[k].at >= times[outs[k].id] + Interval
              /\ \A n \in DOMAIN outs : n < k => outs[n].id < outs[k].id
        /\ emitting = "no" /\ ~Overdue =>
              \A i \in DOMAIN times :
                  (IF i < Len(times) THEN times[i + 1] ELSE now) > times[i] + Interval =>
                      \E k \in DOMAIN outs : outs[k].id = i

\* "An operator emits nothing afterwards. A pending Debounce value is delivered
\* first": the end never overtakes the value that waits.
NothingAfterEnd ==
    /\ \A k \in DOMAIN outs : ~outs[k].late
    /\ ended => handle = None

\* ... when no listener feeds the source.
NothingAfterEndUnfed == "feed" \notin listeners => NothingAfterEnd

\* After the source has ended the operator ends too.
Settled == attached \/ ended
=============================================================================
