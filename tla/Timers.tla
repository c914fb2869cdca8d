------------------------------- MODULE Timers ------------------------------
(***************************************************************************)
(* What keeps one timer on the loop: the operators Timeout, Debounce and   *)
(* Throttle of ops/timing.py, each on its own source, and the timed        *)
(* sources of ops/create.py.                                               *)
(***************************************************************************)
EXTENDS Naturals, Sequences

CONSTANTS
    Ops,                             \* out of AllOps
    Limit,                           \* of Timeout
    Interval,                        \* of Debounce
    Costs, Limits,                   \* of Throttle
    Sources,                         \* of TimedSource
    Behaviours,                      \* what listeners may do, of Throttle and others
    ThrottleBehaviours,
    None,
    MaxExpiring, MaxBursts, MaxThrottled,   \* bounds: values of the source
    MaxTurns,                        \* bound: values of a timed source without end
    MaxDepth,                        \* bound: emits in progress
    Horizon, HorizonThrottled,       \* bounds: silence of the source
    LateStart, End                   \* bounds: start of a timed source, the clock

AllOps == {"timeout", "debounce", "throttle", "timed"}

ASSUME OpsAssumption == Ops \subseteq AllOps
ASSUME TimesAssumption == {Limit, Interval} \subseteq Nat \ {0}
ASSUME CostsAssumption == Costs \subseteq Nat
ASSUME LimitsAssumption ==
    Limits \subseteq [maximum : Nat, interval : Nat \ {0}, inclusive : BOOLEAN]
ASSUME NoneAssumption == None \notin Nat
ASSUME HandleAssumption == None \notin [id : Nat, due : Nat]
ASSUME BehaviourAssumption == Behaviours \cup ThrottleBehaviours \subseteq SUBSET {"feed", "slow"}
ASSUME SourcesAssumption ==
    \A s \in Sources :
        /\ s.class \in {"sequence", "times", "timer", "timerange", "marble"}
        /\ s.class \in {"sequence", "times", "marble"} =>
              Len(s.values) \in Nat /\ DOMAIN s.values = 1 .. Len(s.values)
        /\ s.class \in {"sequence", "timer", "marble"} => s.interval \in Nat
        /\ s.class = "times" => s.times \in Seq(Nat)
        /\ s.class = "timer" => s.count \in Nat \cup {None}
        /\ s.class = "timerange" =>
              /\ s.relative \in BOOLEAN /\ s.start \in Nat
              /\ s.end \in Nat \cup {None} /\ s.step \in Nat \ {0}
ASSUME BoundAssumption ==
    /\ {MaxExpiring, MaxBursts, MaxThrottled, MaxTurns, MaxDepth} \subseteq Nat
    /\ {Horizon, HorizonThrottled, LateStart, End} \subseteq Nat /\ HorizonThrottled <= End

VARIABLES
    op,
    now, ended,                                                  \* of all
    last, source, handle, timer, emits, heard, expired, silentSince, again, slow,  \* of Timeout
    onFirst, listeners, attached, times, emitting, outs,         \* of Debounce
    steady, limit, q, window, throttling, calls, arrived, emitted, status,  \* of Throttle
    script, task, begun, point, turn, wake, gives                \* of TimedSource

Timeout == INSTANCE Timeout WITH MaxItems <- MaxExpiring
Debounce == INSTANCE Debounce WITH MaxItems <- MaxBursts
Throttle == INSTANCE Throttle WITH MaxItems <- MaxThrottled, Horizon <- HorizonThrottled,
                                 Behaviours <- ThrottleBehaviours
Timed == INSTANCE TimedSource WITH Horizon <- LateStart

\* What one operator has and the others have not; handle, timer, listeners and
\* attached are shared as now and ended are.
onlyTimeout == <<last, source, emits, heard, expired, silentSince, again, slow>>
onlyDebounce == <<onFirst, times, emitting, outs>>
onlyThrottle == <<steady, limit, q, window, throttling, calls, arrived, emitted, status>>
onlyTimed == <<script, task, begun, point, turn, wake, gives>>
vars == <<op, now, ended, handle, timer, listeners, attached,
          onlyTimeout, onlyDebounce, onlyThrottle, onlyTimed>>
-----------------------------------------------------------------------------
NoTimeout == /\ last = 0 /\ source = "none" /\ emits = <<>> /\ heard = 0
             /\ expired = None /\ silentSince = None /\ again = FALSE /\ slow = FALSE
NoDebounce == onFirst = FALSE /\ times = <<>> /\ emitting = "no" /\ outs = <<>>
NoThrottle == /\ steady = TRUE /\ limit = None /\ throttling = FALSE /\ arrived = 0
              /\ q = <<>> /\ window = <<>> /\ calls = <<>> /\ emitted = <<>> /\ status = <<>>
NoTimed == /\ script = None /\ task = "over" /\ begun = None /\ point = None
           /\ turn = 1 /\ wake = None /\ gives = <<>>

Init ==
    /\ op \in Ops
    /\ \/ op = "timeout" /\ Timeout!Init /\ NoDebounce /\ NoThrottle /\ NoTimed
                         /\ listeners = {} /\ attached = FALSE
       \/ op = "debounce" /\ Debounce!Init /\ NoTimeout /\ NoThrottle /\ NoTimed /\ timer = None
       \/ op = "throttle" /\ Throttle!Init /\ NoTimeout /\ NoDebounce /\ NoTimed /\ handle = None
       \/ op = "timed" /\ Timed!Init /\ NoTimeout /\ NoDebounce /\ NoThrottle
                       /\ handle = None /\ timer = None /\ attached = FALSE

Of(who) == op = who /\ UNCHANGED op
NotTimeout == UNCHANGED <<onlyDebounce, onlyThrottle, onlyTimed, listeners, attached>>
NotDebounce == UNCHANGED <<onlyTimeout, onlyThrottle, onlyTimed, timer>>
NotThrottle == UNCHANGED <<onlyTimeout, onlyDebounce, onlyTimed, handle>>
NotTimed == UNCHANGED <<onlyTimeout, onlyDebounce, onlyThrottle, handle, timer, attached>>

Next ==
    \/ Of("timeout") /\ Timeout!Next /\ NotTimeout
    \/ Of("debounce") /\ Debounce!Next /\ NotDebounce
    \/ Of("throttle") /\ Throttle!Next /\ NotThrottle
    \/ Of("timed") /\ Timed!Next /\ NotTimed

\* The loop runs its timers, listeners return, the clock goes on.
Steps ==
    \/ Of("timeout") /\ (Timeout!Fire \/ Timeout!Return) /\ NotTimeout
    \/ Of("debounce") /\ (Debounce!Fire \/ Debounce!Return) /\ NotDebounce
    \/ Of("throttle") /\ Throttle!Step /\ NotThrottle
    \/ Of("timed") /\ Timed!Step /\ NotTimed
Ticks ==
    \/ Of("timeout") /\ Timeout!Tick /\ NotTimeout
    \/ Of("debounce") /\ Debounce!Tick /\ NotDebounce
    \/ Of("throttle") /\ Throttle!Tick /\ NotThrottle
    \/ Of("timed") /\ Timed!Tick /\ NotTimed

Spec == Init /\ [][Next]_vars /\ WF_vars(Steps) /\ WF_vars(Ticks)
-----------------------------------------------------------------------------
\* Timeout expires after a full timeout of silence and in time, with one timer
\* on the loop while it lives and none afterwards (_on_timer, on_source_done).
ExpiresInTime == op = "timeout" => Timeout!ExpiresInTime /\ Timeout!OneTimer

\* Timeout ends once: it does not expire again, nor after its end, whatever it is
\* attached to later, and until then hears nothing more (_on_timer, set_source).
EndsOnce == [][op = "timeout" => Timeout!OneEnd]_vars

\* Debounce emits the firsts or the lasts of the bursts, as asked for, each in its
\* time, none twice and none left out but by listeners that are slow and feed the
\* source (on_source, _delayed_emit), and its end never overtakes the value that
\* waits, unless listeners feed the source (on_source_done).
BurstRule ==
    op = "debounce" => Debounce!FirstsOnly /\ Debounce!LastsOnly /\ Debounce!NothingAfterEndUnfed

\* Throttle keeps to a fixed limit (_try_emit).
RateLimit == op = "throttle" => Throttle!RateLimit

\* It drops and reorders nothing, and ends after the last value and at once then,
\* also when listeners feed the source (on_source, _try_emit).
NothingDropped == op = "throttle" => Throttle!InOrder /\ Throttle!EndsLast

\* A value waits only while it must, and its timer is set (_try_emit, set_limit).
WaitsForAReason == op = "throttle" => Throttle!WaitsForAReason

\* status_event alternates and agrees with the queue at rest (_try_emit).
StatusIsTrue == op = "throttle" => Throttle!StatusIsTrue

\* Timed sources come in their time, without a drift and without a gap
\* (Sequence, Timer, timerange).
OnSchedule == op = "timed" => Timed!OnSchedule

\* Each operator gives out what it owes and ends after its source; Timeout also
\* when its source falls silent (_on_timer, _on_retry, _delayed_emit): whatever
\* happens, it comes to that.
AllEnd ==
    []<>(/\ op = "timeout" => Timeout!Settled
         /\ op = "debounce" => Debounce!Settled
         /\ op = "throttle" => Throttle!Settled
         /\ op = "timed" => Timed!Settled)
=============================================================================
