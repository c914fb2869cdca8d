----------------------------- MODULE MCTimers ------------------------------
(* Limits of Throttle and timed sources for small instances of Timers. *)
EXTENDS Timers

\* At most two per two ticks, the cost of one value reaches it alone; and limits
\* that set_limit tightens and lifts it to.
MCLimits == {[maximum |-> 2, interval |-> 2, inclusive |-> TRUE],
             [maximum |-> 1, interval |-> 3, inclusive |-> TRUE],
             [maximum |-> 0, interval |-> 1, inclusive |-> FALSE]}

\* Each class of source: an interval, times that go back, an end before, between
\* and after time points, starts in the past and to come, gaps and what follows
\* the bar of a marble.
MCSources ==
    {[class |-> "sequence", values |-> <<1, 2, 3>>, interval |-> i] : i \in {0, 2}}
    \cup {[class |-> "times", values |-> <<1, 2, 3>>, times |-> <<1, 3, 2, 5>>],
          [class |-> "marble", values |-> <<"x", "-", "y", "|", "z">>, interval |-> 1],
          [class |-> "marble", values |-> <<"-", "x", "-">>, interval |-> 2]}
    \cup {[class |-> "timer", interval |-> 2, count |-> c] : c \in {None, 0, 3}}
    \cup {[class |-> "timerange", relative |-> r, start |-> s, end |-> e, step |-> 3] :
             r \in BOOLEAN, s \in {0, 2, 4}, e \in {None, 1, 7}}
=============================================================================
