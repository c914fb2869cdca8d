------------------------------ MODULE Threads ------------------------------
(***************************************************************************)
(* emit_threadsafe and the choice of the event loop: a worker thread looks *)
(* up the loop that the main thread last used and hands its emit over to   *)
(* it, while the main thread makes, sets, runs and closes loops.  Workers  *)
(* may have loops of their own.                                            *)
(*                                                                         *)
(* Left out: a loop that is set for two threads.                           *)
(***************************************************************************)
EXTENDS Naturals, Sequences, SequencesExt

CONSTANTS
    Worker,      \* threads other than the main thread
    None,
    MaxLoops,    \* bound: loops that are made
    MaxCalls     \* bound: calls of emit_threadsafe by each worker

Main == "main"
Thread == Worker \cup {Main}
Loop == 1 .. MaxLoops

VARIABLES
    owner,       \* the thread that each loop was made by, None if it was not
    closed,      \* the loops that have been closed
    current,     \* the loop that is set for each thread
    recorded,    \* _main_thread.loop
    runs,        \* the loop that the main thread is running
    used,        \* ... and eventkit has been used in it
    looked,      \* the loop that a call of emit_threadsafe has looked up
    fate,        \* what became of each worker's calls: "handed", "refused", "dropped"
                 \* with a closed loop, "emitted"
    ready,       \* the emits that each loop has scheduled
    emitted      \* history: the emits in the main thread

vars == <<owner, closed, current, recorded, runs, used, looked, fate, ready, emitted>>
-----------------------------------------------------------------------------
Init ==
    /\ owner = [l \in Loop |-> None]
    /\ closed = {}
    /\ current = [t \in Thread |-> None]
    /\ recorded = None
    /\ runs = None
    /\ used = FALSE
    /\ looked = [w \in Worker |-> None]
    /\ fate = [w \in Worker |-> <<>>]
    /\ ready = [l \in Loop |-> <<>>]
    /\ emitted = <<>>

Unmade == {l \in Loop : owner[l] = None}
Usable(l) == l # None /\ l \notin closed

\* A new loop for the thread, which is set for it.
Make(t, l) == owner' = [owner EXCEPT ![l] = t] /\ current' = [current EXCEPT ![t] = l]

\* Only the main thread's loop is recorded.
Records_Anyone(t, l) == l
Records(t, l) == IF t = Main THEN l ELSE recorded

\* get_event_loop, in any operation of eventkit: the running loop, the one that is
\* set unless it is closed, else a new one.
GetEventLoop(t) ==
    /\ \/ t = Main /\ runs # None /\ recorded' = Records(t, runs) /\ used' = TRUE
          /\ UNCHANGED <<owner, current>>
       \/ (t = Main => runs = None) /\ Usable(current[t])
          /\ recorded' = Records(t, current[t]) /\ UNCHANGED <<owner, current, used>>
       \/ (t = Main => runs = None) /\ ~Usable(current[t])
          /\ \E l \in Unmade :
                /\ \A k \in Unmade : l <= k
                /\ Make(t, l)
                /\ recorded' = Records(t, l)
          /\ UNCHANGED used
    /\ UNCHANGED <<closed, runs, looked, fate, ready, emitted>>

\* The application: a new loop, set or not; a run of a loop; its end; a close.
NewLoop(set) ==
    /\ runs = None
    /\ \E l \in Unmade :
          /\ \A k \in Unmade : l <= k
          /\ IF set THEN Make(Main, l)
             ELSE owner' = [owner EXCEPT ![l] = Main] /\ UNCHANGED current
    /\ UNCHANGED <<closed, recorded, runs, used, looked, fate, ready, emitted>>

Start(l) ==
    /\ runs = None
    /\ owner[l] = Main
    /\ Usable(l)
    /\ runs' = l
    /\ used' = FALSE
    /\ UNCHANGED <<owner, closed, current, recorded, looked, fate, ready, emitted>>

Stop ==
    /\ runs # None
    /\ runs' = None
    /\ used' = FALSE
    /\ UNCHANGED <<owner, closed, current, recorded, looked, fate, ready, emitted>>

\* What a loop has scheduled is lost when it is closed.
Become(calls, what) ==
    [w \in Worker |-> [n \in DOMAIN fate[w] |-> IF <<w, n>> \in calls THEN what ELSE fate[w][n]]]

Close(l) ==
    /\ owner[l] = Main
    /\ Usable(l)
    /\ runs # l
    /\ closed' = closed \cup {l}
    /\ fate' = Become(ToSet(ready[l]), "dropped")
    /\ ready' = [ready EXCEPT ![l] = <<>>]
    /\ UNCHANGED <<owner, current, recorded, runs, used, looked, emitted>>

\* main_thread_loop in a worker: refused without a loop that is open.
Called(w, what) == fate' = [fate EXCEPT ![w] = Append(@, what)]

Look(w) ==
    /\ looked[w] = None
    /\ Len(fate[w]) < MaxCalls
    /\ IF Usable(recorded)
       THEN looked' = [looked EXCEPT ![w] = recorded] /\ UNCHANGED fate
       ELSE Called(w, "refused") /\ UNCHANGED looked
    /\ UNCHANGED <<owner, closed, current, recorded, runs, used, ready, emitted>>

\* call_soon_threadsafe, which refuses a closed loop.
HandOver(w) ==
    /\ looked[w] # None
    /\ LET l == looked[w]
       IN  IF l \in closed
           THEN Called(w, "refused") /\ UNCHANGED ready
           ELSE /\ Called(w, "handed")
                /\ ready' = [ready EXCEPT ![l] = Append(@, <<w, Len(fate[w]) + 1>>)]
    /\ looked' = [looked EXCEPT ![w] = None]
    /\ UNCHANGED <<owner, closed, current, recorded, runs, used, emitted>>

\* The loop that runs calls emit.
Turn ==
    /\ runs # None
    /\ ready[runs] # <<>>
    /\ ready' = [ready EXCEPT ![runs] = Tail(@)]
    /\ fate' = Become({Head(ready[runs])}, "emitted")
    /\ emitted' = Append(emitted, Head(ready[runs]))
    /\ UNCHANGED <<owner, closed, current, recorded, runs, used, looked>>

Next ==
    \/ \E t \in Thread : GetEventLoop(t)
    \/ \E set \in BOOLEAN : NewLoop(set)
    \/ \E l \in Loop : Start(l) \/ Close(l)
    \/ Stop
    \/ \E w \in Worker : Look(w) \/ HandOver(w)
    \/ Turn
-----------------------------------------------------------------------------
\* The emits of a worker that went to one loop come out in order and once, in the
\* main thread only; none is given up but with a loop that was closed, or the
\* worker is told.  A loop that the main thread runs and uses is the one
\* that workers find.
HandedOver ==
    /\ IsInjective(emitted)
    /\ \A l \in Loop : ready[l] # <<>> => owner[l] = Main /\ l \notin closed
    /\ \A w \in Worker, n \in 1 .. MaxCalls : n \in DOMAIN fate[w] =>
          /\ fate[w][n] = "emitted" <=> <<w, n>> \in ToSet(emitted)
          /\ fate[w][n] = "handed" <=> \E l \in Loop : <<w, n>> \in ToSet(ready[l])
    /\ \A l \in Loop : \A i, j \in DOMAIN ready[l] :
          i < j /\ ready[l][i][1] = ready[l][j][1] => ready[l][i][2] < ready[l][j][2]
    /\ used => recorded = runs
=============================================================================
