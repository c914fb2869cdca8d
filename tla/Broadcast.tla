----------------------------- MODULE Broadcast -----------------------------
(***************************************************************************)
(* What an Event promises, whatever list, weak references and snapshots it *)
(* is built from: a channel has a bag of subscribers, an emit owes one     *)
(* call to each subscription of its beginning and pays every one whose     *)
(* object still exists, whatever the listeners do meanwhile.               *)
(***************************************************************************)
EXTENDS Naturals, Sequences

CONSTANTS Obj, None, Listener, Chan

VARIABLES
    subs,       \* subs[c][l]: subscriptions of listener l on channel c
    emitting,   \* the emits in progress, innermost last
    ended       \* the event has ended

bvars == <<subs, emitting, ended>>

Bag == [Listener -> Nat]
NoOne == [l \in Listener |-> 0]
Owes == [chan : Chan, owed : Bag, busy : Listener \cup {None}]

BTypeOK ==
    /\ subs \in [Chan -> Bag]
    /\ emitting \in Seq(Owes)
    /\ ended \in BOOLEAN

Innermost == emitting[Len(emitting)]
Outer == SubSeq(emitting, 1, Len(emitting) - 1)
UserRuns == emitting # <<>> => Innermost.busy # None
Begin(c) == Append(emitting, [chan |-> c, owed |-> subs[c], busy |-> None])
Idle(e) == [e EXCEPT ![Len(e)].busy = None]

BInit ==
    /\ subs = [c \in Chan |-> NoOne]
    /\ emitting = <<>>
    /\ ended = FALSE

\* Of the named listeners one subscription is added, removed or all removed.
Subscribe(who) ==
    /\ UserRuns
    /\ subs' = [c \in Chan |-> [l \in Listener |->
                 IF c \in DOMAIN who /\ who[c] = l THEN subs[c][l] + 1
                 ELSE subs[c][l]]]
    /\ UNCHANGED <<emitting, ended>>

Unsubscribe(who, every) ==
    /\ UserRuns
    /\ subs' = [c \in Chan |-> [l \in Listener |->
                 IF c \in DOMAIN who /\ who[c] = l /\ subs[c][l] > 0
                 THEN IF every THEN 0 ELSE subs[c][l] - 1
                 ELSE subs[c][l]]]
    /\ UNCHANGED <<emitting, ended>>

Forget(bag, o) == [l \in Listener |-> IF l.obj = o THEN 0 ELSE bag[l]]

UnsubscribeObj(o) ==
    /\ UserRuns
    /\ subs' = [c \in Chan |-> Forget(subs[c], o)]
    /\ UNCHANGED <<emitting, ended>>

UnsubscribeAll ==
    /\ UserRuns
    /\ subs' = [subs EXCEPT !["value"] = NoOne]
    /\ UNCHANGED <<emitting, ended>>

\* A collected object is called no more, not even by an emit in progress.
Vanish(o) ==
    /\ subs' = [c \in Chan |-> Forget(subs[c], o)]
    /\ emitting' = [i \in DOMAIN emitting |->
                      [emitting[i] EXCEPT !.owed = Forget(@, o)]]
    /\ UNCHANGED ended

BeginEmit(c) ==
    /\ UserRuns
    /\ c # "done"
    /\ emitting' = Begin(c)
    /\ UNCHANGED <<subs, ended>>

\* The event ends once, and its done channel is emitted then and only then.
End ==
    /\ UserRuns
    /\ ~ended
    /\ ended' = TRUE
    /\ emitting' \in {Begin("done")} \cup
                     (IF subs["done"] = NoOne THEN {emitting} ELSE {})
    /\ UNCHANGED subs

Paying(e, l) ==
    [chan |-> e.chan, owed |-> [e.owed EXCEPT ![l] = @ - 1], busy |-> l]

Deliver(l) ==
    /\ emitting # <<>>
    /\ Innermost.busy = None
    /\ Innermost.owed[l] > 0
    /\ emitting' = [emitting EXCEPT ![Len(emitting)] = Paying(Innermost, l)]
    /\ UNCHANGED <<subs, ended>>

\* The listener is finished, or has failed and its error is emitted first.
Finish ==
    /\ emitting # <<>>
    /\ Innermost.busy # None
    /\ \/ emitting' = Idle(emitting)
       \/ Innermost.chan = "value" /\ emitting' = Begin("error")
    /\ UNCHANGED <<subs, ended>>

\* Nothing is owed any more: back to the listener that emitted (or, after the
\* error of a failed listener, to the emit that called it).
Paid ==
    /\ emitting # <<>>
    /\ Innermost.busy = None
    /\ Innermost.owed = NoOne
    /\ \/ emitting' = Outer
       \/ Innermost.chan = "error" /\ Outer # <<>> /\ emitting' = Idle(Outer)
    /\ UNCHANGED <<subs, ended>>

BNext ==
    \/ \E D \in SUBSET Chan : \E who \in [D -> Listener] :
          Subscribe(who) \/ \E every \in BOOLEAN : Unsubscribe(who, every)
    \/ \E o \in Obj : UnsubscribeObj(o) \/ Vanish(o)
    \/ UnsubscribeAll
    \/ \E c \in Chan : BeginEmit(c)
    \/ End
    \/ \E l \in Listener : Deliver(l)
    \/ Finish
    \/ Paid

BSpec == BInit /\ [][BNext]_bvars
=============================================================================
