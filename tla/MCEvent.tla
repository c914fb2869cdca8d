------------------------------ MODULE MCEvent ------------------------------
(* Small instances of Event: an object with a method, a plain function. *)
EXTENDS Event

CONSTANTS o1, m, f

\* A bound method o1.m and a plain function f.
Method == [obj |-> o1, func |-> m]
Plain == [obj |-> None, func |-> f]
MCListener == {Method, Plain}

On(c, L) == [{c} -> L]

\* Value listeners only; listeners of the sub-events, alone and with a value
\* listener in one call.
ValueWho == On("value", MCListener)
SubWho == {[value |-> Plain, done |-> Method]} \cup On("error", {Method})
            \cup On("done", {Plain})
=============================================================================
