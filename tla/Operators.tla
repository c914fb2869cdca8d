----------------------------- MODULE Operators -----------------------------
(***************************************************************************)
(* An operator of Handlers.tla on its source, and for some classes a side  *)
(* input: the timer of Sample and ChunkWith, the notifier of TakeUntil.    *)
(* Every place where user code runs inside a handler is a frame: a listener *)
(* of the operator's emit, a listener of its done_event, and a listener of *)
(* the source that comes before the operator in the same emit.             *)
(*                                                                         *)
(* Left out: a source that emits after its end, and errors other than for  *)
(* EndOnError and Errors (they are passed on unchanged).                   *)
(***************************************************************************)
EXTENDS Rules

CONSTANTS
    Behaviours,   \* what listeners may do: sets of "feed" (those of the operator
                  \* use its inputs) and "early" (an earlier one of the source does)
    MaxHeard,     \* bound: calls of handlers
    MaxDepth      \* bound: handlers in progress

ASSUME BehaviourAssumption == Behaviours \subseteq SUBSET {"feed", "early"}
ASSUME BoundAssumption == MaxHeard \in Nat /\ MaxDepth \in Nat

VARIABLES
    kind,        \* the class of the operator
    listeners,   \* what listeners do in this instance, fixed
    mem,         \* its attributes
    links,       \* the inputs it is connected to
    over,        \* the inputs that have ended
    ended,       \* Event._done
    stack,       \* user code inside of handlers, innermost last
    heard,       \* history: what the handlers were called with
    outs         \* history: what was emitted

fixed == <<kind, listeners>>
vars == <<fixed, mem, links, over, ended, stack, heard, outs>>

Frame(at, x, drop) == [at |-> at, x |-> x, drop |-> drop]
Top == stack[Len(stack)]
Below == Front(stack)

InUserCode ==
    stack # <<>> => IF Top.at = "early" THEN "early" \in listeners ELSE "feed" \in listeners
MayCall == InUserCode /\ Len(heard) < MaxHeard /\ Len(stack) < MaxDepth
-----------------------------------------------------------------------------
\* Attached to a live source, or to one that has ended, which ends it at once.  The
\* constructor of TakeUntil leaves out a notifier that has ended; those of Sample and
\* ChunkWith connect to a timer that has ended, and are told nothing of its end.
Init ==
    /\ kind \in Kinds
    /\ listeners \in Behaviours
    /\ mem = Fresh
    /\ over \in SUBSET InputsOf(kind)
    /\ ended = ("source" \in over)
    /\ links = IF ended THEN {} ELSE IF kind = "takeuntil" THEN InputsOf(kind) \ over
              ELSE InputsOf(kind)
    /\ stack = <<>>
    /\ heard = IF ended THEN <<<<"end", 0>>>> ELSE <<>>
    /\ outs = IF ended THEN OnSourceDone(kind, Fresh) ELSE <<>>

\* set_done between two disconnects, called with "below" left on the stack.
SetDone(first, then, below) ==
    /\ ended' = TRUE
    /\ links' = links \ (IF ended THEN first \cup then ELSE first)
    /\ stack' = IF ended THEN below ELSE Append(below, Frame("done", 0, then))

\* TakeWhile calls set_done before _detach, Take and Iterate after it.
Stop(below) ==
    IF kind = "takewhile" THEN SetDone({}, {"source"}, below) ELSE SetDone({"source"}, {}, below)

\* The rest of on_source.
LeaveOnSource(m, x, emitted, below) ==
    LET now == AfterOnSource(kind, m, x, emitted)
    IN  /\ mem' = now
        /\ IF StopsAfter(kind, now, x, emitted)
           THEN Stop(below)
           ELSE stack' = below /\ UNCHANGED <<links, ended>>

EnterOnSource(x, below) ==
    LET r == OnSource(kind, mem, x)
    IN  /\ heard' = Append(heard, <<"value", x>>)
        /\ outs' = outs \o r.out
        /\ IF r.out # <<>>
           THEN /\ mem' = r.mem
                /\ stack' = Append(below, Frame("source", x, {}))
                /\ UNCHANGED <<links, ended>>
           ELSE LeaveOnSource(r.mem, x, FALSE, below)

EnterOnSourceDone ==
    LET out == OnSourceDone(kind, mem)
    IN  /\ heard' = Append(heard, <<"end", 0>>)
        /\ outs' = outs \o out
        /\ IF out # <<>>
           THEN stack' = Append(stack, Frame("end", 0, {})) /\ UNCHANGED <<links, ended>>
           ELSE SetDone(FirstLeft(kind), ThenLeft(kind), stack)
        /\ UNCHANGED mem
-----------------------------------------------------------------------------
\* The source emits: an earlier listener runs first, the slot of the operator is
\* already in the copy.
SourceEmits(x) ==
    /\ MayCall
    /\ kind # "errors"
    /\ "source" \in links \ over
    /\ IF "early" \in listeners
       THEN /\ stack' = Append(stack, Frame("early", x, {}))
            /\ UNCHANGED <<mem, links, ended, heard, outs>>
       ELSE EnterOnSource(x, stack)
    /\ UNCHANGED <<fixed, over>>

SourceEnds ==
    /\ MayCall
    /\ "source" \in links \ over
    /\ over' = over \cup {"source"}
    /\ EnterOnSourceDone
    /\ UNCHANGED fixed

\* The timer or the notifier emits.
SideEmits ==
    /\ MayCall
    /\ "side" \in links \ over
    /\ IF kind = "takeuntil" THEN EnterOnSourceDone
       ELSE /\ heard' = Append(heard, <<"tick", 0>>)
            /\ outs' = outs \o OnTimer(kind, mem)
            /\ stack' = IF OnTimer(kind, mem) = <<>> THEN stack
                        ELSE Append(stack, Frame("side", 0, {}))
            /\ UNCHANGED <<mem, links, ended>>
    /\ UNCHANGED <<fixed, over>>

\* The end of a timer is an end of the source, that of a notifier only lets it go.
SideEnds ==
    /\ MayCall
    /\ "side" \in links \ over
    /\ over' = over \cup {"side"}
    /\ IF kind = "takeuntil"
       THEN links' = links \ {"side"} /\ UNCHANGED <<mem, ended, stack, heard, outs>>
       ELSE EnterOnSourceDone
    /\ UNCHANGED fixed

\* EndOnError.on_source_error: detached, then the error is emitted, then the end.
\* Errors emits it as a value and goes on.
SourceFails ==
    /\ MayCall
    /\ kind \in {"endonerror", "errors"}
    /\ "source" \in links \ over
    /\ heard' = Append(heard, <<"error", 0>>)
    /\ IF kind = "errors"
       THEN /\ outs' = outs \o ErrorsOn(mem).out
            /\ stack' = Append(stack, Frame("side", 0, {}))
            /\ UNCHANGED links
       ELSE /\ links' = links \ {"source"}
            /\ stack' = Append(stack, Frame("error", 0, {}))
            /\ UNCHANGED outs
    /\ UNCHANGED <<fixed, mem, over, ended>>

\* The user code of a frame is through.
Return ==
    /\ stack # <<>>
    /\ CASE Top.at = "early" -> EnterOnSource(Top.x, Below)
         [] Top.at = "source" ->
              LeaveOnSource(mem, Top.x, TRUE, Below) /\ UNCHANGED <<heard, outs>>
         [] Top.at = "side" ->
              /\ mem' = AfterOnTimer(kind, mem)
              /\ stack' = Below
              /\ UNCHANGED <<links, ended, heard, outs>>
         [] Top.at = "end" ->
              /\ mem' = AfterOnTimer(kind, mem)
              /\ SetDone(FirstLeft(kind), ThenLeft(kind), Below)
              /\ UNCHANGED <<heard, outs>>
         [] Top.at = "error" -> SetDone({}, {}, Below) /\ UNCHANGED <<mem, heard, outs>>
         [] Top.at = "done" ->
              /\ links' = links \ Top.drop
              /\ stack' = Below
              /\ UNCHANGED <<mem, ended, heard, outs>>
    /\ UNCHANGED <<fixed, over>>

Next ==
    \/ \E x \in Value : SourceEmits(x)
    \/ SourceEnds
    \/ SideEmits
    \/ SideEnds
    \/ SourceFails
    \/ Return

Spec == Init /\ [][Next]_vars
-----------------------------------------------------------------------------
\* The values that came, and what has happened.
V == Values(heard)
Heard(what) == Told(heard, what)

\* The classes that put their attributes right before they emit, so that a
\* listener may make the source emit again.
Reentrant ==
    AllKinds \ ({"changes", "pairwise", "enumerate", "chunk", "takewhile"} \cup Batching)

\* The classes that an earlier listener of the source can end before they get the
\* value, and that then do with it what their rule does not allow.
SpoiltByLateValue == {"last", "list", "chunk", "takewhile"}

\* Every operator emits what its rule names and in that order, at every moment:
\* the re-entrant ones also when listeners use the inputs meanwhile, and all but
\* four also when an earlier listener of the source has ended them in the same
\* emit and they get its value all the same.
EmitsByRule ==
    /\ kind \in Reentrant \/ "feed" \notin listeners
    /\ ended /\ kind \in SpoiltByLateValue => "early" \notin listeners
    => outs = RuleOf(kind, heard)

\* The inputs that end an operator, from either side.
HasToEnd ==
    \/ Heard("end")
    \/ kind = "endonerror" /\ Heard("error")
    \/ kind = "take" /\ Len(V) >= Count
    \/ kind = "takewhile" /\ \E i \in DOMAIN V : ~Truth(V[i])
    \/ kind = "iterate" /\ Len(V) > Count

\* Once its handlers are through, an operator has ended exactly if it has to, and
\* then listens to neither of its inputs.  (A Take whose listeners feed it past
\* its count inside the last value does not notice.)
EndsWithItsInputs ==
    stack = <<>> /\ (kind = "take" => "feed" \notin listeners) =>
        /\ ended <=> HasToEnd
        /\ ended => links = {}

\* "The event should not emit anything after that" (set_done).
SilentAfterEnd == [][ended => outs' = outs]_vars

\* ... unless an earlier listener of the source ends the operator, or listeners
\* feed one of the two operators that call set_done while still connected.
FedWhileConnected ==
    "early" \in listeners \/ ("feed" \in listeners /\ kind \in {"takewhile", "sample"})
SilentAfterEndAlone == [][ended /\ ~FedWhileConnected => outs' = outs]_vars
=============================================================================
