----------------------------- MODULE SmallPipelines -----------------------------
(* Small pipelines to run: a and b are sources, c a nested event, m an      *)
(* operator in the middle, and n, which is run, take(1).                    *)
CONSTANTS a, b, c, m, n

MCNode == {a, b, c, m, n}

Linear(classOfB, linksOfB, classOfM, links, partial, outside, limit) ==
    [class |-> [x \in MCNode |-> CASE x = a -> "source"
                                   [] x = b -> classOfB
                                   [] x = c -> "nested"
                                   [] x = m -> classOfM
                                   [] x = n -> "op"],
     links |-> [x \in MCNode |-> CASE x = b -> linksOfB [] x = m -> links
                                   [] x = n -> {m} [] OTHER -> {}],
     partial |-> partial, outside |-> outside, root |-> n, limit |-> limit]

\* a.map(f), a.merge(b) or, with partials, a.zip(b), a.mergemap(f).
Mapped(outside, limit) == Linear("nested", {}, "map", {a}, {}, outside, limit)
Joined(partial, outside) == Linear("source", {}, "join", {a, b}, partial, outside, 0)
Nesting(outside) == Linear("nested", {}, "emap", {a}, {}, outside, 0)

\* a.map(f) while another listens to a, or with a map between.
Tapped == Linear("op", {a}, "map", {a}, {}, {}, 0)
MappedTwice == Linear("map", {a}, "map", {b}, {}, {}, 0)

AllPipelines ==
    {Tapped, MappedTwice} \cup
    UNION {{Mapped(out, 0), Mapped(out, 1), Joined({}, out), Joined({m}, out), Nesting(out)}
              : out \in {{}, {a}, {m}}}
JoinOfPartials == {Joined({m}, {})}
SharedMap == {Mapped({m}, 0)}
=============================================================================
