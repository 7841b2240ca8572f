------------------------------- MODULE Mapping -------------------------------
(***************************************************************************)
(* How a flat mapping becomes the nested payload that a sink sends         *)
(* (delivery/mapping.py: expand_paths, _assign, _densify).  Functions only.*)
(*                                                                         *)
(* A path is a sequence of segments: numbers from FirstName on stand for   *)
(* names, smaller ones for places of a list.  A payload is a function from *)
(* the paths of its leaves to values.                                      *)
(***************************************************************************)
EXTENDS Naturals, Sequences, SequencesExt, FiniteSets

FirstName == 10
IsIndex(segment) == segment < FirstName
Nothing == "None"  \* what fills the gaps of a list
EmptyTree == [p \in {} |-> Nothing]

Nodes(tree) == UNION {{SubSeq(p, 1, n) : n \in 0..(Len(p) - 1)} : p \in DOMAIN tree}
Children(tree, node) ==
    {p[Len(node) + 1] : p \in {q \in DOMAIN tree : IsStrictPrefix(node, q)}}
IsList(tree, node) == \A segment \in Children(tree, node) : IsIndex(segment)

\* _assign raises where it would have to descend into a value below a list.
Raises(tree, path) ==
    \E n \in 1..(Len(path) - 1) : IsIndex(path[n]) /\ SubSeq(path, 1, n) \in DOMAIN tree

\* _assign: what stood in the way, above or below, is gone.
Assign(tree, path, value) ==
    LET kept == {p \in DOMAIN tree : ~IsPrefix(p, path) /\ ~IsPrefix(path, p)}
    IN [p \in kept \cup {path} |-> IF p = path THEN value ELSE tree[p]]

\* _densify: where all keys of a node are places, it becomes a list without gaps.
Gaps(tree) ==
    UNION {{Append(node, i) : i \in {i \in 0..(FirstName - 1) : i \notin Children(tree, node)
                                         /\ \E j \in Children(tree, node) : i < j}} :
             node \in {n \in Nodes(tree) : IsList(tree, n)}}
Densify(tree) == [p \in DOMAIN tree \cup Gaps(tree) |-> IF p \in DOMAIN tree THEN tree[p] ELSE Nothing]

\* expand_paths: flat is the mapping in its order, pairs of a path and a value; the
\* result is one payload, or none when it raises.
ExpandPaths(flat) ==
    {Densify(tree) : tree \in
        FoldLeft(LAMBDA trees, entry : {Assign(tree, entry[1], entry[2]) :
                                          tree \in {t \in trees : ~Raises(t, entry[1])}},
                 {EmptyTree}, flat)}

-----------------------------------------------------------------------------
Compatible(flat) ==
    \A i, j \in DOMAIN flat : i # j => ~IsPrefix(flat[i][1], flat[j][1])

\* A mapping whose paths do not get in each other's way is sent as it was written:
\* every value at its path, whatever the order of the keys, and nothing else but gaps
\* of lists.  Where paths do get in each other's way, the last key still is as it was
\* written, or nothing is sent.
PayloadKeepsPaths(flat) ==
    /\ Compatible(flat) => ExpandPaths(flat) # {}
    /\ \A payload \in ExpandPaths(flat) :
          /\ \A i \in DOMAIN flat : Compatible(flat) \/ i = Len(flat) =>
                flat[i][1] \in DOMAIN payload /\ payload[flat[i][1]] = flat[i][2]
          /\ \A p \in DOMAIN payload : payload[p] # Nothing => \E i \in DOMAIN flat : flat[i] = <<p, payload[p]>>
          /\ \A p, q \in DOMAIN payload : ~IsStrictPrefix(p, q)
          /\ \A node \in Nodes(payload) : IsList(payload, node) =>
                Children(payload, node) = 0..(Cardinality(Children(payload, node)) - 1)
=============================================================================
