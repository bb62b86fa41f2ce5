------------------------------ MODULE LoopTree ------------------------------
(***************************************************************************)
(* The counted loops of an operation list, as LoopNodes and as scheduler   *)
(* nodes (torch_spyre/_inductor/loop_node.py, loop_scheduler.py and        *)
(* scheduler.py).                                                          *)
(*                                                                         *)
(* ops is the sequence of all operations, each [kind, path, reads, into]:  *)
(* path is the loop_group_id, outermost loop first, and into holds the     *)
(* storage that an in-place update writes.  An entry of a list is a leaf,  *)
(* or a loop with a body.                                                  *)
(***************************************************************************)
EXTENDS Integers, Sequences, SequencesExt, FiniteSetsExt

Leaf(i) == [op |-> i, body |-> <<>>]

Loop(body) == [op |-> 0, body |-> body]

IsLoop(e) == e.op = 0

IsExtern(ops, i) == ops[i].kind \in {"extern", "const"}

\* counted_loop_path: an ExternKernel is in no loop, whatever its loop_info.
GroupPath(ops, i) == IF IsExtern(ops, i) THEN <<>> ELSE ops[i].path

\* path[:n]
UpTo(path, n) == IF Len(path) <= n THEN path ELSE SubSeq(path, 1, n)

Flatten(list, F(_)) == FlattenSeq([k \in DOMAIN list |-> F(list[k])])

RECURSIVE AllOps(_)
AllOps(list) == Flatten(list, LAMBDA e : IF IsLoop(e) THEN AllOps(e.body) ELSE <<e.op>>)

-----------------------------------------------------------------------------

\* _wrap, collapse: the operations of a loop become one node, whose body is
\* the span from the first member to the last.
RECURSIVE Wrap(_, _, _)
Wrap(ops, flat, key) ==
    IF flat = <<>> THEN <<>>
    ELSE LET p == GroupPath(ops, flat[1])
             own == UpTo(p, Len(key) + 1)
             last == Max({k \in DOMAIN flat : IsPrefix(own, GroupPath(ops, flat[k]))})
         IN  IF Len(p) <= Len(key) \/ ~IsPrefix(key, p)
             THEN <<Leaf(flat[1])>> \o Wrap(ops, Tail(flat), key)
             ELSE <<Loop(Wrap(ops, SubSeq(flat, 1, last), own))>>
                    \o Wrap(ops, SubSeq(flat, last + 1, Len(flat)), key)

\* OpsView.insert at the flat position of `at`: into the list that owns it.
RECURSIVE InsertBefore(_, _, _)
InsertBefore(list, at, i) ==
    Flatten(list, LAMBDA e : IF IsLoop(e) THEN <<Loop(InsertBefore(e.body, at, i))>>
                             ELSE IF e.op = at THEN <<Leaf(i), e>> ELSE <<e>>)

\* OpsView.insert at a flat position: at the end it appends to the top level.
InsertFlat(list, k, i) ==
    LET flat == AllOps(list)
    IN  IF k > Len(flat) THEN Append(list, Leaf(i)) ELSE InsertBefore(list, flat[k], i)

\* _node_key: the path prefix the members of a node share.
NodeKey(ops, e, depth) ==
    LET leaves == AllOps(e.body)
        deep == {k \in DOMAIN leaves : Len(GroupPath(ops, leaves[k])) > depth}
    IN  IF deep = {} THEN <<>>
        ELSE UpTo(GroupPath(ops, leaves[Min(deep)]), depth + 1)

Belongs(ops, e, key) == IsLoop(e) \/ IsPrefix(key, GroupPath(ops, e.op))

\* A mutant: what leads a body and is no member is lost.
RECURSIVE PeelDrops(_, _, _)
PeelDrops(ops, list, depth) ==
    Flatten(list, LAMBDA e :
        LET key == NodeKey(ops, e, depth)
            own == {k \in DOMAIN e.body : Belongs(ops, e.body[k], key)}
        IN  IF ~IsLoop(e) \/ key = <<>> THEN <<e>>
            ELSE <<Loop(PeelDrops(ops, SubSeq(e.body, Min(own), Max(own)), depth + 1))>>
                   \o SubSeq(e.body, Max(own) + 1, Len(e.body)))

\* _peel, peel_non_members: what leads or trails a body and is no member
\* leaves the node, before the nodes of that body are peeled in their turn.
RECURSIVE Peel(_, _, _)
Peel(ops, list, depth) ==
    Flatten(list, LAMBDA e :
        LET key == NodeKey(ops, e, depth)
            own == {k \in DOMAIN e.body : Belongs(ops, e.body[k], key)}
        IN  IF ~IsLoop(e) \/ key = <<>> THEN <<e>>
            ELSE SubSeq(e.body, 1, Min(own) - 1)
                   \o <<Loop(Peel(ops, SubSeq(e.body, Min(own), Max(own)), depth + 1))>>
                   \o SubSeq(e.body, Max(own) + 1, Len(e.body)))

-----------------------------------------------------------------------------

\* The kernels of a body, nested ones in their loops.
RECURSIVE Kernels(_, _)
Kernels(ops, list) ==
    Flatten(list, LAMBDA e : IF IsLoop(e) THEN <<Loop(Kernels(ops, e.body))>>
                             ELSE IF IsExtern(ops, e.op) THEN <<>> ELSE <<e>>)

\* The externs of a body, nested ones included, in body order.
Hoisted(ops, list) == SelectSeq(AllOps(list), LAMBDA i : IsExtern(ops, i))

\* _check_members: the kernels directly in a body share one path.
CheckMembers(ops, e) ==
    LET own == {k \in DOMAIN e.body : ~IsLoop(e.body[k]) /\ ~IsExtern(ops, e.body[k].op)}
    IN  Cardinality({GroupPath(ops, e.body[k].op) : k \in own}) <= 1

\* A hoisted operation reads no buffer that the loop produces.
MayHoist(ops, e) ==
    LET inner == ToSet(AllOps(Kernels(ops, e.body)))
        hoisted == Hoisted(ops, e.body)
    IN  \A k \in DOMAIN hoisted : ToSet(ops[hoisted[k]].reads) \cap inner = {}

\* _build_loop_scheduler_node does not raise Unsupported.
RECURSIVE Buildable(_, _)
Buildable(ops, e) ==
    IsLoop(e) => /\ \A k \in DOMAIN e.body : Buildable(ops, e.body[k])
                 /\ CheckMembers(ops, e)
                 /\ Kernels(ops, e.body) # <<>>
                 /\ MayHoist(ops, e)

\* A mutant: an extern stays in its loop.
NodesInPlace(ops, list) == list

\* The scheduler's nodes: the externs of a loop come immediately before the
\* outermost loop they are in.
Nodes(ops, list) ==
    Flatten(list, LAMBDA e :
        IF ~IsLoop(e) THEN <<e>>
        ELSE LET out == Hoisted(ops, e.body)
             IN  [k \in DOMAIN out |-> Leaf(out[k])] \o <<Loop(Kernels(ops, e.body))>>)

-----------------------------------------------------------------------------
(***************************************************************************)
(* The flat path: build_loop_scheduler_nodes over a list without nodes.    *)
(***************************************************************************)

\* What an operation at position k waits for: the buffers it reads, an
\* earlier in-place write of one, and the earlier readers of what it
\* overwrites.
UnmetDependencies(ops, flat, k) ==
    LET op == ops[flat[k]]
        Earlier(P(_)) == {flat[j] : j \in {i \in 1..(k - 1) : P(ops[flat[i]])}}
    IN  (ToSet(op.reads) \cap ToSet(flat))
          \cup Earlier(LAMBDA o : o.into \cap ToSet(op.reads) # {})
          \cup Earlier(LAMBDA o : op.into \cap ToSet(o.reads) # {})

\* A unit is the set of positions of an outermost loop, or one position.
UnitOf(ops, flat, k) ==
    LET p == GroupPath(ops, flat[k])
    IN  IF p = <<>> THEN {k}
        ELSE {j \in DOMAIN flat : GroupPath(ops, flat[j]) # <<>>
                                    /\ GroupPath(ops, flat[j])[1] = p[1]}

\* visit: the units a unit depends on, then the unit (seen marks the ones
\* being visited as well as the emitted ones).
RECURSIVE Visit(_, _, _, _)
Visit(ops, flat, st, u) ==
    IF u \in st.seen THEN st
    ELSE LET deps == UNION {UnmetDependencies(ops, flat, k) : k \in u}
             units == {UnitOf(ops, flat, k) : k \in {j \in DOMAIN flat : flat[j] \in deps}}
             order == SetToSortSeq(units \ {u}, LAMBDA a, b : Min(a) < Min(b))
             after == FoldLeft(LAMBDA s, v : Visit(ops, flat, s, v),
                               [st EXCEPT !.seen = @ \cup {u}], order)
         IN  [after EXCEPT !.units = Append(@, u)]

\* A mutant: a group stands where its first member does.
RegroupStable(ops, flat) ==
    LET starts == SetToSortSeq({Min(UnitOf(ops, flat, k)) : k \in DOMAIN flat}, <)
    IN  Flatten(starts, LAMBDA s : LET at == SetToSortSeq(UnitOf(ops, flat, s), <)
                                   IN  [k \in DOMAIN at |-> flat[at[k]]])

\* _regroup_by_outer_loop_key
Regroup(ops, flat) ==
    LET all == FoldLeft(LAMBDA s, k : Visit(ops, flat, s, UnitOf(ops, flat, k)),
                        [seen |-> {}, units |-> <<>>], [k \in DOMAIN flat |-> k])
    IN  Flatten(all.units, LAMBDA u : LET at == SetToSortSeq(u, <)
                                      IN  [k \in DOMAIN at |-> flat[at[k]]])

\* _build_loop_group: contiguous runs, level by level.
RECURSIVE BuildLoopGroup(_, _, _)
BuildLoopGroup(ops, flat, depth) ==
    IF flat = <<>> THEN <<>>
    ELSE LET P(k) == GroupPath(ops, flat[k])
             out == {k \in DOMAIN flat : Len(P(k)) <= depth \/ P(k)[depth + 1] # P(1)[depth + 1]}
             last == IF out = {} THEN Len(flat) ELSE Min(out) - 1
         IN  IF Len(P(1)) <= depth
             THEN <<Leaf(flat[1])>> \o BuildLoopGroup(ops, Tail(flat), depth)
             ELSE <<Loop(BuildLoopGroup(ops, SubSeq(flat, 1, last), depth + 1))>>
                    \o BuildLoopGroup(ops, SubSeq(flat, last + 1, Len(flat)), depth)

FlatNodes(ops, flat) == BuildLoopGroup(ops, Regroup(ops, flat), 0)
=============================================================================
