----------------------------- MODULE LoopProgram -----------------------------
(***************************************************************************)
(* A program with counted loops and loop carries, from the while_loop that *)
(* PyTorch traced to the scheduler's nodes: splice_while_loop makes each   *)
(* carry an update of one storage (wsr/while_loop_bridge.py), collapse     *)
(* wraps the loops, apply_loop_carries makes the updates in-place          *)
(* (loop_carries.py), later passes edit the flat view (dedup_constants.py, *)
(* scratchpad/graph_editor.py), and the hand-off peels the nodes and       *)
(* builds the scheduler's (passes.py, loop_scheduler.py).                  *)
(***************************************************************************)
EXTENDS LoopTree

CONSTANTS Paths,       \* the loops an operation can be in
          Kinds,       \* of "kernel", "extern", "const"
          MaxOps, MaxReads, MaxCarries, MaxReturned,
          CarriesInput,        \* a carry may begin with the caller's buffer
          ExternReadsUpdate,   \* an extern may read a carry's new value
          NestedEntry          \* a clone may go to a loop that opens with a loop

VARIABLES source,   \* the operations as traced; a read of -c is carry c's old value
          carry,    \* [loop, init, out, storage, drain]; storage is None until spliced
          returned, \* the operations whose values the graph returns
          ops,      \* the operations as the passes leave them
          flat,     \* their order
          tree,     \* the list with LoopNodes
          cloned,   \* the input has its clone
          phase

vars == <<source, carry, returned, ops, flat, tree, cloned, phase>>

Input == 0

\* No buffer: below the name of every carry.
None == -100

Init ==
    /\ source = <<>> /\ carry = <<>> /\ returned = {} /\ ops = <<>> /\ flat = <<>> /\ tree = <<>>
    /\ cloned = FALSE /\ phase = "source"

-----------------------------------------------------------------------------
(***************************************************************************)
(* The traced program.                                                     *)
(***************************************************************************)
InLoop(i, loop) == IsPrefix(loop, source[i].path)

\* A body is one run of operations: a loop that was left is not reopened.
Opens(path) ==
    \A n \in 1..Len(path) :
        LET q == UpTo(path, n)
        IN  (\E i \in DOMAIN source : InLoop(i, q)) => InLoop(Len(source), q)

\* The buffers the next operation, in path, can read: the input, earlier
\* operations, the old value of a carry of its loop.
Readable(kind, path) ==
    {Input} \cup {i \in DOMAIN source :
                    kind = "extern" /\ ~ExternReadsUpdate =>
                        \A c \in DOMAIN carry : carry[c].out # i}
            \cup {-c : c \in {d \in DOMAIN carry :
                                kind = "kernel" /\ IsPrefix(carry[d].loop, path)}}

AddOp ==
    /\ phase = "source" /\ Len(source) < MaxOps
    /\ \E kind \in Kinds, path \in Paths :
        /\ Opens(path)
        /\ \E rs \in SUBSET Readable(kind, path) :
            /\ Cardinality(rs) \in (CASE kind = "kernel" -> 1..MaxReads [] kind = "extern" -> 0..1
                                      [] kind = "const" -> {0})
            /\ source' = Append(source, [kind |-> kind, path |-> path, into |-> {},
                                         reads |-> SetToSortSeq(rs, <)])
    /\ UNCHANGED <<carry, returned, ops, flat, tree, cloned, phase>>

\* A carry of a loop about to open, initialised by an operation so far or by
\* the caller's buffer.
AddCarry ==
    /\ phase = "source" /\ Len(carry) < MaxCarries
    /\ \E loop \in Paths \ {<<>>}, init \in {Input} \cup DOMAIN source :
        /\ init = Input => CarriesInput
        /\ ~\E i \in DOMAIN source : InLoop(i, loop)
        /\ init # Input => Front(loop) = source[init].path
        /\ carry' = Append(carry, [loop |-> loop, init |-> init, out |-> None, storage |-> None,
                                   drain |-> None])
    /\ UNCHANGED <<source, returned, ops, flat, tree, cloned, phase>>

\* The body returns its last operation so far as the carry's new value.
ReturnCarry ==
    /\ phase = "source" /\ source # <<>>
    /\ \E c \in DOMAIN carry :
        /\ carry[c].out = None /\ Last(source).path = carry[c].loop
        /\ Last(source).kind = "kernel"
        /\ \A d \in DOMAIN carry : carry[d].out # Len(source)
        /\ carry' = [carry EXCEPT ![c].out = Len(source)]
    /\ UNCHANGED <<source, returned, ops, flat, tree, cloned, phase>>

\* There is a loop; no operation is dead: all but the last are read, or begin
\* or end a carry; and of the latter the graph may return those that are in no
\* loop and the results of outermost loops (the buffer of another operation
\* is written once).
Traced ==
    /\ phase = "source" /\ \E i \in DOMAIN source : source[i].path # <<>>
    /\ \A c \in DOMAIN carry : carry[c].out # None
    /\ returned' \in SUBSET UNION {{carry[c].init, carry[c].out} :
                                    c \in {d \in DOMAIN carry : Len(carry[d].loop) = 1}}
    /\ Input \notin returned'
    /\ Cardinality(returned') <= MaxReturned
    /\ \A i \in 1..(Len(source) - 1) :
          \/ \E j \in DOMAIN source : i \in ToSet(source[j].reads)
          \/ \E c \in DOMAIN carry : i \in {carry[c].init, carry[c].out}
    /\ ops' = source /\ flat' = [i \in DOMAIN source |-> i]
    /\ phase' = "splice"
    /\ UNCHANGED <<source, carry, tree, cloned>>

-----------------------------------------------------------------------------
(***************************************************************************)
(* splice_while_loop, one carry after the other.                           *)
(***************************************************************************)
ReadersOf(os, r) == {i \in DOMAIN os : r \in ToSet(os[i].reads)}

Redirect(os, readers, old, new) ==
    [i \in DOMAIN os |-> IF i \notin readers THEN os[i]
                         ELSE [os[i] EXCEPT !.reads =
                                [k \in DOMAIN @ |-> IF @[k] = old THEN new ELSE @[k]]]]

\* The carry, of a loop already spliced, whose new value i is.
Chained(i) == {d \in DOMAIN carry : carry[d].storage # None /\ carry[d].out = i}

\* _carry_real_input_is_private: the initial buffer was made by a kernel, is
\* not returned, and nothing but this carry reads it; an earlier loop's result
\* is judged by that carry's storage too.
Private(c) ==
    LET init == carry[c].init
        held == {init} \cup {carry[d].storage : d \in Chained(init)}
    IN  /\ init # Input /\ ~IsExtern(ops, init)
        /\ held \cap returned = {}
        /\ \A b \in held : /\ ReadersOf(ops, b) = {}
                           /\ \A d \in DOMAIN carry \ {c} :
                                carry[d].storage = None => carry[d].init # b

CopyOf(b, path) == [kind |-> "copy", path |-> path, reads |-> <<b>>, into |-> {}]

Position(list, i) == CHOOSE k \in DOMAIN list : list[k] = i

\* A mutant: no reader of the old value is late.
NoExtraReaders(c) == {}

\* _extra_readers_of_placeholder: they run after the update, in its body.
ExtraReaders(c) ==
    {i \in ReadersOf(ops, -c) :
        \E j, k \in DOMAIN flat : flat[j] = carry[c].out /\ flat[k] = i /\ j < k}

Splice ==
    /\ phase = "splice"
    /\ \E c \in DOMAIN carry :
        /\ carry[c].storage = None /\ \A d \in 1..(c - 1) : carry[d].storage # None
        /\ LET cr == carry[c]
               entry == Min({k \in DOMAIN flat : IsPrefix(cr.loop, ops[flat[k]].path)})
               private == Private(c)
               \* _materialize_carry_copy
               copied == IF private THEN [ops |-> ops, flat |-> flat]
                         ELSE [ops |-> Append(ops, CopyOf(cr.init, Front(cr.loop))),
                               flat |-> InsertAt(flat, entry, Len(ops) + 1)]
               target == IF private THEN cr.init ELSE Len(copied.ops)
               late == ExtraReaders(c)
               \* _snapshot_carry_placeholder
               snapped == IF late = {} THEN copied
                          ELSE LET n == Len(copied.ops) + 1
                                   with == Append(copied.ops, CopyOf(target, cr.loop))
                               IN  [ops |-> Redirect(with, late, -c, n),
                                    flat |-> InsertAt(copied.flat, Position(copied.flat, cr.out), n)]
               storage == IF private /\ Chained(cr.init) # {}
                          THEN carry[Max(Chained(cr.init))].storage ELSE target
           IN  /\ ops' = Redirect(snapped.ops, DOMAIN snapped.ops, -c, target)
               /\ flat' = snapped.flat
               /\ carry' = [carry EXCEPT ![c].storage = storage]
    /\ UNCHANGED <<source, returned, tree, cloned, phase>>

Collapse ==
    /\ phase = "splice" /\ \A c \in DOMAIN carry : carry[c].storage # None
    /\ tree' = Wrap(ops, flat, <<>>)
    /\ phase' = "carries"
    /\ UNCHANGED <<source, carry, returned, ops, flat, cloned>>

\* apply_loop_carries: every update writes its storage, and who read the
\* update reads the storage.
ApplyLoopCarries ==
    /\ phase = "carries"
    /\ LET Applied(os, c) ==
             LET u == carry[c].out
             IN  Redirect([os EXCEPT ![u].into = {carry[c].storage}],
                          DOMAIN os \ {u}, u, carry[c].storage)
       IN  ops' = FoldLeft(Applied, ops, [c \in DOMAIN carry |-> c])
    /\ phase' = "promote"
    /\ UNCHANGED <<source, carry, returned, flat, tree, cloned>>

-----------------------------------------------------------------------------
(***************************************************************************)
(* Passes over the flat view.                                              *)
(***************************************************************************)

\* dedup_and_promote_constants, run expanded: the constants first.
PromoteConstants ==
    /\ phase = "promote"
    /\ LET all == AllOps(tree)
           IsConst(i) == ops[i].kind = "const"
       IN  tree' = Wrap(ops, SelectSeq(all, IsConst)
                             \o SelectSeq(all, LAMBDA i : ~IsConst(i)), <<>>)
    /\ phase' = "lx"
    /\ UNCHANGED <<source, carry, returned, ops, flat, cloned>>

Outer(i) == UpTo(GroupPath(ops, i), 1)

\* counted_loop_entry, _hoisted_input_clone_entry: the first member of the
\* first reader's outermost loop, when no extern runs between the two and the
\* last reader is not its own loop's last member; else none.
HoistedEntry(all, users) ==
    LET first == Min(users)
        loop == Outer(all[first])
        entry == Min({k \in DOMAIN all : Outer(all[k]) = loop})
        last == Outer(all[Max(users)])
    IN  IF \/ loop = <<>>
           \/ \E k \in entry..first : IsExtern(ops, all[k])
           \/ last # <<>> /\ \A k \in DOMAIN all : k > Max(users) => Outer(all[k]) # last
        THEN {} ELSE {entry}

\* push_allocation_with_clone of the graph input: its readers read the clone,
\* which runs before the loop, and so is in none, or before its first reader,
\* and so is in its loops.
CloneInput ==
    /\ phase = "lx" /\ ~cloned
    /\ LET all == AllOps(tree)
           users == {k \in DOMAIN all : Input \in ToSet(ops[all[k]].reads)}
           entry == HoistedEntry(all, users)
           at == IF entry = {} THEN Min(users) ELSE Min(entry)
           path == IF entry = {} THEN GroupPath(ops, all[at]) ELSE <<>>
           new == Len(ops) + 1
       IN  /\ users # {} /\ \A k \in users : ~IsExtern(ops, all[k])
           /\ ~NestedEntry => Len(GroupPath(ops, all[at])) <= 1
           /\ ops' = Append(Redirect(ops, DOMAIN ops, Input, new), CopyOf(Input, path))
           /\ tree' = InsertFlat(tree, at, new)
    /\ cloned' = TRUE
    /\ UNCHANGED <<source, carry, returned, flat, phase>>

\* validated_drain_plans: a storage in no loop that is not itself a copy, of
\* one carry of an outermost loop, whose result is returned and which only
\* the update accesses in a loop.
MayDrain(c) ==
    LET s == carry[c].storage
        u == carry[c].out
    IN  /\ s # Input /\ ops[s].kind # "copy" /\ GroupPath(ops, s) = <<>>
        /\ Len(GroupPath(ops, u)) = 1 /\ u \in returned
        /\ \A d \in DOMAIN carry \ {c} : carry[d].storage # s
        /\ \A i \in ReadersOf(ops, s) \ {u} : GroupPath(ops, i) = <<>>

\* The drain of a resident carry that is a graph output: a copy of its
\* storage after the loop's last member, returned in its place.
Drain ==
    /\ phase = "lx"
    /\ \E c \in DOMAIN carry :
        LET all == AllOps(tree)
            s == carry[c].storage
            u == carry[c].out
            anchor == Max({k \in DOMAIN all : Outer(all[k]) = Outer(u)})
            new == Len(ops) + 1
        IN  /\ carry[c].drain = None /\ MayDrain(c)
            /\ ~NestedEntry /\ anchor < Len(all) => Len(GroupPath(ops, all[anchor + 1])) <= 1
            /\ ops' = Append(ops, CopyOf(s, <<>>))
            /\ tree' = InsertFlat(tree, anchor + 1, new)
            /\ carry' = [carry EXCEPT ![c].drain = new]
    /\ UNCHANGED <<source, returned, flat, cloned, phase>>

\* _hand_off_loop_nodes, then the scheduler's own nodes or a refusal.
HandOff ==
    /\ phase = "lx"
    /\ LET peeled == Peel(ops, tree, 0)
       IN  /\ tree' = peeled
           /\ phase' = IF \A k \in DOMAIN peeled : Buildable(ops, peeled[k])
                       THEN "scheduled" ELSE "refused"
    /\ UNCHANGED <<source, carry, returned, ops, flat, cloned>>

\* The program need not grow any further.
Ended == phase \in {"source", "scheduled", "refused"} /\ UNCHANGED vars

Next ==
    \/ AddOp \/ AddCarry \/ ReturnCarry \/ Traced
    \/ Splice \/ Collapse \/ ApplyLoopCarries \/ PromoteConstants
    \/ CloneInput \/ Drain \/ HandOff \/ Ended

Spec == Init /\ [][Next]_vars

-----------------------------------------------------------------------------
(***************************************************************************)
(* What a program computes.  A value is the operation that made it, in     *)
(* which trips, from which values; a copy hands on the value it reads.     *)
(* Every loop makes two trips.                                             *)
(***************************************************************************)
Value(op, trips, args) == [op |-> op, trips |-> trips, args |-> args]

Unwritten == Value(-1, <<>>, <<>>)

\* The buffer an operation writes: the storage it updates, or its own.
WritesTo(os, i) == CHOOSE b \in IF os[i].into = {} THEN {i} ELSE os[i].into : TRUE

Run(os, st, i, trips) ==
    LET args == [k \in DOMAIN os[i].reads |-> st.mem[os[i].reads[k]]]
        v == IF os[i].kind = "copy" THEN args[1]
             ELSE Value(i, IF IsExtern(os, i) THEN <<>> ELSE trips, args)
    IN  [mem |-> [st.mem EXCEPT ![WritesTo(os, i)] = v],
         last |-> [st.last EXCEPT ![i] = v],
         runs |-> [st.runs EXCEPT ![i] = @ + 1]]

\* cs are the carries that PyTorch's while_loop threads: bound to their
\* initial values at the loop's entry, to their new ones after each trip.
RECURSIVE RunList(_, _, _, _, _)
RunList(os, cs, st, list, trips) ==
    LET Bind(s, loop, field) ==
          [s EXCEPT !.mem = [b \in DOMAIN @ |->
              IF \E c \in DOMAIN cs : b = -c /\ cs[c].loop = loop
              THEN @[IF field = "init" THEN cs[-b].init ELSE cs[-b].out] ELSE @[b]]]
        RunEntry(s, e) ==
          IF ~IsLoop(e) THEN Run(os, s, e.op, trips)
          ELSE LET loop == UpTo(os[AllOps(<<e>>)[1]].path, Len(trips) + 1)
                   Trip(t, n) == Bind(RunList(os, cs, t, e.body, Append(trips, n)), loop, "out")
               IN  FoldLeft(Trip, Bind(s, loop, "init"), <<1, 2>>)
    IN  FoldLeft(RunEntry, st, list)

Results(os, cs, list) ==
    RunList(os, cs,
            [mem |-> [b \in (-MaxCarries)..Len(os) |->
                        IF b = Input THEN Value(Input, <<>>, <<>>) ELSE Unwritten],
             last |-> [i \in DOMAIN os |-> Unwritten], runs |-> [i \in DOMAIN os |-> 0]],
            list, <<>>)

Meaning ==
    LET inLoops == [i \in DOMAIN source |-> [source[i] EXCEPT !.kind = "kernel"]]
    IN  Results(source, carry, Wrap(inLoops, [i \in DOMAIN source |-> i], <<>>))

\* The buffer that is returned for i.
ReturnedFrom(i) ==
    LET drains == {carry[c].drain : c \in {d \in DOMAIN carry : carry[d].out = i}} \ {None}
    IN  CHOOSE b \in IF drains = {} THEN {WritesTo(ops, i)} ELSE drains : TRUE

Computes(nodes) ==
    LET r == Results(ops, <<>>, nodes)
        m == Meaning
    IN  /\ \A i \in DOMAIN source : r.last[i] = m.last[i]
        /\ \A i \in returned : r.mem[ReturnedFrom(i)] = m.last[i]
        /\ r.mem[Input] = m.mem[Input]

-----------------------------------------------------------------------------

\* The list has its shape: from collapse on the tree holds every operation
\* exactly once, and carries have storages.
TypeOK ==
    /\ phase \in {"source", "splice", "carries", "promote", "lx", "scheduled", "refused"}
    /\ cloned \in BOOLEAN
    /\ \A c \in DOMAIN carry : carry[c].storage \in {None} \cup (1..Len(ops))
    /\ phase \notin {"source", "splice"} =>
          /\ IsInjective(AllOps(tree))
          /\ ToSet(AllOps(tree)) = DOMAIN ops

\* The scheduled program computes what the traced one does: each operation's
\* last value is the same, so that a reader of a carry's old value is not
\* served the new one; every buffer that is returned holds its result at the
\* end, a drained carry's included; and the caller's buffer is as it was
\* (_extra_readers_of_placeholder, _carry_real_input_is_private,
\* apply_loop_carries, _build_loop_scheduler_node).  With ExternReadsUpdate
\* it does not hold: an extern that reads a carry's new value is moved before
\* the loop unrefused.
MeaningKept == phase = "scheduled" => Computes(Nodes(ops, tree))

\* So does the program of the flat path, where the loops are rebuilt from
\* the operations' own paths (build_loop_scheduler_nodes): the two paths
\* run the same kernels in the same trips.
FlatAgrees == phase = "scheduled" => Computes(FlatNodes(ops, AllOps(tree)))

\* A kernel runs once for every trip of the loops it is a member of: what a
\* pass put before or after a loop runs once (peel_non_members).  With
\* NestedEntry it does not hold: the ends of an outer body are peeled before
\* what was put at the ends of an inner one comes out.
RunsPerTrip ==
    phase = "scheduled" =>
        LET runs == Results(ops, <<>>, Nodes(ops, tree)).runs
        IN  \A i \in DOMAIN ops : runs[i] = 2 ^ Len(GroupPath(ops, i))

\* A program is refused only when an extern of a loop reads what that loop
\* writes: the edits of the passes are never the reason (_check_members).
RefusedForExtern ==
    phase = "refused" =>
        \E i \in DOMAIN source :
            /\ IsExtern(source, i) /\ source[i].path # <<>>
            /\ \E r \in ToSet(source[i].reads) : r \in DOMAIN source
                 /\ IsPrefix(UpTo(source[i].path, 1), source[r].path)
=============================================================================
