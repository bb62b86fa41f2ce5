------------------------------- MODULE Fusion -------------------------------
(***************************************************************************)
(* The node list the scheduler hands to the post-fusion passes, and the    *)
(* bundles spyre_fuse_nodes makes of it (torch_spyre/_inductor/fusion.py). *)
(*                                                                         *)
(* A node is [kind, body].  Its body is the sequence of its operations,    *)
(* each with the names it reads and writes; only a counted loop has more   *)
(* than one, and runs its body once per trip.  The kinds are "compute"     *)
(* (a SchedulerNode on the device), "loop" (CountedLoopSchedulerNode),     *)
(* "nop" (NopKernelSchedulerNode, which only allocates what it writes),    *)
(* "extern" (a fallback or extern kernel) and "empty" (an extern node for  *)
(* a SpyreEmptyFallback, which allocates too).                             *)
(***************************************************************************)
EXTENDS Integers, Sequences, FiniteSets, SequencesExt

\* _is_fusable_node: a compute node of the device.
Fusable(node) == node.kind \in {"compute", "loop"}

\* A mutant: a boundary is taken for hoistable, so externs move ahead of the run.
HoistableExtern(node) == ~Fusable(node)

\* _is_hoistable_node: a nop whose code only allocates.
Hoistable(node) == node.kind = "nop"

\* One item of the loop of group_contiguous_fusable over <<groups, run>>.
GroupItem(acc, item) ==
  LET groups == acc[1]
      run    == acc[2]
  IN  IF Fusable(item) THEN <<groups, Append(run, item)>>
      ELSE IF run # <<>> /\ Hoistable(item)
           THEN <<Append(groups, <<item>>), run>>
           ELSE <<(IF run # <<>> THEN Append(groups, run) ELSE groups)
                    \o << <<item>> >>, <<>> >>

\* group_contiguous_fusable, and with it spyre_fuse_nodes: the bundles.
Bundles(nodes) ==
  LET end == FoldLeft(GroupItem, << <<>>, <<>> >>, nodes)
  IN  IF end[2] # <<>> THEN Append(end[1], end[2]) ELSE end[1]

(***************************************************************************)
(* What running a node list does: its operations in order, the body of a   *)
(* loop twice (two trips show what is carried from one to the next).       *)
(***************************************************************************)
NodeTrace(node) ==
  LET ops == [i \in DOMAIN node.body |-> [node.body[i] EXCEPT !.kind = node.kind]]
  IN  IF node.kind = "loop" THEN ops \o ops ELSE ops

Trace(nodes) == FlattenSeq([i \in DOMAIN nodes |-> NodeTrace(nodes[i])])

\* Nodes that allocate what they write and put no data into it.
Allocates(op) == op.kind \in {"nop", "empty"}
=============================================================================
