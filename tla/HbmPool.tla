------------------------------- MODULE HbmPool -------------------------------
(***************************************************************************)
(* hbm_pool_planning (torch_spyre/_inductor/hbm_pool_planning.py): which   *)
(* intermediates of which bundle live in the bundle's pool of device       *)
(* memory, and at which offset.  The pass runs once over the bundles that  *)
(* fusion made; every bundle gets an Allocator of its own.                 *)
(*                                                                         *)
(* A graph is [nodes, alloc, inputs, outputs, lx, bytes, keeps]: the       *)
(* scheduler's nodes, the storage (layout.allocation) of every name, which *)
(* several names share after a mutation, the graph's inputs and outputs,   *)
(* the storage that LX planning took, the size of every storage in bytes,  *)
(* and whether the merged read set of a loop keeps the reads of names the  *)
(* loop itself writes (ReadWrites.merge_list drops them when the index     *)
(* expressions agree).                                                     *)
(***************************************************************************)
EXTENDS Fusion, FiniteSetsExt

CONSTANTS Storing,    \* graphs without nodes: storages, inputs, outputs, sizes
          Nodes,      \* the nodes the scheduler may produce
          MaxNodes,   \* bound on the nodes of a graph
          Rewrites,   \* may nodes update a name in place?
          Limit,      \* MAX_POOL_SIZE_BYTES
          Alignment   \* _HBM_ALLOCATION_ALIGNMENT_BYTES

VARIABLES graph,      \* the input
          bundles,    \* what spyre_fuse_nodes made of its nodes
          cur,        \* the bundle being planned
          queue,      \* storages of it still to be placed, in order
          free,       \* Allocator._free: sequence of [off, size]
          poolEnd,    \* Allocator._pool_end
          pending,    \* pending_frees: sequence of [end, off, size]
          offset,     \* storage -> offset, layout.allocation["hbm_pool"]
          poolSize    \* bundle -> hbm_pool_sizes

vars == <<graph, bundles, cur, queue, free, poolEnd, pending, offset, poolSize>>

None == -1
Names == DOMAIN graph.alloc
Storages == {graph.alloc[n] : n \in Names}
AliasesOf(a) == {n \in Names : graph.alloc[n] = a}
Outside == graph.inputs \cup graph.outputs

\* _iter_all_nodes: the operations of a bundle, loop bodies included.
Ops(b) == UNION {ToSet(NodeTrace(bundles[b][i])) : i \in DOMAIN bundles[b]}
IsKernelArg(op) == op.kind \in {"nop", "extern", "empty"}

\* fallback_read
FallbackRead ==
  UNION {op.reads : op \in {o \in UNION {Ops(b) : b \in DOMAIN bundles} : IsKernelArg(o)}}

\* buffer_writer_bundles: kernels that write n, and the node of an empty n.
Writers(n) ==
  {b \in DOMAIN bundles : n \notin graph.outputs /\
      \E op \in Ops(b) : n \in op.writes /\ (~IsKernelArg(op) \/ op.kind = "empty")}

\* buffer_reader_bundles
Readers(n) ==
  {b \in DOMAIN bundles : n \notin graph.inputs /\
      \E op \in Ops(b) : n \in op.reads /\ ~IsKernelArg(op)}

\* alloc_id_bundles, alloc_id_reader_bundles
StorageWriters(a) == UNION {Writers(n) : n \in AliasesOf(a)}
StorageReaders(a) == UNION {Readers(n) : n \in AliasesOf(a)}

\* _is_intermediate
IsIntermediate(n) ==
  /\ graph.alloc[n] \notin graph.lx
  /\ AliasesOf(graph.alloc[n]) \cap (Outside \cup FallbackRead) = {}

\* A mutant: reads through another name of the storage are not looked at.
IsCrossBundleByName(n) ==
  \/ Cardinality(Writers(n)) > 1
  \/ Cardinality(StorageWriters(graph.alloc[n])) > 1
  \/ Readers(n) \ {Max(Writers(n))} # {}

\* _is_cross_bundle
IsCrossBundle(n) ==
  \/ Cardinality(Writers(n)) > 1
  \/ Cardinality(StorageWriters(graph.alloc[n])) > 1
  \/ StorageReaders(graph.alloc[n]) \ StorageWriters(graph.alloc[n]) # {}
  \/ Readers(n) \ {Max(Writers(n))} # {}

\* all_candidates, restricted to those bundle b writes (bundle_candidates)
Candidates(b) ==
  {n \in Names \ (Outside \cup FallbackRead) :
      /\ Writers(n) # {} /\ Readers(n) # {}
      /\ IsIntermediate(n) /\ ~IsCrossBundle(n)
      /\ Max(Writers(n)) = b}

-----------------------------------------------------------------------------
(***************************************************************************)
(* Live ranges.  A step is one node of the bundle; a loop is one step.     *)
(***************************************************************************)
StepWrites(node) == UNION {node.body[i].writes : i \in DOMAIN node.body}
StepReads(node) ==
  LET all == UNION {node.body[i].reads : i \in DOMAIN node.body}
  IN  IF node.kind = "loop" /\ ~graph.keeps THEN all \ StepWrites(node) ELSE all

\* A mutant: a loop's writes do not keep what it writes live through its step,
\* and a buffer without a visible read dies where it is written.
EndStepsOfReads(b, n) ==
  {i \in DOMAIN bundles[b] :
      n \in StepReads(bundles[b][i]) \cup StepWrites(bundles[b][i])
        /\ bundles[b][i].kind # "loop"}

\* The steps at which _compute_live_ranges sets end[n].
EndSteps(b, n) ==
  {i \in DOMAIN bundles[b] :
      \/ n \in StepReads(bundles[b][i])
      \/ bundles[b][i].kind = "loop" /\ n \in StepWrites(bundles[b][i])}

StartSteps(b, n) == {i \in DOMAIN bundles[b] : n \in StepWrites(bundles[b][i])}

\* The range of one name: the last step that writes it, and the last that
\* reads it, or past the end of the bundle where no read is visible.
NameRange(b, n) ==
  [start |-> Max(StartSteps(b, n)),
   end   |-> IF EndSteps(b, n) = {} THEN Len(bundles[b]) + 1
             ELSE Max(EndSteps(b, n))]

\* _compute_live_ranges: the range of a storage is that of all its names.
LiveRange(b, a) ==
  LET names == {n \in Candidates(b) \cap AliasesOf(a) : StartSteps(b, n) # {}}
  IN  [start |-> Min({NameRange(b, n).start : n \in names}),
       end   |-> Max({NameRange(b, n).end : n \in names})]

\* alloc_order: one entry per storage, by (start, end, least name).
AllocOrder(b) ==
  LET placed == {a \in Storages :
                    \E n \in Candidates(b) \cap AliasesOf(a) : StartSteps(b, n) # {}}
      Key(a) == <<LiveRange(b, a).start, LiveRange(b, a).end,
                  Min(Candidates(b) \cap AliasesOf(a))>>
      Before(a, c) ==
        LET k == Key(a)
            l == Key(c)
        IN  \/ k[1] < l[1]
            \/ k[1] = l[1] /\ k[2] < l[2]
            \/ k[1] = l[1] /\ k[2] = l[2] /\ k[3] < l[3]
  IN  SetToSortSeq(placed, Before)

-----------------------------------------------------------------------------
(***************************************************************************)
(* The allocator.                                                          *)
(***************************************************************************)
\* _align_up and _compute_size_bytes
SizeOf(a) == ((graph.bytes[a] + Alignment - 1) \div Alignment) * Alignment

Block(off, size) == [off |-> off, size |-> size]

\* Allocator.allocate: the first free block that is large enough, or the
\* end of the pool, or None with the state untouched.
Allocate(frees, end, size) ==
  LET fits == {i \in DOMAIN frees : frees[i].size >= size}
  IN  IF fits # {}
      THEN LET i    == Min(fits)
               rest == frees[i].size - size
           IN  [off  |-> frees[i].off, end |-> end,
                free |-> RemoveAt(frees, i)
                           \o (IF rest > 0 THEN <<Block(frees[i].off + size, rest)>>
                               ELSE <<>>)]
      ELSE IF end + size > Limit
           THEN [off |-> None, end |-> end, free |-> frees]
           ELSE [off |-> end, end |-> end + size, free |-> frees]

-----------------------------------------------------------------------------
open == queue # <<>> \/ poolEnd # None

Init ==
  /\ graph \in Storing /\ graph.nodes = <<>>
  /\ bundles = <<>>
  /\ cur = 0
  /\ queue = <<>> /\ free = <<>> /\ poolEnd = None /\ pending = <<>>
  /\ offset = [a \in Storages |-> None]
  /\ poolSize = <<>>

\* The names written before operation i of a node that comes after nodes.
Before(nodes, node, i) ==
  UNION {StepWrites(nodes[k]) : k \in DOMAIN nodes}
    \cup UNION {node.body[k].writes : k \in 1..(i - 1)} \cup graph.inputs

\* A name that is read was stored, and is the newest name of its storage:
\* Inductor renames the reads that follow a mutation (mutation_renames).
Readable(n, nodes, node, i) ==
  /\ n \in Before(SelectSeq(nodes, LAMBDA x : ~Allocates(x)), node, i)
  /\ \A m \in AliasesOf(graph.alloc[n]) \cap Before(nodes, node, i) : m <= n

\* A name that is written is new, or (if Rewrites) updated in place; it is a
\* new tensor, or (in a kernel) the next name of a storage.
Writable(n, nodes, node, i) ==
  /\ n \in Before(nodes, node, i) => Rewrites /\ n \in node.body[i].reads
  /\ \A m \in AliasesOf(graph.alloc[n]) :
       IF m > n \/ ~Fusable(node) THEN m \notin Before(nodes, node, i)
       ELSE m < n => m \in Before(nodes, node, i)

\* The scheduler (PyTorch's) delivers its nodes in dependency order.  A nop
\* reads nothing really, and so may name what is stored only later.
Schedule(node) ==
  /\ cur = 0 /\ Len(graph.nodes) < MaxNodes
  /\ \A i \in DOMAIN node.body :
       /\ \A n \in node.body[i].reads :
            node.kind # "nop" => Readable(n, graph.nodes, node, i)
       /\ \A n \in node.body[i].writes : Writable(n, graph.nodes, node, i)
  /\ graph' = [graph EXCEPT !.nodes = Append(@, node)]
  /\ UNCHANGED <<bundles, cur, queue, free, poolEnd, pending, offset, poolSize>>

\* Nothing that a kernel stores is never read: Inductor removed such nodes.
NoDeadStores ==
  LET t == Trace(graph.nodes)
  IN  \A i \in DOMAIN t : \A n \in t[i].writes \ graph.outputs :
        Fusable(t[i]) => \E k \in (i + 1)..Len(t) : n \in t[k].reads

\* spyre_fuse_nodes, then the pass begins.
Fuse ==
  /\ cur = 0 /\ NoDeadStores
  /\ bundles' = Bundles(graph.nodes)
  /\ poolSize' = [b \in DOMAIN bundles' |-> None]
  /\ cur' = 1
  /\ UNCHANGED <<graph, queue, free, poolEnd, pending, offset>>

\* No candidate in this bundle: it gets no pool.
SkipBundle ==
  /\ ~open /\ cur \in DOMAIN bundles
  /\ Candidates(cur) = {}
  /\ cur' = cur + 1
  /\ UNCHANGED <<graph, bundles, queue, free, poolEnd, pending, offset, poolSize>>

\* Live ranges, groups and order of the bundle's candidates; a new Allocator.
OpenBundle ==
  /\ ~open /\ cur \in DOMAIN bundles
  /\ Candidates(cur) # {}
  /\ queue' = AllocOrder(cur)
  /\ free' = <<>> /\ poolEnd' = 0 /\ pending' = <<>>
  /\ UNCHANGED <<graph, bundles, cur, offset, poolSize>>

\* A block is given back when its last reader ran before this storage's start.
Expired(range, entry) == entry.end < range.start

\* One storage: give back the blocks that are no longer live, then allocate.
Place ==
  /\ queue # <<>>
  /\ LET a      == Head(queue)
         range  == LiveRange(cur, a)
         Gone(e) == Expired(range, e)
         Live(e) == ~Expired(range, e)
         gone   == SelectSeq(pending, Gone)
         frees  == free \o [i \in DOMAIN gone |-> Block(gone[i].off, gone[i].size)]
         got    == Allocate(frees, poolEnd, SizeOf(a))
     IN  /\ free' = got.free
         /\ poolEnd' = got.end
         /\ pending' = SelectSeq(pending, Live)
              \o (IF got.off = None THEN <<>>
                  ELSE <<[end |-> range.end, off |-> got.off, size |-> SizeOf(a)]>>)
         /\ offset' = [offset EXCEPT ![a] = got.off]
  /\ queue' = Tail(queue)
  /\ UNCHANGED <<graph, bundles, cur, poolSize>>

CloseBundle ==
  /\ open /\ queue = <<>>
  /\ poolSize' = [poolSize EXCEPT ![cur] = poolEnd]
  /\ cur' = cur + 1
  /\ free' = <<>> /\ poolEnd' = None /\ pending' = <<>>
  /\ UNCHANGED <<graph, bundles, queue, offset>>

Finished == cur > Len(bundles) /\ cur # 0

\* The pass is over, or the node list cannot be completed within the bound.
Done == (Finished \/ cur = 0) /\ UNCHANGED vars

Next ==
  \/ \E node \in Nodes : Schedule(node)
  \/ Fuse \/ SkipBundle \/ OpenBundle \/ Place \/ CloseBundle \/ Done

Spec == Init /\ [][Next]_vars

-----------------------------------------------------------------------------
(***************************************************************************)
(* Properties.                                                             *)
(***************************************************************************)
Blocks == [off : Nat, size : Nat \ {0}]

\* Free and pending blocks lie in the pool, which ends within the segment,
\* also after an allocate that failed (Allocator).
TypeOK ==
  /\ cur \in 0..Len(bundles) + 1
  /\ ToSet(queue) \subseteq Storages
  /\ ToSet(free) \subseteq Blocks
  /\ \A e \in ToSet(pending) : Block(e.off, e.size) \in Blocks /\ e.end \in Nat
  /\ poolEnd \in 0..Limit \cup {None}
  /\ offset \in [Storages -> Nat \cup {None}]
  /\ poolSize \in [DOMAIN bundles -> Nat \cup {None}]

Bytes(blocks) == UNION {blocks[i].off..(blocks[i].off + blocks[i].size - 1) : i \in DOMAIN blocks}
Total(blocks) == FoldLeft(LAMBDA n, b : n + b.size, 0, blocks)

\* The free list and the blocks in use are a partition of the pool: every
\* byte below the high-water mark is in exactly one of them (Allocator).
PoolPartitioned ==
  poolEnd # None =>
    /\ Bytes(free) \cup Bytes(pending) = 0..(poolEnd - 1)
    /\ Total(free) + Total(pending) = poolEnd

Pooled == {a \in Storages : offset[a] # None}
Region(a) == offset[a]..(offset[a] + SizeOf(a) - 1)
Touches(op, a) == AliasesOf(a) \cap (op.reads \cup op.writes) # {}

\* A pool exists only while its bundle runs: storage with a pool offset is,
\* under all of its names, used by the kernel of one bundle alone, is no
\* input, output or argument of an extern kernel, and lies inside what the
\* bundle reserves.  (Nodes that would only allocate it emit nothing then.)
PoolIsBundleLocal ==
  Finished => \A a \in Pooled : \E b \in DOMAIN bundles :
    /\ offset[a] + SizeOf(a) <= poolSize[b]
    /\ \A c \in DOMAIN bundles : \A op \in Ops(c) :
         Touches(op, a) /\ ~Allocates(op) => c = b /\ ~IsKernelArg(op)
    /\ AliasesOf(a) \cap Outside = {}

\* The last operation before position i of a trace that stores to a.
LastStore(trace, i, a) ==
  LET before == {k \in 1..(i - 1) : ~Allocates(trace[k]) /\ AliasesOf(a) \cap trace[k].writes # {}}
  IN  IF before = {} THEN 0 ELSE Max(before)

\* Planned storage keeps its value from the store to every read: nothing
\* stored in between, nor by the reading operation itself, overlaps it.
ValuesSurvive ==
  Finished =>
    LET trace == Trace(FlattenSeq(bundles))
    IN  \A i \in DOMAIN trace : \A n \in trace[i].reads :
          LET a == graph.alloc[n]
          IN  a \in Pooled =>
                \A k \in (LastStore(trace, i, a) + 1)..i :
                  \A m \in trace[k].writes :
                    LET c == graph.alloc[m]
                    IN  c \in Pooled \ {a} => Region(c) \cap Region(a) = {}

\* Fusing into bundles, which moves nops forward, gives every read the
\* store that it had in the scheduler's order (spyre_fuse_nodes).
FusionKeepsDataflow ==
  cur = 1 /\ ~open =>
    LET old == Trace(graph.nodes)
        new == Trace(FlattenSeq(bundles))
        Flow(t) == SelectSeq([i \in DOMAIN t |->
                     [op |-> t[i], from |-> {<<n, LET k == LastStore(t, i, graph.alloc[n])
                                              IN IF k = 0 THEN <<>> ELSE t[k]>> : n \in t[i].reads}]],
                     LAMBDA e : e.op.kind # "nop")
    IN  Flow(old) = Flow(new)
=============================================================================
