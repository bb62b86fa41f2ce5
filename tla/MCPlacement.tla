----------------------------- MODULE MCPlacement -----------------------------
(***************************************************************************)
(* The compiler's three placements of buffers: the pool of device memory   *)
(* (on graphs with all kinds of node but loops, and on graphs of loops),   *)
(* and the two scratchpad solvers.  A behaviour is one of one of them,     *)
(* `part` says of which, and the variables of the others keep their        *)
(* initial values.                                                         *)
(***************************************************************************)
EXTENDS LxPlacement

VARIABLES
    part,
    \* HbmPool
    graph, bundles, cur, queue, free, poolEnd, pending, offset, poolSize,
    \* LxGapFit and LxGreedy
    bufs, address, phase,
    \* LxGapFit
    policy, order,
    \* LxGreedy
    groups, clock, todo, usage, reused, rejected

-----------------------------------------------------------------------------
\* Graphs over three names, the first two of which may share a storage.
Op(r, w) == [kind |-> "op", reads |-> r, writes |-> w]
Reading == {{}} \cup {{x} : x \in 1..3}
Plain == {Op(r, {x}) : r \in Reading, x \in 1..3} \cup {Op({x}, {}) : x \in 1..3}
Node(k, body) == [kind |-> k, body |-> body]
Compute == {Node("compute", <<o>>) : o \in Plain}

\* The body of a loop has two operations, the first of which stores.
Looping == {Node("loop", <<Op(r, {x}), p>>) :
               r \in Reading, x \in 1..3, p \in {q \in Plain : q.reads # {}}}
Others == {Node(k, <<Op(r, {2})>>) : k \in {"nop", "empty"}, r \in {{}, {1}}}
            \cup {Node("extern", <<Op(r, w)>>) : r \in {{}, {1}, {3}}, w \in {{}, {2}}}

\* Graphs with these inputs and outputs.
Graphs(sizes, keeping, arguments) ==
    {[nodes |-> <<>>, alloc |-> al, inputs |-> io[1], outputs |-> io[2],
      lx |-> {}, bytes |-> sizes, keeps |-> k] :
         al \in {<<1, 2, 3>>, <<1, 1, 2>>}, k \in keeping,
         io \in arguments}

Pool == INSTANCE HbmPool
          WITH Storing <- Graphs(<<3, 1, 2>>, {TRUE}, {<<{}, {}>>, <<{}, {3}>>, <<{1}, {}>>}),
               Nodes <- Compute \cup Others, MaxNodes <- 4, Rewrites <- FALSE

Loops == INSTANCE HbmPool
           WITH Storing <- Graphs(<<1, 3, 1>>, BOOLEAN, {<<{}, {}>>}),
                Nodes <- Compute \cup Looping, MaxNodes <- 3, Rewrites <- FALSE

-----------------------------------------------------------------------------
Shape(uses, size) ==
    [uses |-> uses, loop |-> {}, size |-> size, input |-> FALSE, barred |-> FALSE,
     parents |-> <<>>]
Barred == [Shape({0, 1}, 2) EXCEPT !.barred = TRUE]
Input == [Shape({1}, 4) EXCEPT !.input = TRUE]

\* Short and long lifetimes, an odd size, a graph input, a buffer of a counted
\* loop that is never read, one that is barred.
GapFit == INSTANCE LxGapFit
            WITH Shapes <- {Shape({0, 1}, 4), Shape({2, 3}, 2), Shape({1, 3}, 3),
                            Input, Barred,
                            [Shape({1}, 2) EXCEPT !.loop = {0, 2}]},
                 MaxBuffers <- 4, Policies <- {"first", "best"}

\* A parent of four bytes and a child of one, so that a hand-over leaves bytes
\* of the parent beside the child; two bytes more of LX.
Greedy == INSTANCE LxGreedy
            WITH Limit <- Limit + 2, MaxBuffers <- 4, MaxGroups <- 1,
                 Shapes <- {Shape({0, 1}, 4), Shape({1, 2}, 1), Shape({0}, 2),
                            Input, Barred}

-----------------------------------------------------------------------------
poolVars == <<graph, bundles, cur, queue, free, poolEnd, pending, offset, poolSize>>
lxVars == <<bufs, address, phase>>
gapVars == <<policy, order>>
greedyVars == <<groups, clock, todo, usage, reused, rejected>>
allVars == <<part, poolVars, lxVars, gapVars, greedyVars>>

Init ==
    /\ part \in {"pool", "loops", "gapfit", "greedy"}
    /\ IF part = "pool" THEN Pool!Init ELSE Loops!Init
    /\ part \in {"gapfit", "greedy"} =>
          graph = [nodes |-> <<>>, alloc |-> <<1, 2, 3>>, inputs |-> {}, outputs |-> {},
                   lx |-> {}, bytes |-> <<1, 3, 1>>, keeps |-> TRUE]
    /\ GapFit!Init /\ Greedy!Init
    /\ part # "gapfit" => policy = "first"

Next ==
    /\ UNCHANGED part
    /\ \/ /\ (part = "pool" /\ Pool!Next) \/ (part = "loops" /\ Loops!Next)
          /\ UNCHANGED <<lxVars, gapVars, greedyVars>>
       \/ /\ part = "gapfit" /\ GapFit!Next
          /\ UNCHANGED <<poolVars, greedyVars>>
       \/ /\ part = "greedy" /\ Greedy!Next
          /\ UNCHANGED <<poolVars, gapVars>>

Spec == Init /\ [][Next]_allVars
-----------------------------------------------------------------------------
(* The pool of a bundle: the free list and the blocks in use partition it, so
   that every byte below the high-water mark is in exactly one of them; and
   storage with a pool offset is, under all of its names, used by the kernel of
   one bundle alone and lies inside what the bundle reserves (Allocator). *)
PoolSound == Pool!TypeOK /\ Pool!PoolPartitioned /\ Pool!PoolIsBundleLocal

(* Planned storage keeps its value from the store to every read
   (_compute_live_ranges, Allocator). *)
ValuesSurvive == Pool!ValuesSurvive

(* Fusing into bundles, which moves nops forward, gives every read the store
   that it had in the scheduler's order (spyre_fuse_nodes). *)
FusionKeepsDataflow == Pool!FusionKeepsDataflow

(* First fit, best fit and the greedy walk: buffers that live at the same tick
   never share a byte of LX, but for a child in the slot of the parent that dies
   in its first tick, whatever third buffer lies beside the slot; parents are
   decided before their children, and a paired group is resident as a whole or
   not at all (_build_gaps, _try_allocate_one, _try_allocate). *)
LxNoClash ==
    /\ part = "gapfit" => GapFit!TypeOK /\ GapFit!NoClash /\ GapFit!ParentsFirst
    /\ part = "greedy" => Greedy!TypeOK /\ Greedy!NoClash /\ Greedy!PairsTogether

(* A buffer (for the greedy walk one that is in no group) is left in HBM only
   when no aligned address avoids the buffers placed beside it (_all_minus,
   _find_free_block). *)
LxSpillsWhenFull ==
    [][/\ part = "gapfit" => GapFit!SpilledWhenFull
       /\ part = "greedy" => Greedy!SpilledWhenFull]_allVars
=============================================================================
