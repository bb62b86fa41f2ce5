------------------------------ MODULE LxGreedy ------------------------------
(***************************************************************************)
(* GreedyLayoutSolver                                                      *)
(* (torch_spyre/_inductor/scratchpad/greedy_solver.py): a walk through     *)
(* time that frees what ends and places what starts, hands a dying         *)
(* parent's slot to one child, and places a paired group as a whole.       *)
(***************************************************************************)
EXTENDS LxPlacement

CONSTANTS Shapes, MaxBuffers, MaxGroups

VARIABLES bufs, groups,      \* the problem; a group is a sequence, root first
          clock, todo,       \* the tick, and its buffers not yet tried
          usage,             \* the buffers that hold LX
          reused, rejected,  \* reused_parents, rejected_paired_buffers
          address, phase

vars == <<bufs, groups, clock, todo, usage, reused, rejected, address, phase>>
problem == <<bufs, groups>>

Init ==
    /\ bufs = <<>> /\ groups = {} /\ address = <<>> /\ phase = "input"
    /\ clock = -1 /\ todo = <<>> /\ usage = {} /\ reused = {} /\ rejected = {}

\* The caller's problem: a graph input has no in-place parent.
AddBuffer ==
    /\ phase = "input" /\ groups = {} /\ Len(bufs) < MaxBuffers
    /\ \E s \in Shapes, ps \in SUBSET DOMAIN bufs :
        /\ Cardinality(ps) <= 2
        /\ s.input => ps = {}
        /\ bufs' = Append(bufs, [s EXCEPT !.parents = SetToSeq(ps)])
        /\ address' = Append(address, NoAddress)
    /\ UNCHANGED <<groups, clock, todo, usage, reused, rejected, phase>>

\* A relayout commits its source and its destination as one group; its
\* source is nobody's in-place parent.
Pair ==
    /\ phase = "input" /\ Cardinality(groups) < MaxGroups
    /\ \E members \in SUBSET DOMAIN bufs :
        /\ Cardinality(members) = 2
        /\ \A i \in DOMAIN bufs : Min(members) \notin Range(bufs[i].parents)
        /\ \A g \in groups : Range(g) \cap members = {}
        /\ groups' = groups \cup {SetToSortSeq(members, <)}
    /\ UNCHANGED <<bufs, clock, todo, usage, reused, rejected, address, phase>>

GroupOf(i) == {g \in groups : i \in Range(g)}

Times == UNION {{StartTime(bufs[i]), EndTime(bufs[i])} : i \in Placeable(bufs)}

\* plan_layout up to its loop: a group with a barred member is rejected.
Start ==
    /\ phase = "input" /\ bufs # <<>>
    /\ phase' = IF CheckInPlaceRelationships(bufs) THEN "walk" ELSE "refused"
    /\ rejected' = UNION {Range(g) : g \in {h \in groups :
                                        ~(Range(h) \subseteq Placeable(bufs))}}
    /\ UNCHANGED <<problem, clock, todo, usage, reused, address>>

\* The next tick at which something starts or ends; what ends is freed
\* before anything is placed.
Tick ==
    /\ phase = "walk" /\ todo = <<>>
    /\ \E t \in Times :
        /\ t > clock /\ \A u \in Times : u > clock => t <= u
        /\ clock' = t
        /\ usage' = {i \in usage : EndTime(bufs[i]) # t}
        /\ todo' = SetToSortSeq({i \in Placeable(bufs) : StartTime(bufs[i]) = t}, <)
    /\ UNCHANGED <<problem, reused, rejected, address, phase>>

(***************************************************************************)
(* One buffer, given and returning the state [address, usage, reused].     *)
(***************************************************************************)
Ends(st) == {st.address[j] + bufs[j].size : j \in st.usage}

Starts(st) == {st.address[j] : j \in st.usage}

\* The ends of the merged spans: no buffer in use covers or abuts them from
\* above.
SpanEnds(st) ==
    {e \in Ends(st) : \A j \in st.usage :
        ~(st.address[j] <= e /\ e < st.address[j] + bufs[j].size)}

\* _find_free_block: the bottom, then the top, then the lowest gap between
\* two spans; the set is empty when there is none.
FindFreeBlock(st, size) ==
    LET top == RoundUp(Max(Ends(st)))
        After(e) == {s \in Starts(st) : s > e}
        frags == {RoundUp(e) : e \in {x \in SpanEnds(st) :
                    After(x) # {} /\ Min(After(x)) - RoundUp(x) >= size}}
    IN  IF size > Limit THEN {}
        ELSE IF st.usage = {} \/ Min(Starts(st)) >= size THEN {0}
        ELSE IF top + size <= Limit THEN {top}
        ELSE IF frags = {} THEN {} ELSE {Min(frags)}

\* The parents whose slot is still to be had.
OpenParents(st, i) ==
    SelectSeq(bufs[i].parents, LAMBDA p : /\ p \notin st.reused
                                          /\ p \in st.usage
                                          /\ bufs[i].size <= bufs[p].size)

TryAllocateOne(st, i) ==
    LET open == OpenParents(st, i)
        free == FindFreeBlock(st, bufs[i].size)
        At(a) == [st EXCEPT !.address[i] = a, !.usage = @ \cup {i}]
    IN  IF open # <<>>
        THEN [At(st.address[open[1]]) EXCEPT !.reused = @ \cup {open[1]}]
        ELSE IF free # {} THEN At(Min(free)) ELSE st

\* The members in turn, each seeing the others' reservations; when one
\* cannot be placed none is.
AllocateGroup(st, g) ==
    LET all == FoldLeft(TryAllocateOne, st, g)
    IN  IF \A k \in DOMAIN g : all.address[g[k]] # NoAddress THEN all ELSE st

TryAllocate(i) ==
    LET st == [address |-> address, usage |-> usage, reused |-> reused]
        after == IF GroupOf(i) = {} THEN TryAllocateOne(st, i)
                 ELSE AllocateGroup(st, CHOOSE g \in GroupOf(i) : TRUE)
        skip == address[i] # NoAddress \/ i \in rejected
    IN  IF skip THEN UNCHANGED <<address, usage, reused, rejected>>
        ELSE /\ address' = after.address
             /\ usage' = after.usage
             /\ reused' = after.reused
             /\ rejected' = IF after.address[i] # NoAddress THEN rejected
                            ELSE rejected \cup UNION {Range(g) : g \in GroupOf(i)}

Place ==
    /\ phase = "walk" /\ todo # <<>>
    /\ TryAllocate(Head(todo))
    /\ todo' = Tail(todo)
    /\ UNCHANGED <<problem, clock, phase>>

Finish ==
    /\ phase = "walk" /\ todo = <<>> /\ \A t \in Times : t <= clock
    /\ phase' = "done"
    /\ UNCHANGED <<problem, clock, todo, usage, reused, rejected, address>>

Ended == phase \in {"done", "refused"} /\ UNCHANGED vars

Next == AddBuffer \/ Pair \/ Start \/ Tick \/ Place \/ Finish \/ Ended

Spec == Init /\ [][Next]_vars

-----------------------------------------------------------------------------

\* The solver's state has its shape: what is in use has an address and has
\* not ended, a placement is legal, and all is free at the end.
TypeOK ==
    /\ phase \in {"input", "walk", "done", "refused"}
    /\ Len(address) = Len(bufs)
    /\ WithinLimit(bufs, address)
    /\ \A i \in usage : address[i] # NoAddress /\ clock < EndTime(bufs[i])
    /\ phase = "done" => usage = {}

\* Buffers that live at the same tick never share a byte of LX, but for the
\* one child that takes a dying parent's slot: the parent's upper bytes stay
\* its own for that tick, a second child goes elsewhere, and a member of a
\* group reserved before its lifetime is in nobody's way
\* (_find_free_block, _try_allocate_one).
NoClash == Disjoint(bufs, address)

\* A paired group is resident as a whole or not at all: the relayout that
\* reads one member's LX address and writes another's has both
\* (_try_allocate).
PairsTogether ==
    phase = "walk" \/ \A g \in groups :
        Cardinality({k \in DOMAIN g : address[g[k]] = NoAddress}) \in {0, Len(g)}

\* A buffer that is in no group is left in HBM only when no aligned address
\* avoids what is in use: of the bottom, the top and the gaps, none is
\* overlooked (_find_free_block).
SpilledWhenFull ==
    \A i \in DOMAIN bufs :
        todo # <<>> /\ todo' = Tail(todo) /\ i = Head(todo) /\ GroupOf(i) = {}
          /\ address'[i] = NoAddress
        => FreeAddresses(bufs, address, i, usage) = {}
=============================================================================
