------------------------------ MODULE LxGapFit ------------------------------
(***************************************************************************)
(* FirstFitLayoutSolver and BestFitLayoutSolver                            *)
(* (torch_spyre/_inductor/scratchpad/firstfit_bestfit_solver.py): buffers  *)
(* are placed one at a time, by score with parents before their in-place   *)
(* children, in a gap of the addresses free during their lifetime.         *)
(***************************************************************************)
EXTENDS LxPlacement

CONSTANTS Shapes,      \* the buffers a problem is made of, without parents
          MaxBuffers,  \* how many it has
          Policies     \* of {"first", "best"}: the solvers

VARIABLES bufs, policy, order, address, phase

vars == <<bufs, policy, order, address, phase>>

Init ==
    /\ bufs = <<>> /\ policy \in Policies
    /\ order = <<>> /\ address = <<>> /\ phase = "input"

\* The caller's problem: another buffer, with in-place parents among those
\* the problem has; a graph input has none.
AddBuffer ==
    /\ phase = "input" /\ Len(bufs) < MaxBuffers
    /\ \E s \in Shapes, ps \in SUBSET DOMAIN bufs :
        /\ Cardinality(ps) <= 2
        /\ s.input => ps = {}
        /\ bufs' = Append(bufs, [s EXCEPT !.parents = SetToSeq(ps)])
        /\ address' = Append(address, NoAddress)
    /\ UNCHANGED <<policy, order, phase>>

(***************************************************************************)
(* The order.  A score is the fraction num / den, scaled by four and two:  *)
(* (span - discount) / (uses + write bonus).                               *)
(***************************************************************************)
SpanOf(i) == EndTime(bufs[i]) - StartTime(bufs[i])

HasChild(i) == \E c \in Placeable(bufs) : ParentOf(bufs, i, c)

Num(i) == 4 * SpanOf(i) - (IF bufs[i].parents # <<>> THEN 1 ELSE 0)
                        - (IF HasChild(i) THEN 1 ELSE 0)

Den(i) == 2 * Cardinality(bufs[i].uses) + (IF bufs[i].input THEN 0 ELSE 1)

SortsBefore(i, j) ==
    LET x == Num(i) * Den(j)
        y == Num(j) * Den(i)
    IN  \/ x < y
        \/ x = y /\ SpanOf(i) < SpanOf(j)
        \/ x = y /\ SpanOf(i) = SpanOf(j) /\ i < j

\* Kahn's algorithm: of the buffers whose parents are placed, the first in
\* the order of the scores.
TopologicalSort(S) ==
    LET Ready(done) == {i \in S \ Range(done) :
                            \A p \in S : ParentOf(bufs, p, i) => p \in Range(done)}
        Pick(done) == CHOOSE i \in Ready(done) :
                        \A j \in Ready(done) \ {i} : SortsBefore(i, j)
        Sorted[n \in 0 .. Cardinality(S)] ==
            IF n = 0 THEN <<>> ELSE Append(Sorted[n - 1], Pick(Sorted[n - 1]))
    IN  Sorted[Cardinality(S)]

\* plan_layout up to its loop: an illegal pair is refused, the barred
\* buffers are left out, the others are ordered.
Start ==
    /\ phase = "input" /\ bufs # <<>>
    /\ IF CheckInPlaceRelationships(bufs)
       THEN order' = TopologicalSort(Placeable(bufs)) /\ phase' = "place"
       ELSE order' = <<>> /\ phase' = "refused"
    /\ UNCHANGED <<bufs, policy, address>>

(***************************************************************************)
(* The gaps, in address order; a gap is a pair <<start, end>>.             *)
(***************************************************************************)
\* A mutant: the free bytes above the interval are forgotten.
MinusBelow(gap, lo, hi, least) ==
    IF gap[1] < lo /\ Min({gap[2], lo}) - gap[1] >= least
    THEN <<<<gap[1], Min({gap[2], lo})>>>> ELSE <<>>

Minus(gap, lo, hi, least) ==
    LET below == <<gap[1], Min({gap[2], lo})>>
        above == <<Max({gap[1], hi}), gap[2]>>
        Wide(g) == g[2] - g[1] >= least
    IN  (IF gap[1] < lo /\ Wide(below) THEN <<below>> ELSE <<>>)
        \o (IF gap[2] > hi /\ Wide(above) THEN <<above>> ELSE <<>>)

AllMinus(gaps, lo, hi, least) ==
    FlattenSeq([k \in DOMAIN gaps |-> Minus(gaps[k], lo, hi, least)])

\* What a gap of i must avoid; the parents are spared when their slot is to
\* be reused.
Conflicts(i, spared) ==
    {j \in DOMAIN bufs : /\ address[j] # NoAddress
                         /\ j \notin spared
                         /\ OverlapsInTime(bufs[i], bufs[j])}

BuildGaps(i, spared) ==
    FoldSet(LAMBDA j, gaps : AllMinus(gaps, address[j], address[j] + bufs[j].size,
                                      bufs[i].size),
            <<<<0, Limit>>>>, Conflicts(i, spared))

\* A mutant: the ordinary gaps still spare the parents.
OwnGapsSparing(i) == BuildGaps(i, Range(bufs[i].parents))

OwnGaps(i) == BuildGaps(i, {})

\* The parents of i whose slots lie in the gap, in the order declared.
ParentsIn(i, gap) ==
    SelectSeq(bufs[i].parents,
              LAMBDA p : /\ address[p] # NoAddress
                         /\ gap[1] <= address[p]
                         /\ address[p] + bufs[p].size <= gap[2])

Fits(gap, size) == RoundUp(gap[1]) + size <= gap[2]

Waste(gap, size) == gap[2] - RoundUp(gap[1]) - size

\* The places of the gaps that may be picked: the first that fits, or the
\* first of those that leave least.
PickGap(gaps, size) ==
    LET fit == {k \in DOMAIN gaps : Fits(gaps[k], size)}
        least == {k \in fit : \A l \in fit : Waste(gaps[k], size) <= Waste(gaps[l], size)}
        from == IF policy = "first" THEN fit ELSE least
    IN  IF from = {} THEN {} ELSE {Min(from)}

\* One buffer of plan_layout's loop: in a parent's slot when it is free but
\* for the parent, else in a gap that avoids the parents too, else nowhere.
Place ==
    /\ phase = "place" /\ order # <<>>
    /\ LET i == Head(order)
           size == bufs[i].size
           sparing == SelectSeq(BuildGaps(i, Range(bufs[i].parents)),
                                LAMBDA g : ParentsIn(i, g) # <<>>)
           reused == PickGap(sparing, size)
           gaps == OwnGaps(i)
           own == PickGap(gaps, size)
       IN  address' =
             IF reused # {}
             THEN [address EXCEPT ![i] = address[ParentsIn(i, sparing[Min(reused)])[1]]]
             ELSE IF own # {}
             THEN [address EXCEPT ![i] = RoundUp(gaps[Min(own)][1])]
             ELSE address
    /\ order' = Tail(order)
    /\ UNCHANGED <<bufs, policy, phase>>

Finish ==
    /\ phase = "place" /\ order = <<>>
    /\ phase' = "done"
    /\ UNCHANGED <<bufs, policy, order, address>>

Ended == phase \in {"done", "refused"} /\ UNCHANGED vars

Next == AddBuffer \/ Start \/ Place \/ Finish \/ Ended

Spec == Init /\ [][Next]_vars

-----------------------------------------------------------------------------

\* The solver's state has its shape; the order holds each buffer once, and
\* only buffers that may be placed.
TypeOK ==
    /\ policy \in Policies /\ phase \in {"input", "place", "done", "refused"}
    /\ Len(address) = Len(bufs)
    /\ WithinLimit(bufs, address)
    /\ IsInjective(order) /\ Range(order) \subseteq Placeable(bufs)

\* Buffers that live at the same tick never share a byte of LX, but for a
\* child in the slot of the parent that dies in its first tick, whatever
\* third buffer lies beside the slot (_build_gaps, plan_layout).
NoClash == Disjoint(bufs, address)

\* A buffer is left in HBM only when no aligned address avoids the buffers
\* already placed beside it: _all_minus loses no free byte, and the
\* alignment is counted once.
SpilledWhenFull ==
    Place => LET i == Head(order)
             IN  address'[i] = NoAddress =>
                     FreeAddresses(bufs, address, i, Conflicts(i, {})) = {}

\* A parent is decided before its in-place children, so a slot that is
\* inherited is one that was given (_topological_sort).
ParentsFirst ==
    \A k \in DOMAIN order : \A p \in Placeable(bufs) :
        phase = "place" /\ ParentOf(bufs, p, order[k])
        => p \notin {order[l] : l \in k .. Len(order)}
=============================================================================
