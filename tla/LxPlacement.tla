---------------------------- MODULE LxPlacement ----------------------------
(***************************************************************************)
(* What the scratchpad (LX) placement solvers share: the buffers they are  *)
(* given, the in-place pairs they accept, the buffers they may not place,  *)
(* and what a placement must satisfy                                       *)
(* (torch_spyre/_inductor/scratchpad/plan_solver.py).                      *)
(*                                                                         *)
(* A problem is a sequence of buffers, named by their place in it.  A      *)
(* buffer is a record: the ticks that use it, the ticks of the counted     *)
(* loop that widens its lifetime (none when there are no overrides), its   *)
(* size, whether it is a graph input (its first use is a read), whether    *)
(* residency is barred (residency_reason, or untiled_bar for the solvers   *)
(* modelled here), and the sequence of its in-place parents.               *)
(***************************************************************************)
EXTENDS Integers, FiniteSets, FiniteSetsExt, SequencesExt

CONSTANTS Limit,      \* bytes of scratchpad
          Alignment   \* every address is a multiple of it

ASSUME PositiveSizes == Limit \in Nat \ {0} /\ Alignment \in Nat \ {0}

NoAddress == -1

StartTime(b) == Min(b.uses \cup b.loop)

EndTime(b) == Max(b.uses \cup b.loop) + 1

OverlapsInTime(a, b) == StartTime(a) < EndTime(b) /\ StartTime(b) < EndTime(a)

RoundUp(n) == ((n + Alignment - 1) \div Alignment) * Alignment

\* The child takes the slot at the parent's last use, which must be a read.
ParentIsRead(p) == p.input \/ Cardinality(p.uses) > 1

InPlaceLegal(p, c) ==
    /\ EndTime(p) = StartTime(c) + 1
    /\ ParentIsRead(p)
    /\ c.size <= p.size

CheckInPlaceRelationships(bufs) ==
    \A c \in DOMAIN bufs :
        \A k \in DOMAIN bufs[c].parents :
            InPlaceLegal(bufs[bufs[c].parents[k]], bufs[c])

Excluded(b) == b.barred \/ b.size > Limit

Placeable(bufs) == {i \in DOMAIN bufs : ~Excluded(bufs[i])}

(***************************************************************************)
(* The reference the solvers are compared with.                            *)
(***************************************************************************)
Span(bufs, address, i) == address[i] .. address[i] + bufs[i].size - 1

ParentOf(bufs, p, c) ==
    \E k \in DOMAIN bufs[c].parents : bufs[c].parents[k] = p

\* c may lie in p's slot: p ends in c's first tick, and c starts where p
\* starts and does not outgrow it.
Inherits(bufs, address, p, c) ==
    /\ ParentOf(bufs, p, c) /\ EndTime(bufs[p]) = StartTime(bufs[c]) + 1
    /\ address[c] = address[p] /\ bufs[c].size <= bufs[p].size

\* No two buffers hold the same byte at the same tick, unless one inherits
\* the other's slot at the tick of the hand-over.
Disjoint(bufs, address) ==
    \A i, j \in DOMAIN bufs :
        i < j /\ address[i] # NoAddress /\ address[j] # NoAddress
          /\ OverlapsInTime(bufs[i], bufs[j])
          /\ Span(bufs, address, i) \cap Span(bufs, address, j) # {}
        => \/ Inherits(bufs, address, i, j)
           \/ Inherits(bufs, address, j, i)

WithinLimit(bufs, address) ==
    \A i \in DOMAIN bufs : address[i] # NoAddress =>
        /\ address[i] % Alignment = 0
        /\ address[i] + bufs[i].size <= Limit
        /\ ~Excluded(bufs[i])

\* The aligned addresses at which i avoids every buffer of S.
FreeAddresses(bufs, address, i, S) ==
    {a \in 0 .. Limit - bufs[i].size :
        /\ a % Alignment = 0
        /\ \A j \in S : address[j] # NoAddress =>
              a .. a + bufs[i].size - 1 \cap Span(bufs, address, j) = {}}
=============================================================================
