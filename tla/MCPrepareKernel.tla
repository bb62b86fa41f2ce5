--------------------------- MODULE MCPrepareKernel ---------------------------
(***************************************************************************)
(* PrepareKernel on every JobExecPlan of up to MaxCommands commands over   *)
(* two host buffers, two regions of the program segment and one place in a *)
(* tensor segment, and on the longer ones (two corrections and a compute)  *)
(* whose commands read no input buffer and download nothing.               *)
(***************************************************************************)
EXTENDS PrepareKernel, TLC

CONSTANTS r1, r2, h1, h2, MaxCommands

MCRegions == {r1, r2}
MCHandles == {h1, h2}
Plain == {c \in Commands : c.op # "D2H" /\ c.input = NoName /\ c.region # TensorSegment}
MCExecPlans ==
  UNION {[1 .. n -> Commands] : n \in 0 .. MaxCommands}
    \cup [1 .. MaxCommands + 1 -> Plain]
Renamings == Permutations(MCRegions) \cup Permutations(MCHandles)
=============================================================================
