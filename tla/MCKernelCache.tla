---------------------------- MODULE MCKernelCache ----------------------------
(***************************************************************************)
(* KernelCache on two processes whose wrappers make two sdsc() calls and   *)
(* one, all with the same key; one call each with clear_cache().           *)
(***************************************************************************)
EXTENDS KernelCache, TLC

CONSTANTS p1, p2, j1, j2, j3

MCProcs == {p1, p2}
MCJobs == {j1, j2, j3}
MCProcOf == j1 :> p1 @@ j2 :> p1 @@ j3 :> p2
MCTwoJobs == {j1, j3}
MCTwoProcOf == [j \in MCTwoJobs |-> MCProcOf[j]]
=============================================================================
