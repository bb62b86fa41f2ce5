---------------------------- MODULE MCHostMemory ----------------------------
(* HostMemory on two threads, two pinned blocks, a pageable block and a     *)
(* DMA.  The pageable block lies right behind the larger pinned one and     *)
(* in front of the other, so findContaining has a candidate that does not   *)
(* reach it; every block can be handed out again while the DMA of its       *)
(* first allocation is in flight.                                           *)
EXTENDS HostMemory, TLC

CONSTANTS t1, t2, d1

MCThreads == {t1, t2}
MCDmas == {d1}
MCPinned == {1, 2}
MCPageable == {3}
MCBase == 1 :> 1 @@ 2 :> 4 @@ 3 :> 3
MCCapacity == 1 :> 2 @@ 2 :> 1 @@ 3 :> 1
=============================================================================
