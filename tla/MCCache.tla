------------------------------- MODULE MCCache -------------------------------
(***************************************************************************)
(* The kernel cache of MCKernelCache, and beside it a cache that one       *)
(* process with two sdsc() calls uses while somebody runs clear_cache().   *)
(* A behaviour is one of either cache: `cleared` says of which, and the    *)
(* variables of the other keep their initial values.                       *)
(***************************************************************************)
EXTENDS MCKernelCache

VARIABLES cleared, where2, has2, names2, pc2, task2, phase2, pool2, clearing2

Cleared == INSTANCE KernelCache
             WITH Procs <- {p1}, Jobs <- {j1, j2}, ProcOf <- (j1 :> p1 @@ j2 :> p1),
                  MayClear <- TRUE, where <- where2, has <- has2, names <- names2,
                  pc <- pc2, task <- task2, phase <- phase2, pool <- pool2,
                  clearing <- clearing2

vars2 == <<where2, has2, names2, pc2, task2, phase2, pool2, clearing2>>

EitherInit ==
  /\ cleared \in BOOLEAN
  /\ Init /\ Cleared!Init
  /\ IF cleared THEN pool = [p \in Procs |-> TRUE] ELSE pool2 = [p \in {p1} |-> TRUE]

EitherNext ==
  /\ UNCHANGED cleared
  /\ \/ ~cleared /\ Next /\ UNCHANGED vars2
     \/ cleared /\ Cleared!Next /\ UNCHANGED vars

EitherSpec ==
  /\ EitherInit
  /\ [][EitherNext]_<<cleared, vars, vars2>>
  /\ \A j \in Jobs : /\ WF_vars(~cleared /\ JobStep(j))
                     /\ WF_vars(~cleared /\ BackendPool(j))
  /\ \A p \in Procs : /\ WF_vars(~cleared /\ Wait(p))
                      /\ WF_vars(~cleared /\ WaitEnd(p))

(* While clear_cache() deletes file after file, and after it was cut off,  *)
(* wait() still leaves no temporary directory behind but those of          *)
(* timed-out futures and those that could not be moved, as when failed/    *)
(* itself is deleted meanwhile; and no path is the cache entry twice.      *)
DrainedThoughCleared == Cleared!TypeOK /\ Cleared!Drained
=============================================================================
