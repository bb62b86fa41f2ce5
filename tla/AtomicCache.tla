----------------------------- MODULE AtomicCache -----------------------------
(***************************************************************************)
(* What the kernel cache promises its callers for one key: the first       *)
(* compilation to finish becomes the entry, the entry never changes or     *)
(* goes away, and whoever gets a kernel gets the entry's.                  *)
(***************************************************************************)
CONSTANT Jobs

VARIABLES
  entry,   \* the directory that is the entry, as a set of at most one
  got      \* got[j]: "none" so far, "kernel" or "error"

vars == <<entry, got>>

Init == entry = {} /\ got = [j \in Jobs |-> "none"]

(* Job j gets the entry's kernel; if there is none, j's own becomes it.    *)
Obtain(j) ==
  /\ got[j] = "none"
  /\ got' = [got EXCEPT ![j] = "kernel"]
  /\ entry' = IF entry = {} THEN {j} ELSE entry

Fail(j) ==
  /\ got[j] = "none"
  /\ got' = [got EXCEPT ![j] = "error"]
  /\ UNCHANGED entry

Next == \E j \in Jobs : Obtain(j) \/ Fail(j)

Spec == Init /\ [][Next]_vars
=============================================================================
