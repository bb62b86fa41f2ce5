----------------------------- MODULE KernelCache -----------------------------
(***************************************************************************)
(* The persistent kernel cache (execution/kernel_cache.py) and the         *)
(* compilations that fill it (execution/async_compile.py), for one cache   *)
(* key and several processes on one file system.                           *)
(*                                                                         *)
(* A job is one sdsc() call.  The directory job j allocates is named j     *)
(* too: where[j] says under which path it is found.  A process makes its   *)
(* sdsc() calls one after the other, inline or through Inductor's pool,    *)
(* and resolves the pool's futures in wait().  Any process may be killed   *)
(* at any point; somebody may run clear_cache() meanwhile.                 *)
(***************************************************************************)
CONSTANTS
  Procs,      \* processes
  Jobs,       \* sdsc() calls, all with the same cache key
  ProcOf,     \* ProcOf[j]: the process that makes the call
  MayClear    \* clear_cache() may be called

ASSUME JobAssumption == ProcOf \in [Jobs -> Procs] /\ MayClear \in BOOLEAN

VARIABLES
  where,     \* where[d]: "none", "tmp", "key", "failed" or "gone"
  has,       \* has[d]: the artifacts in directory d
  names,     \* names[d]: the kernel names (jobs) in its kernel_name.txt
  pc,        \* pc[j]: how far job j has come
  task,      \* task[j]: its backend compile in the pool
  phase,     \* phase[p]: what process p is doing
  pool,      \* pool[p]: its backend compiles run in the process pool
  clearing   \* clear_cache(): "off", "on" or "over"

vars == <<where, has, names, pc, task, phase, pool, clearing>>

Bundle == {"bundle.mlir", "symbol_kinds.json"}
SpyreCode == {"init_binary.bin", "spyrecode.json"}
Artifacts == Bundle \cup SpyreCode

Init ==
  /\ where = [d \in Jobs |-> "none"]
  /\ has = [d \in Jobs |-> {}]
  /\ names = [d \in Jobs |-> {}]
  /\ pc = [j \in Jobs |-> "idle"]
  /\ task = [j \in Jobs |-> "none"]
  /\ phase = [p \in Procs |-> "submitting"]
  /\ pool \in [Procs -> BOOLEAN]
  /\ clearing = "off"

(* The directory at <cache_root>/<cache_key>.                              *)
AtKey(d) == where[d] = "key"

Committed == \E d \in Jobs : AtKey(d)

Phase(j) == phase[ProcOf[j]]

(* The process of j is in the middle of a call for another job.            *)
Busy(j) ==
  \E i \in Jobs : /\ ProcOf[i] = ProcOf[j]
                  /\ pc[i] \in {"hit", "allocated", "generated", "compiled",
                                "renaming"}

To(j, label) == pc' = [pc EXCEPT ![j] = label]

EnterPhase(j, label) == phase' = [phase EXCEPT ![ProcOf[j]] = label]

-----------------------------------------------------------------------------
(* get_cached_kernel_dir finds directory d complete.                       *)
get_cached_kernel_dir(d) == AtKey(d) /\ has[d] = Artifacts

(* sdsc() with the cache on: a hit, or a miss that reserves a directory    *)
(* and records the kernel name in it (allocate_compile_dir).               *)
Lookup(j) ==
  /\ pc[j] = "idle" /\ Phase(j) = "submitting" /\ ~Busy(j)
  /\ \/ /\ \E d \in Jobs : get_cached_kernel_dir(d)
        /\ To(j, "hit")
        /\ UNCHANGED <<where, names>>
     \/ /\ \A d \in Jobs : ~get_cached_kernel_dir(d)
        /\ To(j, "allocated")
        /\ where' = [where EXCEPT ![j] = "tmp"]
        /\ names' = [names EXCEPT ![j] = {j}]
  /\ UNCHANGED <<has, task, phase, pool, clearing>>

(* The names of the jobs in ns are recorded at <cache_key>, if it exists.  *)
record_kernel_name(ns) ==
  [d \in Jobs |-> IF AtKey(d) THEN names[d] \cup ns ELSE names[d]]

(* A hit records the name and loads symbol_kinds.json, which is an error   *)
(* when the file has gone since; the error leaves the generated wrapper.   *)
LoadHit(j) ==
  /\ pc[j] = "hit" /\ Phase(j) = "submitting"
  /\ names' = record_kernel_name({j})
  /\ IF \E d \in Jobs : AtKey(d) /\ "symbol_kinds.json" \in has[d]
     THEN To(j, "ready") /\ UNCHANGED phase
     ELSE To(j, "failed") /\ EnterPhase(j, "aborted")
  /\ UNCHANGED <<where, has, task, pool, clearing>>

(* _move_to_failed_dir: job j has failed and its directory goes to         *)
(* failed/.  makedirs or the rename may raise OSError, as when the         *)
(* directory is gone, clear_cache() deletes failed/ between the two calls  *)
(* or the disk fails: then the directory is kept where it is.              *)
_move_to_failed_dir(j) ==
  \/ /\ where[j] = "tmp"
     /\ where' = [where EXCEPT ![j] = "failed"]
     /\ To(j, "failed")
  \/ UNCHANGED where /\ To(j, "kept")

(* An error inside sdsc(): the directory is moved aside, the error leaves  *)
(* the generated wrapper, and wait() is never reached.                     *)
Raise(j) ==
  /\ _move_to_failed_dir(j)
  /\ EnterPhase(j, "aborted")

(* generate_bundle and save_symbol_kinds, then the backend compile is      *)
(* submitted to the pool or begun inline.                                  *)
Generate(j) ==
  /\ pc[j] = "allocated" /\ Phase(j) = "submitting"
  /\ \/ /\ where[j] = "tmp"
        /\ has' = [has EXCEPT ![j] = @ \cup Bundle]
        /\ IF pool[ProcOf[j]]
           THEN /\ To(j, "submitted")
                /\ task' = [task EXCEPT ![j] = "running"]
           ELSE To(j, "generated") /\ UNCHANGED task
        /\ UNCHANGED <<where, phase>>
     \/ Raise(j) /\ UNCHANGED <<has, task>>
  /\ UNCHANGED <<names, pool, clearing>>

(* _run_backend_compiler on the caller's thread.                           *)
BackendInline(j) ==
  /\ pc[j] = "generated" /\ Phase(j) = "submitting"
  /\ \/ /\ where[j] = "tmp"
        /\ has' = [has EXCEPT ![j] = @ \cup SpyreCode]
        /\ To(j, "compiled")
        /\ UNCHANGED <<where, phase>>
     \/ Raise(j) /\ UNCHANGED has
  /\ UNCHANGED <<names, task, pool, clearing>>

(* _run_backend_compiler in a pool worker.                                 *)
BackendPool(j) ==
  /\ task[j] = "running" /\ Phase(j) # "dead"
  /\ \/ /\ where[j] = "tmp"
        /\ has' = [has EXCEPT ![j] = @ \cup SpyreCode]
        /\ task' = [task EXCEPT ![j] = "ok"]
     \/ task' = [task EXCEPT ![j] = "error"] /\ UNCHANGED has
  /\ UNCHANGED <<where, names, pc, phase, pool, clearing>>

-----------------------------------------------------------------------------
(* A mutant: the loser's names go with its directory.                         *)
DiscardForgetting(j) ==
  /\ where' = [where EXCEPT ![j] = "gone"]
  /\ UNCHANGED names

(* The lost race of commit_compile_dir: merge the names in our copy, if it *)
(* is still there, and drop it.                                            *)
Discard(j) ==
  /\ names' = record_kernel_name(IF where[j] = "tmp" THEN names[j] ELSE {})
  /\ where' = [where EXCEPT ![j] = "gone"]

Resolving(j) == pc[j] = "submitted" /\ Phase(j) \in {"waiting", "draining"}

(* A mutant: the task's outcome is not waited for.                            *)
CommitTestEarly(j) ==
  /\ \/ pc[j] = "compiled" /\ Phase(j) = "submitting"
     \/ Resolving(j) /\ ~Busy(j)
  /\ IF Committed
     THEN Discard(j) /\ To(j, "ready")
     ELSE To(j, "renaming") /\ UNCHANGED <<where, names>>
  /\ UNCHANGED <<has, task, phase, pool, clearing>>

(* A mutant: an entry that is there already is replaced by our copy.          *)
CommitTestReplacing(j) ==
  /\ \/ pc[j] = "compiled" /\ Phase(j) = "submitting"
     \/ Resolving(j) /\ task[j] = "ok" /\ ~Busy(j)
  /\ where' = [d \in Jobs |-> IF AtKey(d) THEN "gone" ELSE where[d]]
  /\ To(j, "renaming")
  /\ UNCHANGED <<has, names, task, phase, pool, clearing>>

(* commit_compile_dir, up to its isdir test.                               *)
CommitTest(j) ==
  /\ \/ pc[j] = "compiled" /\ Phase(j) = "submitting"
     \/ Resolving(j) /\ task[j] = "ok" /\ ~Busy(j)
  /\ IF Committed
     THEN Discard(j) /\ To(j, "ready")
     ELSE To(j, "renaming") /\ UNCHANGED <<where, names>>
  /\ UNCHANGED <<has, task, phase, pool, clearing>>

(* commit_compile_dir, os.rename: it fails when the source is gone or the  *)
(* target is a directory that is not empty.                                *)
CommitRename(j) ==
  /\ pc[j] = "renaming" /\ Phase(j) \in {"submitting", "waiting", "draining"}
  /\ IF where[j] = "tmp" /\ \A d \in Jobs : AtKey(d) => has[d] = {}
     THEN /\ where' = [d \in Jobs |-> IF d = j THEN "key"
                                      ELSE IF AtKey(d) THEN "gone" ELSE where[d]]
          /\ UNCHANGED names
     ELSE Discard(j)
  /\ To(j, "ready")
  /\ UNCHANGED <<has, task, phase, pool, clearing>>

-----------------------------------------------------------------------------
(* The generated wrapper has made its sdsc() calls and calls wait().       *)
Wait(p) ==
  /\ phase[p] = "submitting"
  /\ \A j \in Jobs : ProcOf[j] = p => pc[j] \in {"submitted", "ready"}
  /\ phase' = [phase EXCEPT ![p] = "waiting"]
  /\ UNCHANGED <<where, has, names, pc, task, pool, clearing>>

(* A mutant: wait() stops at the first future that fails, as upstream does.   *)
ResolveErrorStopping(j) ==
  /\ Resolving(j) /\ task[j] = "error" /\ ~Busy(j)
  /\ _move_to_failed_dir(j)
  /\ EnterPhase(j, "raised")
  /\ UNCHANGED <<has, names, task, pool, clearing>>

(* A mutant: the directory of the failed task is not moved.                *)
ResolveErrorKeeping(j) ==
  /\ Resolving(j) /\ task[j] = "error" /\ ~Busy(j)
  /\ To(j, "failed")
  /\ EnterPhase(j, "draining")
  /\ UNCHANGED <<where, has, names, task, pool, clearing>>

(* _SpyreCompileFuture.result() of a failed task: the directory is moved   *)
(* aside; the first failure makes wait() drain the other futures.          *)
ResolveError(j) ==
  /\ Resolving(j) /\ task[j] = "error" /\ ~Busy(j)
  /\ _move_to_failed_dir(j)
  /\ EnterPhase(j, "draining")
  /\ UNCHANGED <<has, names, task, pool, clearing>>

(* result() times out: the worker keeps its directory.  wait() starts to   *)
(* drain, or, when it is draining already, gives this future up.           *)
ResolveTimeout(j) ==
  /\ Resolving(j) /\ task[j] = "running" /\ ~Busy(j)
  /\ \/ /\ Phase(j) = "waiting"
        /\ EnterPhase(j, "draining")
        /\ UNCHANGED pc
     \/ /\ Phase(j) = "draining"
        /\ To(j, "abandoned")
        /\ UNCHANGED phase
  /\ UNCHANGED <<where, has, names, task, pool, clearing>>

(* wait() returns, or raises the first error after the drain.              *)
WaitEnd(p) ==
  /\ phase[p] \in {"waiting", "draining"}
  /\ \A j \in Jobs : ProcOf[j] = p => pc[j] \in {"ready", "failed", "kept", "abandoned"}
  /\ phase' = [phase EXCEPT ![p] = IF @ = "waiting" THEN "done" ELSE "raised"]
  /\ UNCHANGED <<where, has, names, pc, task, pool, clearing>>

Ended == {"done", "raised", "aborted", "dead"}

(* The process is killed, its pool with it; its directories stay behind.   *)
Kill(p) ==
  /\ phase[p] \notin Ended
  /\ phase' = [phase EXCEPT ![p] = "dead"]
  /\ UNCHANGED <<where, has, names, pc, task, pool, clearing>>

-----------------------------------------------------------------------------
(* clear_cache(): rmtree deletes file after file and directory after       *)
(* directory; it ends when nothing is left, or early, when it is killed or *)
(* a directory it meant to delete changes under it.                        *)
ClearBegin ==
  /\ MayClear /\ clearing = "off"
  /\ clearing' = "on"
  /\ UNCHANGED <<where, has, names, pc, task, phase, pool>>

ClearUnlink(d, a) ==
  /\ clearing = "on"
  /\ where[d] \in {"tmp", "key", "failed"} /\ a \in has[d]
  /\ has' = [has EXCEPT ![d] = @ \ {a}]
  /\ UNCHANGED <<where, names, pc, task, phase, pool, clearing>>

ClearRmdir(d) ==
  /\ clearing = "on"
  /\ where[d] \in {"tmp", "key", "failed"} /\ has[d] = {}
  /\ where' = [where EXCEPT ![d] = "gone"]
  /\ UNCHANGED <<has, names, pc, task, phase, pool, clearing>>

ClearEnd ==
  /\ clearing = "on"
  /\ clearing' = "over"
  /\ UNCHANGED <<where, has, names, pc, task, phase, pool>>

-----------------------------------------------------------------------------
AllEnded ==
  /\ \A p \in Procs : phase[p] \in Ended
  /\ clearing # "on"
  /\ UNCHANGED vars

JobStep(j) ==
  \/ Lookup(j) \/ LoadHit(j) \/ Generate(j) \/ BackendInline(j)
  \/ CommitTest(j) \/ CommitRename(j)
  \/ ResolveError(j) \/ ResolveTimeout(j)

ClearStep ==
  \/ ClearBegin
  \/ \E d \in Jobs, a \in Artifacts : ClearUnlink(d, a)
  \/ \E d \in Jobs : ClearRmdir(d)
  \/ ClearEnd

Next ==
  \/ \E j \in Jobs : JobStep(j) \/ BackendPool(j)
  \/ \E p \in Procs : Wait(p) \/ WaitEnd(p) \/ Kill(p)
  \/ ClearStep
  \/ AllEnded

Spec == Init /\ [][Next]_vars

(* A process that is not killed goes on; dbo-opt ends, if by its timeout.  *)
Fairness ==
  /\ \A j \in Jobs : WF_vars(JobStep(j)) /\ WF_vars(BackendPool(j))
  /\ \A p \in Procs : WF_vars(Wait(p)) /\ WF_vars(WaitEnd(p))

FairSpec == Spec /\ Fairness

-----------------------------------------------------------------------------
(* Types of the state; at most one directory is found at the cache key.    *)
TypeOK ==
  /\ where \in [Jobs -> {"none", "tmp", "key", "failed", "gone"}]
  /\ has \in [Jobs -> SUBSET Artifacts]
  /\ names \in [Jobs -> SUBSET Jobs]
  /\ pc \in [Jobs -> {"idle", "hit", "allocated", "generated", "compiled",
                      "submitted", "renaming", "ready", "failed", "kept",
                      "abandoned"}]
  /\ task \in [Jobs -> {"none", "running", "ok", "error"}]
  /\ phase \in [Procs -> {"submitting", "waiting", "draining"} \cup Ended]
  /\ pool \in [Procs -> BOOLEAN]
  /\ clearing \in {"off", "on", "over"}
  /\ \A d, e \in Jobs : AtKey(d) /\ AtKey(e) => d = e

(* Whatever races and kills there are, the entry at the cache key is       *)
(* complete, and whoever has a runner finds it there, as long as nobody    *)
(* clears the cache.                                                       *)
ReadyRunnable ==
  clearing = "off" =>
    /\ \A d \in Jobs : AtKey(d) => has[d] = Artifacts
    /\ \A j \in Jobs : pc[j] = "ready" => Committed

(* commit_compile_dir promises that no kernel name is lost: who has a      *)
(* runner finds its name in the entry, race winner, race loser or hit.     *)
NamesKept ==
  clearing = "off" =>
    \A j, d \in Jobs : pc[j] = "ready" /\ AtKey(d) => j \in names[d]

(* When wait() has returned or raised, no directory of the process is left *)
(* in the cache root under its temporary name, but those of timed-out      *)
(* futures whose worker may still be writing, and those of failed          *)
(* compilations that _move_to_failed_dir could not move.                   *)
Drained ==
  \A j \in Jobs :
    Phase(j) \in {"done", "raised"} /\ where[j] = "tmp" => pc[j] \in {"abandoned", "kept"}

(* What AtomicCache sees of the cache: the complete directory at the key   *)
(* and what each job got.                                                  *)
Entry == {d \in Jobs : get_cached_kernel_dir(d)}

Outcome(j) == IF pc[j] = "ready" THEN "kernel"
              ELSE IF pc[j] \in {"failed", "kept"} THEN "error" ELSE "none"

Atomic == INSTANCE AtomicCache WITH
  entry <- Entry, got <- [j \in Jobs |-> Outcome(j)]

(* Without clear_cache() the races and kills are invisible: the cache does *)
(* what AtomicCache does, where the first commit makes the entry and       *)
(* nothing that commit_compile_dir does later changes it.                  *)
RefinesAtomicCache == Atomic!Spec

(* A kernel the pool has compiled ends up in the cache, even if another    *)
(* future of the same wait() fails or times out first: unless its process  *)
(* is killed, leaves the wrapper early or has given the future up.         *)
CompiledIsPublished ==
  \A j \in Jobs :
    task[j] = "ok" ~> \/ Committed
                      \/ Phase(j) \in {"dead", "aborted"}
                      \/ pc[j] = "abandoned"

(* get_cached_kernel_dir's comment says that an incomplete entry triggers  *)
(* recompilation.  So once an interrupted clear_cache() is over, a job     *)
(* that has compiled the kernel anew leaves a complete entry behind.       *)
RecompilationRepairs ==
  [][\A j \in Jobs :
       /\ clearing = "over" /\ has[j] = Artifacts /\ where[j] = "tmp"
       /\ pc[j] # "ready" /\ pc'[j] = "ready"
       => \E d \in Jobs : AtKey(d)' /\ has'[d] = Artifacts]_vars
=============================================================================
