-------------------------- MODULE KernelCacheProofs --------------------------
(***************************************************************************)
(* Proofs about KernelCache, for any processes and any jobs: the entry is  *)
(* complete and found, no kernel name is lost, and without clear_cache()   *)
(* the cache implements AtomicCache.                                       *)
(***************************************************************************)
EXTENDS KernelCache, TLAPS

(* What holds as long as nobody clears: where a job's directory is, and    *)
(* what is in it, at each point of the job.                                *)
Clean ==
  /\ \A d \in Jobs : AtKey(d) => has[d] = Artifacts
  /\ \A j \in Jobs :
       /\ pc[j] \in {"hit", "ready"} => Committed
       /\ pc[j] = "idle" => where[j] = "none"
       /\ pc[j] \in {"allocated", "generated", "submitted", "compiled", "renaming"}
            => where[j] = "tmp"
       /\ pc[j] = "generated" \/ task[j] = "running" => Bundle \subseteq has[j]
       /\ pc[j] \in {"compiled", "renaming"} \/ task[j] = "ok"
            => has[j] = Artifacts
       /\ where[j] = "tmp" => j \in names[j]
       /\ \A d \in Jobs : pc[j] = "ready" /\ AtKey(d) => j \in names[d]

IInv ==
  /\ TypeOK
  /\ clearing = "off" => Clean
  /\ ~MayClear => clearing = "off"

(* Initially nothing is cached, and the invariant holds.                   *)
LEMMA InitIInv == Init => IInv
  BY JobAssumption
  DEF Init, IInv, TypeOK, Clean, AtKey, Committed, Ended, Artifacts, Bundle

(* Every step of sdsc(), of the futures, of wait() and of clear_cache()    *)
(* preserves the types.                                                    *)
LEMMA NextTypeOK == TypeOK /\ [Next]_vars => TypeOK'
<1> SUFFICES ASSUME TypeOK, [Next]_vars PROVE TypeOK'
  OBVIOUS
<1> USE JobAssumption DEF TypeOK, AtKey, Committed, To, EnterPhase, Phase
<1>1. ASSUME NEW j \in Jobs, Lookup(j) PROVE TypeOK'
  BY <1>1 DEF Lookup
<1>2. ASSUME NEW j \in Jobs, LoadHit(j) PROVE TypeOK'
  BY <1>2 DEF LoadHit, record_kernel_name, Ended
<1>3. ASSUME NEW j \in Jobs, Generate(j) PROVE TypeOK'
  BY <1>3 DEF Generate, Raise, _move_to_failed_dir, Ended, Artifacts
<1>4. ASSUME NEW j \in Jobs, BackendInline(j) PROVE TypeOK'
  BY <1>4 DEF BackendInline, Raise, _move_to_failed_dir, Ended, Artifacts
<1>5. ASSUME NEW j \in Jobs, BackendPool(j) PROVE TypeOK'
  BY <1>5 DEF BackendPool, Artifacts
<1>6. ASSUME NEW j \in Jobs, CommitTest(j) PROVE TypeOK'
  BY <1>6 DEF CommitTest, Discard, record_kernel_name
<1>7. ASSUME NEW j \in Jobs, CommitRename(j) PROVE TypeOK'
  BY <1>7 DEF CommitRename, Discard, record_kernel_name
<1>8. ASSUME NEW j \in Jobs, ResolveError(j) PROVE TypeOK'
  BY <1>8 DEF ResolveError, _move_to_failed_dir
<1>9. ASSUME NEW j \in Jobs, ResolveTimeout(j) PROVE TypeOK'
  BY <1>9 DEF ResolveTimeout
<1>10. ASSUME NEW p \in Procs, Wait(p) \/ WaitEnd(p) \/ Kill(p) PROVE TypeOK'
  BY <1>10 DEF Wait, WaitEnd, Kill, Ended
<1>11. CASE ClearStep
  BY <1>11 DEF ClearStep, ClearBegin, ClearUnlink, ClearRmdir, ClearEnd
<1>12. CASE AllEnded \/ UNCHANGED vars
  BY <1>12 DEF AllEnded, vars
<1>13. QED
  BY <1>1, <1>2, <1>3, <1>4, <1>5, <1>6, <1>7, <1>8, <1>9, <1>10, <1>11, <1>12
  DEF Next, JobStep

(* As long as nobody clears, every step keeps the entry complete and the   *)
(* directories of running jobs where their jobs expect them.               *)
LEMMA NextClean ==
  TypeOK /\ Clean /\ [Next]_vars /\ clearing' = "off" => Clean'
<1> SUFFICES ASSUME TypeOK, Clean, [Next]_vars, clearing' = "off" PROVE Clean'
  OBVIOUS
<1>a. Artifacts # {} /\ Bundle \subseteq Artifacts /\ SpyreCode \subseteq Artifacts
      /\ Artifacts = Bundle \cup SpyreCode /\ "symbol_kinds.json" \in Artifacts
  BY DEF Artifacts, Bundle, SpyreCode
<1> USE <1>a, JobAssumption
    DEF TypeOK, Clean, AtKey, Committed, To, EnterPhase, Phase
<1>1. ASSUME NEW j \in Jobs, Lookup(j) PROVE Clean'
  BY <1>1 DEF Lookup, get_cached_kernel_dir
<1>2. ASSUME NEW j \in Jobs, LoadHit(j) PROVE Clean'
  BY <1>2 DEF LoadHit, record_kernel_name
<1>3. ASSUME NEW j \in Jobs, Generate(j) PROVE Clean'
  BY <1>3 DEF Generate, Raise, _move_to_failed_dir
<1>4. ASSUME NEW j \in Jobs, BackendInline(j) PROVE Clean'
  BY <1>4 DEF BackendInline, Raise, _move_to_failed_dir
<1>5. ASSUME NEW j \in Jobs, BackendPool(j) PROVE Clean'
  BY <1>5 DEF BackendPool
<1>6. ASSUME NEW j \in Jobs, CommitTest(j) PROVE Clean'
  BY <1>6, SMTT(30) DEF CommitTest, Discard, record_kernel_name, Resolving
<1>7. ASSUME NEW j \in Jobs, CommitRename(j) PROVE Clean'
  BY <1>7 DEF CommitRename, Discard, record_kernel_name
<1>8. ASSUME NEW j \in Jobs, ResolveError(j) PROVE Clean'
  BY <1>8 DEF ResolveError, _move_to_failed_dir, Resolving
<1>9. ASSUME NEW j \in Jobs, ResolveTimeout(j) PROVE Clean'
  BY <1>9 DEF ResolveTimeout, Resolving
<1>10. ASSUME NEW p \in Procs, Wait(p) \/ WaitEnd(p) \/ Kill(p) PROVE Clean'
  BY <1>10 DEF Wait, WaitEnd, Kill
<1>11. CASE ClearStep
  BY <1>11 DEF ClearStep, ClearBegin, ClearUnlink, ClearRmdir, ClearEnd
<1>12. CASE AllEnded \/ UNCHANGED vars
  BY <1>12 DEF AllEnded, vars
<1>13. QED
  BY <1>1, <1>2, <1>3, <1>4, <1>5, <1>6, <1>7, <1>8, <1>9, <1>10, <1>11, <1>12
  DEF Next, JobStep

(* Once begun, clearing never counts as not begun; without clear_cache()   *)
(* it does not begin.                                                      *)
LEMMA NextClearing ==
  [Next]_vars => /\ clearing' = "off" => clearing = "off"
                 /\ ~MayClear /\ clearing = "off" => clearing' = "off"
<1> SUFFICES ASSUME [Next]_vars
             PROVE  /\ clearing' = "off" => clearing = "off"
                    /\ ~MayClear /\ clearing = "off" => clearing' = "off"
  OBVIOUS
<1>1. CASE ClearStep
  BY <1>1 DEF ClearStep, ClearBegin, ClearUnlink, ClearRmdir, ClearEnd
<1>2. CASE UNCHANGED clearing
  BY <1>2
<1>3. ClearStep \/ UNCHANGED clearing
  BY DEF Next, JobStep, vars, Lookup, LoadHit, Generate, BackendInline,
         BackendPool, CommitTest, CommitRename, ResolveError, ResolveTimeout,
         Wait, WaitEnd, Kill, AllEnded
<1>4. QED
  BY <1>1, <1>2, <1>3

(* The invariant is inductive.                                             *)
THEOREM InductiveIInv == Spec => []IInv
<1>1. IInv /\ [Next]_vars => IInv'
  BY NextTypeOK, NextClean, NextClearing DEF IInv
<1>2. QED
  BY InitIInv, <1>1, PTL DEF Spec

(* Every state has the types of the code's state, and at most one          *)
(* directory at the cache key.                                             *)
THEOREM TypeCorrect == Spec => []TypeOK
<1>1. IInv => TypeOK
  BY DEF IInv
<1>2. QED
  BY InductiveIInv, <1>1, PTL

(* Whatever two commit_compile_dir calls race and whoever is killed, the   *)
(* entry is complete and is there for whoever has a runner.                *)
THEOREM EntryRunnable == Spec => []ReadyRunnable
<1>1. IInv => ReadyRunnable
  BY DEF IInv, Clean, ReadyRunnable
<1>2. QED
  BY InductiveIInv, <1>1, PTL

(* No kernel name is lost by the merge of commit_compile_dir.              *)
THEOREM NamesNotLost == Spec => []NamesKept
<1>1. IInv => NamesKept
  BY DEF IInv, Clean, NamesKept
<1>2. QED
  BY InductiveIInv, <1>1, PTL

-----------------------------------------------------------------------------
(* Why wait() leaves nothing behind, clear_cache() or not: it ends when    *)
(* every job of the process has settled, and a job that has a runner, or   *)
(* an error and its directory moved, has none under its temporary name.    *)
Settled ==
  \A j \in Jobs :
    /\ Phase(j) \in {"done", "raised"} => pc[j] \in {"ready", "failed", "kept", "abandoned"}
    /\ pc[j] \in {"idle", "hit"} => where[j] = "none"
    /\ pc[j] \in {"ready", "failed"} => where[j] # "tmp"

(* Every step of the jobs, of wait() and of clear_cache() keeps it so.     *)
LEMMA NextSettled == TypeOK /\ Settled /\ [Next]_vars => Settled'
<1> SUFFICES ASSUME TypeOK, Settled, [Next]_vars PROVE Settled'
  OBVIOUS
<1> USE JobAssumption DEF TypeOK, Settled, AtKey, Committed, To, EnterPhase, Phase
<1>1. ASSUME NEW j \in Jobs, Lookup(j) PROVE Settled'
  BY <1>1 DEF Lookup
<1>2. ASSUME NEW j \in Jobs, LoadHit(j) PROVE Settled'
  BY <1>2 DEF LoadHit
<1>3. ASSUME NEW j \in Jobs, Generate(j) PROVE Settled'
  BY <1>3 DEF Generate, Raise, _move_to_failed_dir
<1>4. ASSUME NEW j \in Jobs, BackendInline(j) PROVE Settled'
  BY <1>4 DEF BackendInline, Raise, _move_to_failed_dir
<1>5. ASSUME NEW j \in Jobs, BackendPool(j) PROVE Settled'
  BY <1>5 DEF BackendPool
<1>6. ASSUME NEW j \in Jobs, CommitTest(j) PROVE Settled'
  BY <1>6 DEF CommitTest, Discard, Resolving
<1>7. ASSUME NEW j \in Jobs, CommitRename(j) PROVE Settled'
  BY <1>7 DEF CommitRename, Discard
<1>8. ASSUME NEW j \in Jobs, ResolveError(j) PROVE Settled'
  BY <1>8 DEF ResolveError, _move_to_failed_dir, Resolving
<1>9. ASSUME NEW j \in Jobs, ResolveTimeout(j) PROVE Settled'
  BY <1>9 DEF ResolveTimeout, Resolving
<1>10. ASSUME NEW p \in Procs, Wait(p) \/ WaitEnd(p) \/ Kill(p) PROVE Settled'
  BY <1>10 DEF Wait, WaitEnd, Kill
<1>11. CASE ClearStep
  BY <1>11 DEF ClearStep, ClearBegin, ClearUnlink, ClearRmdir, ClearEnd
<1>12. CASE AllEnded \/ UNCHANGED vars
  BY <1>12 DEF AllEnded, vars
<1>13. QED
  BY <1>1, <1>2, <1>3, <1>4, <1>5, <1>6, <1>7, <1>8, <1>9, <1>10, <1>11, <1>12
  DEF Next, JobStep

(* Whatever fails, times out, is killed or is cleared meanwhile, wait()    *)
(* leaves no temporary directory behind but those of futures it gave up    *)
(* and those _move_to_failed_dir met an OSError on.                        *)
THEOREM NothingLeftBehind == Spec => []Drained
<1>1. Init => Settled
  BY JobAssumption DEF Init, Settled, Phase
<1>2. Settled => Drained
  BY DEF Settled, Drained
<1>3. QED
  BY TypeCorrect, NextSettled, <1>1, <1>2, PTL DEF Spec

-----------------------------------------------------------------------------
(* Without clear_cache() every step of the cache is a step of AtomicCache  *)
(* or leaves its state alone.                                              *)
LEMMA StepRefines ==
  ASSUME TypeOK, Clean, Clean', [Next]_vars, clearing = "off", clearing' = "off"
  PROVE  [Atomic!Next]_(Atomic!vars)
<1>a. Artifacts # {} /\ "symbol_kinds.json" \in Artifacts
  BY DEF Artifacts, Bundle
<1>b. Entry = {d \in Jobs : AtKey(d)} /\ Entry' = {d \in Jobs : where'[d] = "key"}
  BY DEF Clean, Entry, get_cached_kernel_dir, AtKey
<1>c. ASSUME NEW j \in Jobs, Outcome(j) = "none", Outcome(j)' = "kernel",
             \A i \in Jobs \ {j} : Outcome(i)' = Outcome(i),
             Entry' = IF Entry = {} THEN {j} ELSE Entry
      PROVE  Atomic!Next
  <2>1. [i \in Jobs |-> Outcome(i)]'
          = [[i \in Jobs |-> Outcome(i)] EXCEPT ![j] = "kernel"]
    BY <1>c
  <2>2. QED
    BY <1>c, <2>1 DEF Atomic!Next, Atomic!Obtain
<1>d. ASSUME NEW j \in Jobs, Outcome(j) = "none", Outcome(j)' = "error",
             \A i \in Jobs \ {j} : Outcome(i)' = Outcome(i), Entry' = Entry
      PROVE  Atomic!Next
  <2>1. [i \in Jobs |-> Outcome(i)]'
          = [[i \in Jobs |-> Outcome(i)] EXCEPT ![j] = "error"]
    BY <1>d
  <2>2. QED
    BY <1>d, <2>1 DEF Atomic!Next, Atomic!Fail
<1>e. ASSUME \A i \in Jobs : Outcome(i)' = Outcome(i), Entry' = Entry
      PROVE  UNCHANGED Atomic!vars
  BY <1>e DEF Atomic!vars
<1>f. ASSUME NEW j \in Jobs, NEW label, To(j, label)
      PROVE  \A i \in Jobs \ {j} : Outcome(i)' = Outcome(i)
  BY <1>f DEF To, Outcome, TypeOK
<1>g. ASSUME NEW j \in Jobs, Raise(j), pc[j] \in {"allocated", "generated"}
      PROVE  Atomic!Next
  <2>1. Entry' = Entry
    BY <1>b, <1>g DEF Raise, _move_to_failed_dir, TypeOK, AtKey
  <2>2. Outcome(j) = "none" /\ Outcome(j)' = "error"
    BY <1>g DEF Raise, _move_to_failed_dir, To, Outcome, TypeOK
  <2>3. QED
    BY <1>d, <1>f, <1>g, <2>1, <2>2 DEF Raise, _move_to_failed_dir
<1>1. ASSUME NEW j \in Jobs, Lookup(j) PROVE UNCHANGED Atomic!vars
  <2>1. Entry' = Entry
    BY <1>b, <1>1 DEF Lookup, TypeOK, Clean, AtKey
  <2>2. \A i \in Jobs : Outcome(i)' = Outcome(i)
    BY <1>1 DEF Lookup, To, Outcome, TypeOK
  <2>3. QED
    BY <1>e, <2>1, <2>2
<1>2. ASSUME NEW j \in Jobs, LoadHit(j) PROVE Atomic!Next
  <2>1. Entry' = Entry /\ Entry # {}
    BY <1>b, <1>2 DEF LoadHit, Clean, Committed, AtKey
  <2>2. To(j, "ready")
    BY <1>a, <1>2 DEF LoadHit, Clean, Committed
  <2>3. Outcome(j) = "none" /\ Outcome(j)' = "kernel"
    BY <1>2, <2>2 DEF LoadHit, To, Outcome, TypeOK
  <2>4. QED
    BY <1>c, <1>f, <2>1, <2>2, <2>3
<1>3. ASSUME NEW j \in Jobs, Generate(j) PROVE [Atomic!Next]_(Atomic!vars)
  <2>1. CASE Raise(j)
    BY <1>3, <1>g, <2>1 DEF Generate
  <2>2. CASE (To(j, "submitted") \/ To(j, "generated")) /\ UNCHANGED where
    <3>1. Entry' = Entry
      BY <1>b, <2>2 DEF AtKey
    <3>2. \A i \in Jobs : Outcome(i)' = Outcome(i)
      BY <1>3, <2>2 DEF Generate, To, Outcome, TypeOK
    <3>3. QED
      BY <1>e, <3>1, <3>2
  <2>3. QED
    BY <1>3, <2>1, <2>2 DEF Generate
<1>4. ASSUME NEW j \in Jobs, BackendInline(j) PROVE [Atomic!Next]_(Atomic!vars)
  <2>1. CASE Raise(j)
    BY <1>4, <1>g, <2>1 DEF BackendInline
  <2>2. CASE To(j, "compiled") /\ UNCHANGED where
    <3>1. Entry' = Entry
      BY <1>b, <2>2 DEF AtKey
    <3>2. \A i \in Jobs : Outcome(i)' = Outcome(i)
      BY <1>4, <2>2 DEF BackendInline, To, Outcome, TypeOK
    <3>3. QED
      BY <1>e, <3>1, <3>2
  <2>3. QED
    BY <1>4, <2>1, <2>2 DEF BackendInline
<1>5. ASSUME UNCHANGED <<where, pc>> PROVE UNCHANGED Atomic!vars
  <2>1. Entry' = Entry /\ \A i \in Jobs : Outcome(i)' = Outcome(i)
    BY <1>b, <1>5 DEF AtKey, Outcome
  <2>2. QED
    BY <1>e, <2>1
<1>6. ASSUME NEW j \in Jobs, CommitTest(j) PROVE [Atomic!Next]_(Atomic!vars)
  <2>0. Outcome(j) = "none" /\ where[j] = "tmp"
    BY <1>6 DEF CommitTest, Resolving, Outcome, Clean
  <2>1. CASE Committed
    <3>1. Discard(j) /\ To(j, "ready")
      BY <1>6, <2>1 DEF CommitTest
    <3>2. Entry' = Entry /\ Entry # {}
      BY <1>b, <2>0, <2>1, <3>1 DEF Discard, Committed, AtKey, TypeOK
    <3>3. Outcome(j)' = "kernel"
      BY <3>1 DEF To, Outcome, TypeOK
    <3>4. QED
      BY <1>c, <1>f, <2>0, <3>1, <3>2, <3>3
  <2>2. CASE ~Committed
    <3>1. To(j, "renaming") /\ UNCHANGED where
      BY <1>6, <2>2 DEF CommitTest
    <3>2. Entry' = Entry
      BY <1>b, <3>1 DEF AtKey
    <3>3. \A i \in Jobs : Outcome(i)' = Outcome(i)
      BY <2>0, <3>1 DEF To, Outcome, TypeOK
    <3>4. QED
      BY <1>e, <3>2, <3>3
  <2>3. QED
    BY <2>1, <2>2
<1>7. ASSUME NEW j \in Jobs, CommitRename(j) PROVE Atomic!Next
  <2>0. Outcome(j) = "none" /\ where[j] = "tmp" /\ To(j, "ready")
    BY <1>7 DEF CommitRename, Outcome, Clean
  <2>1. Outcome(j)' = "kernel"
    BY <2>0 DEF To, Outcome, TypeOK
  <2>2. CASE \A d \in Jobs : ~AtKey(d)
    <3>1. where' = [d \in Jobs |-> IF d = j THEN "key" ELSE where[d]]
      BY <1>7, <2>0, <2>2 DEF CommitRename
    <3>2. Entry = {} /\ Entry' = {j}
      BY <1>b, <2>2, <3>1 DEF AtKey
    <3>3. QED
      BY <1>c, <1>f, <2>0, <2>1, <3>2
  <2>3. CASE \E d \in Jobs : AtKey(d)
    <3>1. Discard(j)
      BY <1>a, <1>7, <2>3 DEF CommitRename, Clean
    <3>2. Entry' = Entry /\ Entry # {}
      BY <1>b, <2>0, <2>3, <3>1 DEF Discard, AtKey, TypeOK
    <3>3. QED
      BY <1>c, <1>f, <2>0, <2>1, <3>2
  <2>4. QED
    BY <2>2, <2>3
<1>8. ASSUME NEW j \in Jobs, ResolveError(j) PROVE Atomic!Next
  <2>1. Entry' = Entry
    BY <1>b, <1>8 DEF ResolveError, _move_to_failed_dir, TypeOK, AtKey
  <2>2. Outcome(j) = "none" /\ Outcome(j)' = "error"
    BY <1>8 DEF ResolveError, _move_to_failed_dir, Resolving, To, Outcome, TypeOK
  <2>3. QED
    BY <1>d, <1>f, <1>8, <2>1, <2>2 DEF ResolveError, _move_to_failed_dir
<1>9. ASSUME NEW j \in Jobs, ResolveTimeout(j) PROVE UNCHANGED Atomic!vars
  <2>1. Entry' = Entry
    BY <1>b, <1>9 DEF ResolveTimeout, AtKey
  <2>2. \A i \in Jobs : Outcome(i)' = Outcome(i)
    BY <1>9 DEF ResolveTimeout, Resolving, To, Outcome, TypeOK
  <2>3. QED
    BY <1>e, <2>1, <2>2
<1>10. ASSUME NEW p \in Procs, Wait(p) \/ WaitEnd(p) \/ Kill(p)
       PROVE  UNCHANGED <<where, pc>>
  BY <1>10 DEF Wait, WaitEnd, Kill
<1>11. ASSUME ClearStep PROVE UNCHANGED <<where, pc>>
  BY <1>11 DEF ClearStep, ClearBegin, ClearUnlink, ClearRmdir, ClearEnd
<1>12. ASSUME NEW j \in Jobs, BackendPool(j) PROVE UNCHANGED <<where, pc>>
  BY <1>12 DEF BackendPool
<1>13. ASSUME AllEnded \/ UNCHANGED vars PROVE UNCHANGED <<where, pc>>
  BY <1>13 DEF AllEnded, vars
<1>14. QED
  BY <1>1, <1>2, <1>3, <1>4, <1>5, <1>6, <1>7, <1>8, <1>9, <1>10, <1>11, <1>12,
     <1>13
  DEF Next, JobStep

(* Without clear_cache(), races, kills, failures and timeouts are          *)
(* invisible: the cache implements the single, unchanging entry.           *)
THEOREM Refinement ==
  ASSUME ~MayClear PROVE Spec => RefinesAtomicCache
<1>1. Init => Atomic!Init
  <2> SUFFICES ASSUME Init PROVE Atomic!Init
    OBVIOUS
  <2>1. Entry = {}
    BY DEF Init, Entry, get_cached_kernel_dir, AtKey
  <2>2. \A j \in Jobs : Outcome(j) = "none"
    BY DEF Init, Outcome
  <2>3. QED
    BY <2>1, <2>2 DEF Atomic!Init
<1>2. IInv /\ IInv' /\ [Next]_vars => [Atomic!Next]_(Atomic!vars)
  BY StepRefines DEF IInv
<1>3. QED
  BY InductiveIInv, <1>1, <1>2, PTL DEF Spec, RefinesAtomicCache, Atomic!Spec
=============================================================================
