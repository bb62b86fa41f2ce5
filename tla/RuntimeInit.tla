---------------------------- MODULE RuntimeInit ----------------------------
(***************************************************************************)
(* Starting the device runtime: _SpyreImpl (torch_spyre/__init__.py) with  *)
(* its double-checked _lazy_init, set_device and the after-fork handler,   *)
(* and startRuntime (csrc/module.cpp), a std::call_once that _lazy_init    *)
(* and C++ callers such as the pinned allocator both reach.  Python steps  *)
(* interleave at bytecodes; a thread inside the binding start_runtime()    *)
(* keeps the GIL, a C++ caller does not have it.                           *)
(***************************************************************************)
EXTENDS Naturals

CONSTANTS
    Threads,     \* the threads of the process
    Child,       \* the thread of a forked child
    Count,       \* getVisibleDeviceCount()
    Uses,        \* how a process may use the runtime: LOCAL_RANK (0 when unset), the
                 \* indices it passes to set_device, the calls of each thread, and
                 \* the threads that also reach startRuntime from C++
    MaxFaults    \* RuntimeContext::create may throw so often

None == 1000     \* no index
NoOne == "free"

VARIABLES
    initialized, badFork, pending,   \* the fields of _SpyreImpl, per process
    module,      \* self._C is set
    lock,        \* _runtime_init_lock: its holder, per process
    once,        \* the once_flag: "no", "running", "done", per process
    device,      \* the device of the RuntimeContext, per process
    tls,         \* SpyreGuardImpl::tls_idx, per thread
    th,          \* per thread: the call, where it is, its argument, its result
    forked,      \* the child exists
    faults,
    use          \* the use of this process, of Uses: [rank, asked, calls, native]

impl == <<initialized, badFork, pending, module>>
vars == <<initialized, badFork, pending, module, lock, once, device, tls, th, forked,
          faults, use>>

Procs == {"parent", "child"}
All == Threads \cup {Child}
Proc(t) == IF t = Child THEN "child" ELSE "parent"
InRange(d) == d < Count

Init ==
    /\ initialized = [p \in Procs |-> FALSE] /\ badFork = [p \in Procs |-> FALSE]
    /\ pending = [p \in Procs |-> None] /\ module = [p \in Procs |-> FALSE]
    /\ lock = [p \in Procs |-> NoOne] /\ once = [p \in Procs |-> "no"]
    /\ device = [p \in Procs |-> None]
    /\ use \in Uses /\ tls = [t \in All |-> use.rank]
    /\ th = [t \in All |-> [op |-> "none", pc |-> "idle", arg |-> None, ret |-> "none",
                            calls |-> 0]]
    /\ forked = FALSE /\ faults = 0

At(t, pc) == th[t].pc = pc
Goto(t, pc) == th' = [th EXCEPT ![t].pc = pc]
Return(t, ret) == th' = [th EXCEPT ![t].pc = "idle", ![t].ret = ret]

\* The GIL: no other thread of the process is inside start_runtime().
HasGil(t) ==
    /\ t = Child => forked
    /\ \A u \in All \ {t} :
         Proc(u) = Proc(t) /\ th[u].op = "lazy" => ~At(u, "once") /\ ~At(u, "create")

\* A thread calls _lazy_init, set_device, or a C++ entry that needs the runtime.
Call(t) ==
    /\ HasGil(t) /\ At(t, "idle") /\ th[t].calls < use.calls[t]
    /\ \E op \in {"lazy", "set"} \cup (IF t \in use.native THEN {"native"} ELSE {}) :
       \E d \in IF op = "set" THEN use.asked ELSE {None} :
         th' = [th EXCEPT ![t] = [op |-> op, pc |-> op, arg |-> d, ret |-> "none",
                                  calls |-> @.calls + 1]]
    /\ UNCHANGED <<impl, lock, once, device, tls, forked, faults, use>>

-----------------------------------------------------------------------------
\* _lazy_init: the flag, the lock, the flag again.
LazyCheck(t) ==
    /\ HasGil(t) /\ At(t, "lazy")
    /\ IF initialized[Proc(t)] THEN Return(t, "ok") ELSE Goto(t, "lock")
    /\ UNCHANGED <<impl, lock, once, device, tls, forked, faults, use>>

LazyLock(t) ==
    /\ HasGil(t) /\ At(t, "lock") /\ lock[Proc(t)] = NoOne
    /\ lock' = [lock EXCEPT ![Proc(t)] = IF initialized[Proc(t)] THEN NoOne ELSE t]
    /\ IF initialized[Proc(t)] THEN Return(t, "ok") ELSE Goto(t, "apply")
    /\ UNCHANGED <<impl, once, device, tls, forked, faults, use>>

\* Mutant: the pending index is left for later.
ApplyNothing(t) ==
    /\ HasGil(t) /\ At(t, "apply")
    /\ module' = [module EXCEPT ![Proc(t)] = TRUE]
    /\ Goto(t, "start")
    /\ UNCHANGED <<initialized, badFork, pending, lock, once, device, tls, forked, faults, use>>

\* _C is imported and the pending index set; C++ refuses one that is out of range.
Apply(t) ==
    /\ HasGil(t) /\ At(t, "apply")
    /\ module' = [module EXCEPT ![Proc(t)] = TRUE]
    /\ LET d == pending[Proc(t)] IN
       IF d = None \/ InRange(d)
       THEN /\ tls' = IF d = None THEN tls ELSE [tls EXCEPT ![t] = d]
            /\ Goto(t, "start") /\ UNCHANGED lock
       ELSE /\ lock' = [lock EXCEPT ![Proc(t)] = NoOne]
            /\ Return(t, "error") /\ UNCHANGED tls
    /\ UNCHANGED <<initialized, badFork, pending, once, device, forked, faults, use>>

\* start_runtime() is called; it keeps the GIL.
LazyStart(t) ==
    /\ HasGil(t) /\ At(t, "start")
    /\ Goto(t, "once")
    /\ UNCHANGED <<impl, lock, once, device, tls, forked, faults, use>>

\* _initialized is set last; with it the lock is released.
LazyDone(t) ==
    /\ HasGil(t) /\ At(t, "done")
    /\ initialized' = [initialized EXCEPT ![Proc(t)] = TRUE]
    /\ lock' = [lock EXCEPT ![Proc(t)] = NoOne]
    /\ Return(t, "ok")
    /\ UNCHANGED <<badFork, pending, module, once, device, tls, forked, faults, use>>

-----------------------------------------------------------------------------
\* The pinned allocator starts the runtime only while there is none.
NativeEntry(t) ==
    /\ At(t, "native")
    /\ IF device[Proc(t)] # None THEN Return(t, "ok") ELSE Goto(t, "once")
    /\ UNCHANGED <<impl, lock, once, device, tls, forked, faults, use>>

Started(t) == IF th[t].op = "lazy" THEN Goto(t, "done") ELSE Return(t, "ok")

\* call_once: one caller runs _startRuntime, the others wait for it.
\* _startRuntime takes the thread's index, and the rank when that is 0.
OnceEnter(t) ==
    /\ At(t, "once") /\ once[Proc(t)] # "running"
    /\ IF once[Proc(t)] = "done" THEN Started(t) /\ UNCHANGED <<once, tls>>
       ELSE /\ once' = [once EXCEPT ![Proc(t)] = "running"]
            /\ tls' = [tls EXCEPT ![t] = IF @ # 0 THEN @ ELSE use.rank]
            /\ Goto(t, "create")
    /\ UNCHANGED <<impl, lock, device, forked, faults, use>>

Create(t) ==
    /\ At(t, "create") /\ InRange(tls[t])
    /\ device' = [device EXCEPT ![Proc(t)] = tls[t]]
    /\ once' = [once EXCEPT ![Proc(t)] = "done"]
    /\ Started(t)
    /\ UNCHANGED <<impl, lock, tls, forked, faults, use>>

\* The check of the index or RuntimeContext::create throws: the flag stays
\* unset, so the next caller tries again, and _lazy_init leaves its lock.
CreateThrows(t) ==
    /\ At(t, "create")
    /\ \/ ~InRange(tls[t]) /\ UNCHANGED faults
       \/ faults < MaxFaults /\ faults' = faults + 1
    /\ once' = [once EXCEPT ![Proc(t)] = "no"]
    /\ lock' = [lock EXCEPT ![Proc(t)] = IF @ = t THEN NoOne ELSE @]
    /\ Return(t, "error")
    /\ UNCHANGED <<impl, device, tls, forked, use>>

-----------------------------------------------------------------------------
\* set_device keeps the index, and passes it on once initialized.
SetPending(t) ==
    /\ HasGil(t) /\ At(t, "set")
    /\ pending' = [pending EXCEPT ![Proc(t)] = th[t].arg]
    /\ Goto(t, "pass")
    /\ UNCHANGED <<initialized, badFork, module, lock, once, device, tls, forked, faults, use>>

SetPass(t) ==
    /\ HasGil(t) /\ At(t, "pass")
    /\ IF ~initialized[Proc(t)] \/ ~module[Proc(t)] THEN Return(t, "ok") /\ UNCHANGED tls
       ELSE IF ~InRange(th[t].arg) THEN Return(t, "error") /\ UNCHANGED tls
       ELSE tls' = [tls EXCEPT ![t] = th[t].arg] /\ Return(t, "ok")
    /\ UNCHANGED <<impl, lock, once, device, forked, faults, use>>

\* current_device()
Current(t) == IF module[Proc(t)] THEN tls[t] ELSE 0

\* Mutant: the child only notes that it is a bad fork.
MarkBadFork ==
    /\ badFork' = [badFork EXCEPT !["child"] = TRUE]
    /\ initialized' = [initialized EXCEPT !["child"] = initialized["parent"]]

\* _mark_after_fork
MarkAfterFork ==
    /\ badFork' = [badFork EXCEPT !["child"] = TRUE]
    /\ initialized' = [initialized EXCEPT !["child"] = TRUE]

\* A thread forks.  The child is that thread alone, with a copy of the memory:
\* locks and flags that other threads hold stay as they are.
Fork(t) ==
    /\ HasGil(t) /\ t # Child /\ At(t, "idle") /\ ~forked
    /\ forked' = TRUE
    /\ MarkAfterFork
    /\ pending' = [pending EXCEPT !["child"] = pending["parent"]]
    /\ module' = [module EXCEPT !["child"] = module["parent"]]
    /\ lock' = [lock EXCEPT !["child"] = lock["parent"]]
    /\ once' = [once EXCEPT !["child"] = once["parent"]]
    /\ device' = [device EXCEPT !["child"] = device["parent"]]
    /\ tls' = [tls EXCEPT ![Child] = tls[t]]
    /\ UNCHANGED <<th, faults, use>>

Step(t) ==
    \/ LazyCheck(t) \/ LazyLock(t) \/ Apply(t) \/ LazyStart(t) \/ LazyDone(t)
    \/ NativeEntry(t) \/ OnceEnter(t) \/ Create(t) \/ CreateThrows(t)
    \/ SetPending(t) \/ SetPass(t)

Next == \E t \in All : Call(t) \/ Step(t) \/ Fork(t)

Spec == Init /\ [][Next]_vars

\* A thread that can take a step takes one.
FairSpec == Spec /\ \A t \in All : WF_vars(Step(t))

-----------------------------------------------------------------------------
\* Every field holds a value of its kind and every lock is held by a thread
\* of the process that took it, or copied from the parent by the fork.
TypeOK ==
    /\ initialized \in [Procs -> BOOLEAN] /\ badFork \in [Procs -> BOOLEAN]
    /\ pending \in [Procs -> use.asked \cup {None}] /\ module \in [Procs -> BOOLEAN]
    /\ lock \in [Procs -> All \cup {NoOne}]
    /\ once \in [Procs -> {"no", "running", "done"}]
    /\ device \in [Procs -> (0 .. Count - 1) \cup {None}]
    /\ tls \in [All -> {use.rank} \cup use.asked]
    /\ \A t \in Threads : At(t, "once") /\ th[t].op = "lazy" => lock["parent"] = t
    /\ forked \in BOOLEAN /\ faults \in 0 .. MaxFaults

\* is_initialized() (__init__.py) says yes only when the runtime runs: not
\* while another thread is still in startRuntime(), not after a start that threw.
InitializedMeansStarted ==
    initialized["parent"] /\ ~badFork["parent"] => device["parent"] # None

\* Whatever is called, every call returns: a start that throws leaves the
\* lock of _lazy_init and the once_flag usable, and a child forked while a
\* thread of its parent holds the lock never waits for that thread.
CallsReturn == \A t \in All : ~At(t, "idle") ~> At(t, "idle")

\* One thread uses the runtime, and comes through Python only.
Solo == use.native = {} /\ \E t \in Threads : \A u \in Threads \ {t} : use.calls[u] = 0

\* The runtime starts on the device the last set_device() asked for
\* (_lazy_init applies the pending index before start_runtime()), where index 0
\* stands for LOCAL_RANK (_startRuntime).
OnPendingDevice ==
    device'["parent"] # device["parent"] =>
        \/ pending["parent"] \in {None, device'["parent"]}
        \/ pending["parent"] = 0 /\ device'["parent"] = use.rank
DeviceHonoured == [][OnPendingDevice]_vars

\* After a set_device() that returned, the same thread's current_device() is
\* that index, as test_spyre_device_count_and_set_device expects.
CurrentIsSet ==
    \A t \in Threads : th[t].op = "set" /\ At(t, "idle") /\ th[t].ret = "ok"
                         => Current(t) = th[t].arg

\* A forked process never starts the runtime (is_available, __init__.py).
ChildNeverStarts == [][forked => once'["child"] = once["child"]]_vars
=============================================================================
