--------------------------- MODULE MemoryPressure ---------------------------
(***************************************************************************)
(* SpyreAllocator::allocate, ReportAndDelete and memoryPressureCallback    *)
(* (csrc/spyre_allocator.cpp) with the two locks they meet: the GIL and    *)
(* the mutex of flex's allocator.  Memory is Capacity blocks of one size.  *)
(* A Python thread enters allocate with the GIL and keeps it; a C++ thread *)
(* comes without.  External: flex's allocateInDomain (lock, first fit,     *)
(* callback on exhaustion, one retry), its deallocation (under the mutex), *)
(* and CPython (a collection that runs deletes every object that was       *)
(* unreachable when it began, with the GIL held; it may not run at all).   *)
(***************************************************************************)
EXTENDS Naturals, FiniteSets

CONSTANTS
    Python, Native,   \* the threads that come with, and without, the GIL
    Capacity,         \* blocks of device memory
    Tensors           \* the storages ever allocated, bounds the behaviour

Threads == Python \cup Native
None == "none"

\* None is the value for no thread and no storage.
ASSUME PressureAssumption ==
    /\ IsFiniteSet(Threads) /\ IsFiniteSet(Tensors)
    /\ None \notin Threads /\ None \notin Tensors
    /\ Python \cap Native = {}

VARIABLES
    gil, mutex,   \* the holder of each lock
    tensor,       \* per storage: "new", "live", "cycle" (unreachable), "dying", "freed"
    used,         \* storages that own a block
    allocated,    \* stats_.allocated_bytes, in blocks
    th            \* per thread: where it is, its storage, what it still has to delete,
                  \* whether it took the GIL in the callback, whether it retries,
                  \* and what was unreachable when memory ran out, nothing if the
                  \* collection then failed or was skipped

vars == <<gil, mutex, tensor, used, allocated, th>>

Init ==
    /\ gil = None /\ mutex = None
    /\ tensor = [x \in Tensors |-> "new"] /\ used = {} /\ allocated = 0
    /\ th = [t \in Threads |-> [pc |-> "out", x |-> None, todo |-> {}, took |-> FALSE,
                                retry |-> FALSE, seen |-> {}]]

At(t, pc) == th[t].pc = pc
Goto(t, pc) == th' = [th EXCEPT ![t].pc = pc]

\* Where a call returns to: Python code, or the C++ caller.
Caller(t) == IF t \in Python THEN "python" ELSE "out"
Running(t) == At(t, Caller(t))

-----------------------------------------------------------------------------
\* A Python thread runs with the GIL, and gives it up between its calls.
TakeGil(t) ==
    /\ t \in Python /\ At(t, "out") /\ gil = None
    /\ gil' = t /\ Goto(t, "python")
    /\ UNCHANGED <<mutex, tensor, used, allocated>>

DropGil(t) ==
    /\ t \in Python /\ At(t, "python")
    /\ gil' = None /\ Goto(t, "out")
    /\ UNCHANGED <<mutex, tensor, used, allocated>>

\* allocate(): FlexAllocator::allocate is entered for a new storage.
Allocate(t, x) ==
    /\ Running(t) /\ tensor[x] = "new" /\ \A u \in Threads : th[u].x # x
    /\ th' = [th EXCEPT ![t] = [@ EXCEPT !.pc = "lock", !.x = x, !.retry = FALSE, !.seen = {}]]
    /\ UNCHANGED <<gil, mutex, tensor, used, allocated>>

\* The last reference to a storage goes: its deleter runs in that thread.
Release(t, x) ==
    /\ Running(t) /\ tensor[x] = "live"
    /\ tensor' = [tensor EXCEPT ![x] = "dying"]
    /\ th' = [th EXCEPT ![t] = [@ EXCEPT !.pc = "delete", !.todo = {x}]]
    /\ UNCHANGED <<gil, mutex, used, allocated>>

\* Python code drops a storage that a reference cycle still holds.
DropCycle(t, x) ==
    /\ t \in Python /\ Running(t) /\ tensor[x] = "live"
    /\ tensor' = [tensor EXCEPT ![x] = "cycle"]
    /\ UNCHANGED <<gil, mutex, used, allocated, th>>

-----------------------------------------------------------------------------
\* allocateInDomain, again after the callback.
Lock(t) ==
    /\ At(t, "lock") /\ mutex = None
    /\ mutex' = t /\ Goto(t, "fit")
    /\ UNCHANGED <<gil, tensor, used, allocated>>

Fit(t) ==
    /\ At(t, "fit") /\ Cardinality(used) < Capacity
    /\ used' = used \cup {th[t].x}
    /\ mutex' = None
    /\ Goto(t, "record")
    /\ UNCHANGED <<gil, tensor, allocated>>

\* The retry found nothing either: out of memory.
OutOfMemory(t) ==
    /\ At(t, "fit") /\ Cardinality(used) = Capacity /\ th[t].retry
    /\ mutex' = None
    /\ tensor' = [tensor EXCEPT ![th[t].x] = "freed"]
    /\ th' = [th EXCEPT ![t] = [@ EXCEPT !.pc = Caller(t), !.x = None]]
    /\ UNCHANGED <<gil, used, allocated>>

Exhausted(t) == At(t, "fit") /\ Cardinality(used) = Capacity /\ ~th[t].retry

Unreachable == {x \in Tensors : tensor[x] = "cycle"}
EnterCallback(t) == th' = [th EXCEPT ![t] = [@ EXCEPT !.pc = "ensure", !.seen = Unreachable]]

\* memoryPressureCallback: lock.unlock().
Callback(t) ==
    /\ Exhausted(t) /\ mutex' = None /\ EnterCallback(t)
    /\ UNCHANGED <<gil, tensor, used, allocated>>

\* Mutant: nothing is collected.
EnsureSkips(t) ==
    /\ At(t, "ensure") /\ gil \in {None, t}
    /\ gil' = t
    /\ th' = [th EXCEPT ![t] = [@ EXCEPT !.pc = "regil", !.took = gil = None]]
    /\ UNCHANGED <<mutex, tensor, used, allocated>>

\* PyGILState_Ensure() waits unless the thread has the GIL; PyGC_Collect()
\* finds what is unreachable and runs its deleters, or returns an error or 0
\* (the collector is disabled), which the callback only logs.
Ensure(t) ==
    /\ At(t, "ensure") /\ gil \in {None, t}
    /\ gil' = t
    /\ \E dead \in {Unreachable, {}} :
       /\ tensor' = [x \in Tensors |-> IF x \in dead THEN "dying" ELSE tensor[x]]
       /\ th' = [th EXCEPT ![t] = [@ EXCEPT !.pc = IF dead = {} THEN "regil" ELSE "delete",
                    !.todo = dead, !.took = gil = None,
                    !.seen = IF dead = Unreachable THEN th[t].seen ELSE {}]]
    /\ UNCHANGED <<mutex, used, allocated>>

\* Mutant: the GIL is always given up, also when the thread came with it.
DropEnsured(t) ==
    /\ At(t, "regil")
    /\ gil' = None
    /\ th' = [th EXCEPT ![t] = [@ EXCEPT !.pc = "lock", !.retry = TRUE]]
    /\ UNCHANGED <<mutex, tensor, used, allocated>>

\* PyGILState_Release() gives the GIL up only if Ensure took it; then lock.lock().
RestoreGil(t) ==
    /\ At(t, "regil")
    /\ gil' = IF th[t].took THEN None ELSE gil
    /\ th' = [th EXCEPT ![t] = [@ EXCEPT !.pc = "lock", !.retry = TRUE]]
    /\ UNCHANGED <<mutex, tensor, used, allocated>>

-----------------------------------------------------------------------------
\* ReportAndDelete: recordRelease, then the address is given back under the mutex.
InGc(t) == th[t].x # None

\* Mutant: the address has been moved out, its size is 0.
RecordReleaseOfZero(t) ==
    /\ At(t, "delete") /\ Goto(t, "unmap")
    /\ UNCHANGED <<gil, mutex, tensor, used, allocated>>

RecordRelease(t) ==
    /\ At(t, "delete")
    /\ allocated' = allocated - 1
    /\ Goto(t, "unmap")
    /\ UNCHANGED <<gil, mutex, tensor, used>>

GiveBack(t) ==
    /\ At(t, "unmap") /\ mutex = None
    /\ \E x \in th[t].todo :
         LET left == th[t].todo \ {x} IN
         /\ used' = used \ {x}
         /\ tensor' = [tensor EXCEPT ![x] = "freed"]
         /\ th' = [th EXCEPT ![t] = [@ EXCEPT !.todo = left,
                     !.pc = IF left # {} THEN "delete" ELSE IF InGc(t) THEN "regil"
                            ELSE Caller(t)]]
    /\ UNCHANGED <<gil, mutex, allocated>>

\* recordAlloc, once the block is there.
RecordAlloc(t) ==
    /\ At(t, "record")
    /\ allocated' = allocated + 1
    /\ tensor' = [tensor EXCEPT ![th[t].x] = "live"]
    /\ th' = [th EXCEPT ![t] = [@ EXCEPT !.pc = Caller(t), !.x = None]]
    /\ UNCHANGED <<gil, mutex, used>>

Work(t) ==
    \/ Lock(t) \/ Fit(t) \/ OutOfMemory(t) \/ Callback(t) \/ Ensure(t) \/ RestoreGil(t)
    \/ RecordRelease(t) \/ GiveBack(t) \/ RecordAlloc(t)

Next ==
    \E t \in Threads :
      \/ TakeGil(t) \/ DropGil(t) \/ Work(t)
      \/ \E x \in Tensors : Allocate(t, x) \/ Release(t, x) \/ DropCycle(t, x)

Spec == Init /\ [][Next]_vars

\* Both locks are handed on to a waiter, and Python code gives up the GIL.
FairSpec ==
    Spec /\ \A t \in Threads : SF_vars(Work(t)) /\ WF_vars(DropGil(t))

-----------------------------------------------------------------------------
\* Types of the state.
TypeOK ==
    /\ gil \in Threads \cup {None} /\ mutex \in Threads \cup {None}
    /\ tensor \in [Tensors -> {"new", "live", "cycle", "dying", "freed"}]
    /\ used \subseteq Tensors

\* Inside PyGC_Collect, or about to release the GIL after it.
Collecting(t) == th[t].x # None /\ th[t].pc \in {"delete", "unmap", "regil"}

\* The mutex has a holder exactly while a thread seeks a fit, never while one
\* waits for the GIL or deletes; a Python thread has the GIL from when it runs
\* until it gives it up, through every call, callback and collection of its
\* own; a C++ thread has it exactly from PyGILState_Ensure to its release.
LocksExact ==
    \A t \in Threads :
      /\ mutex = t <=> At(t, "fit")
      /\ t \in Python => (gil = t <=> ~At(t, "out"))
      /\ t \in Native => (gil = t <=> Collecting(t))

\* An allocation that has begun ends, with a block or out of memory: whoever
\* holds the mutex never waits for the GIL (memoryPressureCallback).
AllocationsEnd == \A t \in Threads : ~Running(t) /\ ~At(t, "out") ~> Running(t) \/ At(t, "out")

\* The device never holds less than memory_allocated() says: a block is
\* counted after it exists and uncounted before it goes, whatever the threads.
StatsWithinDevice == allocated <= Cardinality(used)

\* When the allocation is tried again after a collection that ran, everything
\* that was unreachable when memory ran out has given its block back, also what
\* another thread's collection had begun to delete: out of memory is raised
\* over it only when the collection failed or the collector is disabled.
CollectedBeforeRetry ==
    \A t \in Threads : At(t, "fit") /\ th[t].retry => th[t].seen \cap used = {}

\* docs/source/runtime/memory_pressure_gc.md: both locks are never held at once.
NeverBoth == gil = None \/ gil # mutex

InCallback(t) ==
    /\ InGc(t)
    /\ th[t].pc \in {"ensure", "delete", "unmap", "regil"} \cup
         (IF th[t].retry THEN {"lock"} ELSE {})

\* The same page: holding the mutex serialises all memory-pressure events.
PressureSerialised == \A t, u \in Threads : InCallback(t) /\ InCallback(u) => t = u
=============================================================================
