----------------------------- MODULE HostMemory -----------------------------
(***************************************************************************)
(* Host memory under asynchronous copies: SpyrePinnedAllocator             *)
(* (csrc/spyre_pinned_allocator.cpp) and SpyreStream::copyAsync            *)
(* (csrc/spyre_stream.cpp).  A copy hands the pages of a user storage to a *)
(* DMA that runs after the call has returned; a host_lifetime token keeps  *)
(* the pages alive meanwhile.                                              *)
(*                                                                         *)
(* A block is the memory of one storage.  A pinned block is page-locked    *)
(* and comes from flex's staging cache; its PinnedAllocationState is       *)
(* identified with it and is owned by the entry of allocations_, by the    *)
(* locals of threads and by DMAs in flight.  A pageable block is owned by  *)
(* its c10::Storage: by tensors, locals and DMAs.  Dropping the last owner *)
(* releases the block.  Every part the code runs under mutex_ is one       *)
(* action, every part outside it an action of its own.                     *)
(***************************************************************************)
EXTENDS Integers

CONSTANTS
  Threads,     \* threads that allocate, copy and drop tensors
  Dmas,        \* DMA operations flex can have in flight
  Pinned,      \* blocks that are a flex::PinnedBuffer
  Pageable,    \* blocks of the ordinary CPU allocator
  Base,        \* Base[b]: first address of block b
  Capacity,    \* Capacity[b]: bytes of block b
  None,        \* an empty shared_ptr, an idle DMA, no copy
  Staging,     \* what a DMA touches whose source was staged by the caller
  MaxGen       \* bound on how often one block is handed out

Blocks == Pinned \cup Pageable

Addresses(b) == Base[b] .. Base[b] + Capacity[b] - 1

ASSUME BlockAssumption ==
  /\ Pinned \cap Pageable = {}
  /\ None \notin Blocks
  /\ Staging \notin Blocks
  /\ None # Staging
  /\ Threads \cap Dmas = {}
  /\ Base \in [Blocks -> Nat]
  /\ Capacity \in [Blocks -> Nat \ {0}]
  /\ \A b, c \in Blocks : b # c => Addresses(b) \cap Addresses(c) = {}
  /\ MaxGen \in Nat

VARIABLES
  mapped,       \* blocks whose pages exist
  cached,       \* pinned blocks in the free list of the PinnedStagingCache
  allocations,  \* keys of allocations_: pinned blocks that are handed out
  tensors,      \* blocks some tensor's storage points to
  pc,           \* pc[t]: where thread t is
  copy,         \* copy[t]: the block thread t is copying from or to
  kind,         \* kind[t]: the direction of that copy, and if it converts
  held,         \* held[h]: the block the locals of thread h, or DMA h, own
  touches,      \* touches[d]: the block whose pages DMA d reads or writes
  touchGen,     \* touchGen[d]: the allocation those pages belonged to
  gen,          \* gen[b]: how often b was handed out (names the allocation)
  caches,       \* whether the staging cache is registered in caches_
  activeThrown  \* "cache returned an active allocation" was thrown

vars == <<mapped, cached, allocations, tensors, pc, copy, kind, held, touches,
          touchGen, gen, caches, activeThrown>>

Holders == Threads \cup Dmas

(* H2D without conversion, H2D with a DataConversionInfo, D2H.             *)
Kinds == {"h2dRaw", "h2dDci", "d2h"}

(* The owner that is neither a local nor a DMA: the entry of allocations_, *)
(* or the tensors on a pageable storage.                                   *)
Rooted(b) == IF b \in Pinned THEN b \in allocations ELSE b \in tensors

Owned(b) == Rooted(b) \/ \E h \in Holders : held[h] = b

Init ==
  /\ mapped = {}
  /\ cached = {}
  /\ allocations = {}
  /\ tensors = {}
  /\ pc = [t \in Threads |-> "idle"]
  /\ copy = [t \in Threads |-> None]
  /\ kind = [t \in Threads |-> "d2h"]
  /\ held = [h \in Holders |-> None]
  /\ touches = [d \in Dmas |-> None]
  /\ touchGen = [d \in Dmas |-> 0]
  /\ gen = [b \in Blocks |-> 0]
  /\ caches = FALSE
  /\ activeThrown = FALSE

-----------------------------------------------------------------------------
(* The last owner of b is gone.  ~PinnedAllocationState returns a pinned   *)
(* block to the cache, or unmaps it when the cache does not take it; the   *)
(* pages of a pageable storage are freed.                                  *)
Release(b) ==
  \/ /\ b \in Pinned
     /\ cached' = cached \cup {b}
     /\ UNCHANGED mapped
  \/ /\ mapped' = mapped \ {b}
     /\ UNCHANGED cached

(* A mutant: the block goes back whoever else still owns it.                  *)
DropReleasingAlways(h) ==
  /\ held' = [held EXCEPT ![h] = None]
  /\ IF held[h] = None THEN UNCHANGED <<mapped, cached>> ELSE Release(held[h])

(* A mutant: the last owner forgets to release.                               *)
DropReleasingNever(h) ==
  /\ held' = [held EXCEPT ![h] = None]
  /\ UNCHANGED <<mapped, cached>>

(* A mutant: the token is never destroyed.                                    *)
DropNothing(h) == UNCHANGED <<held, mapped, cached>>

(* Holder h destroys its shared_ptr; the last owner releases the block.    *)
Drop(h) ==
  /\ held' = [held EXCEPT ![h] = None]
  /\ IF \/ held[h] = None
        \/ Rooted(held[h])
        \/ \E g \in Holders \ {h} : held[g] = held[h]
     THEN UNCHANGED <<mapped, cached>>
     ELSE Release(held[h])

Step(t, from, to) ==
  /\ pc[t] = from
  /\ pc' = [pc EXCEPT ![t] = to]

-----------------------------------------------------------------------------
(* allocate(), up to mutex_: cache->acquire(size) hands out a block of its *)
(* free list, or maps a new one.  A runtime or a cache that is missing,    *)
(* and an acquire that throws or returns null, make allocate() throw       *)
(* before it has changed anything.                                         *)
AllocateAcquire(t, b) ==
  /\ Step(t, "idle", "acquired")
  /\ b \in cached \/ b \notin mapped
  /\ gen[b] < MaxGen
  /\ mapped' = mapped \cup {b}
  /\ cached' = cached \ {b}
  /\ held' = [held EXCEPT ![t] = b]
  /\ gen' = [gen EXCEPT ![b] = @ + 1]
  /\ UNCHANGED <<allocations, tensors, copy, kind, touches, touchGen, caches,
                 activeThrown>>

(* allocate(), under mutex_: the state is entered in allocations_, or the  *)
(* insertion meets a live entry of the same address and throws.            *)
AllocateEmplace(t) ==
  /\ Step(t, "acquired", "idle")
  /\ IF held[t] \in allocations
     THEN /\ activeThrown' = TRUE
          /\ held' = [held EXCEPT ![t] = None]
          /\ Release(held[t])
          /\ UNCHANGED <<allocations, tensors, caches>>
     ELSE /\ allocations' = allocations \cup {held[t]}
          /\ tensors' = tensors \cup {held[t]}
          /\ caches' = TRUE
          /\ held' = [held EXCEPT ![t] = None]
          /\ UNCHANGED <<mapped, cached, activeThrown>>
  /\ UNCHANGED <<copy, kind, touches, touchGen, gen>>

(* The CPU allocator gives a tensor a pageable storage.                    *)
AllocatePageable(b) ==
  /\ b \notin mapped
  /\ gen[b] < MaxGen
  /\ mapped' = mapped \cup {b}
  /\ tensors' = tensors \cup {b}
  /\ gen' = [gen EXCEPT ![b] = @ + 1]
  /\ UNCHANGED <<cached, allocations, pc, copy, kind, held, touches, touchGen,
                 caches, activeThrown>>

-----------------------------------------------------------------------------
(* A mutant: the step back to the candidate is taken, the bound is not tested.*)
FindWithoutBound(a) ==
  LET below == {b \in allocations : Base[b] <= a}
  IN  IF below = {}
      THEN None
      ELSE CHOOSE b \in below : \A c \in below : Base[c] <= Base[b]

(* findContaining: the live allocation with the greatest base not above    *)
(* address a (upper_bound, then one step back), if it reaches a.           *)
findContaining(a) ==
  LET below == {b \in allocations : Base[b] <= a}
      last  == CHOOSE b \in below : \A c \in below : Base[c] <= Base[b]
  IN  IF below = {} \/ a - Base[last] >= Capacity[last]
      THEN None
      ELSE last

(* A mutant: the token shares the TensorImpl, whose storage resize_ and set_  *)
(* replace, so it owns no pages.                                           *)
HostLifetimeOfTensor(b, k) == None

(* copyAsync: the token on the storage, for every copy whose pages flex    *)
(* touches after the launch has returned.                                  *)
HostLifetime(b, k) == IF k = "h2dDci" THEN None ELSE b

(* copyAsync up to retain(cpu_ptr), which runs under mutex_: the owner of  *)
(* the pinned allocation the pointer lies in replaces the storage token.   *)
(* The caller passes a pointer into a storage it keeps alive until the     *)
(* copy returns.                                                           *)
CopyRetain(t, b, k, a) ==
  /\ Step(t, "idle", "retained")
  /\ b \in tensors
  /\ copy' = [copy EXCEPT ![t] = b]
  /\ kind' = [kind EXCEPT ![t] = k]
  /\ held' = [held EXCEPT ![t] = IF findContaining(a) # None
                                 THEN findContaining(a)
                                 ELSE HostLifetime(b, k)]
  /\ UNCHANGED <<mapped, cached, allocations, tensors, touches, touchGen, gen,
                 caches, activeThrown>>

(* copyAsyncImpl, launchH2D / launchD2H: flex enqueues the DMA with the    *)
(* token.  A conversion to the device reads the pages before the launch    *)
(* returns; every other copy leaves them to the scheduler thread.          *)
CopyLaunch(t, d) ==
  /\ Step(t, "retained", "launched")
  /\ touches[d] = None
  /\ touches' = [touches EXCEPT ![d] = IF kind[t] = "h2dDci" THEN Staging
                                       ELSE copy[t]]
  /\ touchGen' = [touchGen EXCEPT ![d] = gen[copy[t]]]
  /\ held' = [held EXCEPT ![d] = held[t]]
  /\ UNCHANGED <<mapped, cached, allocations, tensors, copy, kind, gen, caches,
                 activeThrown>>

(* copyAsyncImpl leaves: the locals are destroyed, after the launch or     *)
(* because the capacity check or the launch threw.                         *)
CopyLeave(t, from) ==
  /\ Step(t, from, "idle")
  /\ copy' = [copy EXCEPT ![t] = None]
  /\ kind' = [kind EXCEPT ![t] = "d2h"]
  /\ Drop(t)
  /\ UNCHANGED <<allocations, tensors, touches, touchGen, gen, caches,
                 activeThrown>>

CopyThrow(t) == CopyLeave(t, "retained")

CopyReturn(t) == CopyLeave(t, "launched")

(* flex's scheduler thread finishes a DMA and destroys its token.          *)
DmaComplete(d) ==
  /\ touches[d] # None
  /\ touches' = [touches EXCEPT ![d] = None]
  /\ touchGen' = [touchGen EXCEPT ![d] = 0]
  /\ Drop(d)
  /\ UNCHANGED <<allocations, tensors, pc, copy, kind, gen, caches,
                 activeThrown>>

-----------------------------------------------------------------------------
Copying(b) == \E t \in Threads : copy[t] = b

(* deallocate(), under mutex_: the last reference to a storage is gone, so *)
(* no copy of it is being made; the entry moves into the local state.      *)
Deallocate(t, b) ==
  /\ Step(t, "idle", "deallocating")
  /\ b \in tensors
  /\ ~Copying(b)
  /\ tensors' = tensors \ {b}
  /\ allocations' = allocations \ {b}
  /\ held' = [held EXCEPT ![t] = b]
  /\ UNCHANGED <<mapped, cached, copy, kind, touches, touchGen, gen, caches,
                 activeThrown>>

(* deallocate(), after mutex_: the local state goes out of scope.          *)
DeallocateReturn(t) ==
  /\ Step(t, "deallocating", "idle")
  /\ Drop(t)
  /\ UNCHANGED <<allocations, tensors, copy, kind, touches, touchGen, gen,
                 caches, activeThrown>>

(* The last tensor on a pageable storage dies, or resize_ / set_ gives it  *)
(* another storage: the pages go unless a token still owns the storage.    *)
DropPageable(b) ==
  /\ b \in tensors
  /\ ~Copying(b)
  /\ tensors' = tensors \ {b}
  /\ IF \E h \in Holders : held[h] = b
     THEN UNCHANGED mapped
     ELSE mapped' = mapped \ {b}
  /\ UNCHANGED <<cached, allocations, pc, copy, kind, held, touches, touchGen,
                 gen, caches, activeThrown>>

(* empty_cache(), under mutex_: collect the caches that are registered.    *)
EmptyCacheCollect(t) ==
  /\ Step(t, "idle", "emptying")
  /\ caches
  /\ UNCHANGED <<mapped, cached, allocations, tensors, copy, kind, held,
                 touches, touchGen, gen, caches, activeThrown>>

(* empty_cache(), after mutex_: cache->clear() unmaps the free list.       *)
EmptyCacheClear(t) ==
  /\ Step(t, "emptying", "idle")
  /\ mapped' = mapped \ cached
  /\ cached' = {}
  /\ UNCHANGED <<allocations, tensors, copy, kind, held, touches, touchGen,
                 gen, caches, activeThrown>>

-----------------------------------------------------------------------------
Next ==
  \/ \E t \in Threads, b \in Pinned : AllocateAcquire(t, b)
  \/ \E t \in Threads : AllocateEmplace(t)
  \/ \E b \in Pageable : AllocatePageable(b)
  \/ \E t \in Threads, b \in Blocks, k \in Kinds :
       \E a \in Addresses(b) : CopyRetain(t, b, k, a)
  \/ \E t \in Threads, d \in Dmas : CopyLaunch(t, d)
  \/ \E t \in Threads : CopyThrow(t)
  \/ \E t \in Threads : CopyReturn(t)
  \/ \E d \in Dmas : DmaComplete(d)
  \/ \E t \in Threads, b \in Pinned : Deallocate(t, b)
  \/ \E t \in Threads : DeallocateReturn(t)
  \/ \E b \in Pageable : DropPageable(b)
  \/ \E t \in Threads : EmptyCacheCollect(t)
  \/ \E t \in Threads : EmptyCacheClear(t)

Spec == Init /\ [][Next]_vars

(* A thread inside a call gets on with it, and the device finishes what it *)
(* was given.  Nothing makes users allocate, copy or drop tensors.         *)
ThreadStep(t) ==
  \/ AllocateEmplace(t)
  \/ \E d \in Dmas : CopyLaunch(t, d)
  \/ CopyThrow(t)
  \/ CopyReturn(t)
  \/ DeallocateReturn(t)
  \/ EmptyCacheClear(t)

Fairness ==
  /\ \A t \in Threads : WF_vars(ThreadStep(t))
  /\ \A d \in Dmas : WF_vars(DmaComplete(d))

FairSpec == Spec /\ Fairness

-----------------------------------------------------------------------------
PcValues ==
  {"idle", "acquired", "retained", "launched", "deallocating", "emptying"}

(* Types of the state.                                                     *)
TypeOK ==
  /\ mapped \in SUBSET Blocks
  /\ cached \in SUBSET Pinned
  /\ allocations \in SUBSET Pinned
  /\ tensors \in SUBSET Blocks
  /\ pc \in [Threads -> PcValues]
  /\ copy \in [Threads -> Blocks \cup {None}]
  /\ kind \in [Threads -> Kinds]
  /\ held \in [Holders -> Blocks \cup {None}]
  /\ touches \in [Dmas -> Blocks \cup {None, Staging}]
  /\ touchGen \in [Dmas -> Nat]
  /\ gen \in [Blocks -> Nat]
  /\ caches \in BOOLEAN
  /\ activeThrown \in BOOLEAN

(* The pages a DMA in flight reads or writes exist, are not in the cache's *)
(* free list, and still belong to the allocation the copy was made from,   *)
(* however early the caller drops or resizes the tensor, empties the cache *)
(* or allocates again (the host_lifetime token of copyAsync).              *)
DmaPagesAlive ==
  \A d \in Dmas : touches[d] \in Blocks =>
    /\ touches[d] \in mapped
    /\ touches[d] \notin cached
    /\ touchGen[d] = gen[touches[d]]

(* allocate() never throws "cache returned an active allocation": no two   *)
(* live allocations share an address, even though the cache is asked       *)
(* outside mutex_ and deallocate() drops the state outside it.             *)
NoActiveAllocation == ~activeThrown

(* retain() on a pointer into a live storage finds that storage's own      *)
(* pinned block, or nothing when the storage is pageable: the pinned path  *)
(* is taken exactly for pinned pages, and never keeps a neighbour alive.   *)
RetainOwns ==
  \A t \in Threads : pc[t] \in {"retained", "launched"} =>
    /\ held[t] \in {copy[t], None}
    /\ copy[t] \in Pinned => held[t] = copy[t]

(* A block whose pages exist is either free in the cache or has an owner:  *)
(* none is leaked, and none is handed out while someone still owns it.     *)
NoBlockLost ==
  \A b \in Blocks :
    /\ b \in mapped <=> (b \in cached \/ Owned(b))
    /\ ~(b \in cached /\ Owned(b))

(* Once its tensor is gone a block is released: neither a copy that throws *)
(* nor a completed DMA keeps its memory for good.                          *)
BlockReleased ==
  \A b \in Blocks :
    (Owned(b) /\ b \notin tensors) ~> (~Owned(b) \/ b \in tensors)
=============================================================================
