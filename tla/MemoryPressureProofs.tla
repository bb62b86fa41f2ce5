------------------------ MODULE MemoryPressureProofs ------------------------
(***************************************************************************)
(* What MemoryPressure promises for any number of threads, storages and    *)
(* blocks: the statistics never exceed what the device holds and never go  *)
(* below zero, each lock is held exactly where the code holds it, and      *)
(* after a collection that ran an allocation is retried only once all that *)
(* was unreachable when memory ran out has given its block back.           *)
(***************************************************************************)
EXTENDS MemoryPressure, Integers, FiniteSetTheorems, TLAPS

Points == {"out", "python", "lock", "fit", "ensure", "regil", "delete", "unmap", "record"}

Calls == [pc : Points, x : Tensors \cup {None}, todo : SUBSET Tensors, took : BOOLEAN,
          retry : BOOLEAN, seen : SUBSET Tensors]

Types ==
    /\ gil \in Threads \cup {None} /\ mutex \in Threads \cup {None}
    /\ tensor \in [Tensors -> {"new", "live", "cycle", "dying", "freed"}]
    /\ used \in SUBSET Tensors /\ allocated \in Int
    /\ th \in [Threads -> Calls]

\* The storage a thread allocates is new, and its own.
Allocating ==
    /\ \A t \in Threads :
         /\ th[t].pc \in {"lock", "fit", "ensure", "regil", "record"} => th[t].x # None
         /\ th[t].pc \in {"out", "python"} => th[t].x = None
         /\ th[t].x # None => tensor[th[t].x] = "new"
    /\ \A t, u \in Threads : th[t].x # None /\ th[t].x = th[u].x => t = u

\* What a thread has to delete is dying, and no other thread deletes it.
Deleting ==
    /\ \A t \in Threads :
         /\ th[t].todo # {} <=> th[t].pc \in {"delete", "unmap"}
         /\ \A x \in th[t].todo : tensor[x] = "dying"
    /\ \A t, u \in Threads : t # u => th[t].todo \cap th[u].todo = {}

\* The storages with a block: those in use or being deleted, and those whose
\* allocation has found one.
Owners ==
    \A x \in Tensors :
      x \in used <=> \/ tensor[x] \in {"live", "cycle", "dying"}
                     \/ \E t \in Threads : th[t].pc = "record" /\ th[t].x = x

Locks ==
    /\ \A t \in Threads :
         /\ IF t \in Python THEN th[t].pc # "out" <=> gil = t
            ELSE th[t].pc # "python" /\ (gil = t => Collecting(t))
         /\ Collecting(t) => gil = t /\ (th[t].took <=> t \notin Python)
         /\ th[t].pc = "fit" => mutex = t
    /\ mutex # None => th[mutex].pc = "fit"

\* What was unreachable when memory ran out: still is, or is being deleted by the
\* collection of whoever holds the GIL; then deleted by this thread; then freed.
Seen ==
    \A t \in Threads : \A s \in th[t].seen :
      /\ tensor[s] \notin {"new", "live"}
      /\ th[t].pc = "ensure" /\ tensor[s] = "dying"
           => \E u \in Threads : Collecting(u) /\ s \in th[u].todo
      /\ Collecting(t) => tensor[s] = "freed" \/ s \in th[t].todo
      /\ th[t].pc \in {"lock", "fit"} /\ th[t].retry => tensor[s] = "freed"

\* Threads between a block's change of hands and the count of it.
Uncounted == {t \in Threads : th[t].pc \in {"record", "unmap"}}
Counted == allocated + Cardinality(Uncounted) = Cardinality(used)

PressureInv == Types /\ Allocating /\ Deleting /\ Owners /\ Locks /\ Seen /\ Counted

-----------------------------------------------------------------------------
\* Thread t's record gets these fields, the others keep theirs.
Moves(t, pc, x, todo, took, retry, seen) ==
    /\ th' \in [Threads -> Calls]
    /\ \A u \in Threads : u # t => th'[u] = th[u]
    /\ th'[t].pc = pc /\ th'[t].x = x /\ th'[t].todo = todo
    /\ (th'[t].took <=> took) /\ (th'[t].retry <=> retry) /\ th'[t].seen = seen

\* Replacing the record of one thread.
LEMMA Sets ==
  ASSUME NEW t \in Threads, th \in [Threads -> Calls], NEW r \in Calls,
         th' = [th EXCEPT ![t] = r]
  PROVE  Moves(t, r.pc, r.x, r.todo, r.took, r.retry, r.seen)
  BY DEF Moves

\* Goto only moves the program counter.
LEMMA GotoMoves ==
  ASSUME NEW t \in Threads, th \in [Threads -> Calls], NEW pc \in Points, Goto(t, pc)
  PROVE  Moves(t, pc, th[t].x, th[t].todo, th[t].took, th[t].retry, th[t].seen)
<1>1. PICK c \in Calls : c = th[t]
  OBVIOUS
<1>2. PICK r : r = [c EXCEPT !.pc = pc]
  OBVIOUS
<1>3. /\ r \in Calls
      /\ r.pc = pc /\ r.x = c.x /\ r.todo = c.todo /\ r.took = c.took
      /\ r.retry = c.retry /\ r.seen = c.seen
  BY <1>2 DEF Calls
<1>4. th' = [th EXCEPT ![t] = r]
  BY <1>1, <1>2 DEF Goto
<1> QED
  BY <1>1, <1>3, <1>4 DEF Moves

\* None names no thread and no storage.
LEMMA NoneOutside == None \notin Threads /\ None \notin Tensors
  BY PressureAssumption

\* The sets that are counted are finite.
LEMMA Finite ==
  ASSUME PressureInv
  PROVE  /\ IsFiniteSet(used) /\ IsFiniteSet(Uncounted)
         /\ Cardinality(used) \in Nat /\ Cardinality(Uncounted) \in Nat
<1>1. IsFiniteSet(used) /\ IsFiniteSet(Uncounted)
  BY PressureAssumption, FS_Subset DEF PressureInv, Types, Uncounted
<1> QED
  BY <1>1, FS_CardinalityType

\* A step that neither moves a block nor enters or leaves the uncounted points.
LEMMA CountKept ==
  ASSUME Counted, Uncounted' = Uncounted, UNCHANGED <<used, allocated>>
  PROVE  Counted'
  BY DEF Counted

\* A Python thread takes the GIL when nobody has it, so nobody collects.
LEMMA TakeGilStep ==
  ASSUME NEW t \in Threads, PressureInv, TakeGil(t)
  PROVE  PressureInv'
<1>1. /\ th \in [Threads -> Calls]
      /\ Moves(t, "python", th[t].x, th[t].todo, th[t].took, th[t].retry,
               th[t].seen)
  BY GotoMoves DEF PressureInv, Types, TakeGil, Points, Caller
<1>2. /\ t \in Python /\ th[t].pc = "out" /\ gil = None /\ gil' = t
      /\ UNCHANGED <<mutex, tensor, used, allocated>>
  BY DEF TakeGil, At, Running
<1>4. Types'
  BY <1>1, <1>2 DEF PressureInv, Types, Moves
<1>5. Allocating'
  BY <1>1, <1>2 DEF PressureInv, Allocating, Moves
<1>6. Deleting'
  BY <1>1, <1>2 DEF PressureInv, Deleting, Moves
<1>7. Owners'
  BY <1>1, <1>2 DEF PressureInv, Owners, Moves
<1>8. Locks'
  BY <1>1, <1>2, NoneOutside DEF PressureInv, Locks, Collecting, Types, Moves
<1>9. Seen'
  BY <1>1, <1>2 DEF PressureInv, Seen, Collecting, Moves
<1>10. Counted'
  <2>1. Uncounted' = Uncounted
    BY <1>1, <1>2 DEF Uncounted, Moves, Caller
  <2> QED
    BY <1>2, <2>1, CountKept DEF PressureInv
<1> QED
  BY <1>4, <1>5, <1>6, <1>7, <1>8, <1>9, <1>10 DEF PressureInv

\* A Python thread gives the GIL up outside any call.
LEMMA DropGilStep ==
  ASSUME NEW t \in Threads, PressureInv, DropGil(t)
  PROVE  PressureInv'
<1>1. /\ th \in [Threads -> Calls]
      /\ Moves(t, "out", th[t].x, th[t].todo, th[t].took, th[t].retry,
               th[t].seen)
  BY GotoMoves DEF PressureInv, Types, DropGil, Points, Caller
<1>2. /\ t \in Python /\ th[t].pc = "python" /\ gil' = None
      /\ UNCHANGED <<mutex, tensor, used, allocated>>
  BY DEF DropGil, At, Running
<1>4. Types'
  BY <1>1, <1>2 DEF PressureInv, Types, Moves
<1>5. Allocating'
  BY <1>1, <1>2 DEF PressureInv, Allocating, Moves
<1>6. Deleting'
  BY <1>1, <1>2 DEF PressureInv, Deleting, Moves
<1>7. Owners'
  BY <1>1, <1>2 DEF PressureInv, Owners, Moves
<1>8. Locks'
  BY <1>1, <1>2, NoneOutside DEF PressureInv, Locks, Collecting, Types, Moves
<1>9. Seen'
  BY <1>1, <1>2 DEF PressureInv, Seen, Collecting, Moves
<1>10. Counted'
  <2>1. Uncounted' = Uncounted
    BY <1>1, <1>2 DEF Uncounted, Moves, Caller
  <2> QED
    BY <1>2, <2>1, CountKept DEF PressureInv
<1> QED
  BY <1>4, <1>5, <1>6, <1>7, <1>8, <1>9, <1>10 DEF PressureInv

\* allocate() begins for a storage of its own.
LEMMA AllocateStep ==
  ASSUME NEW t \in Threads, PressureInv, NEW x \in Tensors, Allocate(t, x)
  PROVE  PressureInv'
<1>1. /\ th \in [Threads -> Calls]
      /\ Moves(t, "lock", x, th[t].todo, th[t].took, FALSE,
               {})
  <2>1. PICK c \in Calls : c = th[t]
    BY DEF PressureInv, Types
  <2>2. PICK r : r = [c EXCEPT !.pc = "lock", !.x = x, !.retry = FALSE, !.seen = {}]
    OBVIOUS
  <2>3. /\ r \in Calls
        /\ r.pc = "lock" /\ r.x = x /\ r.todo = c.todo /\ r.took = c.took
        /\ r.retry = FALSE /\ r.seen = {}
    BY <2>2 DEF Calls, Points, Caller, Unreachable
  <2>4. th' = [th EXCEPT ![t] = r]
    BY <2>1, <2>2 DEF Allocate
  <2> QED
    BY <2>1, <2>3, <2>4, Sets DEF PressureInv, Types
<1>2. /\ th[t].pc = Caller(t) /\ tensor[x] = "new"
      /\ \A u \in Threads : th[u].x # x
      /\ UNCHANGED <<gil, mutex, tensor, used, allocated>>
  BY DEF Allocate, At, Running
<1>4. Types'
  BY <1>1, <1>2 DEF PressureInv, Types, Caller, Moves
<1>5. Allocating'
  BY <1>1, <1>2 DEF PressureInv, Allocating, Caller, Moves
<1>6. Deleting'
  BY <1>1, <1>2 DEF PressureInv, Deleting, Caller, Moves
<1>7. Owners'
  BY <1>1, <1>2 DEF PressureInv, Owners, Caller, Moves
<1>8. Locks'
  BY <1>1, <1>2, NoneOutside DEF PressureInv, Locks, Collecting, Types, Caller, Moves
<1>9. Seen'
  BY <1>1, <1>2 DEF PressureInv, Seen, Collecting, Caller, Moves
<1>10. Counted'
  <2>1. Uncounted' = Uncounted
    BY <1>1, <1>2 DEF Uncounted, Moves, Caller
  <2> QED
    BY <1>2, <2>1, CountKept DEF PressureInv
<1> QED
  BY <1>4, <1>5, <1>6, <1>7, <1>8, <1>9, <1>10 DEF PressureInv

\* A storage that loses its last reference is in nobody's seen set: it was live.
LEMMA ReleaseStep ==
  ASSUME NEW t \in Threads, PressureInv, NEW x \in Tensors, Release(t, x)
  PROVE  PressureInv'
<1>1. /\ th \in [Threads -> Calls]
      /\ Moves(t, "delete", th[t].x, {x}, th[t].took, th[t].retry,
               th[t].seen)
  <2>1. PICK c \in Calls : c = th[t]
    BY DEF PressureInv, Types
  <2>2. PICK r : r = [c EXCEPT !.pc = "delete", !.todo = {x}]
    OBVIOUS
  <2>3. /\ r \in Calls
        /\ r.pc = "delete" /\ r.x = c.x /\ r.todo = {x} /\ r.took = c.took
        /\ r.retry = c.retry /\ r.seen = c.seen
    BY <2>2 DEF Calls, Points, Caller
  <2>4. th' = [th EXCEPT ![t] = r]
    BY <2>1, <2>2 DEF Release
  <2> QED
    BY <2>1, <2>3, <2>4, Sets DEF PressureInv, Types
<1>2. /\ th[t].pc = Caller(t) /\ tensor[x] = "live"
      /\ tensor' = [tensor EXCEPT ![x] = "dying"]
      /\ UNCHANGED <<gil, mutex, used, allocated>>
  BY DEF Release, At, Running
<1>4. Types'
  BY <1>1, <1>2 DEF PressureInv, Types, Caller, Moves
<1>5. Allocating'
  BY <1>1, <1>2 DEF PressureInv, Allocating, Caller, Moves
<1>6. Deleting'
  <2>1. \A u \in Threads : x \notin th[u].todo
    BY <1>2 DEF PressureInv, Deleting
  <2>2. \A u \in Threads : th[u].todo \subseteq Tensors
    BY <1>1 DEF Calls
  <2>3. \A u \in Threads : \A y \in th'[u].todo : tensor'[y] = "dying"
    BY <1>1, <1>2, <2>1, <2>2 DEF PressureInv, Deleting, Types, Moves
  <2>4. th[t].todo = {}
    BY <1>2 DEF PressureInv, Deleting, Caller
  <2> QED
    BY <1>1, <1>2, <2>1, <2>3, <2>4 DEF PressureInv, Deleting, Moves
<1>7. Owners'
  BY <1>1, <1>2 DEF PressureInv, Owners, Caller, Moves
<1>8. Locks'
  BY <1>1, <1>2, NoneOutside DEF PressureInv, Locks, Collecting, Allocating, Types,
                                       Caller, Moves
<1>9. Seen'
  BY <1>1, <1>2, SMTT(30) DEF PressureInv, Seen, Collecting, Types, Calls, Allocating, Deleting, Caller, Moves
<1>10. Counted'
  <2>1. Uncounted' = Uncounted
    BY <1>1, <1>2 DEF Uncounted, Moves, Caller
  <2> QED
    BY <1>2, <2>1, CountKept DEF PressureInv
<1> QED
  BY <1>4, <1>5, <1>6, <1>7, <1>8, <1>9, <1>10 DEF PressureInv

\* The mutex is taken for the fit.
LEMMA LockStep ==
  ASSUME NEW t \in Threads, PressureInv, Lock(t)
  PROVE  PressureInv'
<1>1. /\ th \in [Threads -> Calls]
      /\ Moves(t, "fit", th[t].x, th[t].todo, th[t].took, th[t].retry,
               th[t].seen)
  BY GotoMoves DEF PressureInv, Types, Lock, Points, Caller
<1>2. /\ th[t].pc = "lock" /\ mutex = None /\ mutex' = t
      /\ UNCHANGED <<gil, tensor, used, allocated>>
  BY DEF Lock, At, Running
<1>4. Types'
  BY <1>1, <1>2 DEF PressureInv, Types, Moves
<1>5. Allocating'
  BY <1>1, <1>2 DEF PressureInv, Allocating, Moves
<1>6. Deleting'
  BY <1>1, <1>2 DEF PressureInv, Deleting, Moves
<1>7. Owners'
  BY <1>1, <1>2 DEF PressureInv, Owners, Moves
<1>8. Locks'
  BY <1>1, <1>2, NoneOutside DEF PressureInv, Locks, Collecting, Types, Moves
<1>9. Seen'
  BY <1>1, <1>2 DEF PressureInv, Seen, Collecting, Moves
<1>10. Counted'
  <2>1. Uncounted' = Uncounted
    BY <1>1, <1>2 DEF Uncounted, Moves, Caller
  <2> QED
    BY <1>2, <2>1, CountKept DEF PressureInv
<1> QED
  BY <1>4, <1>5, <1>6, <1>7, <1>8, <1>9, <1>10 DEF PressureInv

\* A block is taken before it is counted.
LEMMA FitStep ==
  ASSUME NEW t \in Threads, PressureInv, Fit(t)
  PROVE  PressureInv'
<1>1. /\ th \in [Threads -> Calls]
      /\ Moves(t, "record", th[t].x, th[t].todo, th[t].took, th[t].retry,
               th[t].seen)
  BY GotoMoves DEF PressureInv, Types, Fit, Points, Caller
<1>2. /\ th[t].pc = "fit" /\ used' = used \cup {th[t].x} /\ mutex' = None
      /\ UNCHANGED <<gil, tensor, allocated>>
  BY DEF Fit, At, Running
<1>3. th[t].x \in Tensors /\ tensor[th[t].x] = "new"
  BY <1>1, <1>2 DEF PressureInv, Allocating, Calls
<1>4. Types'
  BY <1>1, <1>2, <1>3 DEF PressureInv, Types, Moves
<1>5. Allocating'
  BY <1>1, <1>2, <1>3 DEF PressureInv, Allocating, Moves
<1>6. Deleting'
  BY <1>1, <1>2, <1>3 DEF PressureInv, Deleting, Moves
<1>7. Owners'
  BY <1>1, <1>2, <1>3 DEF PressureInv, Owners, Moves
<1>8. Locks'
  BY <1>1, <1>2, <1>3, NoneOutside DEF PressureInv, Locks, Collecting, Types, Moves
<1>9. Seen'
  BY <1>1, <1>2, <1>3 DEF PressureInv, Seen, Collecting, Moves
<1>10. Counted'
  <2>1. th[t].x \notin used
    BY <1>1, <1>2, <1>3 DEF PressureInv, Owners, Allocating
  <2>2. t \notin Uncounted /\ Uncounted' = Uncounted \cup {t}
    BY <1>1, <1>2 DEF Uncounted, Moves
  <2>3. Cardinality(used') = Cardinality(used) + 1
    BY <1>2, <2>1, Finite, FS_AddElement
  <2>4. Cardinality(Uncounted') = Cardinality(Uncounted) + 1
    BY <2>2, Finite, FS_AddElement
  <2> QED
    BY <1>2, <2>3, <2>4, Finite DEF PressureInv, Counted, Types
<1> QED
  BY <1>4, <1>5, <1>6, <1>7, <1>8, <1>9, <1>10 DEF PressureInv

\* The retry fails: no storage comes to be.
LEMMA OutOfMemoryStep ==
  ASSUME NEW t \in Threads, PressureInv, OutOfMemory(t)
  PROVE  PressureInv'
<1>1. /\ th \in [Threads -> Calls]
      /\ Moves(t, Caller(t), None, th[t].todo, th[t].took, th[t].retry,
               th[t].seen)
  <2>1. PICK c \in Calls : c = th[t]
    BY DEF PressureInv, Types
  <2>2. PICK r : r = [c EXCEPT !.pc = Caller(t), !.x = None]
    OBVIOUS
  <2>3. /\ r \in Calls
        /\ r.pc = Caller(t) /\ r.x = None /\ r.todo = c.todo /\ r.took = c.took
        /\ r.retry = c.retry /\ r.seen = c.seen
    BY <2>2 DEF Calls, Points, Caller
  <2>4. th' = [th EXCEPT ![t] = r]
    BY <2>1, <2>2 DEF OutOfMemory
  <2> QED
    BY <2>1, <2>3, <2>4, Sets DEF PressureInv, Types
<1>2. /\ th[t].pc = "fit" /\ mutex' = None
      /\ tensor' = [tensor EXCEPT ![th[t].x] = "freed"]
      /\ UNCHANGED <<gil, used, allocated>>
  BY DEF OutOfMemory, At, Running
<1>3. th[t].x \in Tensors /\ tensor[th[t].x] = "new"
  BY <1>1, <1>2 DEF PressureInv, Allocating, Calls
<1>4. Types'
  BY <1>1, <1>2, <1>3 DEF PressureInv, Types, Caller, Moves
<1>5. Allocating'
  BY <1>1, <1>2, <1>3 DEF PressureInv, Allocating, Caller, Moves
<1>6. Deleting'
  BY <1>1, <1>2, <1>3 DEF PressureInv, Deleting, Caller, Moves
<1>7. Owners'
  BY <1>1, <1>2, <1>3 DEF PressureInv, Owners, Caller, Moves
<1>8. Locks'
  BY <1>1, <1>2, <1>3, NoneOutside DEF PressureInv, Locks, Collecting, Types, Caller, Moves
<1>9. Seen'
  BY <1>1, <1>2, <1>3 DEF PressureInv, Seen, Collecting, Caller, Moves
<1>10. Counted'
  <2>1. Uncounted' = Uncounted
    BY <1>1, <1>2 DEF Uncounted, Moves, Caller
  <2> QED
    BY <1>2, <2>1, CountKept DEF PressureInv
<1> QED
  BY <1>4, <1>5, <1>6, <1>7, <1>8, <1>9, <1>10 DEF PressureInv

\* Memory ran out: what is unreachable now has to be gone at the retry.
LEMMA CallbackStep ==
  ASSUME NEW t \in Threads, PressureInv, Callback(t)
  PROVE  PressureInv'
<1>1. /\ th \in [Threads -> Calls]
      /\ Moves(t, "ensure", th[t].x, th[t].todo, th[t].took, th[t].retry,
               Unreachable)
  <2>1. PICK c \in Calls : c = th[t]
    BY DEF PressureInv, Types
  <2>2. PICK r : r = [c EXCEPT !.pc = "ensure", !.seen = Unreachable]
    OBVIOUS
  <2>3. /\ r \in Calls
        /\ r.pc = "ensure" /\ r.x = c.x /\ r.todo = c.todo /\ r.took = c.took
        /\ r.retry = c.retry /\ r.seen = Unreachable
    BY <2>2 DEF Calls, Points, Caller, Unreachable
  <2>4. th' = [th EXCEPT ![t] = r]
    BY <2>1, <2>2 DEF Callback, EnterCallback, Exhausted, Unreachable
  <2> QED
    BY <2>1, <2>3, <2>4, Sets DEF PressureInv, Types
<1>2. /\ th[t].pc = "fit" /\ mutex' = None
      /\ UNCHANGED <<gil, tensor, used, allocated>>
  BY DEF Callback, EnterCallback, Exhausted, Unreachable, At, Running
<1>4. Types'
  BY <1>1, <1>2 DEF PressureInv, Types, Moves
<1>5. Allocating'
  BY <1>1, <1>2 DEF PressureInv, Allocating, Moves
<1>6. Deleting'
  BY <1>1, <1>2 DEF PressureInv, Deleting, Moves
<1>7. Owners'
  BY <1>1, <1>2 DEF PressureInv, Owners, Moves
<1>8. Locks'
  BY <1>1, <1>2, NoneOutside DEF PressureInv, Locks, Collecting, Types, Moves
<1>9. Seen'
  BY <1>1, <1>2 DEF PressureInv, Seen, Collecting, Unreachable, Moves
<1>10. Counted'
  <2>1. Uncounted' = Uncounted
    BY <1>1, <1>2 DEF Uncounted, Moves, Caller
  <2> QED
    BY <1>2, <2>1, CountKept DEF PressureInv
<1> QED
  BY <1>4, <1>5, <1>6, <1>7, <1>8, <1>9, <1>10 DEF PressureInv

\* The GIL is given up exactly when the callback took it.
LEMMA RestoreGilStep ==
  ASSUME NEW t \in Threads, PressureInv, RestoreGil(t)
  PROVE  PressureInv'
<1>1. /\ th \in [Threads -> Calls]
      /\ Moves(t, "lock", th[t].x, th[t].todo, th[t].took, TRUE,
               th[t].seen)
  <2>1. PICK c \in Calls : c = th[t]
    BY DEF PressureInv, Types
  <2>2. PICK r : r = [c EXCEPT !.pc = "lock", !.retry = TRUE]
    OBVIOUS
  <2>3. /\ r \in Calls
        /\ r.pc = "lock" /\ r.x = c.x /\ r.todo = c.todo /\ r.took = c.took
        /\ r.retry = TRUE /\ r.seen = c.seen
    BY <2>2 DEF Calls, Points, Caller
  <2>4. th' = [th EXCEPT ![t] = r]
    BY <2>1, <2>2 DEF RestoreGil
  <2> QED
    BY <2>1, <2>3, <2>4, Sets DEF PressureInv, Types
<1>2. /\ th[t].pc = "regil" /\ gil' = IF th[t].took THEN None ELSE gil
      /\ UNCHANGED <<mutex, tensor, used, allocated>>
  BY DEF RestoreGil, At, Running
<1>3. /\ gil = t /\ th[t].todo = {} /\ Collecting(t)
      /\ gil' = IF t \in Python THEN t ELSE None
  BY <1>1, <1>2 DEF PressureInv, Locks, Collecting, Allocating, Deleting
<1>4. Types'
  BY <1>1, <1>2, <1>3 DEF PressureInv, Types, Moves
<1>5. Allocating'
  BY <1>1, <1>2, <1>3 DEF PressureInv, Allocating, Moves
<1>6. Deleting'
  BY <1>1, <1>2, <1>3 DEF PressureInv, Deleting, Moves
<1>7. Owners'
  BY <1>1, <1>2, <1>3 DEF PressureInv, Owners, Moves
<1>8. Locks'
  BY <1>1, <1>2, <1>3, NoneOutside DEF PressureInv, Locks, Collecting, Types, Moves
<1>9. Seen'
  BY <1>1, <1>2, <1>3 DEF PressureInv, Seen, Collecting, Moves
<1>10. Counted'
  <2>1. Uncounted' = Uncounted
    BY <1>1, <1>2 DEF Uncounted, Moves, Caller
  <2> QED
    BY <1>2, <2>1, CountKept DEF PressureInv
<1> QED
  BY <1>4, <1>5, <1>6, <1>7, <1>8, <1>9, <1>10 DEF PressureInv

\* A block is uncounted before it goes.
LEMMA RecordReleaseStep ==
  ASSUME NEW t \in Threads, PressureInv, RecordRelease(t)
  PROVE  PressureInv'
<1>1. /\ th \in [Threads -> Calls]
      /\ Moves(t, "unmap", th[t].x, th[t].todo, th[t].took, th[t].retry,
               th[t].seen)
  BY GotoMoves DEF PressureInv, Types, RecordRelease, Points, Caller
<1>2. /\ th[t].pc = "delete" /\ allocated' = allocated - 1
      /\ UNCHANGED <<gil, mutex, tensor, used>>
  BY DEF RecordRelease, At, Running
<1>4. Types'
  BY <1>1, <1>2 DEF PressureInv, Types, Moves
<1>5. Allocating'
  BY <1>1, <1>2 DEF PressureInv, Allocating, Moves
<1>6. Deleting'
  BY <1>1, <1>2 DEF PressureInv, Deleting, Moves
<1>7. Owners'
  BY <1>1, <1>2 DEF PressureInv, Owners, Moves
<1>8. Locks'
  BY <1>1, <1>2, NoneOutside DEF PressureInv, Locks, Collecting, Types, Moves
<1>9. Seen'
  BY <1>1, <1>2 DEF PressureInv, Seen, Collecting, Moves
<1>10. Counted'
  <2>1. t \notin Uncounted /\ Uncounted' = Uncounted \cup {t}
    BY <1>1, <1>2 DEF Uncounted, Moves
  <2>2. Cardinality(Uncounted') = Cardinality(Uncounted) + 1
    BY <2>1, Finite, FS_AddElement
  <2> QED
    BY <1>2, <2>2, Finite DEF PressureInv, Counted, Types
<1> QED
  BY <1>4, <1>5, <1>6, <1>7, <1>8, <1>9, <1>10 DEF PressureInv

\* The block is counted and the storage is live.
LEMMA RecordAllocStep ==
  ASSUME NEW t \in Threads, PressureInv, RecordAlloc(t)
  PROVE  PressureInv'
<1>1. /\ th \in [Threads -> Calls]
      /\ Moves(t, Caller(t), None, th[t].todo, th[t].took, th[t].retry,
               th[t].seen)
  <2>1. PICK c \in Calls : c = th[t]
    BY DEF PressureInv, Types
  <2>2. PICK r : r = [c EXCEPT !.pc = Caller(t), !.x = None]
    OBVIOUS
  <2>3. /\ r \in Calls
        /\ r.pc = Caller(t) /\ r.x = None /\ r.todo = c.todo /\ r.took = c.took
        /\ r.retry = c.retry /\ r.seen = c.seen
    BY <2>2 DEF Calls, Points, Caller
  <2>4. th' = [th EXCEPT ![t] = r]
    BY <2>1, <2>2 DEF RecordAlloc
  <2> QED
    BY <2>1, <2>3, <2>4, Sets DEF PressureInv, Types
<1>2. /\ th[t].pc = "record" /\ allocated' = allocated + 1
      /\ tensor' = [tensor EXCEPT ![th[t].x] = "live"]
      /\ UNCHANGED <<gil, mutex, used>>
  BY DEF RecordAlloc, At, Running
<1>3. th[t].x \in Tensors /\ tensor[th[t].x] = "new"
  BY <1>1, <1>2 DEF PressureInv, Allocating, Calls
<1>4. Types'
  BY <1>1, <1>2, <1>3 DEF PressureInv, Types, Caller, Moves
<1>5. Allocating'
  BY <1>1, <1>2, <1>3 DEF PressureInv, Allocating, Caller, Moves
<1>6. Deleting'
  BY <1>1, <1>2, <1>3 DEF PressureInv, Deleting, Caller, Moves
<1>7. Owners'
  BY <1>1, <1>2, <1>3 DEF PressureInv, Owners, Types, Caller, Moves
<1>8. Locks'
  BY <1>1, <1>2, <1>3, NoneOutside DEF PressureInv, Locks, Collecting, Types, Caller, Moves
<1>9. Seen'
  BY <1>1, <1>2, <1>3 DEF PressureInv, Seen, Collecting, Caller, Moves
<1>10. Counted'
  <2>1. t \in Uncounted /\ Uncounted' = Uncounted \ {t}
    BY <1>1, <1>2 DEF Uncounted, Moves, Caller
  <2>2. Cardinality(Uncounted') = Cardinality(Uncounted) - 1
    BY <2>1, Finite, FS_RemoveElement
  <2> QED
    BY <1>2, <2>2, Finite DEF PressureInv, Counted, Types
<1> QED
  BY <1>4, <1>5, <1>6, <1>7, <1>8, <1>9, <1>10 DEF PressureInv

\* A thread that gets the GIL finds no collection under way: what was seen and
\* still has a block is unreachable, and becomes its own to delete.
LEMMA EnsureStep ==
  ASSUME NEW t \in Threads, PressureInv, Ensure(t)
  PROVE  PressureInv'
<1>0. PICK dead \in {Unreachable, {}} :
        /\ tensor' = [x \in Tensors |-> IF x \in dead THEN "dying" ELSE tensor[x]]
        /\ th' = [th EXCEPT ![t] = [@ EXCEPT
                     !.pc = IF dead = {} THEN "regil" ELSE "delete", !.todo = dead,
                     !.took = gil = None,
                     !.seen = IF dead = Unreachable THEN th[t].seen ELSE {}]]
  BY DEF Ensure
<1> DEFINE seen == IF dead = Unreachable THEN th[t].seen ELSE {}
<1>1. /\ th \in [Threads -> Calls]
      /\ Moves(t, IF dead = {} THEN "regil" ELSE "delete", th[t].x, dead, gil = None,
               th[t].retry, seen)
  <2>1. PICK c \in Calls : c = th[t]
    BY DEF PressureInv, Types
  <2>2. PICK took \in BOOLEAN : took = (gil = None)
    OBVIOUS
  <2>3. PICK pc \in {"regil", "delete"} : pc = IF dead = {} THEN "regil" ELSE "delete"
    OBVIOUS
  <2>4. dead \in SUBSET Tensors
    BY DEF Unreachable
  <2>s. PICK kept \in SUBSET Tensors : kept = IF dead = Unreachable THEN c.seen ELSE {}
    BY DEF Calls
  <2>5. PICK r : r = [c EXCEPT !.pc = pc, !.todo = dead, !.took = took, !.seen = kept]
    OBVIOUS
  <2>6. /\ r \in Calls
        /\ r.pc = pc /\ r.x = c.x /\ r.todo = dead /\ r.took = took
        /\ r.retry = c.retry /\ r.seen = kept
    BY <2>4, <2>5 DEF Calls, Points
  <2>a. th' = [th EXCEPT ![t] = [c EXCEPT !.pc = IF dead = {} THEN "regil" ELSE "delete",
                                          !.todo = dead, !.took = gil = None,
                                          !.seen = IF dead = Unreachable THEN c.seen ELSE {}]]
    BY <1>0, <2>1, Zenon
  <2>b. [c EXCEPT !.pc = IF dead = {} THEN "regil" ELSE "delete",
                  !.todo = dead, !.took = gil = None,
                  !.seen = IF dead = Unreachable THEN c.seen ELSE {}]
          = [c EXCEPT !.pc = pc, !.todo = dead, !.took = took, !.seen = kept]
    BY <2>2, <2>3, <2>s
  <2>7. th' = [th EXCEPT ![t] = r]
    BY <2>a, <2>b, <2>5
  <2>8. Moves(t, r.pc, r.x, r.todo, r.took, r.retry, r.seen)
    BY <2>6, <2>7, Sets DEF PressureInv, Types
  <2> QED
    BY <2>1, <2>2, <2>3, <2>s, <2>6, <2>8 DEF PressureInv, Types, Moves
<1>2. /\ th[t].pc = "ensure" /\ gil \in {None, t} /\ gil' = t
      /\ tensor' = [x \in Tensors |-> IF x \in dead THEN "dying" ELSE tensor[x]]
      /\ UNCHANGED <<mutex, used, allocated>>
  BY <1>0 DEF Ensure, At
<1>3. /\ \A u \in Threads : ~Collecting(u)
      /\ gil = None <=> t \notin Python
      /\ th[t].x # None /\ th[t].todo = {}
      /\ \A u \in Threads : th[u].todo \cap dead = {}
  BY <1>1, <1>2, NoneOutside
     DEF PressureInv, Locks, Collecting, Allocating, Deleting, Unreachable
<1>4. Types'
  BY <1>1, <1>2 DEF PressureInv, Types, Moves
<1>5. Allocating'
  BY <1>1, <1>2, <1>3 DEF PressureInv, Allocating, Unreachable, Calls, Moves
<1>6. Deleting'
  BY <1>1, <1>2, <1>3 DEF PressureInv, Deleting, Unreachable, Calls, Moves
<1>7. Owners'
  BY <1>1, <1>2, <1>3 DEF PressureInv, Owners, Unreachable, Moves
<1>8. Locks'
  BY <1>1, <1>2, <1>3, NoneOutside DEF PressureInv, Locks, Collecting, Types, Moves
<1>9. Seen'
  <2>1. ASSUME NEW u \in Threads, NEW s \in th'[u].seen
        PROVE  /\ s \in Tensors /\ s \in th[u].seen
               /\ tensor[s] \in {"cycle", "freed"} \/ (tensor[s] = "dying" /\ u # t)
               /\ u = t /\ tensor[s] = "cycle" => s \in dead
    BY <1>1, <1>2, <1>3 DEF PressureInv, Seen, Types, Calls, Unreachable, Moves
  <2>2. ASSUME NEW s \in Tensors
        PROVE  /\ s \in dead => /\ tensor'[s] = "dying" /\ s \in th'[t].todo
                                /\ Collecting(t)'
               /\ s \notin dead => tensor'[s] = tensor[s]
               /\ s \in dead => tensor[s] = "cycle"
    BY <1>1, <1>2, <1>3 DEF Collecting, Unreachable, Moves
  <2>3. \A u \in Threads : Collecting(u)' => u = t
    BY <1>1, <1>3 DEF Collecting, Moves
  <2> QED
    BY <1>1, <1>2, <1>3, <2>1, <2>2, <2>3 DEF PressureInv, Seen, Moves
<1>10. Counted'
  <2>1. Uncounted' = Uncounted
    BY <1>1, <1>2 DEF Uncounted, Moves
  <2> QED
    BY <1>2, <2>1, CountKept DEF PressureInv
<1> QED
  BY <1>4, <1>5, <1>6, <1>7, <1>8, <1>9, <1>10 DEF PressureInv

\* A deleter gives its block back.
LEMMA GiveBackStep ==
  ASSUME NEW t \in Threads, PressureInv, GiveBack(t)
  PROVE  PressureInv'
<1>0. PICK x \in th[t].todo :
         /\ used' = used \ {x} /\ tensor' = [tensor EXCEPT ![x] = "freed"]
         /\ th' = [th EXCEPT ![t] = [@ EXCEPT !.todo = th[t].todo \ {x},
                     !.pc = IF th[t].todo \ {x} # {} THEN "delete"
                            ELSE IF InGc(t) THEN "regil" ELSE Caller(t)]]
  BY DEF GiveBack
<1> DEFINE left == th[t].todo \ {x}
           next == IF left # {} THEN "delete" ELSE IF InGc(t) THEN "regil" ELSE Caller(t)
<1>1. /\ th \in [Threads -> Calls]
      /\ Moves(t, next, th[t].x, left, th[t].took, th[t].retry, th[t].seen)
  <2>1. PICK c \in Calls : c = th[t]
    BY DEF PressureInv, Types
  <2>2. left \in SUBSET Tensors /\ next \in Points
    BY <2>1 DEF Calls, Points, Caller
  <2>3. th' = [th EXCEPT ![t] = [c EXCEPT !.todo = left, !.pc = next]]
    BY <1>0, <2>1
  <2> HIDE DEF left, next
  <2>4. PICK r : r = [c EXCEPT !.todo = left, !.pc = next]
    OBVIOUS
  <2>5. /\ r \in Calls
        /\ r.pc = next /\ r.x = c.x /\ r.todo = left /\ r.took = c.took
        /\ r.retry = c.retry /\ r.seen = c.seen
    BY <2>2, <2>4 DEF Calls
  <2>6. Moves(t, r.pc, r.x, r.todo, r.took, r.retry, r.seen)
    BY <2>3, <2>4, <2>5, Sets DEF PressureInv, Types
  <2> QED
    BY <2>1, <2>5, <2>6 DEF PressureInv, Types
<1>2. /\ th[t].pc = "unmap" /\ used' = used \ {x}
      /\ tensor' = [tensor EXCEPT ![x] = "freed"]
      /\ UNCHANGED <<gil, mutex, allocated>>
  BY <1>0 DEF GiveBack, At
<1>3. /\ x \in Tensors /\ tensor[x] = "dying" /\ x \in used
      /\ \A u \in Threads : u # t => x \notin th[u].todo
  BY <1>1, <1>2 DEF PressureInv, Deleting, Owners, Calls
<1>4. Types'
  BY <1>1, <1>2 DEF PressureInv, Types, Moves
<1>5. Allocating'
  BY <1>1, <1>2, <1>3 DEF PressureInv, Allocating, Types, Calls, InGc, Caller, Moves
<1>6. Deleting'
  BY <1>1, <1>2, <1>3 DEF PressureInv, Deleting, Types, Calls, Caller, Moves
<1>7. Owners'
  BY <1>1, <1>2, <1>3 DEF PressureInv, Owners, Allocating, Types, Calls, Caller, Moves
<1>8. Locks'
  BY <1>1, <1>2, <1>3, NoneOutside
     DEF PressureInv, Locks, Collecting, Types, InGc, Caller, Moves
<1>9. Seen'
  BY <1>1, <1>2, <1>3 DEF PressureInv, Seen, Collecting, Types, Calls, InGc, Caller, Moves
<1>10. Counted'
  <2>1. t \in Uncounted /\ Uncounted' = Uncounted \ {t}
    BY <1>1, <1>2 DEF Uncounted, Caller, Moves
  <2>2. Cardinality(Uncounted') = Cardinality(Uncounted) - 1
    BY <2>1, Finite, FS_RemoveElement
  <2>3. Cardinality(used') = Cardinality(used) - 1
    BY <1>2, <1>3, Finite, FS_RemoveElement
  <2> QED
    BY <1>2, <2>2, <2>3, Finite DEF PressureInv, Counted, Types
<1> QED
  BY <1>4, <1>5, <1>6, <1>7, <1>8, <1>9, <1>10 DEF PressureInv

\* A storage that becomes unreachable was live, so seen by nobody.
LEMMA DropCycleStep ==
  ASSUME NEW t \in Threads, NEW x \in Tensors, PressureInv, DropCycle(t, x)
  PROVE  PressureInv'
<1>1. /\ tensor[x] = "live" /\ tensor' = [tensor EXCEPT ![x] = "cycle"]
      /\ UNCHANGED <<gil, mutex, used, allocated, th>>
  BY DEF DropCycle
<1>2. /\ Types /\ Allocating /\ Deleting /\ Owners /\ Locks /\ Seen /\ Counted
      /\ tensor \in [Tensors -> {"new", "live", "cycle", "dying", "freed"}]
      /\ th \in [Threads -> Calls]
  BY DEF PressureInv, Types
<1>3. Types'
  BY <1>1, <1>2 DEF Types
<1>4. Allocating'
  BY <1>1, <1>2 DEF Allocating, Calls
<1>5. Deleting'
  BY <1>1, <1>2 DEF Deleting, Calls
<1>6. Owners'
  BY <1>1, <1>2 DEF Owners
<1>7. Locks'
  BY <1>1, <1>2 DEF Locks, Collecting
<1>8. Seen'
  BY <1>1, <1>2 DEF Seen, Collecting, Calls
<1>9. Counted'
  BY <1>1, <1>2 DEF Counted, Uncounted
<1> QED
  BY <1>3, <1>4, <1>5, <1>6, <1>7, <1>8, <1>9 DEF PressureInv

-----------------------------------------------------------------------------
\* Nothing is allocated and nobody holds a lock.
LEMMA PressureInit == Init => PressureInv
<1> SUFFICES ASSUME Init PROVE PressureInv
  OBVIOUS
<1>1. \A t \in Threads :
        th[t] = [pc |-> "out", x |-> None, todo |-> {}, took |-> FALSE, retry |-> FALSE,
                 seen |-> {}]
  BY DEF Init
<1>2. Types
  BY <1>1 DEF Init, Types, Calls, Points
<1>3. Counted
  <2>1. Uncounted = {} /\ used = {} /\ allocated = 0
    BY <1>1 DEF Init, Uncounted
  <2> QED
    BY <2>1, FS_EmptySet DEF Counted
<1>4. Allocating /\ Deleting
  BY <1>1 DEF Init, Allocating, Deleting
<1>5. Owners
  BY <1>1 DEF Init, Owners
<1>6. Locks
  BY <1>1, NoneOutside DEF Init, Locks, Collecting
<1>7. Seen
  BY <1>1 DEF Seen
<1> QED
  BY <1>2, <1>3, <1>4, <1>5, <1>6, <1>7 DEF PressureInv

\* Every step of every thread keeps the invariant.
LEMMA PressureNext == PressureInv /\ [Next]_vars => PressureInv'
<1> SUFFICES ASSUME PressureInv, [Next]_vars PROVE PressureInv'
  OBVIOUS
<1>1. CASE UNCHANGED vars
  <2>1. UNCHANGED <<gil, mutex, used, tensor, allocated, th>>
    BY <1>1 DEF vars
  <2>2. Types /\ Allocating /\ Deleting /\ Owners /\ Locks /\ Seen /\ Counted
    BY DEF PressureInv
  <2>3. Types' /\ Owners' /\ Counted'
    BY <2>1, <2>2 DEF Types, Owners, Counted, Uncounted
  <2>4. Allocating' /\ Deleting'
    BY <2>1, <2>2 DEF Allocating, Deleting
  <2>5. Locks'
    BY <2>1, <2>2 DEF Locks, Collecting
  <2>6. Seen'
    BY <2>1, <2>2 DEF Seen, Collecting
  <2> QED
    BY <2>3, <2>4, <2>5, <2>6 DEF PressureInv
<1>2. ASSUME NEW t \in Threads, TakeGil(t) \/ DropGil(t) \/ Work(t)
      PROVE  PressureInv'
  BY <1>2, TakeGilStep, DropGilStep, LockStep, FitStep, OutOfMemoryStep, CallbackStep,
     EnsureStep, RestoreGilStep, RecordReleaseStep, GiveBackStep, RecordAllocStep DEF Work
<1>3. ASSUME NEW t \in Threads, NEW x \in Tensors,
             Allocate(t, x) \/ Release(t, x) \/ DropCycle(t, x)
      PROVE  PressureInv'
  BY <1>3, AllocateStep, ReleaseStep, DropCycleStep
<1> QED
  BY <1>1, <1>2, <1>3 DEF Next

\* The inductive invariant holds of every behaviour of the allocator, its
\* deleters and the callback.
THEOREM PressureInvariant == Spec => []PressureInv
  BY PressureInit, PressureNext, PTL DEF Spec

\* memory_allocated() never says more than the device holds, for any number of
\* threads in allocate(), in a deleter or in a collection.
THEOREM StatsNeverExceed == Spec => []StatsWithinDevice
<1>1. PressureInv => StatsWithinDevice
  BY Finite DEF PressureInv, Types, Counted, StatsWithinDevice
<1> QED
  BY <1>1, PressureInvariant, PTL

\* After a collection that ran allocateInDomain is tried again only when all that
\* was unreachable as memory ran out has given its block back, also what another
\* thread's collection had begun to delete.
THEOREM RetryAfterCollection == Spec => []CollectedBeforeRetry
<1>1. PressureInv => CollectedBeforeRetry
  <2> SUFFICES ASSUME PressureInv, NEW t \in Threads, th[t].pc = "fit", th[t].retry,
                      NEW s \in th[t].seen
               PROVE  s \notin used
    BY DEF CollectedBeforeRetry, At
  <2>1. tensor[s] = "freed" /\ s \in Tensors
    BY DEF PressureInv, Seen, Types, Calls
  <2>2. \A u \in Threads : th[u].pc = "record" => th[u].x # s
    BY <2>1 DEF PressureInv, Allocating
  <2> QED
    BY <2>1, <2>2 DEF PressureInv, Owners
<1> QED
  BY <1>1, PressureInvariant, PTL

\* The mutex is held exactly while a fit is sought, the GIL by a Python thread
\* exactly from when it runs until it gives it up, and by a C++ thread exactly
\* during the collection of its memory-pressure callback.
THEOREM LocksWhereHeld == Spec => []LocksExact
<1>1. PressureInv => LocksExact
  BY NoneOutside, PressureAssumption DEF PressureInv, Types, Locks, LocksExact, At
<1> QED
  BY <1>1, PressureInvariant, PTL

\* ReportAndDelete uncounts a block only when one is still there to be counted:
\* stats_.allocated_bytes never goes below zero.
THEOREM StatsNeverNegative == Spec => [](allocated >= 0)
<1>1. PressureInv => allocated >= 0
  <2> SUFFICES ASSUME PressureInv PROVE allocated >= 0
    OBVIOUS
  <2> DEFINE block(t) == IF th[t].pc = "record" THEN th[t].x
                         ELSE CHOOSE x \in th[t].todo : TRUE
             blocks == [t \in Uncounted |-> block(t)]
  <2>1. ASSUME NEW t \in Uncounted
        PROVE  /\ th[t].pc = "record" => /\ block(t) = th[t].x /\ block(t) \in Tensors
                                         /\ tensor[block(t)] = "new" /\ block(t) \in used
               /\ th[t].pc # "record" => /\ block(t) \in th[t].todo /\ block(t) \in Tensors
                                         /\ tensor[block(t)] = "dying" /\ block(t) \in used
    <3>1. t \in Threads /\ th[t] \in Calls /\ th[t].pc \in {"record", "unmap"}
      BY DEF PressureInv, Types, Uncounted
    <3>2. CASE th[t].pc = "record"
      <4>1. th[t].x \in Tensors /\ tensor[th[t].x] = "new"
        BY <3>1, <3>2 DEF PressureInv, Allocating, Calls
      <4> QED
        BY <3>1, <3>2, <4>1 DEF PressureInv, Owners
    <3>3. CASE th[t].pc = "unmap"
      <4>1. th[t].todo # {} /\ th[t].todo \subseteq Tensors
        BY <3>1, <3>3 DEF PressureInv, Deleting, Calls
      <4>2. block(t) \in th[t].todo
        BY <3>3, <4>1
      <4>3. tensor[block(t)] = "dying" /\ block(t) \in Tensors
        BY <3>1, <4>1, <4>2 DEF PressureInv, Deleting
      <4>4. block(t) \in used
        BY <4>3 DEF PressureInv, Owners
      <4> QED
        BY <3>3, <4>2, <4>3, <4>4
    <3> QED
      BY <3>1, <3>2, <3>3
  <2> HIDE DEF block
  <2>2. ASSUME NEW t \in Uncounted, NEW u \in Uncounted, block(t) = block(u)
        PROVE  t = u
    <3>1. t \in Threads /\ u \in Threads
      BY DEF Uncounted
    <3>2. CASE th[t].pc = "record"
      BY <2>1, <2>2, <3>1, <3>2, NoneOutside DEF PressureInv, Allocating
    <3>3. CASE th[t].pc # "record"
      BY <2>1, <2>2, <3>1, <3>3 DEF PressureInv, Deleting
    <3> QED
      BY <3>2, <3>3
  <2>3. blocks \in Injection(Uncounted, used)
    BY <2>1, <2>2 DEF Injection, IsInjective
  <2>4. Cardinality(Uncounted) <= Cardinality(used)
    BY <2>3, Finite, FS_Injection
  <2> QED
    BY <2>4, Finite DEF PressureInv, Types, Counted
<1> QED
  BY <1>1, PressureInvariant, PTL
=============================================================================
