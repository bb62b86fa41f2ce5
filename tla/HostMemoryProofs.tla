-------------------------- MODULE HostMemoryProofs --------------------------
(***************************************************************************)
(* Proofs about HostMemory, for any threads, blocks, addresses and number  *)
(* of DMAs.  The invariants of the model are not inductive one by one: the *)
(* pages of a DMA are alive because it owns them, ownership is kept right  *)
(* because retain() finds the right block, and retain() finds it because   *)
(* every live storage has its entry.  IInv is the conjunction of these.    *)
(***************************************************************************)
EXTENDS HostMemory, WellFoundedInduction, TLAPS

(* Every pinned storage has its entry in allocations_, and no other entry. *)
Entries == allocations = tensors \cap Pinned

(* What the locals of a thread own at each point of a call.                *)
IdleHeld ==
  \A t \in Threads :
    pc[t] \in {"idle", "emptying"} => held[t] = None /\ copy[t] = None

AcquiredHeld ==
  \A t \in Threads : pc[t] = "acquired" =>
    /\ held[t] \in Pinned
    /\ held[t] \notin allocations
    /\ \A h \in Holders \ {t} : held[h] # held[t]
    /\ copy[t] = None

DeallocatingHeld ==
  \A t \in Threads : pc[t] = "deallocating" =>
    /\ held[t] \in Pinned
    /\ copy[t] = None

CopyHeld ==
  \A t \in Threads : pc[t] \in {"retained", "launched"} =>
    /\ copy[t] \in tensors
    /\ kind[t] # "h2dDci" => held[t] = copy[t]

(* A DMA owns the pages it touches, and they belong to the allocation it   *)
(* was launched on.                                                        *)
DmaOwns ==
  \A d \in Dmas :
    /\ touches[d] = None => held[d] = None
    /\ touches[d] \in Blocks => /\ held[d] = touches[d]
                                /\ touchGen[d] = gen[touches[d]]

IInv ==
  /\ TypeOK
  /\ Entries
  /\ IdleHeld
  /\ AcquiredHeld
  /\ DeallocatingHeld
  /\ CopyHeld
  /\ RetainOwns
  /\ DmaOwns
  /\ NoBlockLost
  /\ NoActiveAllocation
-----------------------------------------------------------------------------
(* A non-empty set of naturals has a least element.                        *)
LEMMA LeastNatural ==
  ASSUME NEW T, T \subseteq Nat, T # {}
  PROVE  \E x \in T : \A y \in T : x <= y
<1>1. PICK x \in T : \A y \in T : ~(<<y, x>> \in OpToRel(<, Nat))
  BY NatLessThanWellFounded, WFMin
<1>2. \A y \in T : x <= y
  <2> SUFFICES ASSUME NEW y \in T PROVE x <= y
    OBVIOUS
  <2>1. <<y, x>> \notin OpToRel(<, Nat)
    BY <1>1
  <2>2. ~(y < x)
    BY <2>1 DEF OpToRel
  <2> QED
    BY <2>2
<1> QED
  BY <1>2

(* Two blocks share no address, so a block that starts at or below an      *)
(* address of block b does not start after b.                              *)
LEMMA BlockOrder ==
  ASSUME NEW b \in Blocks, NEW c \in Blocks, NEW a \in Addresses(b),
         Base[c] <= a
  PROVE  /\ Base[c] <= Base[b]
         /\ c # b => a - Base[c] >= Capacity[c]
<1>1. /\ Base[b] \in Nat /\ Base[c] \in Nat
      /\ Capacity[b] \in Nat \ {0} /\ Capacity[c] \in Nat \ {0}
  BY BlockAssumption
<1>2. a \in Int /\ Base[b] <= a /\ a <= Base[b] + Capacity[b] - 1
  BY <1>1 DEF Addresses
<1>3. CASE c = b
  BY <1>1, <1>3
<1>4. CASE c # b
  <2>1. Addresses(b) \cap Addresses(c) = {}
    BY <1>4, BlockAssumption
  <2>2. a \notin Addresses(c)
    BY <2>1
  <2>3. Base[c] \notin Addresses(b)
    <3>1. Base[c] \in Addresses(c)
      BY <1>1 DEF Addresses
    <3> QED
      BY <2>1, <3>1
  <2>4. Base[c] <= Base[b]
    BY <2>3, <1>1, <1>2 DEF Addresses
  <2>5. a - Base[c] >= Capacity[c]
    BY <2>2, <1>1, <1>2 DEF Addresses
  <2> QED
    BY <2>4, <2>5
<1> QED
  BY <1>3, <1>4

(* findContaining, given an address of block b, returns b when b is a live *)
(* allocation and nothing otherwise: never a neighbour of b.               *)
LEMMA FindContaining ==
  ASSUME allocations \subseteq Pinned,
         NEW b \in Blocks, NEW a \in Addresses(b)
  PROVE  findContaining(a) = IF b \in allocations THEN b ELSE None
<1> DEFINE below == {c \in allocations : Base[c] <= a}
           last == CHOOSE c \in below : \A e \in below : Base[e] <= Base[c]
<1>1. /\ Base \in [Blocks -> Nat]
      /\ Capacity \in [Blocks -> Nat \ {0}]
      /\ allocations \subseteq Blocks
  BY BlockAssumption DEF Blocks
<1>2. a \in Nat /\ Base[b] <= a /\ a - Base[b] < Capacity[b]
  BY <1>1 DEF Addresses
<1>3. \A c \in below : /\ Base[c] <= Base[b]
                       /\ c # b => a - Base[c] >= Capacity[c]
  BY <1>1, BlockOrder
<1>4. findContaining(a) = IF below = {} \/ a - Base[last] >= Capacity[last]
                          THEN None ELSE last
  BY DEF findContaining
<1>4a. ASSUME NEW c \in below, \A e \in below : Base[e] <= Base[c]
      PROVE  last \in below /\ \A e \in below : Base[e] <= Base[last]
  BY <1>4a
<1> HIDE DEF last
<1>5. CASE b \in allocations
  <2>1. b \in below
    BY <1>2, <1>5
  <2>2. last \in below /\ Base[b] <= Base[last]
    BY <1>3, <1>4a, <2>1
  <2>3. last = b
    <3>1. SUFFICES ASSUME last # b PROVE FALSE
      OBVIOUS
    <3>2. a - Base[last] >= Capacity[last] /\ Base[last] <= Base[b]
      BY <1>3, <2>2, <3>1
    <3>3. Base[last] \in Nat /\ Base[b] \in Nat /\ Capacity[last] \in Nat \ {0}
      BY <1>1, <2>2
    <3>4. Base[last] = Base[b]
      BY <2>2, <3>2, <3>3
    <3>5. Base[b] \in Addresses(b) /\ Base[last] \in Addresses(last)
      BY <1>1, <2>2 DEF Addresses
    <3>6. Addresses(b) \cap Addresses(last) = {}
      BY <1>1, <2>2, <3>1, BlockAssumption
    <3> QED
      BY <3>4, <3>5, <3>6
  <2>4. ~(a - Base[last] >= Capacity[last])
    BY <1>1, <1>2, <2>3
  <2> QED
    BY <1>4, <1>5, <2>1, <2>3, <2>4
<1>6. CASE b \notin allocations
  <2>1. CASE below = {}
    BY <1>4, <1>6, <2>1
  <2>2. CASE below # {}
    <3> DEFINE T == {a - Base[c] : c \in below}
    <3>1. T \subseteq Nat /\ T # {}
      <4>1. \A c \in below : Base[c] \in Nat /\ Base[c] <= a
        BY <1>1
      <4> HIDE DEF below
      <4> QED
        BY <4>1, <1>2, <2>2
    <3>2. PICK x \in T : \A y \in T : x <= y
      <4> HIDE DEF T
      <4> QED
        BY <3>1, LeastNatural
    <3>3. PICK c \in below : x = a - Base[c]
      BY <3>2
    <3>4. \A e \in below : Base[e] <= Base[c]
      <4> SUFFICES ASSUME NEW e \in below PROVE Base[e] <= Base[c]
        OBVIOUS
      <4>1. a - Base[c] <= a - Base[e]
        BY <3>2, <3>3
      <4>2. Base[c] \in Nat /\ Base[e] \in Nat
        BY <1>1
      <4> QED
        BY <1>2, <4>1, <4>2
    <3>5. last \in below
      BY <1>4a, <3>4
    <3>6. a - Base[last] >= Capacity[last]
      BY <1>3, <1>6, <3>5
    <3> QED
      BY <1>4, <1>6, <3>6
  <2> QED
    BY <2>1, <2>2
<1> QED
  BY <1>5, <1>6

-----------------------------------------------------------------------------
(* Dropping a token keeps the accounts: the block is released exactly when *)
(* nobody else owns it.                                                    *)
LEMMA DropAccounts ==
  ASSUME TypeOK, NoBlockLost, NEW h \in Holders, Drop(h),
         allocations' = allocations, tensors' = tensors
  PROVE  /\ NoBlockLost'
         /\ mapped' \in SUBSET Blocks
         /\ cached' \in SUBSET Pinned
         /\ held' \in [Holders -> Blocks \cup {None}]
<1>1. /\ held' = [held EXCEPT ![h] = None]
      /\ held \in [Holders -> Blocks \cup {None}]
  BY DEF Drop, TypeOK
<1>2. PICK x : x = held[h]
  OBVIOUS
<1>3. \A b \in Blocks :
        Owned(b)' <=> Rooted(b) \/ \E g \in Holders \ {h} : held[g] = b
  <2> SUFFICES ASSUME NEW b \in Blocks
               PROVE  Owned(b)' <=> \/ Rooted(b)
                                    \/ \E g \in Holders \ {h} : held[g] = b
    OBVIOUS
  <2>1. Rooted(b)' <=> Rooted(b)
    BY DEF Rooted
  <2>2. b # None
    BY BlockAssumption
  <2>3. (\E g \in Holders : held'[g] = b)
          <=> \E g \in Holders \ {h} : held[g] = b
    BY <1>1, <2>2
  <2> QED
    BY <2>1, <2>3 DEF Owned
<1>4. \A b \in Blocks : b # x => (Owned(b)' <=> Owned(b))
  BY <1>2, <1>3 DEF Owned
<1>5. CASE x = None \/ Rooted(x) \/ \E g \in Holders \ {h} : held[g] = x
  <2>1. mapped' = mapped /\ cached' = cached
    BY <1>2, <1>5 DEF Drop
  <2>2. \A b \in Blocks : Owned(b)' <=> Owned(b)
    BY <1>2, <1>3, <1>4, <1>5, BlockAssumption DEF Owned
  <2> QED
    BY <1>1, <2>1, <2>2 DEF NoBlockLost, TypeOK
<1>6. CASE ~(x = None \/ Rooted(x) \/ \E g \in Holders \ {h} : held[g] = x)
  <2>1. Release(x)
    BY <1>2, <1>6 DEF Drop
  <2>2. x \in Blocks /\ Owned(x)
    BY <1>1, <1>2, <1>6 DEF Owned
  <2>3. ~Owned(x)'
    BY <1>3, <1>6, <2>2
  <2>4. x \in mapped /\ x \notin cached
    BY <2>2 DEF NoBlockLost
  <2>5. mapped' \in SUBSET Blocks /\ cached' \in SUBSET Pinned
    BY <2>1, <2>2 DEF Release, TypeOK
  <2>6. NoBlockLost'
    <3> SUFFICES ASSUME NEW b \in Blocks
                 PROVE  /\ b \in mapped' <=> (b \in cached' \/ Owned(b)')
                        /\ ~(b \in cached' /\ Owned(b)')
      BY DEF NoBlockLost
    <3>1. /\ b \in mapped <=> (b \in cached \/ Owned(b))
          /\ ~(b \in cached /\ Owned(b))
      BY DEF NoBlockLost
    <3>2. CASE b = x
      BY <2>1, <2>3, <2>4, <3>2 DEF Release
    <3>3. CASE b # x
      BY <1>4, <2>1, <3>1, <3>3 DEF Release
    <3> QED
      BY <3>2, <3>3
  <2> QED
    BY <1>1, <2>5, <2>6
<1> QED
  BY <1>5, <1>6

-----------------------------------------------------------------------------
(* The actions that drop a token: the thread or DMA h gives up what it     *)
(* holds and nothing else that IInv speaks of is given to anybody.         *)
LEMMA DropStep ==
  ASSUME IInv, NEW h \in Holders, Drop(h),
         allocations' = allocations, tensors' = tensors, gen' = gen,
         activeThrown' = activeThrown, caches' = caches,
         NEW T \in SUBSET Threads, h \in Threads => T = {h},
         h \in Dmas => T = {},
         pc' = [t \in Threads |-> IF t \in T THEN "idle" ELSE pc[t]],
         copy' = [t \in Threads |-> IF t \in T THEN None ELSE copy[t]],
         kind' \in [Threads -> Kinds],
         \A t \in Threads \ T : kind'[t] = kind[t],
         touches' = [d \in Dmas |-> IF d = h THEN None ELSE touches[d]],
         touchGen' \in [Dmas -> Nat],
         \A d \in Dmas \ {h} : touchGen'[d] = touchGen[d]
  PROVE  IInv'
<1> USE DEF IInv
<1>1. /\ held' = [held EXCEPT ![h] = None]
      /\ held \in [Holders -> Blocks \cup {None}]
  BY DEF Drop, TypeOK
<1>2. /\ held'[h] = None
      /\ \A g \in Holders \ {h} : held'[g] = held[g]
  BY <1>1
<1>3. Threads \subseteq Holders /\ Dmas \subseteq Holders /\ Threads \cap Dmas = {}
  BY BlockAssumption DEF Holders
<1>4. \A t \in Threads \ T : /\ pc'[t] = pc[t] /\ copy'[t] = copy[t]
                             /\ held'[t] = held[t]
  BY <1>2, <1>3
<1>5. \A t \in T : pc'[t] = "idle" /\ copy'[t] = None /\ held'[t] = None
  <2>1. \A t \in T : t = h
    BY DEF Holders
  <2> QED
    BY <1>2, <2>1
<1>6. TypeOK'
  BY DropAccounts DEF TypeOK, PcValues
<1>7. Entries'
  BY DEF Entries
<1>8. IdleHeld'
  BY <1>4, <1>5 DEF IdleHeld
<1>9. AcquiredHeld'
  <2> SUFFICES ASSUME NEW t \in Threads, pc'[t] = "acquired"
               PROVE  /\ held'[t] \in Pinned
                      /\ held'[t] \notin allocations
                      /\ \A g \in Holders \ {t} : held'[g] # held'[t]
                      /\ copy'[t] = None
    BY DEF AcquiredHeld
  <2>1. t \notin T
    BY <1>5
  <2>2. /\ held'[t] \in Pinned /\ held'[t] \notin allocations
        /\ \A g \in Holders \ {t} : held[g] # held'[t]
        /\ copy'[t] = None
    BY <1>4, <2>1 DEF AcquiredHeld
  <2>3. held'[t] # None
    BY <2>2, BlockAssumption DEF Blocks
  <2> QED
    BY <1>2, <2>2, <2>3
<1>10. DeallocatingHeld'
  BY <1>4, <1>5 DEF DeallocatingHeld
<1>11. CopyHeld'
  BY <1>4, <1>5 DEF CopyHeld
<1>12. RetainOwns'
  BY <1>4, <1>5 DEF RetainOwns
<1>13. DmaOwns'
  <2> SUFFICES ASSUME NEW d \in Dmas
               PROVE  /\ touches'[d] = None => held'[d] = None
                      /\ touches'[d] \in Blocks =>
                           /\ held'[d] = touches'[d]
                           /\ touchGen'[d] = gen[touches'[d]]
    BY DEF DmaOwns
  <2>1. CASE d = h
    BY <1>2, <2>1, BlockAssumption
  <2>2. CASE d # h
    <3>1. /\ held'[d] = held[d] /\ touches'[d] = touches[d]
          /\ touchGen'[d] = touchGen[d]
      BY <1>2, <1>3, <2>2
    <3> QED
      BY <3>1 DEF DmaOwns
  <2> QED
    BY <2>1, <2>2
<1>14. NoBlockLost'
  BY DropAccounts
<1>15. NoActiveAllocation'
  BY DEF NoActiveAllocation
<1> QED
  BY <1>6, <1>7, <1>8, <1>9, <1>10, <1>11, <1>12, <1>13, <1>14, <1>15

-----------------------------------------------------------------------------
(* IInv holds initially.                                                   *)
LEMMA InitIInv == Init => IInv
<1> SUFFICES ASSUME Init PROVE IInv
  OBVIOUS
<1>1. TypeOK
  BY BlockAssumption DEF Init, TypeOK, PcValues, Kinds, Blocks
<1>2. NoBlockLost
  <2> SUFFICES ASSUME NEW b \in Blocks PROVE ~Owned(b)
    BY DEF Init, NoBlockLost
  <2> QED
    BY BlockAssumption DEF Init, Owned, Rooted, Blocks
<1>3. Entries /\ IdleHeld /\ AcquiredHeld /\ DeallocatingHeld /\ CopyHeld
  BY DEF Init, Entries, IdleHeld, AcquiredHeld, DeallocatingHeld, CopyHeld,
         Holders
<1>4. RetainOwns /\ DmaOwns /\ NoActiveAllocation
  BY BlockAssumption
     DEF Init, RetainOwns, DmaOwns, NoActiveAllocation, Holders
<1> QED
  BY <1>1, <1>2, <1>3, <1>4 DEF IInv

(* An acquire takes a block nobody owns and makes the thread its only      *)
(* owner.                                                                  *)
LEMMA AcquireIInv ==
  ASSUME IInv, NEW t \in Threads, NEW b \in Pinned, AllocateAcquire(t, b)
  PROVE  IInv'
<1> USE DEF IInv
<1>1. /\ held' = [held EXCEPT ![t] = b]
      /\ held \in [Holders -> Blocks \cup {None}]
      /\ b \in Blocks /\ b # None /\ t \in Holders
      /\ pc' = [pc EXCEPT ![t] = "acquired"] /\ pc[t] = "idle"
  BY BlockAssumption
     DEF AllocateAcquire, Step, TypeOK, Blocks, Holders
<1>2. ~Owned(b)
  BY <1>1 DEF AllocateAcquire, NoBlockLost
<1>3. /\ b \notin allocations
      /\ \A h \in Holders : held[h] # b
  BY <1>2 DEF Owned, Rooted
<1>4. held[t] = None /\ copy[t] = None
  BY <1>1 DEF IdleHeld
<1>5. TypeOK'
  BY <1>1 DEF AllocateAcquire, TypeOK, PcValues
<1>6. Entries'
  BY DEF AllocateAcquire, Entries
<1>7. IdleHeld'
  BY <1>1 DEF AllocateAcquire, IdleHeld, TypeOK, Holders
<1>8. AcquiredHeld'
  <2> SUFFICES ASSUME NEW u \in Threads, pc'[u] = "acquired"
               PROVE  /\ held'[u] \in Pinned
                      /\ held'[u] \notin allocations'
                      /\ \A h \in Holders \ {u} : held'[h] # held'[u]
                      /\ copy'[u] = None
    BY DEF AcquiredHeld
  <2>1. allocations' = allocations /\ copy' = copy /\ u \in Holders
    BY DEF AllocateAcquire, Holders
  <2>2. CASE u = t
    BY <1>1, <1>3, <1>4, <2>1, <2>2
  <2>3. CASE u # t
    <3>1. pc[u] = "acquired" /\ held'[u] = held[u]
      BY <1>1, <2>1, <2>3 DEF TypeOK
    <3>2. held[u] # b
      BY <1>3, <2>1
    <3> QED
      BY <1>1, <2>1, <3>1, <3>2 DEF AcquiredHeld
  <2> QED
    BY <2>2, <2>3
<1>9. DeallocatingHeld'
  BY <1>1 DEF AllocateAcquire, DeallocatingHeld, TypeOK, Holders
<1>10. CopyHeld'
  BY <1>1 DEF AllocateAcquire, CopyHeld, TypeOK, Holders
<1>11. RetainOwns'
  BY <1>1 DEF AllocateAcquire, RetainOwns, TypeOK, Holders
<1>12. DmaOwns'
  <2> SUFFICES ASSUME NEW d \in Dmas
               PROVE  /\ touches[d] = None => held'[d] = None
                      /\ touches[d] \in Blocks =>
                           /\ held'[d] = touches[d]
                           /\ touchGen[d] = gen'[touches[d]]
    BY DEF DmaOwns, AllocateAcquire
  <2>1. d \in Holders /\ held'[d] = held[d]
    BY <1>1, BlockAssumption DEF Holders
  <2>2. held[d] # b
    BY <1>3, <2>1
  <2>3. gen' = [gen EXCEPT ![b] = @ + 1] /\ gen \in [Blocks -> Nat]
    BY DEF AllocateAcquire, TypeOK
  <2> QED
    BY <2>1, <2>2, <2>3 DEF DmaOwns
<1>13. NoBlockLost'
  <2> SUFFICES ASSUME NEW c \in Blocks
               PROVE  /\ c \in mapped' <=> (c \in cached' \/ Owned(c)')
                      /\ ~(c \in cached' /\ Owned(c)')
    BY DEF NoBlockLost
  <2>1. mapped' = mapped \cup {b} /\ cached' = cached \ {b}
    BY DEF AllocateAcquire
  <2>2. Rooted(c)' <=> Rooted(c)
    BY DEF AllocateAcquire, Rooted
  <2>3. CASE c = b
    BY <1>1, <2>1, <2>3 DEF Owned
  <2>4. CASE c # b
    <3>1. c # None
      BY BlockAssumption
    <3>2. Owned(c)' <=> Owned(c)
      BY <1>1, <1>4, <2>2, <2>4, <3>1 DEF Owned
    <3> QED
      BY <2>1, <2>4, <3>2 DEF NoBlockLost
  <2> QED
    BY <2>3, <2>4
<1>14. NoActiveAllocation'
  BY DEF AllocateAcquire, NoActiveAllocation
<1> QED
  BY <1>5, <1>6, <1>7, <1>8, <1>9, <1>10, <1>11, <1>12, <1>13, <1>14

(* The insertion into allocations_ never meets a live entry, and hands the *)
(* ownership of the thread over to the entry.                              *)
LEMMA EmplaceIInv ==
  ASSUME IInv, NEW t \in Threads, AllocateEmplace(t)
  PROVE  IInv'
<1> USE DEF IInv
<1>1. PICK b : b = held[t]
  OBVIOUS
<1>2. /\ pc[t] = "acquired" /\ pc' = [pc EXCEPT ![t] = "idle"]
      /\ b \in Pinned /\ b \notin allocations /\ copy[t] = None
      /\ \A h \in Holders \ {t} : held[h] # b
  BY <1>1 DEF AllocateEmplace, Step, AcquiredHeld
<1>3. /\ allocations' = allocations \cup {b}
      /\ tensors' = tensors \cup {b}
      /\ held' = [held EXCEPT ![t] = None]
      /\ UNCHANGED <<mapped, cached, activeThrown, copy, kind, touches,
                     touchGen, gen>>
      /\ caches' = TRUE
  BY <1>1, <1>2 DEF AllocateEmplace
<1>4. /\ held \in [Holders -> Blocks \cup {None}]
      /\ b \in Blocks /\ b # None /\ t \in Holders
      /\ Threads \cap Dmas = {}
  BY <1>2, BlockAssumption DEF TypeOK, Blocks, Holders
<1>5. TypeOK'
  BY <1>2, <1>3, <1>4 DEF TypeOK, PcValues
<1>6. Entries'
  BY <1>2, <1>3 DEF Entries
<1>7. IdleHeld'
  BY <1>2, <1>3, <1>4 DEF IdleHeld, TypeOK, Holders
<1>8. AcquiredHeld'
  <2> SUFFICES ASSUME NEW u \in Threads, pc'[u] = "acquired"
               PROVE  /\ held'[u] \in Pinned
                      /\ held'[u] \notin allocations'
                      /\ \A h \in Holders \ {u} : held'[h] # held'[u]
                      /\ copy'[u] = None
    BY DEF AcquiredHeld
  <2>1. u # t /\ pc[u] = "acquired" /\ u \in Holders
    BY <1>2 DEF TypeOK, Holders
  <2>2. held'[u] = held[u] /\ held[u] # b
    BY <1>2, <1>3, <1>4, <2>1
  <2>3. held[u] # None
    BY <2>1, BlockAssumption DEF AcquiredHeld, Blocks
  <2> QED
    BY <1>3, <1>4, <2>1, <2>2, <2>3 DEF AcquiredHeld
<1>9. DeallocatingHeld'
  BY <1>2, <1>3, <1>4 DEF DeallocatingHeld, TypeOK, Holders
<1>10. CopyHeld'
  BY <1>2, <1>3, <1>4 DEF CopyHeld, TypeOK, Holders
<1>11. RetainOwns'
  BY <1>2, <1>3, <1>4 DEF RetainOwns, TypeOK, Holders
<1>12. DmaOwns'
  BY <1>3, <1>4 DEF DmaOwns, Holders
<1>13. NoBlockLost'
  <2> SUFFICES ASSUME NEW c \in Blocks PROVE Owned(c)' <=> Owned(c)
    BY <1>3 DEF NoBlockLost
  <2>1. CASE c = b
    BY <1>1, <1>2, <1>3, <1>4, <2>1 DEF Owned, Rooted
  <2>2. CASE c # b
    <3>1. Rooted(c)' <=> Rooted(c)
      BY <1>3, <2>2 DEF Rooted
    <3>2. c # None
      BY BlockAssumption
    <3> QED
      BY <1>1, <1>3, <1>4, <2>2, <3>1, <3>2 DEF Owned
  <2> QED
    BY <2>1, <2>2
<1>14. NoActiveAllocation'
  BY <1>3 DEF NoActiveAllocation
<1> QED
  BY <1>5, <1>6, <1>7, <1>8, <1>9, <1>10, <1>11, <1>12, <1>13, <1>14

(* A new pageable storage: nobody owned the block before.                  *)
LEMMA AllocatePageableIInv ==
  ASSUME IInv, NEW b \in Pageable, AllocatePageable(b)
  PROVE  IInv'
<1> USE DEF IInv
<1>1. /\ b \in Blocks /\ b \notin Pinned /\ b # None
      /\ mapped' = mapped \cup {b} /\ tensors' = tensors \cup {b}
      /\ gen' = [gen EXCEPT ![b] = @ + 1]
      /\ UNCHANGED <<cached, allocations, pc, copy, kind, held, touches,
                     touchGen, caches, activeThrown>>
  BY BlockAssumption DEF AllocatePageable, Blocks
<1>2. ~Owned(b) /\ b \notin cached
  BY <1>1 DEF AllocatePageable, NoBlockLost
<1>3. TypeOK'
  BY <1>1 DEF TypeOK
<1>4. Entries'
  BY <1>1 DEF Entries
<1>5. IdleHeld' /\ AcquiredHeld' /\ DeallocatingHeld' /\ RetainOwns'
  BY <1>1 DEF IdleHeld, AcquiredHeld, DeallocatingHeld, RetainOwns
<1>6. CopyHeld'
  BY <1>1 DEF CopyHeld
<1>7. DmaOwns'
  <2> SUFFICES ASSUME NEW d \in Dmas, touches[d] \in Blocks
               PROVE  touchGen[d] = gen'[touches[d]]
    BY <1>1 DEF DmaOwns
  <2>1. held[d] = touches[d] /\ touchGen[d] = gen[touches[d]] /\ d \in Holders
    BY DEF DmaOwns, Holders
  <2>2. touches[d] # b
    BY <1>2, <2>1 DEF Owned
  <2> QED
    BY <1>1, <2>1, <2>2 DEF TypeOK
<1>8. NoBlockLost'
  <2> SUFFICES ASSUME NEW c \in Blocks
               PROVE  /\ c \in mapped' <=> (c \in cached' \/ Owned(c)')
                      /\ ~(c \in cached' /\ Owned(c)')
    BY DEF NoBlockLost
  <2>1. CASE c = b
    BY <1>1, <1>2, <2>1 DEF Owned, Rooted
  <2>2. CASE c # b
    <3>1. Owned(c)' <=> Owned(c)
      BY <1>1, <2>2 DEF Owned, Rooted
    <3> QED
      BY <1>1, <2>2, <3>1 DEF NoBlockLost
  <2> QED
    BY <2>1, <2>2
<1>9. NoActiveAllocation'
  BY <1>1 DEF NoActiveAllocation
<1> QED
  BY <1>3, <1>4, <1>5, <1>6, <1>7, <1>8, <1>9

(* retain() makes the thread an owner of the block it copies, which has an *)
(* owner already, and of no other.                                         *)
LEMMA CopyRetainIInv ==
  ASSUME IInv, NEW t \in Threads, NEW b \in Blocks, NEW k \in Kinds,
         NEW a \in Addresses(b), CopyRetain(t, b, k, a)
  PROVE  IInv'
<1> USE DEF IInv
<1>1. PICK v : v = IF findContaining(a) # None THEN findContaining(a)
                   ELSE HostLifetime(b, k)
  OBVIOUS
<1>2. /\ pc[t] = "idle" /\ pc' = [pc EXCEPT ![t] = "retained"]
      /\ b \in tensors
      /\ copy' = [copy EXCEPT ![t] = b]
      /\ kind' = [kind EXCEPT ![t] = k]
      /\ held' = [held EXCEPT ![t] = v]
      /\ UNCHANGED <<mapped, cached, allocations, tensors, touches, touchGen,
                     gen, caches, activeThrown>>
  BY <1>1 DEF CopyRetain, Step
<1>3. /\ v \in {b, None}
      /\ b \in Pinned => v = b
      /\ k # "h2dDci" => v = b
  <2>1. findContaining(a) = IF b \in allocations THEN b ELSE None
    BY FindContaining DEF TypeOK
  <2>2. b \in Pinned => b \in allocations
    BY <1>2 DEF Entries
  <2> QED
    BY <1>1, <2>1, <2>2, BlockAssumption DEF HostLifetime
<1>4. /\ held \in [Holders -> Blocks \cup {None}]
      /\ t \in Holders /\ Threads \cap Dmas = {}
      /\ b # None /\ held[t] = None
  BY <1>2, BlockAssumption DEF TypeOK, Holders, IdleHeld
<1>5. TypeOK'
  BY <1>2, <1>3, <1>4 DEF TypeOK, PcValues
<1>6. Entries'
  BY <1>2 DEF Entries
<1>7. IdleHeld'
  BY <1>2, <1>4 DEF IdleHeld, TypeOK, Holders
<1>8. AcquiredHeld'
  <2> SUFFICES ASSUME NEW u \in Threads, pc'[u] = "acquired"
               PROVE  /\ held'[u] \in Pinned
                      /\ held'[u] \notin allocations
                      /\ \A h \in Holders \ {u} : held'[h] # held'[u]
                      /\ copy'[u] = None
    BY <1>2 DEF AcquiredHeld
  <2>1. u # t /\ pc[u] = "acquired" /\ u \in Holders
    BY <1>2 DEF TypeOK, Holders
  <2>2. /\ held[u] \in Pinned /\ held[u] \notin allocations /\ copy[u] = None
        /\ \A h \in Holders \ {u} : held[h] # held[u]
    BY <2>1 DEF AcquiredHeld
  <2>3. held[u] # v
    <3>1. held[u] # None
      BY <2>2, BlockAssumption DEF Blocks
    <3>2. held[u] # b
      BY <1>2, <2>2 DEF Entries
    <3> QED
      BY <1>3, <3>1, <3>2
  <2> QED
    BY <1>2, <1>4, <2>1, <2>2, <2>3 DEF TypeOK
<1>9. DeallocatingHeld'
  BY <1>2, <1>4 DEF DeallocatingHeld, TypeOK, Holders
<1>10. CopyHeld'
  BY <1>2, <1>3, <1>4 DEF CopyHeld, TypeOK, Holders
<1>11. RetainOwns'
  BY <1>2, <1>3, <1>4 DEF RetainOwns, TypeOK, Holders
<1>12. DmaOwns'
  BY <1>2, <1>4 DEF DmaOwns, Holders
<1>13. NoBlockLost'
  <2> SUFFICES ASSUME NEW c \in Blocks PROVE Owned(c)' <=> Owned(c)
    BY <1>2 DEF NoBlockLost
  <2>1. Rooted(c)' <=> Rooted(c)
    BY <1>2 DEF Rooted
  <2>2. c # None
    BY BlockAssumption
  <2>3. CASE c = b
    BY <1>2, <2>1, <2>3 DEF Owned, Rooted, Entries
  <2>4. CASE c # b
    BY <1>2, <1>3, <1>4, <2>1, <2>2, <2>4 DEF Owned
  <2> QED
    BY <2>3, <2>4
<1>14. NoActiveAllocation'
  BY <1>2 DEF NoActiveAllocation
<1> QED
  BY <1>5, <1>6, <1>7, <1>8, <1>9, <1>10, <1>11, <1>12, <1>13, <1>14

(* The launch shares the thread's token with the DMA.                      *)
LEMMA CopyLaunchIInv ==
  ASSUME IInv, NEW t \in Threads, NEW d \in Dmas, CopyLaunch(t, d)
  PROVE  IInv'
<1> USE DEF IInv
<1>1. PICK v, b : v = held[t] /\ b = copy[t]
  OBVIOUS
<1>2. /\ pc[t] = "retained" /\ pc' = [pc EXCEPT ![t] = "launched"]
      /\ touches[d] = None
      /\ touches' = [touches EXCEPT ![d] = IF kind[t] = "h2dDci" THEN Staging
                                           ELSE b]
      /\ touchGen' = [touchGen EXCEPT ![d] = gen[b]]
      /\ held' = [held EXCEPT ![d] = v]
      /\ UNCHANGED <<mapped, cached, allocations, tensors, copy, kind, gen,
                     caches, activeThrown>>
  BY <1>1 DEF CopyLaunch, Step
<1>3. /\ held \in [Holders -> Blocks \cup {None}]
      /\ t \in Holders /\ d \in Holders /\ Threads \cap Dmas = {}
      /\ b \in tensors /\ b \in Blocks
      /\ held[d] = None
  BY <1>1, <1>2, BlockAssumption DEF TypeOK, Holders, CopyHeld, DmaOwns
<1>4. v \in {b, None} /\ (kind[t] # "h2dDci" => v = b)
  BY <1>1, <1>2 DEF RetainOwns, CopyHeld
<1>5. TypeOK'
  BY <1>2, <1>3, <1>4 DEF TypeOK, PcValues
<1>6. Entries'
  BY <1>2 DEF Entries
<1>7. IdleHeld'
  BY <1>2, <1>3 DEF IdleHeld, TypeOK, Holders
<1>8. AcquiredHeld'
  <2> SUFFICES ASSUME NEW u \in Threads, pc'[u] = "acquired"
               PROVE  /\ held'[u] \in Pinned
                      /\ held'[u] \notin allocations
                      /\ \A h \in Holders \ {u} : held'[h] # held'[u]
                      /\ copy'[u] = None
    BY <1>2 DEF AcquiredHeld
  <2>1. u # t /\ pc[u] = "acquired" /\ u \in Holders /\ u # d
    BY <1>2, <1>3 DEF TypeOK, Holders
  <2>2. /\ held[u] \in Pinned /\ held[u] \notin allocations /\ copy[u] = None
        /\ \A h \in Holders \ {u} : held[h] # held[u]
    BY <2>1 DEF AcquiredHeld
  <2>3. held[u] # v
    BY <1>1, <1>3, <2>1, <2>2
  <2> QED
    BY <1>2, <1>3, <2>1, <2>2, <2>3
<1>9. DeallocatingHeld'
  BY <1>2, <1>3 DEF DeallocatingHeld, TypeOK, Holders
<1>10. CopyHeld'
  BY <1>2, <1>3 DEF CopyHeld, TypeOK, Holders
<1>11. RetainOwns'
  BY <1>2, <1>3 DEF RetainOwns, TypeOK, Holders
<1>12. DmaOwns'
  <2> SUFFICES ASSUME NEW e \in Dmas
               PROVE  /\ touches'[e] = None => held'[e] = None
                      /\ touches'[e] \in Blocks =>
                           /\ held'[e] = touches'[e]
                           /\ touchGen'[e] = gen[touches'[e]]
    BY <1>2 DEF DmaOwns
  <2>1. CASE e = d
    BY <1>2, <1>3, <1>4, <2>1, BlockAssumption DEF TypeOK
  <2>2. CASE e # d
    BY <1>2, <1>3, <2>2 DEF DmaOwns, TypeOK, Holders
  <2> QED
    BY <2>1, <2>2
<1>13. NoBlockLost'
  <2> SUFFICES ASSUME NEW c \in Blocks PROVE Owned(c)' <=> Owned(c)
    BY <1>2 DEF NoBlockLost
  <2>1. Rooted(c)' <=> Rooted(c)
    BY <1>2 DEF Rooted
  <2>2. c # None
    BY BlockAssumption
  <2>3. (\E h \in Holders : held'[h] = c) <=> (\E h \in Holders : held[h] = c)
    <3>1. t # d
      BY <1>3
    <3>2. held'[t] = held[t]
      BY <1>2, <1>3, <3>1
    <3> QED
      BY <1>1, <1>2, <1>3, <2>2, <3>2
  <2> QED
    BY <2>1, <2>3 DEF Owned
<1>14. NoActiveAllocation'
  BY <1>2 DEF NoActiveAllocation
<1> QED
  BY <1>5, <1>6, <1>7, <1>8, <1>9, <1>10, <1>11, <1>12, <1>13, <1>14

(* deallocate() moves the ownership of the entry into the thread's local.  *)
LEMMA DeallocateIInv ==
  ASSUME IInv, NEW t \in Threads, NEW b \in Pinned, Deallocate(t, b)
  PROVE  IInv'
<1> USE DEF IInv
<1>1. /\ pc[t] = "idle" /\ pc' = [pc EXCEPT ![t] = "deallocating"]
      /\ b \in tensors /\ ~Copying(b)
      /\ tensors' = tensors \ {b}
      /\ allocations' = allocations \ {b}
      /\ held' = [held EXCEPT ![t] = b]
      /\ UNCHANGED <<mapped, cached, copy, kind, touches, touchGen, gen,
                     caches, activeThrown>>
  BY DEF Deallocate, Step
<1>2. /\ held \in [Holders -> Blocks \cup {None}]
      /\ t \in Holders /\ Threads \cap Dmas = {}
      /\ b \in Blocks /\ b # None /\ held[t] = None /\ copy[t] = None
      /\ b \in allocations
  BY <1>1, BlockAssumption DEF TypeOK, Holders, IdleHeld, Blocks, Entries
<1>3. TypeOK'
  BY <1>1, <1>2 DEF TypeOK, PcValues
<1>4. Entries'
  BY <1>1 DEF Entries
<1>5. IdleHeld'
  BY <1>1, <1>2 DEF IdleHeld, TypeOK, Holders
<1>6. AcquiredHeld'
  <2> SUFFICES ASSUME NEW u \in Threads, pc'[u] = "acquired"
               PROVE  /\ held'[u] \in Pinned
                      /\ held'[u] \notin allocations'
                      /\ \A h \in Holders \ {u} : held'[h] # held'[u]
                      /\ copy'[u] = None
    BY DEF AcquiredHeld
  <2>1. u # t /\ pc[u] = "acquired" /\ u \in Holders
    BY <1>1 DEF TypeOK, Holders
  <2>2. /\ held[u] \in Pinned /\ held[u] \notin allocations /\ copy[u] = None
        /\ \A h \in Holders \ {u} : held[h] # held[u]
    BY <2>1 DEF AcquiredHeld
  <2> QED
    BY <1>1, <1>2, <2>1, <2>2
<1>7. DeallocatingHeld'
  BY <1>1, <1>2 DEF DeallocatingHeld, TypeOK, Holders
<1>8. CopyHeld'
  BY <1>1, <1>2 DEF CopyHeld, TypeOK, Holders, Copying
<1>9. RetainOwns'
  BY <1>1, <1>2 DEF RetainOwns, TypeOK, Holders
<1>10. DmaOwns'
  BY <1>1, <1>2 DEF DmaOwns, Holders
<1>11. NoBlockLost'
  <2> SUFFICES ASSUME NEW c \in Blocks PROVE Owned(c)' <=> Owned(c)
    BY <1>1 DEF NoBlockLost
  <2>1. CASE c = b
    BY <1>1, <1>2, <2>1 DEF Owned, Rooted
  <2>2. CASE c # b
    <3>1. Rooted(c)' <=> Rooted(c)
      BY <1>1, <2>2 DEF Rooted
    <3>2. c # None
      BY BlockAssumption
    <3> QED
      BY <1>1, <1>2, <2>2, <3>1, <3>2 DEF Owned
  <2> QED
    BY <2>1, <2>2
<1>12. NoActiveAllocation'
  BY <1>1 DEF NoActiveAllocation
<1> QED
  BY <1>3, <1>4, <1>5, <1>6, <1>7, <1>8, <1>9, <1>10, <1>11, <1>12

(* The pages of a pageable storage go with its last owner.                 *)
LEMMA DropPageableIInv ==
  ASSUME IInv, NEW b \in Pageable, DropPageable(b)
  PROVE  IInv'
<1> USE DEF IInv
<1>1. /\ b \in Blocks /\ b \notin Pinned /\ b \in tensors /\ ~Copying(b)
      /\ tensors' = tensors \ {b}
      /\ UNCHANGED <<cached, allocations, pc, copy, kind, held, touches,
                     touchGen, gen, caches, activeThrown>>
  BY BlockAssumption DEF DropPageable, Blocks
<1>2. mapped' = IF \E h \in Holders : held[h] = b THEN mapped
                ELSE mapped \ {b}
  BY DEF DropPageable
<1>3. TypeOK'
  BY <1>1, <1>2 DEF TypeOK
<1>4. Entries'
  BY <1>1 DEF Entries
<1>5. IdleHeld' /\ AcquiredHeld' /\ DeallocatingHeld' /\ RetainOwns' /\ DmaOwns'
  BY <1>1 DEF IdleHeld, AcquiredHeld, DeallocatingHeld, RetainOwns, DmaOwns
<1>6. CopyHeld'
  BY <1>1 DEF CopyHeld, Copying
<1>7. NoBlockLost'
  <2> SUFFICES ASSUME NEW c \in Blocks
               PROVE  /\ c \in mapped' <=> (c \in cached' \/ Owned(c)')
                      /\ ~(c \in cached' /\ Owned(c)')
    BY DEF NoBlockLost
  <2>1. CASE c = b
    <3>1. b \in mapped /\ b \notin cached
      BY <1>1 DEF NoBlockLost, Owned, Rooted
    <3>2. Owned(b)' <=> \E h \in Holders : held[h] = b
      BY <1>1 DEF Owned, Rooted
    <3> QED
      BY <1>1, <1>2, <2>1, <3>1, <3>2
  <2>2. CASE c # b
    <3>1. Owned(c)' <=> Owned(c)
      BY <1>1, <2>2 DEF Owned, Rooted
    <3> QED
      BY <1>1, <1>2, <2>2, <3>1 DEF NoBlockLost
  <2> QED
    BY <2>1, <2>2
<1>8. NoActiveAllocation'
  BY <1>1 DEF NoActiveAllocation
<1> QED
  BY <1>3, <1>4, <1>5, <1>6, <1>7, <1>8

(* empty_cache() takes locks and unmaps blocks nobody owns.                *)
LEMMA EmptyCacheIInv ==
  ASSUME IInv, NEW t \in Threads, EmptyCacheCollect(t) \/ EmptyCacheClear(t)
  PROVE  IInv'
<1> USE DEF IInv
<1>1. /\ pc' = [pc EXCEPT ![t] = IF pc[t] = "idle" THEN "emptying" ELSE "idle"]
      /\ pc[t] \in {"idle", "emptying"}
      /\ UNCHANGED <<allocations, tensors, copy, kind, held, touches, touchGen,
                     gen, caches, activeThrown>>
  BY DEF EmptyCacheCollect, EmptyCacheClear, Step
<1>2. \/ mapped' = mapped /\ cached' = cached
      \/ mapped' = mapped \ cached /\ cached' = {}
  BY DEF EmptyCacheCollect, EmptyCacheClear
<1>3. TypeOK'
  BY <1>1, <1>2 DEF TypeOK, PcValues
<1>4. Entries' /\ DmaOwns' /\ NoActiveAllocation'
  BY <1>1 DEF Entries, DmaOwns, NoActiveAllocation
<1>5. IdleHeld' /\ DeallocatingHeld' /\ CopyHeld' /\ RetainOwns'
  BY <1>1 DEF IdleHeld, DeallocatingHeld, CopyHeld, RetainOwns, TypeOK
<1>6. AcquiredHeld'
  BY <1>1 DEF AcquiredHeld, TypeOK
<1>7. NoBlockLost'
  <2>1. \A c \in Blocks : Owned(c)' <=> Owned(c)
    BY <1>1 DEF Owned, Rooted
  <2> QED
    BY <1>2, <2>1 DEF NoBlockLost
<1> QED
  BY <1>3, <1>4, <1>5, <1>6, <1>7

(* A copy that leaves, a deallocate() that returns and a DMA that is done  *)
(* drop their token.                                                       *)
LEMMA LeaveIInv ==
  ASSUME IInv, NEW t \in Threads,
         CopyThrow(t) \/ CopyReturn(t) \/ DeallocateReturn(t)
  PROVE  IInv'
<1> DEFINE T == {t}
<1>1. /\ pc \in [Threads -> PcValues] /\ copy \in [Threads -> Blocks \cup {None}]
      /\ kind \in [Threads -> Kinds] /\ touches \in [Dmas -> Blocks \cup {None, Staging}]
      /\ touchGen \in [Dmas -> Nat]
      /\ t \in Holders /\ t \notin Dmas /\ T \in SUBSET Threads
  BY BlockAssumption DEF IInv, TypeOK, Holders
<1>2. Drop(t) /\ pc' = [pc EXCEPT ![t] = "idle"]
      /\ UNCHANGED <<allocations, tensors, touches, touchGen, gen, caches,
                     activeThrown>>
  BY DEF CopyThrow, CopyReturn, CopyLeave, DeallocateReturn, Step
<1>3. pc' = [u \in Threads |-> IF u \in T THEN "idle" ELSE pc[u]]
  BY <1>1, <1>2
<1>4. copy' = [u \in Threads |-> IF u \in T THEN None ELSE copy[u]]
  <2>1. copy' = [copy EXCEPT ![t] = None] \/ (copy' = copy /\ copy[t] = None)
    BY DEF CopyThrow, CopyReturn, CopyLeave, DeallocateReturn, Step, IInv,
           DeallocatingHeld
  <2> QED
    BY <1>1, <2>1
<1>5. kind' \in [Threads -> Kinds] /\ \A u \in Threads \ T : kind'[u] = kind[u]
  BY <1>1 DEF CopyThrow, CopyReturn, CopyLeave, DeallocateReturn, Kinds
<1>6. touches' = [d \in Dmas |-> IF d = t THEN None ELSE touches[d]]
  BY <1>1, <1>2
<1> HIDE DEF T
<1>7. (t \in Threads => T = {t}) /\ (t \in Dmas => T = {})
  BY <1>1 DEF T
<1>8. touchGen' \in [Dmas -> Nat] /\ \A d \in Dmas \ {t} : touchGen'[d] = touchGen[d]
  BY <1>1, <1>2
<1> QED
  BY <1>1, <1>2, <1>3, <1>4, <1>5, <1>6, <1>7, <1>8, DropStep

(* A finished DMA stops touching its pages and drops its token at once.    *)
LEMMA DmaCompleteIInv ==
  ASSUME IInv, NEW d \in Dmas, DmaComplete(d)
  PROVE  IInv'
<1>1. /\ pc \in [Threads -> PcValues] /\ copy \in [Threads -> Blocks \cup {None}]
      /\ kind \in [Threads -> Kinds] /\ touches \in [Dmas -> Blocks \cup {None, Staging}]
      /\ touchGen \in [Dmas -> Nat]
      /\ d \in Holders /\ d \notin Threads
  BY BlockAssumption DEF IInv, TypeOK, Holders
<1>2. /\ Drop(d)
      /\ touches' = [touches EXCEPT ![d] = None]
      /\ touchGen' = [touchGen EXCEPT ![d] = 0]
      /\ UNCHANGED <<allocations, tensors, pc, copy, kind, gen, caches,
                     activeThrown>>
  BY DEF DmaComplete
<1>3. PICK T \in SUBSET Threads : T = {}
  OBVIOUS
<1>4. /\ pc' = [u \in Threads |-> IF u \in T THEN "idle" ELSE pc[u]]
      /\ copy' = [u \in Threads |-> IF u \in T THEN None ELSE copy[u]]
      /\ kind' \in [Threads -> Kinds]
      /\ \A u \in Threads \ T : kind'[u] = kind[u]
  BY <1>1, <1>2, <1>3
<1>5. /\ touches' = [e \in Dmas |-> IF e = d THEN None ELSE touches[e]]
      /\ touchGen' \in [Dmas -> Nat]
      /\ \A e \in Dmas \ {d} : touchGen'[e] = touchGen[e]
  BY <1>1, <1>2
<1>6. (d \in Threads => T = {d}) /\ (d \in Dmas => T = {})
  BY <1>1, <1>3
<1> QED
  BY <1>1, <1>2, <1>4, <1>5, <1>6, DropStep

(* IInv is inductive.                                                      *)
LEMMA NextIInv == IInv /\ [Next]_vars => IInv'
<1> SUFFICES ASSUME IInv, [Next]_vars PROVE IInv'
  OBVIOUS
<1>1. CASE UNCHANGED vars
  BY <1>1 DEF vars, IInv, TypeOK, Entries, IdleHeld, AcquiredHeld,
     DeallocatingHeld, CopyHeld, RetainOwns, DmaOwns, NoBlockLost,
     NoActiveAllocation, Owned, Rooted
<1>2. CASE \E t \in Threads, b \in Pinned : AllocateAcquire(t, b)
  BY <1>2, AcquireIInv
<1>3. CASE \E t \in Threads : AllocateEmplace(t)
  BY <1>3, EmplaceIInv
<1>4. CASE \E b \in Pageable : AllocatePageable(b)
  BY <1>4, AllocatePageableIInv
<1>5. CASE \E t \in Threads, b \in Blocks, k \in Kinds :
             \E a \in Addresses(b) : CopyRetain(t, b, k, a)
  BY <1>5, CopyRetainIInv
<1>6. CASE \E t \in Threads, d \in Dmas : CopyLaunch(t, d)
  BY <1>6, CopyLaunchIInv
<1>7. CASE \E t \in Threads :
             CopyThrow(t) \/ CopyReturn(t) \/ DeallocateReturn(t)
  BY <1>7, LeaveIInv
<1>8. CASE \E d \in Dmas : DmaComplete(d)
  BY <1>8, DmaCompleteIInv
<1>9. CASE \E t \in Threads, b \in Pinned : Deallocate(t, b)
  BY <1>9, DeallocateIInv
<1>10. CASE \E b \in Pageable : DropPageable(b)
  BY <1>10, DropPageableIInv
<1>11. CASE \E t \in Threads : EmptyCacheCollect(t) \/ EmptyCacheClear(t)
  BY <1>11, EmptyCacheIInv
<1> QED
  BY <1>1, <1>2, <1>3, <1>4, <1>5, <1>6, <1>7, <1>8, <1>9, <1>10, <1>11
     DEF Next

(* The inductive invariant holds in every reachable state.                 *)
LEMMA IInvAlways == Spec => []IInv
  BY InitIInv, NextIInv, PTL DEF Spec

-----------------------------------------------------------------------------
(* The state keeps its types.                                              *)
THEOREM TypeCorrect == Spec => []TypeOK
<1>1. IInv => TypeOK
  BY DEF IInv
<1> QED
  BY <1>1, IInvAlways, PTL

(* A DMA in flight never touches pages that were freed, put back into the  *)
(* cache or handed to another allocation: it owns them (DmaOwns), and what *)
(* has an owner exists and is not in the cache (NoBlockLost).              *)
THEOREM DmaPagesStayAlive == Spec => []DmaPagesAlive
<1>1. IInv => DmaPagesAlive
  <2> SUFFICES ASSUME IInv, NEW d \in Dmas, touches[d] \in Blocks
               PROVE  /\ touches[d] \in mapped
                      /\ touches[d] \notin cached
                      /\ touchGen[d] = gen[touches[d]]
    BY DEF DmaPagesAlive
  <2>1. held[d] = touches[d] /\ touchGen[d] = gen[touches[d]]
    BY DEF IInv, DmaOwns
  <2>2. Owned(touches[d])
    BY <2>1 DEF Owned, Holders
  <2> QED
    BY <2>1, <2>2 DEF IInv, NoBlockLost
<1> QED
  BY <1>1, IInvAlways, PTL

(* allocate() never throws "cache returned an active allocation".          *)
THEOREM NeverActiveAllocation == Spec => []NoActiveAllocation
<1>1. IInv => NoActiveAllocation
  BY DEF IInv
<1> QED
  BY <1>1, IInvAlways, PTL

(* retain() finds the block of the pointer it is given, and no other.      *)
THEOREM RetainFindsOwner == Spec => []RetainOwns
<1>1. IInv => RetainOwns
  BY DEF IInv
<1> QED
  BY <1>1, IInvAlways, PTL

(* No block is leaked, and none is in the cache while it has an owner.     *)
THEOREM BlocksAccountedFor == Spec => []NoBlockLost
<1>1. IInv => NoBlockLost
  BY DEF IInv
<1> QED
  BY <1>1, IInvAlways, PTL
=============================================================================
