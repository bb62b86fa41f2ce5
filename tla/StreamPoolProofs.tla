-------------------------- MODULE StreamPoolProofs --------------------------
(***************************************************************************)
(* The stream pool, for any pools, threads and bounds.  StreamInv says,    *)
(* beside the types: what a thread can make current has a handle; an       *)
(* operation that a synchronizeDevice() owes is on a stream it has yet to  *)
(* come to or among those it waits for; and each place of an object's      *)
(* stack is that of one `with` block, in the order of the blocks when no   *)
(* two threads share the object.                                           *)
(***************************************************************************)
EXTENDS StreamPool, Integers, TLAPS

PoolIds == IdsOf(Low) \cup IdsOf(High)

StreamObjects == [id : PoolIds, asked : {"0", "-1", "1"}, owner : Users,
                  prev : Seq(Ids)]

WithBlocks == [obj : Nat, before : Ids]

Syncs == [rest : SUBSET Ids, on : SUBSET Nat, owed : SUBSET Nat]

StreamTypes ==
    /\ init \in {"no", "yes", "failed"}
    /\ handle \in [DOMAIN handle -> {"NORMAL", "HIGH"}] /\ DOMAIN handle \subseteq Ids
    /\ next \in [{"low", "high", "host"} -> Nat]
    /\ next["low"] \in DOMAIN Low /\ next["high"] \in DOMAIN High
    /\ next["host"] \in DOMAIN Host
    /\ streams \in Seq(StreamObjects)
    /\ current \in [Users -> Ids]
    /\ within \in [Users -> Seq(WithBlocks)]
    /\ queue \in [Ids -> SUBSET Nat] /\ ops \in Nat
    /\ sync \in [Users -> Syncs]

\* The streams that something can be submitted to.
Usable == {0} \cup DOMAIN handle

HandlesInv ==
    /\ init = "no" => DOMAIN handle = {}
    /\ init # "yes" => streams = <<>> /\ \A i \in Ids : queue[i] = {}
    /\ init = "yes" => 0 \in DOMAIN handle /\ IdsOf(Host) \subseteq DOMAIN handle
    /\ \A o \in DOMAIN streams :
         /\ streams[o].id \in DOMAIN handle
         /\ \A i \in DOMAIN streams[o].prev : streams[o].prev[i] \in Usable
    /\ \A t \in Users : current[t] \in Usable

\* What is queued is numbered, on a stream with a handle, and waited for by those
\* who owe it.
QueueInv ==
    \A i \in Ids : /\ \A n \in queue[i] : n <= ops
                   /\ queue[i] # {} => i \in DOMAIN handle

OwedInv ==
    \A t \in Users :
        /\ \A n \in sync[t].owed : n <= ops
        /\ \A i \in Ids : \A n \in sync[t].owed \cap queue[i] :
             i \in sync[t].rest \/ n \in sync[t].on

\* Of Stream objects ss and `with` blocks ws, place[t][k] is where the stack of its
\* object holds what block k of thread t displaced: a place there is,
Found(place, ss, ws) ==
    \A t \in Users : \A k \in DOMAIN ws[t] :
        /\ ws[t][k].obj \in DOMAIN ss
        /\ place[t][k] \in DOMAIN ss[ws[t][k].obj].prev

\* of that block only,
Apart(place, ws) ==
    \A t \in Users : \A u \in Users : \A k \in DOMAIN ws[t] : \A l \in DOMAIN ws[u] :
        ws[t][k].obj = ws[u][l].obj /\ place[t][k] = place[u][l]
          => t = u /\ k = l

\* every place being that of a block;
Filled(place, ss, ws) ==
    \A o \in DOMAIN ss : \A i \in DOMAIN ss[o].prev :
        \E t \in Users : \E k \in DOMAIN ws[t] : ws[t][k].obj = o /\ place[t][k] = i

\* and with the objects their owner's alone, it holds what was current before the
\* block,
Kept(place, ss, ws) ==
    \A t \in Users : \A k \in DOMAIN ws[t] :
        /\ ss[ws[t][k].obj].owner = t
        /\ ss[ws[t][k].obj].prev[place[t][k]] = ws[t][k].before

\* above what the blocks around it displaced.
Nested(place, ws) ==
    \A t \in Users : \A k \in DOMAIN ws[t] : \A l \in DOMAIN ws[t] :
        ws[t][k].obj = ws[t][l].obj /\ k < l => place[t][k] < place[t][l]

Placed(place, ss, ws) ==
    /\ Found(place, ss, ws) /\ Apart(place, ws) /\ Filled(place, ss, ws)
    /\ ~Shared => Kept(place, ss, ws) /\ Nested(place, ws)

StackTypes(place, ss, ws) ==
    /\ place \in [Users -> [Nat -> Nat]]
    /\ ss \in Seq(StreamObjects) /\ ws \in [Users -> Seq(WithBlocks)]

StacksInv == \E place \in [Users -> [Nat -> Nat]] : Placed(place, streams, within)

StreamInv == StreamTypes /\ HandlesInv /\ QueueInv /\ OwedInv /\ StacksInv

(* The ids of the pools are natural numbers. *)
LEMMA PoolFacts ==
  /\ Low \in Seq(Nat) /\ High \in Seq(Nat) /\ Host \in Seq(Nat)
  /\ Len(Low) \in Nat \ {0} /\ Len(High) \in Nat \ {0} /\ Len(Host) \in Nat \ {0}
  /\ Ids \subseteq Nat /\ 0 \in Ids
  /\ IdsOf(Low) \subseteq Ids /\ IdsOf(High) \subseteq Ids
  /\ IdsOf(Host) \subseteq Ids
<1>1. ASSUME NEW pool \in Seq(Nat \ {0}), pool # <<>>
      PROVE  pool \in Seq(Nat) /\ Len(pool) \in Nat \ {0} /\ IdsOf(pool) \subseteq Nat
  <2>1. Len(pool) \in Nat \ {0}
    BY <1>1
  <2>2. \A i \in 1 .. Len(pool) : pool[i] \in Nat
    OBVIOUS
  <2>3. DOMAIN pool = 1 .. Len(pool)
    OBVIOUS
  <2>4. pool \in Seq(Nat)
    BY <2>1, <2>2, <2>3
  <2> QED
    BY <2>1, <2>2, <2>3, <2>4 DEF IdsOf
<1>2. \A pool \in {Low, High, Host} :
        pool \in Seq(Nat) /\ Len(pool) \in Nat \ {0} /\ IdsOf(pool) \subseteq Nat
  BY <1>1, PoolsAssumption
<1> QED
  BY <1>2 DEF Ids, IdsOf

(* Before initializeStreamPool nothing exists but the default stream's id. *)
LEMMA InitStreams == PoolInit => StreamInv
<1> SUFFICES ASSUME PoolInit PROVE StreamInv
  OBVIOUS
<1>1. StreamTypes
  BY PoolFacts DEF PoolInit, StreamTypes, NoSync, Syncs
<1>2. HandlesInv
  BY DEF PoolInit, HandlesInv, Usable
<1>3. QueueInv /\ OwedInv
  BY PoolFacts DEF PoolInit, QueueInv, OwedInv, NoSync
<1>4. StacksInv
  <2>1. ASSUME NEW place \in [Users -> [Nat -> Nat]]
        PROVE  Placed(place, streams, within)
    BY DEF PoolInit, Placed, Found, Apart, Filled, Kept, Nested
  <2>2. [t \in Users |-> [k \in Nat |-> 0]] \in [Users -> [Nat -> Nat]]
    OBVIOUS
  <2> QED
    BY <2>1, <2>2, Zenon DEF StacksInv
<1> QED
  BY <1>1, <1>2, <1>3, <1>4 DEF StreamInv

(* The stacks are those of Stream objects and `with` blocks only. *)
LEMMA StacksKept == StacksInv /\ UNCHANGED <<streams, within>> => StacksInv'
  BY DEF StacksInv

(* initializeStreamPool makes the handles of the default and the host streams. *)
LEMMA InitializeStreams == StreamInv /\ Initialize => StreamInv'
<1> SUFFICES ASSUME StreamInv, Initialize PROVE StreamInv'
  OBVIOUS
<1> USE DEF StreamInv
<1>1. PICK n \in 0 .. Len(Host) :
        /\ handle' = [i \in {0} \cup {Host[j] : j \in 1 .. n} |-> "NORMAL"]
        /\ init' = IF n = Len(Host) THEN "yes" ELSE "failed"
  BY DEF Initialize
<1>2. /\ init = "no"
      /\ UNCHANGED <<next, streams, current, within, queue, ops, sync>>
  BY DEF Initialize, objVars, workVars
<1>3. /\ DOMAIN handle' = {0} \cup {Host[j] : j \in 1 .. n}
      /\ handle' \in [DOMAIN handle' -> {"NORMAL", "HIGH"}]
  BY <1>1
<1>4. {Host[j] : j \in 1 .. n} \subseteq IdsOf(Host)
  BY PoolFacts DEF IdsOf
<1>5. n = Len(Host) => IdsOf(Host) \subseteq {Host[j] : j \in 1 .. n}
  BY PoolFacts DEF IdsOf
<1>6. StreamTypes'
  BY <1>1, <1>2, <1>3, <1>4, PoolFacts, Zenon DEF StreamTypes
<1>7. streams = <<>> /\ (\A i \in Ids : queue[i] = {}) /\ DOMAIN handle = {}
  BY <1>2 DEF HandlesInv
<1>8. HandlesInv'
  BY <1>1, <1>2, <1>3, <1>5, <1>7 DEF HandlesInv, Usable
<1>9. QueueInv' /\ OwedInv'
  BY <1>2, <1>7 DEF QueueInv, OwedInv
<1> QED
  BY <1>2, <1>6, <1>8, <1>9, StacksKept

(* The round robin stays within its pool. *)
LEMMA AdvanceInPool ==
  ASSUME NEW p \in {"low", "high", "host"}, StreamTypes
  PROVE  /\ Advance(p) \in [{"low", "high", "host"} -> Nat]
         /\ Advance(p)["low"] \in DOMAIN Low
         /\ Advance(p)["high"] \in DOMAIN High
         /\ Advance(p)["host"] \in DOMAIN Host
<1>1. ASSUME NEW len \in Nat \ {0}, NEW at0 \in Nat
      PROVE  (at0 % len) + 1 \in 1 .. len
  OBVIOUS
<1>2. /\ DOMAIN Low = 1 .. Len(Low) /\ DOMAIN High = 1 .. Len(High)
      /\ DOMAIN Host = 1 .. Len(Host)
  BY PoolFacts
<1> DEFINE advanced == (next[p] % Len(PoolOf(p))) + 1
<1>3. Len(PoolOf(p)) \in Nat \ {0} /\ next[p] \in Nat
  BY PoolFacts, Zenon DEF PoolOf, StreamTypes
<1>4. advanced \in 1 .. Len(PoolOf(p))
  BY <1>1, <1>3, Zenon
<1>5. Advance(p) = [next EXCEPT ![p] = advanced]
  BY DEF Advance
<1> HIDE DEF advanced
<1>6. Advance(p) \in [{"low", "high", "host"} -> Nat]
  BY <1>3, <1>4, <1>5 DEF StreamTypes
<1>7. CASE p = "low"
  BY <1>2, <1>4, <1>5, <1>6, <1>7 DEF PoolOf, StreamTypes
<1>8. CASE p = "high"
  BY <1>2, <1>4, <1>5, <1>6, <1>8 DEF PoolOf, StreamTypes
<1>9. CASE p = "host"
  BY <1>2, <1>4, <1>5, <1>6, <1>9 DEF PoolOf, StreamTypes
<1> QED
  BY <1>7, <1>8, <1>9

(* A new Stream object has displaced nothing. *)
LEMMA PlacedMade ==
  ASSUME NEW place, NEW ws, NEW ss, NEW made,
         \A o \in DOMAIN ss : o \in DOMAIN made /\ made[o] = ss[o],
         \A o \in DOMAIN made : o \in DOMAIN ss \/ made[o].prev = <<>>,
         Placed(place, ss, ws)
  PROVE  Placed(place, made, ws)
<1>1. ASSUME NEW t \in Users, NEW k \in DOMAIN ws[t]
      PROVE  ws[t][k].obj \in DOMAIN ss /\ made[ws[t][k].obj] = ss[ws[t][k].obj]
  BY DEF Placed, Found
<1>2. Found(place, made, ws)
  BY <1>1 DEF Placed, Found
<1>3. Filled(place, made, ws)
  <2> SUFFICES ASSUME NEW o \in DOMAIN made, NEW i \in DOMAIN made[o].prev
               PROVE  \E t \in Users : \E k \in DOMAIN ws[t] :
                        ws[t][k].obj = o /\ place[t][k] = i
    BY DEF Filled
  <2>1. o \in DOMAIN ss /\ made[o] = ss[o]
    OBVIOUS
  <2> QED
    BY <2>1 DEF Placed, Filled
<1>4. ASSUME Kept(place, ss, ws) PROVE Kept(place, made, ws)
  <2> SUFFICES ASSUME NEW t \in Users, NEW k \in DOMAIN ws[t]
               PROVE  /\ made[ws[t][k].obj].owner = t
                      /\ made[ws[t][k].obj].prev[place[t][k]] = ws[t][k].before
    BY DEF Kept
  <2>1. /\ ss[ws[t][k].obj].owner = t
        /\ ss[ws[t][k].obj].prev[place[t][k]] = ws[t][k].before
    BY <1>4 DEF Kept
  <2> QED
    BY <1>1, <2>1
<1> QED
  BY <1>2, <1>3, <1>4 DEF Placed

(* getStreamFromPool: the object and its handle come together, or neither when *)
(* createStream throws. *)
LEMMA NewStreamStreams ==
  ASSUME NEW t \in Users, NEW priority \in {"0", "-1", "1"}, StreamInv,
         NewStream(t, priority)
  PROVE  StreamInv'
<1> USE DEF StreamInv
<1> DEFINE p == IF priority = "0" THEN "low" ELSE "high"
           id == PoolOf(p)[next[p]]
           obj == [id |-> id, asked |-> priority, owner |-> t, prev |-> <<>>]
<1>1. /\ init = "yes" /\ next' = Advance(p)
      /\ UNCHANGED <<init, current, within, queue, ops, sync>>
  BY DEF NewStream, workVars
<1>2. \/ handle' = Ensured(id, priority) /\ streams' = Append(streams, obj)
      \/ UNCHANGED <<handle, streams>>
  BY DEF NewStream
<1>3. id \in PoolIds
  BY PoolFacts, Zenon DEF StreamTypes, PoolIds, IdsOf, PoolOf
<1>4. PoolIds \subseteq Ids
  BY PoolFacts DEF PoolIds
<1>5. /\ next' \in [{"low", "high", "host"} -> Nat]
      /\ next'["low"] \in DOMAIN Low /\ next'["high"] \in DOMAIN High
      /\ next'["host"] \in DOMAIN Host
  BY <1>1, AdvanceInPool
<1>6. CASE UNCHANGED <<handle, streams>>
  <2>1. StreamTypes'
    BY <1>1, <1>5, <1>6 DEF StreamTypes
  <2>2. HandlesInv' /\ QueueInv' /\ OwedInv'
    BY <1>1, <1>6 DEF HandlesInv, QueueInv, OwedInv, Usable
  <2> QED
    BY <1>1, <1>6, <2>1, <2>2, StacksKept
<1>7. CASE handle' = Ensured(id, priority) /\ streams' = Append(streams, obj)
  <2>1. /\ DOMAIN handle' = DOMAIN handle \cup {id}
        /\ handle' \in [DOMAIN handle' -> {"NORMAL", "HIGH"}]
    BY <1>7 DEF Ensured, FlexPriority, StreamTypes
  <2>2. obj \in StreamObjects
    BY <1>3 DEF StreamObjects
  <2>3. streams \in Seq(StreamObjects)
    BY DEF StreamTypes
  <2> HIDE DEF id, obj
  <2>4. /\ streams' \in Seq(StreamObjects) /\ Len(streams') = Len(streams) + 1
        /\ \A o \in DOMAIN streams : o \in DOMAIN streams' /\ streams'[o] = streams[o]
        /\ \A o \in DOMAIN streams' : o \in DOMAIN streams \/ streams'[o] = obj
    BY <1>7, <2>2, <2>3
  <2>5. obj.id = id /\ obj.prev = <<>>
    BY DEF obj
  <2>6. StreamTypes'
    BY <1>1, <1>3, <1>4, <1>5, <2>1, <2>4 DEF StreamTypes
  <2>7. HandlesInv'
    BY <1>1, <2>1, <2>4, <2>5 DEF HandlesInv, Usable
  <2>8. QueueInv' /\ OwedInv'
    BY <1>1, <2>1 DEF QueueInv, OwedInv
  <2>9. StacksInv'
    <3>1. PICK place \in [Users -> [Nat -> Nat]] : Placed(place, streams, within)
      BY DEF StacksInv
    <3>2. Placed(place, streams', within)
      BY <2>3, <2>4, <2>5, <3>1, PlacedMade, Zenon DEF StreamObjects
    <3> QED
      BY <1>1, <3>2, Zenon DEF StacksInv
  <2> QED
    BY <2>6, <2>7, <2>8, <2>9
<1> QED
  BY <1>2, <1>6, <1>7

(* Work goes to a stream with a handle, under a number nobody owes. *)
LEMMA QueueStreams ==
  ASSUME NEW id \in Ids, StreamInv, Queue(id), id \in DOMAIN handle,
         UNCHANGED <<init, handle, streams, current, within, sync>>,
         next' \in [{"low", "high", "host"} -> Nat],
         next'["low"] \in DOMAIN Low, next'["high"] \in DOMAIN High,
         next'["host"] \in DOMAIN Host
  PROVE  StreamInv'
<1> USE DEF StreamInv
<1>1. /\ queue' = [queue EXCEPT ![id] = @ \cup {ops + 1}] /\ ops' = ops + 1 /\ init = "yes"
      /\ queue \in [Ids -> SUBSET Nat] /\ ops \in Nat
      /\ sync \in [Users -> Syncs]
  BY DEF Queue, StreamTypes
<1> DEFINE new == ops + 1
<1>2. /\ queue' \in [Ids -> SUBSET Nat] /\ ops' \in Nat
      /\ \A i \in Ids : queue'[i] = IF i = id THEN queue[i] \cup {new} ELSE queue[i]
  <2>1. new \in Nat /\ ops' = new /\ queue' = [queue EXCEPT ![id] = @ \cup {new}]
    BY <1>1
  <2> HIDE DEF new
  <2>2. \A i \in Ids : queue'[i] = IF i = id THEN queue[i] \cup {new} ELSE queue[i]
    BY <1>1, <2>1, Zenon
  <2>3. queue' = [i \in Ids |-> queue'[i]] /\ \A i \in Ids : queue'[i] \subseteq Nat
    BY <1>1, <2>1, <2>2, Zenon
  <2> QED
    BY <2>1, <2>2, <2>3, Zenon
<1>3. StreamTypes'
  BY <1>2 DEF StreamTypes
<1>4. HandlesInv'
  BY <1>1, <1>2 DEF HandlesInv, Usable
<1>5. QueueInv'
  <2>1. ASSUME NEW i \in Ids, NEW n \in queue'[i] PROVE n <= ops'
    <3>1. CASE n \in queue[i]
      <4>1. n \in Nat /\ n <= ops
        BY <1>1, <3>1 DEF QueueInv
      <4> QED
        BY <1>1, <4>1
    <3>2. CASE n = ops + 1
      BY <1>1, <3>2
    <3> QED
      BY <1>2, <2>1, <3>1, <3>2
  <2>2. ASSUME NEW i \in Ids, queue'[i] # {} PROVE i \in DOMAIN handle
    BY <1>2, <2>2, Zenon DEF QueueInv
  <2> QED
    BY <2>1, <2>2 DEF QueueInv
<1>6. OwedInv'
  <2> SUFFICES ASSUME NEW t \in Users
               PROVE  /\ \A n \in sync[t].owed : n <= ops + 1
                      /\ \A i \in Ids : \A n \in sync[t].owed \cap queue'[i] :
                           i \in sync[t].rest \/ n \in sync[t].on
    BY <1>1 DEF OwedInv
  <2>1. \A n \in sync[t].owed : n \in Nat /\ n <= ops
    BY <1>1 DEF OwedInv, Syncs
  <2> QED
    BY <1>1, <1>2, <2>1 DEF OwedInv
<1> QED
  BY <1>3, <1>4, <1>5, <1>6, StacksKept

\* What __enter__ of Stream object o by thread t leaves: c, the stream it displaces, is the
\* n-th on the stack of o, and the new block is the m-th of t.
Entered(place, place2, ss, ss2, ws, ws2, t, m, o, n, c) ==
    /\ t \in Users /\ m \in DOMAIN ws2[t] /\ ws2[t][m].obj = o /\ ws2[t][m].before = c
    /\ place2[t][m] = n /\ m \in Nat /\ \A k \in DOMAIN ws[t] : k \in Nat /\ k < m
    /\ \A u \in Users : \A k \in DOMAIN ws2[u] : ~(u = t /\ k = m) => k \in DOMAIN ws[u]
    /\ \A u \in Users : \A k \in DOMAIN ws[u] :
         k \in DOMAIN ws2[u] /\ ws2[u][k] = ws[u][k] /\ place2[u][k] = place[u][k]
    /\ o \in DOMAIN ss /\ DOMAIN ss2 = DOMAIN ss /\ ss2[o].owner = ss[o].owner
    /\ \A x \in DOMAIN ss : x # o => ss2[x] = ss[x]
    /\ n \in Nat \ {0} /\ DOMAIN ss[o].prev = 1 .. (n - 1) /\ DOMAIN ss2[o].prev = 1 .. n
    /\ ss2[o].prev[n] = c /\ \A i \in 1 .. (n - 1) : ss2[o].prev[i] = ss[o].prev[i]

Grown(ss, ss2, o, n) ==
    \A x \in DOMAIN ss :
        /\ x \in DOMAIN ss2 /\ ss2[x].owner = ss[x].owner
        /\ \A i \in DOMAIN ss[x].prev :
             i \in DOMAIN ss2[x].prev /\ ss2[x].prev[i] = ss[x].prev[i]
        /\ \A i \in DOMAIN ss2[x].prev : i \in DOMAIN ss[x].prev \/ (x = o /\ i = n)

(* The stacks keep what they held. *)
LEMMA EnteredKeeps ==
  ASSUME NEW place, NEW place2, NEW ss, NEW ss2, NEW ws, NEW ws2, NEW t, NEW m, NEW o,
         NEW n, NEW c, Entered(place, place2, ss, ss2, ws, ws2, t, m, o, n, c)
  PROVE  Grown(ss, ss2, o, n)
<1> SUFFICES ASSUME NEW x \in DOMAIN ss
             PROVE  /\ x \in DOMAIN ss2 /\ ss2[x].owner = ss[x].owner
                    /\ \A i \in DOMAIN ss[x].prev :
                         i \in DOMAIN ss2[x].prev /\ ss2[x].prev[i] = ss[x].prev[i]
                    /\ \A i \in DOMAIN ss2[x].prev :
                         i \in DOMAIN ss[x].prev \/ (x = o /\ i = n)
  BY DEF Grown
<1>1. CASE x = o
  <2>1. /\ n \in Nat \ {0} /\ DOMAIN ss[o].prev = 1 .. (n - 1) /\ DOMAIN ss2[o].prev = 1 .. n
        /\ \A i \in 1 .. (n - 1) : ss2[o].prev[i] = ss[o].prev[i]
    BY Zenon DEF Entered
  <2>2. x \in DOMAIN ss2 /\ ss2[o].owner = ss[o].owner
    BY Zenon DEF Entered
  <2>3. \A i \in 1 .. n : i \in 1 .. (n - 1) \/ i = n
    BY <2>1
  <2>4. \A i \in 1 .. (n - 1) : i \in 1 .. n
    BY <2>1
  <2> QED
    BY <1>1, <2>1, <2>2, <2>3, <2>4, Zenon
<1>2. CASE x # o
  BY <1>2, Zenon DEF Entered
<1> QED
  BY <1>1, <1>2

(* The blocks have their places. *)
LEMMA EnteredFound ==
  ASSUME NEW place, NEW place2, NEW ss, NEW ss2, NEW ws, NEW ws2, NEW t, NEW m, NEW o,
         NEW n, NEW c, Entered(place, place2, ss, ss2, ws, ws2, t, m, o, n, c),
         Found(place, ss, ws)
  PROVE  Found(place2, ss2, ws2)
<1> SUFFICES ASSUME NEW u \in Users, NEW k \in DOMAIN ws2[u]
             PROVE  ws2[u][k].obj \in DOMAIN ss2 /\ place2[u][k] \in DOMAIN ss2[ws2[u][k].obj].prev
  BY Zenon DEF Found
<1>g. Grown(ss, ss2, o, n)
  BY EnteredKeeps
<1>1. CASE u = t /\ k = m
  <2>1. ws2[t][m].obj = o /\ o \in DOMAIN ss2 /\ place2[t][m] = n
    BY Zenon DEF Entered
  <2>2. n \in Nat \ {0} /\ DOMAIN ss2[o].prev = 1 .. n
    BY Zenon DEF Entered
  <2>3. n \in DOMAIN ss2[o].prev
    BY <2>2
  <2> QED
    BY <1>1, <2>1, <2>3, Zenon
<1>2. CASE ~(u = t /\ k = m)
  <2>1. k \in DOMAIN ws[u] /\ ws2[u][k] = ws[u][k] /\ place2[u][k] = place[u][k]
    BY <1>2, Zenon DEF Entered
  <2>2. ws[u][k].obj \in DOMAIN ss /\ place[u][k] \in DOMAIN ss[ws[u][k].obj].prev
    BY <2>1, Zenon DEF Found
  <2>3. /\ ws[u][k].obj \in DOMAIN ss2
        /\ place[u][k] \in DOMAIN ss2[ws[u][k].obj].prev
    BY <1>g, <2>2 DEF Grown
  <2> QED
    BY <2>1, <2>3, Zenon
<1> QED
  BY <1>1, <1>2

(* They are apart: the new one is above all others of its object. *)
LEMMA EnteredApart ==
  ASSUME NEW place, NEW place2, NEW ss, NEW ss2, NEW ws, NEW ws2, NEW t, NEW m, NEW o,
         NEW n, NEW c, Entered(place, place2, ss, ss2, ws, ws2, t, m, o, n, c),
         Found(place, ss, ws), Apart(place, ws)
  PROVE  /\ Apart(place2, ws2)
         /\ \A u \in Users : \A k \in DOMAIN ws[u] :
              ws[u][k].obj = o => place[u][k] \in Nat /\ place[u][k] < n
<1>1. ASSUME NEW u \in Users, NEW k \in DOMAIN ws[u], ws[u][k].obj = o
      PROVE  place[u][k] \in Nat /\ place[u][k] < n
  <2>1. place[u][k] \in DOMAIN ss[o].prev
    BY <1>1, Zenon DEF Found
  <2>2. n \in Nat /\ DOMAIN ss[o].prev = 1 .. (n - 1)
    BY Zenon DEF Entered
  <2> QED
    BY <2>1, <2>2
<1>2. n \in Nat
  BY Zenon DEF Entered
<1>3. ASSUME NEW u \in Users, NEW k \in DOMAIN ws2[u]
      PROVE  \/ u = t /\ k = m /\ ws2[u][k].obj = o /\ place2[u][k] = n
             \/ /\ k \in DOMAIN ws[u] /\ ws2[u][k] = ws[u][k] /\ place2[u][k] = place[u][k]
                /\ ws2[u][k].obj = o => place2[u][k] # n
  <2>1. CASE u = t /\ k = m
    BY <2>1, Zenon DEF Entered
  <2>2. CASE ~(u = t /\ k = m)
    <3>1. k \in DOMAIN ws[u] /\ ws2[u][k] = ws[u][k] /\ place2[u][k] = place[u][k]
      BY <2>2, Zenon DEF Entered
    <3>2. ws[u][k].obj = o => place[u][k] # n
      BY <1>1, <1>2, <3>1
    <3> QED
      BY <3>1, <3>2, Zenon
  <2> QED
    BY <2>1, <2>2
<1>4. ASSUME NEW u \in Users, NEW w \in Users,
             NEW k \in DOMAIN ws2[u], NEW j \in DOMAIN ws2[w],
             ws2[u][k].obj = ws2[w][j].obj, place2[u][k] = place2[w][j]
      PROVE  u = w /\ k = j
  <2>1. CASE k \in DOMAIN ws[u] /\ j \in DOMAIN ws[w]
    <3>1. ws[u][k].obj = ws[w][j].obj /\ place[u][k] = place[w][j]
      BY <1>4, <2>1, Zenon DEF Entered
    <3> QED
      BY <2>1, <3>1 DEF Apart
  <2> QED
    BY <1>3, <1>4, <2>1
<1> QED
  BY <1>1, <1>4 DEF Apart

(* Every place is that of a block. *)
LEMMA EnteredFilled ==
  ASSUME NEW place, NEW place2, NEW ss, NEW ss2, NEW ws, NEW ws2, NEW t, NEW m, NEW o,
         NEW n, NEW c, Entered(place, place2, ss, ss2, ws, ws2, t, m, o, n, c),
         Filled(place, ss, ws)
  PROVE  Filled(place2, ss2, ws2)
<1> SUFFICES ASSUME NEW x \in DOMAIN ss2, NEW i \in DOMAIN ss2[x].prev
             PROVE  \E u \in Users : \E k \in DOMAIN ws2[u] :
                      ws2[u][k].obj = x /\ place2[u][k] = i
  BY Zenon DEF Filled
<1>1. x \in DOMAIN ss
  BY Zenon DEF Entered
<1>2. CASE i \in DOMAIN ss[x].prev
  <2>1. PICK u \in Users : \E k \in DOMAIN ws[u] : ws[u][k].obj = x /\ place[u][k] = i
    BY <1>1, <1>2, Zenon DEF Filled
  <2>2. PICK k \in DOMAIN ws[u] : ws[u][k].obj = x /\ place[u][k] = i
    BY <2>1, Zenon
  <2>3. k \in DOMAIN ws2[u] /\ ws2[u][k] = ws[u][k] /\ place2[u][k] = place[u][k]
    BY Zenon DEF Entered
  <2> QED
    BY <2>2, <2>3, Zenon
<1>3. CASE x = o /\ i = n
  BY <1>3, Zenon DEF Entered
<1>4. Grown(ss, ss2, o, n)
  BY EnteredKeeps
<1> QED
  BY <1>1, <1>2, <1>3, <1>4 DEF Grown

(* Objects that nobody shares: the blocks stay nested. *)
LEMMA EnteredNested ==
  ASSUME NEW place, NEW place2, NEW ss, NEW ss2, NEW ws, NEW ws2, NEW t, NEW m, NEW o,
         NEW n, NEW c, Entered(place, place2, ss, ss2, ws, ws2, t, m, o, n, c),
         Found(place, ss, ws), Apart(place, ws), Kept(place, ss, ws), Nested(place, ws),
         ss[o].owner = t
  PROVE  Kept(place2, ss2, ws2) /\ Nested(place2, ws2)
<1>g. Grown(ss, ss2, o, n)
  BY EnteredKeeps
<1>1. ASSUME NEW u \in Users, NEW k \in DOMAIN ws2[u]
      PROVE  /\ ss2[ws2[u][k].obj].owner = u
             /\ ss2[ws2[u][k].obj].prev[place2[u][k]] = ws2[u][k].before
  <2>1. CASE u = t /\ k = m
    BY <2>1, Zenon DEF Entered
  <2>2. CASE ~(u = t /\ k = m)
    <3>1. k \in DOMAIN ws[u] /\ ws2[u][k] = ws[u][k] /\ place2[u][k] = place[u][k]
      BY <2>2, Zenon DEF Entered
    <3>2. ws[u][k].obj \in DOMAIN ss /\ place[u][k] \in DOMAIN ss[ws[u][k].obj].prev
      BY <3>1, Zenon DEF Found
    <3>3. /\ ss[ws[u][k].obj].owner = u
          /\ ss[ws[u][k].obj].prev[place[u][k]] = ws[u][k].before
      BY <3>1, Zenon DEF Kept
    <3>4. /\ ss2[ws[u][k].obj].owner = ss[ws[u][k].obj].owner
          /\ ss2[ws[u][k].obj].prev[place[u][k]] = ss[ws[u][k].obj].prev[place[u][k]]
      BY <1>g, <3>2 DEF Grown
    <3> QED
      BY <3>1, <3>3, <3>4, Zenon
  <2> QED
    BY <2>1, <2>2, Zenon
<1>2. ASSUME NEW u \in Users, NEW k \in DOMAIN ws2[u], NEW j \in DOMAIN ws2[u],
             ws2[u][k].obj = ws2[u][j].obj, k < j
      PROVE  place2[u][k] < place2[u][j]
  <2>1. CASE k \in DOMAIN ws[u] /\ j \in DOMAIN ws[u]
    <3>1. /\ ws[u][k].obj = ws[u][j].obj /\ place2[u][k] = place[u][k]
          /\ place2[u][j] = place[u][j]
      BY <1>2, <2>1, Zenon DEF Entered
    <3> QED
      BY <1>2, <2>1, <3>1 DEF Nested
  <2>2. CASE k \in DOMAIN ws[u] /\ u = t /\ j = m
    <3>1. ws[u][k].obj = o /\ place2[u][k] = place[u][k] /\ place2[u][j] = n
      BY <1>2, <2>2, Zenon DEF Entered
    <3>2. \A v \in Users : \A l \in DOMAIN ws[v] :
            ws[v][l].obj = o => place[v][l] \in Nat /\ place[v][l] < n
      BY EnteredApart, Zenon
    <3> QED
      BY <2>2, <3>1, <3>2, Zenon
  <2>3. CASE u = t /\ k = m
    <3>1. m \in Nat /\ \A i \in DOMAIN ws[t] : i \in Nat /\ i < m
      BY Zenon DEF Entered
    <3>2. j = m \/ j \in DOMAIN ws[t]
      BY <2>3, Zenon DEF Entered
    <3> QED
      BY <1>2, <2>3, <3>1, <3>2
  <2> QED
    BY <2>1, <2>2, <2>3, Zenon DEF Entered
<1>3. Kept(place2, ss2, ws2)
  BY <1>1, Zenon DEF Kept
<1> QED
  BY <1>2, <1>3 DEF Nested

\* `place' with the place of block k of thread t replaced.
Replaced(place, t, k, i) == [place EXCEPT ![t] = [@ EXCEPT ![k] = i]]

ReplacedOnly(place, place2, t, k, i) ==
    /\ place2 \in [Users -> [Nat -> Nat]] /\ place2[t][k] = i
    /\ \A u \in Users : \A l \in Nat : ~(u = t /\ l = k) => place2[u][l] = place[u][l]

LEMMA ReplacedPlace ==
  ASSUME NEW place, place \in [Users -> [Nat -> Nat]], NEW t, t \in Users, NEW k,
         k \in Nat, NEW i, i \in Nat
  PROVE  ReplacedOnly(place, Replaced(place, t, k, i), t, k, i)
<1> DEFINE row == [place[t] EXCEPT ![k] = i]
<1>1. place[t] \in [Nat -> Nat]
  OBVIOUS
<1>2. row \in [Nat -> Nat] /\ row[k] = i /\ \A l \in Nat : l # k => row[l] = place[t][l]
  BY <1>1
<1>3. Replaced(place, t, k, i) = [place EXCEPT ![t] = row]
  BY DEF Replaced
<1> HIDE DEF row
<1> QED
  BY <1>2, <1>3 DEF ReplacedOnly

LEMMA Appended ==
  ASSUME NEW S, NEW q \in Seq(S), NEW e \in S
  PROVE  /\ Len(q) \in Nat /\ DOMAIN q = 1 .. Len(q)
         /\ DOMAIN Append(q, e) = 1 .. (Len(q) + 1) /\ Append(q, e)[Len(q) + 1] = e
         /\ \A i \in 1 .. Len(q) : Append(q, e)[i] = q[i]
  OBVIOUS

LEMMA Shortened ==
  ASSUME NEW S, NEW q \in Seq(S), q # <<>>
  PROVE  /\ Len(q) \in Nat \ {0} /\ DOMAIN q = 1 .. Len(q)
         /\ DOMAIN SubSeq(q, 1, Len(q) - 1) = 1 .. (Len(q) - 1)
         /\ \A i \in 1 .. (Len(q) - 1) : SubSeq(q, 1, Len(q) - 1)[i] = q[i]
  OBVIOUS

EnterAt(ss, ss2, ws, ws2, t, o, c) ==
    /\ ss2 = [ss EXCEPT ![o].prev = Append(@, c)]
    /\ ws2 = [ws EXCEPT ![t] = Append(@, [obj |-> o, before |-> c])]

(* __enter__ is such a step. *)
LEMMA EnteredStep ==
  ASSUME NEW place, NEW ss, NEW ws, StackTypes(place, ss, ws),
         NEW t \in Users, NEW o \in DOMAIN ss, NEW c \in Ids,
         NEW ss2, NEW ws2, EnterAt(ss, ss2, ws, ws2, t, o, c)
  PROVE  \E place2 \in [Users -> [Nat -> Nat]] : \E m, n :
           Entered(place, place2, ss, ss2, ws, ws2, t, m, o, n, c)
<1> DEFINE m == Len(ws[t]) + 1
           n == Len(ss[o].prev) + 1
           place2 == Replaced(place, t, m, n)
           block == [obj |-> o, before |-> c]
<1>1. /\ place \in [Users -> [Nat -> Nat]] /\ ws \in [Users -> Seq(WithBlocks)]
      /\ ss \in Seq(StreamObjects)
  BY Zenon DEF StackTypes
<1>2. ws[t] \in Seq(WithBlocks) /\ ss[o] \in StreamObjects
  BY <1>1
<1>3. ss[o].prev \in Seq(Ids)
  BY <1>2 DEF StreamObjects
<1>4. Len(ws[t]) \in Nat /\ Len(ss[o].prev) \in Nat
  BY <1>2, <1>3
<1>5. /\ DOMAIN ss2 = DOMAIN ss /\ \A x \in DOMAIN ss : x # o => ss2[x] = ss[x]
      /\ ss2[o] = [ss[o] EXCEPT !.prev = Append(@, c)]
  BY <1>1 DEF EnterAt
<1>6. ss2[o].prev = Append(ss[o].prev, c) /\ ss2[o].owner = ss[o].owner
  BY <1>2, <1>5 DEF StreamObjects
<1>7. /\ n \in Nat \ {0} /\ DOMAIN ss[o].prev = 1 .. (n - 1)
      /\ DOMAIN ss2[o].prev = 1 .. n /\ ss2[o].prev[n] = c
      /\ \A i \in 1 .. (n - 1) : ss2[o].prev[i] = ss[o].prev[i]
  <2>1. n - 1 = Len(ss[o].prev) /\ n \in Nat \ {0}
    BY <1>4
  <2> QED
    BY <1>3, <1>6, <2>1, Appended
<1>8. ws2[t] = Append(ws[t], block) /\ \A u \in Users : u # t => ws2[u] = ws[u]
  BY <1>1 DEF EnterAt
<1>9. block \in WithBlocks /\ block.obj = o /\ block.before = c
  <2>1. ss \in Seq(StreamObjects)
    BY Zenon DEF StackTypes
  <2>2. o \in Nat
    BY <2>1
  <2> QED
    BY <2>2 DEF WithBlocks
<1> HIDE DEF block
<1>10. /\ m \in Nat \ {0} /\ DOMAIN ws[t] = 1 .. (m - 1)
       /\ DOMAIN ws2[t] = 1 .. m /\ ws2[t][m] = block
       /\ \A k \in 1 .. (m - 1) : ws2[t][k] = ws[t][k]
  <2>1. m - 1 = Len(ws[t]) /\ m \in Nat \ {0}
    BY <1>4
  <2> QED
    BY <1>2, <1>8, <1>9, <2>1, Appended
<1> HIDE DEF m, n
<1>11. /\ place2 \in [Users -> [Nat -> Nat]] /\ place2[t][m] = n
       /\ \A u \in Users : \A l \in Nat : ~(u = t /\ l = m) => place2[u][l] = place[u][l]
  <2>1. m \in Nat /\ n \in Nat
    BY <1>7, <1>10
  <2>2. ReplacedOnly(place, place2, t, m, n)
    BY <1>1, <2>1, ReplacedPlace, Zenon
  <2> QED
    BY <2>2, Zenon DEF ReplacedOnly
<1> HIDE DEF place2
<1>12. \A u \in Users : \A k \in DOMAIN ws[u] : k \in Nat
  <2>1. \A u \in Users : ws[u] \in Seq(WithBlocks)
    BY <1>1
  <2> QED
    BY <2>1
<1>13. ASSUME NEW u \in Users, NEW k \in DOMAIN ws[u]
       PROVE  k \in DOMAIN ws2[u] /\ ws2[u][k] = ws[u][k] /\ place2[u][k] = place[u][k]
  <2>1. CASE u = t
    <3>1. k \in 1 .. (m - 1) /\ k # m
      BY <1>10, <2>1
    <3>2. k \in 1 .. m
      BY <1>10, <3>1
    <3> QED
      BY <1>10, <1>11, <1>12, <2>1, <3>1, <3>2, Zenon
  <2>2. CASE u # t
    BY <1>8, <1>11, <1>12, <2>2, Zenon
  <2> QED
    BY <2>1, <2>2
<1>14. ASSUME NEW u \in Users, NEW k \in DOMAIN ws2[u], ~(u = t /\ k = m)
       PROVE  k \in DOMAIN ws[u]
  BY <1>8, <1>10, <1>14
<1>15. m \in DOMAIN ws2[t] /\ \A k \in DOMAIN ws[t] : k \in Nat /\ k < m
  BY <1>10
<1>16. Entered(place, place2, ss, ss2, ws, ws2, t, m, o, n, c)
  BY <1>5, <1>6, <1>7, <1>9, <1>10, <1>11, <1>13, <1>14, <1>15, Zenon DEF Entered
<1> QED
  BY <1>11, <1>16

(* The top of a stack is what the innermost block displaced, when the objects are *)
(* their owner's alone. *)
LEMMA InnermostOnTop ==
  ASSUME NEW place, NEW ss, NEW ws, StackTypes(place, ss, ws), Placed(place, ss, ws),
         ~Shared, NEW t \in Users, ws[t] # <<>>
  PROVE  LET o == ws[t][Len(ws[t])].obj IN
         /\ place[t][Len(ws[t])] = Len(ss[o].prev)
         /\ ss[o].prev[Len(ss[o].prev)] = ws[t][Len(ws[t])].before
<1> DEFINE m == Len(ws[t])
           o == ws[t][m].obj
           n == Len(ss[o].prev)
<1>1. ws[t] \in Seq(WithBlocks)
  BY DEF StackTypes
<1>2. m \in Nat /\ m \in DOMAIN ws[t] /\ \A k \in DOMAIN ws[t] : k \in 1 .. m
  BY <1>1
<1> HIDE DEF m
<1>3. o \in DOMAIN ss /\ place[t][m] \in DOMAIN ss[o].prev
  BY <1>2 DEF Placed, Found
<1>o. ws[t][m].obj = o
  OBVIOUS
<1> HIDE DEF o
<1>4. ss[o].prev \in Seq(Ids)
  <2>1. ss \in Seq(StreamObjects)
    BY DEF StackTypes
  <2>2. ss[o] \in StreamObjects
    BY <1>3, <2>1
  <2> QED
    BY <2>2 DEF StreamObjects
<1>5. n \in Nat /\ DOMAIN ss[o].prev = 1 .. n
  BY <1>4
<1> HIDE DEF n
<1>6. n \in DOMAIN ss[o].prev
  BY <1>3, <1>5
<1>7. PICK u \in Users : \E l \in DOMAIN ws[u] : ws[u][l].obj = o /\ place[u][l] = n
  BY <1>3, <1>6 DEF Placed, Filled
<1>8. PICK l \in DOMAIN ws[u] : ws[u][l].obj = o /\ place[u][l] = n
  BY <1>7
<1>9. Kept(place, ss, ws) /\ Nested(place, ws)
  BY DEF Placed
<1>10. u = t
  <2>1. ss[ws[u][l].obj].owner = u /\ ss[ws[t][m].obj].owner = t
    BY <1>2, <1>8, <1>9 DEF Kept
  <2> QED
    BY <1>8, <1>o, <2>1
<1>11. l < m => place[t][l] < place[t][m]
  BY <1>2, <1>8, <1>9, <1>10, <1>o DEF Nested
<1>12. l \in 1 .. m /\ place[t][m] \in 1 .. n
  BY <1>2, <1>3, <1>5, <1>8, <1>10
<1>13. l = m
  BY <1>2, <1>5, <1>8, <1>10, <1>11, <1>12
<1>14. place[t][m] = n
  BY <1>8, <1>10, <1>13
<1>15. ss[o].prev[place[t][m]] = ws[t][m].before
  BY <1>2, <1>9, <1>o DEF Kept
<1> QED
  BY <1>14, <1>15 DEF m, o, n

\* What __exit__ of thread t's innermost block, the m-th, leaves: the stack of its object
\* o is without its top n, which was the place of block l of v; that block takes the
\* place of the one that ended.
Left(place, place2, ss, ss2, ws, ws2, t, m, o, n, v, l) ==
    /\ t \in Users /\ m \in DOMAIN ws[t] /\ ws[t][m].obj = o
    /\ v \in Users /\ l \in DOMAIN ws[v] /\ ws[v][l].obj = o /\ place[v][l] = n
    /\ \A u \in Users : \A k \in DOMAIN ws2[u] :
         k \in DOMAIN ws[u] /\ ws2[u][k] = ws[u][k] /\ ~(u = t /\ k = m)
    /\ \A u \in Users : \A k \in DOMAIN ws[u] : ~(u = t /\ k = m) => k \in DOMAIN ws2[u]
    /\ \A u \in Users : \A k \in DOMAIN ws[u] :
         place2[u][k] = IF u = v /\ k = l THEN place[t][m] ELSE place[u][k]
    /\ o \in DOMAIN ss /\ DOMAIN ss2 = DOMAIN ss /\ ss2[o].owner = ss[o].owner
    /\ \A x \in DOMAIN ss : x # o => ss2[x] = ss[x]
    /\ n \in Nat /\ DOMAIN ss[o].prev = 1 .. n /\ DOMAIN ss2[o].prev = 1 .. (n - 1)
    /\ \A i \in 1 .. (n - 1) : ss2[o].prev[i] = ss[o].prev[i]

(* The blocks that are left have places, below the top that is gone. *)
LEMMA LeftFound ==
  ASSUME NEW place, NEW place2, NEW ss, NEW ss2, NEW ws, NEW ws2, NEW t, NEW m, NEW o,
         NEW n, NEW v, NEW l, Left(place, place2, ss, ss2, ws, ws2, t, m, o, n, v, l),
         Placed(place, ss, ws)
  PROVE  Found(place2, ss2, ws2)
<1> SUFFICES ASSUME NEW u \in Users, NEW k \in DOMAIN ws2[u]
             PROVE  ws2[u][k].obj \in DOMAIN ss2 /\ place2[u][k] \in DOMAIN ss2[ws2[u][k].obj].prev
  BY Zenon DEF Found
<1>1. k \in DOMAIN ws[u] /\ ws2[u][k] = ws[u][k] /\ ~(u = t /\ k = m)
  BY Zenon DEF Left
<1>2. ws[u][k].obj \in DOMAIN ss /\ place[u][k] \in DOMAIN ss[ws[u][k].obj].prev
  BY <1>1, Zenon DEF Placed, Found
<1>3. CASE ws[u][k].obj = o
  <2>a. Apart(place, ws) /\ Found(place, ss, ws)
    BY Zenon DEF Placed
  <2>t. t \in Users /\ m \in DOMAIN ws[t] /\ ws[t][m].obj = o
    BY Zenon DEF Left
  <2>v. v \in Users /\ l \in DOMAIN ws[v] /\ ws[v][l].obj = o /\ place[v][l] = n
    BY Zenon DEF Left
  <2>1. place[u][k] # place[t][m]
    BY <1>1, <1>3, <2>a, <2>t DEF Apart
  <2>2. place[u][k] = n => u = v /\ k = l
    BY <1>1, <1>3, <2>a, <2>v DEF Apart
  <2>3. place[t][m] \in DOMAIN ss[o].prev
    BY <2>a, <2>t DEF Found
  <2>4. n \in Nat /\ DOMAIN ss[o].prev = 1 .. n /\ DOMAIN ss2[o].prev = 1 .. (n - 1)
    BY Zenon DEF Left
  <2>5. place2[u][k] = IF u = v /\ k = l THEN place[t][m] ELSE place[u][k]
    BY <1>1, Zenon DEF Left
  <2>6. u = v /\ k = l => place[u][k] = n
    BY Zenon DEF Left
  <2>7. place2[u][k] # n /\ place2[u][k] \in 1 .. n
    BY <1>2, <1>3, <2>1, <2>2, <2>3, <2>4, <2>5, <2>6
  <2>8. place2[u][k] \in 1 .. (n - 1)
    BY <2>4, <2>7
  <2>9. o \in DOMAIN ss2
    BY Zenon DEF Left
  <2> QED
    BY <1>1, <1>3, <2>4, <2>8, <2>9, Zenon
<1>4. CASE ws[u][k].obj # o
  <2>1. place2[u][k] = place[u][k]
    BY <1>1, <1>4, Zenon DEF Left
  <2>2. DOMAIN ss2 = DOMAIN ss /\ ss2[ws[u][k].obj] = ss[ws[u][k].obj]
    BY <1>2, <1>4, Zenon DEF Left
  <2> QED
    BY <1>1, <1>2, <2>1, <2>2, Zenon
<1> QED
  BY <1>3, <1>4

(* They are still apart. *)
LEMMA LeftApart ==
  ASSUME NEW place, NEW place2, NEW ss, NEW ss2, NEW ws, NEW ws2, NEW t, NEW m, NEW o,
         NEW n, NEW v, NEW l, Left(place, place2, ss, ss2, ws, ws2, t, m, o, n, v, l),
         Apart(place, ws)
  PROVE  Apart(place2, ws2)
<1>1. ASSUME NEW u \in Users, NEW w \in Users,
             NEW k \in DOMAIN ws2[u], NEW j \in DOMAIN ws2[w],
             ws2[u][k].obj = ws2[w][j].obj, place2[u][k] = place2[w][j]
      PROVE  u = w /\ k = j
  <2>1. /\ k \in DOMAIN ws[u] /\ ws2[u][k] = ws[u][k] /\ ~(u = t /\ k = m)
        /\ j \in DOMAIN ws[w] /\ ws2[w][j] = ws[w][j] /\ ~(w = t /\ j = m)
    BY Zenon DEF Left
  <2>2. ws[u][k].obj = ws[w][j].obj
    BY <1>1, <2>1, Zenon
  <2>3. place[u][k] = place[w][j] => u = w /\ k = j
    BY <2>1, <2>2 DEF Apart
  <2>t. t \in Users /\ m \in DOMAIN ws[t] /\ ws[t][m].obj = o
    BY Zenon DEF Left
  <2>4. /\ ws[u][k].obj = o => place[u][k] # place[t][m]
        /\ ws[w][j].obj = o => place[w][j] # place[t][m]
    BY <2>1, <2>t DEF Apart
  <2>5. /\ place2[u][k] = IF u = v /\ k = l THEN place[t][m] ELSE place[u][k]
        /\ place2[w][j] = IF w = v /\ j = l THEN place[t][m] ELSE place[w][j]
    BY <2>1, Zenon DEF Left
  <2>6. ws[v][l].obj = o
    BY Zenon DEF Left
  <2> QED
    BY <1>1, <2>2, <2>3, <2>4, <2>5, <2>6, Zenon
<1> QED
  BY <1>1 DEF Apart

(* And every place is that of a block. *)
LEMMA LeftFilled ==
  ASSUME NEW place, NEW place2, NEW ss, NEW ss2, NEW ws, NEW ws2, NEW t, NEW m, NEW o,
         NEW n, NEW v, NEW l, Left(place, place2, ss, ss2, ws, ws2, t, m, o, n, v, l),
         Filled(place, ss, ws)
  PROVE  Filled(place2, ss2, ws2)
<1> SUFFICES ASSUME NEW x \in DOMAIN ss2, NEW i \in DOMAIN ss2[x].prev
             PROVE  \E u \in Users : \E k \in DOMAIN ws2[u] :
                      ws2[u][k].obj = x /\ place2[u][k] = i
  BY Zenon DEF Filled
<1>1. x \in DOMAIN ss /\ i \in DOMAIN ss[x].prev /\ (x = o => i # n)
  <2>1. CASE x = o
    <3>1. n \in Nat /\ DOMAIN ss[o].prev = 1 .. n /\ DOMAIN ss2[o].prev = 1 .. (n - 1)
      BY Zenon DEF Left
    <3>2. x \in DOMAIN ss
      BY Zenon DEF Left
    <3> QED
      BY <2>1, <3>1, <3>2
  <2>2. CASE x # o
    BY <2>2, Zenon DEF Left
  <2> QED
    BY <2>1, <2>2
<1>u. PICK u \in Users : \E k \in DOMAIN ws[u] : ws[u][k].obj = x /\ place[u][k] = i
  BY <1>1, Zenon DEF Filled
<1>2. PICK k \in DOMAIN ws[u] : ws[u][k].obj = x /\ place[u][k] = i
  BY <1>u, Zenon
<1>3. CASE u = t /\ k = m
  <2>1. x = o /\ place[t][m] = i
    BY <1>2, <1>3, Zenon DEF Left
  <2>2. ~(v = t /\ l = m) /\ v \in Users /\ l \in DOMAIN ws[v]
    BY <1>1, <2>1, Zenon DEF Left
  <2>3. l \in DOMAIN ws2[v] /\ ws2[v][l] = ws[v][l] /\ ws[v][l].obj = o
    BY <2>2, Zenon DEF Left
  <2>4. place2[v][l] = place[t][m]
    BY <2>2, Zenon DEF Left
  <2> QED
    BY <2>1, <2>2, <2>3, <2>4, Zenon
<1>4. CASE ~(u = t /\ k = m)
  <2>1. k \in DOMAIN ws2[u] /\ ws2[u][k] = ws[u][k]
    BY <1>4, Zenon DEF Left
  <2>2. ~(u = v /\ k = l)
    BY <1>1, <1>2, Zenon DEF Left
  <2>3. place2[u][k] = place[u][k]
    BY <2>2, Zenon DEF Left
  <2> QED
    BY <1>2, <2>1, <2>3, Zenon
<1> QED
  BY <1>3, <1>4

(* Objects that nobody shares: the two blocks are one, and the others stay nested. *)
LEMMA LeftNested ==
  ASSUME NEW place, NEW place2, NEW ss, NEW ss2, NEW ws, NEW ws2, NEW t, NEW m, NEW o,
         NEW n, NEW v, NEW l, Left(place, place2, ss, ss2, ws, ws2, t, m, o, n, v, l),
         Kept(place, ss, ws), Nested(place, ws), Found(place2, ss2, ws2), v = t, l = m
  PROVE  Kept(place2, ss2, ws2) /\ Nested(place2, ws2)
<1>1. ASSUME NEW u \in Users, NEW k \in DOMAIN ws2[u]
      PROVE  k \in DOMAIN ws[u] /\ ws2[u][k] = ws[u][k] /\ place2[u][k] = place[u][k]
  <2>1. k \in DOMAIN ws[u] /\ ws2[u][k] = ws[u][k] /\ ~(u = v /\ k = l)
    BY Zenon DEF Left
  <2> QED
    BY <2>1, Zenon DEF Left
<1>2. ASSUME NEW u \in Users, NEW k \in DOMAIN ws2[u]
      PROVE  /\ ss2[ws2[u][k].obj].owner = u
             /\ ss2[ws2[u][k].obj].prev[place2[u][k]] = ws2[u][k].before
  <2>1. k \in DOMAIN ws[u] /\ ws2[u][k] = ws[u][k] /\ place2[u][k] = place[u][k]
    BY <1>1
  <2>2. /\ ss[ws[u][k].obj].owner = u
        /\ ss[ws[u][k].obj].prev[place[u][k]] = ws[u][k].before
    BY <2>1, Zenon DEF Kept
  <2>3. ws[u][k].obj \in DOMAIN ss2 /\ place[u][k] \in DOMAIN ss2[ws[u][k].obj].prev
    BY <2>1, Zenon DEF Found
  <2>4. CASE ws[u][k].obj = o
    <3>1. ss2[o].owner = ss[o].owner /\ ss2[o].prev[place[u][k]] = ss[o].prev[place[u][k]]
      BY <2>3, <2>4, Zenon DEF Left
    <3> QED
      BY <2>1, <2>2, <2>4, <3>1, Zenon
  <2>5. CASE ws[u][k].obj # o
    <3>1. ss2[ws[u][k].obj] = ss[ws[u][k].obj]
      BY <2>3, <2>5, Zenon DEF Left
    <3> QED
      BY <2>1, <2>2, <3>1, Zenon
  <2> QED
    BY <2>4, <2>5, Zenon
<1>3. ASSUME NEW u \in Users, NEW k \in DOMAIN ws2[u], NEW j \in DOMAIN ws2[u],
             ws2[u][k].obj = ws2[u][j].obj, k < j
      PROVE  place2[u][k] < place2[u][j]
  <2>1. k \in DOMAIN ws[u] /\ ws2[u][k] = ws[u][k] /\ place2[u][k] = place[u][k]
    BY <1>1
  <2>2. j \in DOMAIN ws[u] /\ ws2[u][j] = ws[u][j] /\ place2[u][j] = place[u][j]
    BY <1>1
  <2>3. place[u][k] < place[u][j]
    BY <1>3, <2>1, <2>2 DEF Nested
  <2> QED
    BY <2>1, <2>2, <2>3
<1>4. Kept(place2, ss2, ws2)
  BY <1>2, Zenon DEF Kept
<1> QED
  BY <1>3, <1>4 DEF Nested

LeaveAt(ss, ss2, ws, ws2, t, o) ==
    /\ ws[t] # <<>> /\ o = ws[t][Len(ws[t])].obj
    /\ ss2 = [ss EXCEPT ![o].prev = SubSeq(@, 1, Len(@) - 1)]
    /\ ws2 = [ws EXCEPT ![t] = SubSeq(@, 1, Len(@) - 1)]

(* __exit__ is such a step. *)
LEMMA LeftStep ==
  ASSUME NEW place, NEW ss, NEW ws, StackTypes(place, ss, ws), Placed(place, ss, ws),
         NEW t \in Users, NEW o, NEW ss2, NEW ws2, LeaveAt(ss, ss2, ws, ws2, t, o)
  PROVE  \E place2 \in [Users -> [Nat -> Nat]] : \E v, l :
           Left(place, place2, ss, ss2, ws, ws2, t, Len(ws[t]), o, Len(ss[o].prev), v, l)
<1> DEFINE m == Len(ws[t])
           n == Len(ss[o].prev)
<1>1. /\ place \in [Users -> [Nat -> Nat]] /\ ws \in [Users -> Seq(WithBlocks)]
      /\ ss \in Seq(StreamObjects)
  BY Zenon DEF StackTypes
<1>2. ws[t] \in Seq(WithBlocks) /\ ws[t] # <<>> /\ ws[t][m].obj = o
  BY <1>1, Zenon DEF LeaveAt
<1>3. ws2[t] = SubSeq(ws[t], 1, m - 1) /\ \A u \in Users : u # t => ws2[u] = ws[u]
  BY <1>1, Zenon DEF LeaveAt
<1>4. /\ m \in Nat \ {0} /\ DOMAIN ws[t] = 1 .. m /\ DOMAIN ws2[t] = 1 .. (m - 1)
      /\ \A k \in 1 .. (m - 1) : ws2[t][k] = ws[t][k]
  BY <1>2, <1>3, Shortened
<1> HIDE DEF m
<1>5. Found(place, ss, ws) /\ Filled(place, ss, ws)
  BY DEF Placed
<1>6. m \in DOMAIN ws[t]
  BY <1>4
<1>7. o \in DOMAIN ss /\ place[t][m] \in DOMAIN ss[o].prev
  BY <1>2, <1>5, <1>6 DEF Found
<1>8. ss[o] \in StreamObjects /\ ss2[o] = [ss[o] EXCEPT !.prev = SubSeq(@, 1, Len(@) - 1)]
      /\ DOMAIN ss2 = DOMAIN ss /\ \A x \in DOMAIN ss : x # o => ss2[x] = ss[x]
  <2>1. ss2 = [ss EXCEPT ![o].prev = SubSeq(@, 1, Len(@) - 1)]
    BY DEF LeaveAt
  <2>2. ss[o] \in StreamObjects
    BY <1>1, <1>7
  <2> QED
    BY <1>7, <2>1, <2>2
<1>9. /\ ss[o].prev \in Seq(Ids) /\ ss2[o].prev = SubSeq(ss[o].prev, 1, n - 1)
      /\ ss2[o].owner = ss[o].owner
  BY <1>8 DEF StreamObjects
<1>10. ss[o].prev # <<>>
  BY <1>7
<1>11. /\ n \in Nat \ {0} /\ DOMAIN ss[o].prev = 1 .. n /\ DOMAIN ss2[o].prev = 1 .. (n - 1)
       /\ \A i \in 1 .. (n - 1) : ss2[o].prev[i] = ss[o].prev[i]
  BY <1>9, <1>10, Shortened
<1> HIDE DEF n
<1>12. n \in DOMAIN ss[o].prev
  BY <1>11
<1>13. PICK v \in Users : \E l \in DOMAIN ws[v] : ws[v][l].obj = o /\ place[v][l] = n
  BY <1>5, <1>7, <1>12 DEF Filled
<1>14. PICK l \in DOMAIN ws[v] : ws[v][l].obj = o /\ place[v][l] = n
  BY <1>13
<1>15. \A u \in Users : \A k \in DOMAIN ws[u] : k \in Nat
  <2>1. \A u \in Users : ws[u] \in Seq(WithBlocks)
    BY <1>1
  <2> QED
    BY <2>1
<1> DEFINE p == place[t][m]
           place2 == Replaced(place, v, l, p)
<1>16. p \in Nat /\ l \in Nat
  BY <1>1, <1>4, <1>15
<1>17. /\ place2 \in [Users -> [Nat -> Nat]] /\ place2[v][l] = p
       /\ \A u \in Users : \A k \in Nat : ~(u = v /\ k = l) => place2[u][k] = place[u][k]
  <2>1. ReplacedOnly(place, place2, v, l, p)
    BY <1>1, <1>16, ReplacedPlace, Zenon
  <2> QED
    BY <2>1, Zenon DEF ReplacedOnly
<1> HIDE DEF place2
<1>18. \A u \in Users : \A k \in DOMAIN ws[u] :
         place2[u][k] = IF u = v /\ k = l THEN place[t][m] ELSE place[u][k]
  BY <1>15, <1>17, Zenon
<1>19. ASSUME NEW u \in Users, NEW k \in DOMAIN ws2[u]
       PROVE  k \in DOMAIN ws[u] /\ ws2[u][k] = ws[u][k] /\ ~(u = t /\ k = m)
  <2>1. CASE u = t
    BY <1>4, <2>1
  <2>2. CASE u # t
    BY <1>3, <2>2
  <2> QED
    BY <2>1, <2>2
<1>20. ASSUME NEW u \in Users, NEW k \in DOMAIN ws[u], ~(u = t /\ k = m)
       PROVE  k \in DOMAIN ws2[u]
  <2>1. CASE u = t
    BY <1>4, <1>20, <2>1
  <2>2. CASE u # t
    BY <1>3, <2>2
  <2> QED
    BY <2>1, <2>2
<1>21. n \in Nat
  BY <1>11
<1>22. Left(place, place2, ss, ss2, ws, ws2, t, m, o, n, v, l)
  BY <1>2, <1>6, <1>7, <1>8, <1>9, <1>11, <1>14, <1>18, <1>19, <1>20, <1>21, Zenon DEF Left
<1> QED
  BY <1>17, <1>22, Zenon DEF m, n

(* Stream.__enter__ *)
LEMMA EnterStreams ==
  ASSUME NEW t \in Users, NEW o \in DOMAIN streams, StreamInv, Enter(t, o)
  PROVE  StreamInv'
<1> USE DEF StreamInv
<1>1. /\ EnterAt(streams, streams', within, within', t, o, current[t])
      /\ current' = [current EXCEPT ![t] = streams[o].id]
      /\ ~Shared => streams[o].owner = t
  BY DEF Enter, May, EnterAt
<1>2. UNCHANGED <<init, handle, next, queue, ops, sync>>
  BY DEF Enter, poolVars, workVars
<1>3. /\ current \in [Users -> Ids] /\ streams \in Seq(StreamObjects)
      /\ within \in [Users -> Seq(WithBlocks)]
  BY DEF StreamTypes
<1>4. streams[o] \in StreamObjects /\ current[t] \in Ids /\ o \in Nat
  BY <1>3
<1>5. PoolIds \subseteq Ids
  BY PoolFacts DEF PoolIds
<1>6. streams[o].id \in Ids
  BY <1>4, <1>5 DEF StreamObjects
<1> DEFINE made == [streams[o] EXCEPT !.prev = Append(@, current[t])]
           block == [obj |-> o, before |-> current[t]]
<1>7. streams' = [streams EXCEPT ![o] = made]
  BY <1>1 DEF EnterAt
<1>8. made \in StreamObjects /\ made.id = streams[o].id
      /\ made.prev = Append(streams[o].prev, current[t]) /\ streams[o].prev \in Seq(Ids)
  <2>1. streams[o].prev \in Seq(Ids)
    BY <1>4 DEF StreamObjects
  <2>2. Append(streams[o].prev, current[t]) \in Seq(Ids)
    BY <1>4, <2>1
  <2> QED
    BY <1>4, <2>1, <2>2, Zenon DEF StreamObjects
<1> HIDE DEF made
<1>9. streams' \in Seq(StreamObjects) /\ DOMAIN streams' = DOMAIN streams
      /\ streams'[o] = made /\ \A x \in DOMAIN streams : x # o => streams'[x] = streams[x]
  BY <1>3, <1>7, <1>8
<1>10. within' \in [Users -> Seq(WithBlocks)]
  <2>1. block \in WithBlocks
    BY <1>4 DEF WithBlocks
  <2>2. within' = [within EXCEPT ![t] = Append(@, block)]
    BY <1>1 DEF EnterAt
  <2> HIDE DEF block
  <2>3. Append(within[t], block) \in Seq(WithBlocks)
    BY <1>3, <2>1
  <2> QED
    BY <1>3, <2>2, <2>3
<1>11. /\ current' \in [Users -> Ids]
       /\ \A u \in Users : current'[u] = current[u] \/ current'[u] = streams[o].id
  BY <1>1, <1>3, <1>6
<1>12. StreamTypes'
  BY <1>2, <1>9, <1>10, <1>11 DEF StreamTypes
<1>13. HandlesInv'
  <2>1. streams[o].id \in DOMAIN handle /\ current[t] \in Usable
    BY DEF HandlesInv
  <2>2. ASSUME NEW x \in DOMAIN streams
        PROVE  /\ streams'[x].id \in DOMAIN handle
               /\ \A i \in DOMAIN streams'[x].prev : streams'[x].prev[i] \in Usable
    <3>1. CASE x = o
      <4>1. \A i \in DOMAIN streams[o].prev : streams[o].prev[i] \in Usable
        BY DEF HandlesInv
      <4>2. /\ DOMAIN made.prev = 1 .. (Len(streams[o].prev) + 1)
            /\ DOMAIN streams[o].prev = 1 .. Len(streams[o].prev)
            /\ made.prev[Len(streams[o].prev) + 1] = current[t]
            /\ \A i \in 1 .. Len(streams[o].prev) : made.prev[i] = streams[o].prev[i]
            /\ Len(streams[o].prev) \in Nat
        BY <1>4, <1>8, Appended
      <4>3. \A i \in DOMAIN made.prev : made.prev[i] \in Usable
        BY <2>1, <4>1, <4>2
      <4> QED
        BY <1>8, <1>9, <2>1, <3>1, <4>3, Zenon
    <3>2. CASE x # o
      BY <1>9, <3>2 DEF HandlesInv
    <3> QED
      BY <3>1, <3>2
  <2>3. Usable' = Usable
    BY <1>2 DEF Usable
  <2>4. \A u \in Users : current'[u] \in Usable
    BY <1>11, <2>1 DEF HandlesInv, Usable
  <2>5. init = "yes"
    BY DEF HandlesInv
  <2> QED
    BY <1>2, <1>9, <2>2, <2>3, <2>4, <2>5 DEF HandlesInv
<1>14. QueueInv' /\ OwedInv'
  BY <1>2 DEF QueueInv, OwedInv
<1>15. StacksInv'
  <2>1. PICK place \in [Users -> [Nat -> Nat]] : Placed(place, streams, within)
    BY DEF StacksInv
  <2>2. StackTypes(place, streams, within)
    BY <1>3, Zenon DEF StackTypes
  <2>3. PICK place2 \in [Users -> [Nat -> Nat]] : \E m, n :
          Entered(place, place2, streams, streams', within, within', t, m, o, n, current[t])
    BY <1>1, <1>4, <2>2, EnteredStep, Zenon
  <2>4. PICK m, n :
          Entered(place, place2, streams, streams', within, within', t, m, o, n, current[t])
    BY <2>3
  <2>5. Found(place, streams, within) /\ Apart(place, within) /\ Filled(place, streams, within)
    BY <2>1 DEF Placed
  <2>6. Found(place2, streams', within') /\ Apart(place2, within')
        /\ Filled(place2, streams', within')
    BY <2>4, <2>5, EnteredFound, EnteredApart, EnteredFilled, Zenon
  <2>7. ASSUME ~Shared PROVE Kept(place2, streams', within') /\ Nested(place2, within')
    <3>1. Kept(place, streams, within) /\ Nested(place, within) /\ streams[o].owner = t
      BY <1>1, <2>1, <2>7 DEF Placed
    <3> QED
      BY <2>4, <2>5, <3>1, EnteredNested, Zenon
  <2>8. Placed(place2, streams', within')
    BY <2>6, <2>7 DEF Placed
  <2> QED
    BY <2>8, Zenon DEF StacksInv
<1> QED
  BY <1>12, <1>13, <1>14, <1>15

(* Two blocks at one place of one stack are the same block. *)
LEMMA ApartUsed ==
  ASSUME NEW place, NEW ws, NEW t \in Users, NEW k \in DOMAIN ws[t], NEW u \in Users,
         NEW l \in DOMAIN ws[u], Apart(place, ws),
         ws[u][l].obj = ws[t][k].obj, place[u][l] = place[t][k]
  PROVE  u = t /\ l = k
  BY DEF Apart

(* What Stream.__exit__ does to the stacks: the one it pops is not empty, and  *)
(* every open block still finds the stream it saved                             *)
LEMMA ExitStacks ==
  ASSUME NEW t \in Users, NEW o, StreamTypes, StacksInv,
         o = within[t][Len(within[t])].obj, LeaveAt(streams, streams', within, within', t, o)
  PROVE  /\ StacksInv' /\ o \in DOMAIN streams
         /\ Len(streams[o].prev) \in Nat /\ Len(streams[o].prev) \in DOMAIN streams[o].prev
<1> DEFINE n == Len(streams[o].prev)
<1>1. streams \in Seq(StreamObjects) /\ within \in [Users -> Seq(WithBlocks)]
  BY DEF StreamTypes
<1>2. PICK place \in [Users -> [Nat -> Nat]] : Placed(place, streams, within)
  BY Zenon DEF StacksInv
<1>3. StackTypes(place, streams, within)
  BY <1>1, Zenon DEF StackTypes
<1>4. PICK place2 \in [Users -> [Nat -> Nat]] : \E v, l :
        Left(place, place2, streams, streams', within, within', t, Len(within[t]), o, n, v, l)
  BY <1>2, <1>3, LeftStep, Zenon
<1>5. PICK v, l :
        Left(place, place2, streams, streams', within, within', t, Len(within[t]), o, n, v, l)
  BY <1>4
<1>6. Found(place, streams, within) /\ Apart(place, within) /\ Filled(place, streams, within)
  BY <1>2, Zenon DEF Placed
<1>7. /\ Len(within[t]) \in DOMAIN within[t] /\ within[t][Len(within[t])].obj = o
      /\ v \in Users /\ l \in DOMAIN within[v] /\ within[v][l].obj = o
      /\ place[v][l] = n
  BY <1>5, Zenon DEF Left
<1>8. o \in DOMAIN streams /\ n \in Nat /\ n \in DOMAIN streams[o].prev
  <2>1. o \in DOMAIN streams /\ n \in Nat
    BY <1>5, Zenon DEF Left
  <2>2. place[v][l] \in DOMAIN streams[o].prev
    BY <1>6, <1>7, Zenon DEF Found
  <2> QED
    BY <1>7, <2>1, <2>2, Zenon
<1>9. ASSUME ~Shared PROVE v = t /\ l = Len(within[t])
  <2>1. within[t] # <<>>
    BY Zenon DEF LeaveAt
  <2>2. place[t][Len(within[t])] = n
    BY <1>2, <1>3, <1>9, <2>1, InnermostOnTop
  <2>3. /\ within[v][l].obj = within[t][Len(within[t])].obj
        /\ place[v][l] = place[t][Len(within[t])]
    BY <1>7, <2>2, Zenon
  <2> QED
    BY <1>6, <1>7, <2>3, ApartUsed, Zenon
<1>10. /\ Found(place2, streams', within') /\ Apart(place2, within')
       /\ Filled(place2, streams', within')
  <2>1. Found(place2, streams', within')
    BY <1>2, <1>4, <1>5, <1>6, LeftFound, Zenon
  <2>2. Apart(place2, within')
    BY <1>2, <1>4, <1>5, <1>6, LeftApart, Zenon
  <2>3. Filled(place2, streams', within')
    BY <1>5, <1>6, LeftFilled
  <2> QED
    BY <2>1, <2>2, <2>3
<1>11. ASSUME ~Shared PROVE Kept(place2, streams', within') /\ Nested(place2, within')
  <2>1. Kept(place, streams, within) /\ Nested(place, within)
    BY <1>2, <1>11, Zenon DEF Placed
  <2>2. v = t /\ l = Len(within[t])
    BY <1>9, <1>11
  <2>3. Found(place2, streams', within')
    BY <1>10
  <2>4. Left(place, place2, streams, streams', within, within', t, Len(within[t]), o, n, t,
             Len(within[t]))
    BY <1>5, <2>2, Zenon
  <2> QED
    BY <2>1, <2>3, <2>4, LeftNested
<1>12. Placed(place2, streams', within')
  BY <1>10, <1>11, Zenon DEF Placed
<1> QED
  BY <1>8, <1>12, Zenon DEF StacksInv

(* Stream.__exit__ *)
LEMMA ExitStreams ==
  ASSUME NEW t \in Users, StreamInv, Exit(t)
  PROVE  StreamInv'
<1> USE DEF StreamInv
<1> DEFINE o == within[t][Len(within[t])].obj
           n == Len(streams[o].prev)
<1>1. /\ LeaveAt(streams, streams', within, within', t, o)
      /\ current' = [current EXCEPT ![t] = streams[o].prev[n]]
  BY Zenon DEF Exit, Top, Popped, LeaveAt
<1>2. UNCHANGED <<init, handle, next, queue, ops, sync>>
  BY DEF Exit, poolVars, workVars
<1>3. /\ current \in [Users -> Ids] /\ streams \in Seq(StreamObjects)
      /\ within \in [Users -> Seq(WithBlocks)]
  BY DEF StreamTypes
<1>9. StacksInv' /\ o \in DOMAIN streams /\ n \in Nat /\ n \in DOMAIN streams[o].prev
  BY <1>1, ExitStacks, Zenon
<1> HIDE DEF o
<1>10. DOMAIN streams[o].prev = 1 .. n
  <2>1. streams[o] \in StreamObjects
    BY <1>3, <1>9
  <2>2. streams[o].prev \in Seq(Ids)
    BY <2>1 DEF StreamObjects
  <2> QED
    BY <2>2
<1>11. streams[o].prev[n] \in Usable
  BY <1>9, Zenon DEF HandlesInv
<1>12. streams[o] \in StreamObjects
  BY <1>3, <1>9
<1>13. streams[o].prev \in Seq(Ids)
  BY <1>12 DEF StreamObjects
<1>14. streams[o].prev[n] \in Ids
  BY <1>9, <1>13
<1> DEFINE rest == SubSeq(streams[o].prev, 1, n - 1)
<1>15. /\ rest \in Seq(Ids) /\ DOMAIN rest = 1 .. (n - 1)
       /\ \A i \in 1 .. (n - 1) : rest[i] = streams[o].prev[i]
  <2>1. streams[o].prev # <<>>
    BY <1>9, <1>13
  <2> QED
    BY <1>9, <1>13, <2>1, Shortened
<1> DEFINE made == [streams[o] EXCEPT !.prev = rest]
<1>16. streams' = [streams EXCEPT ![o] = made]
  BY <1>1, Zenon DEF LeaveAt
<1> HIDE DEF n, rest
<1>17. made \in StreamObjects /\ made.id = streams[o].id /\ made.prev = rest
  BY <1>12, <1>15 DEF StreamObjects
<1> HIDE DEF made
<1>18. /\ streams' \in Seq(StreamObjects) /\ DOMAIN streams' = DOMAIN streams
       /\ streams'[o] = made /\ \A x \in DOMAIN streams : x # o => streams'[x] = streams[x]
  BY <1>3, <1>9, <1>16, <1>17
<1>19. within' \in [Users -> Seq(WithBlocks)]
  <2>1. within' = [within EXCEPT ![t] = SubSeq(@, 1, Len(@) - 1)] /\ within[t] # <<>>
    BY <1>1, Zenon DEF LeaveAt
  <2>2. SubSeq(within[t], 1, Len(within[t]) - 1) \in Seq(WithBlocks)
    BY <1>3, <2>1
  <2> QED
    BY <1>3, <2>1, <2>2
<1>20. /\ current' \in [Users -> Ids]
       /\ \A u \in Users : current'[u] = current[u] \/ current'[u] = streams[o].prev[n]
  BY <1>1, <1>3, <1>14
<1>21. StreamTypes'
  BY <1>2, <1>18, <1>19, <1>20 DEF StreamTypes
<1>22. HandlesInv'
  <2>1. ASSUME NEW x \in DOMAIN streams
        PROVE  /\ streams'[x].id \in DOMAIN handle
               /\ \A i \in DOMAIN streams'[x].prev : streams'[x].prev[i] \in Usable
    <3>1. /\ streams[x].id \in DOMAIN handle
          /\ \A i \in DOMAIN streams[x].prev : streams[x].prev[i] \in Usable
      BY DEF HandlesInv
    <3>2. CASE x = o
      <4>1. \A i \in DOMAIN rest : rest[i] \in Usable
        <5>1. \A i \in 1 .. (n - 1) : i \in 1 .. n
          BY <1>9
        <5> QED
          BY <1>10, <1>15, <3>1, <3>2, <5>1, Zenon
      <4> QED
        BY <1>17, <1>18, <3>1, <3>2, <4>1, Zenon
    <3>3. CASE x # o
      BY <1>18, <3>1, <3>3, Zenon
    <3> QED
      BY <3>2, <3>3
  <2>2. Usable' = Usable
    BY <1>2 DEF Usable
  <2>3. \A u \in Users : current'[u] \in Usable
    BY <1>11, <1>20 DEF HandlesInv
  <2>4. init = "yes"
    BY <1>9 DEF HandlesInv
  <2> QED
    BY <1>2, <1>18, <2>1, <2>2, <2>3, <2>4 DEF HandlesInv
<1>23. QueueInv' /\ OwedInv'
  BY <1>2 DEF QueueInv, OwedInv
<1> QED
  BY <1>9, <1>21, <1>22, <1>23

(* Work submitted to the current stream or to a host compute stream goes to    *)
(* one that has a handle.                                                       *)
LEMMA SubmitStreams ==
  ASSUME NEW t \in Users, StreamInv, Submit(t)
  PROVE  StreamInv'
<1>1. /\ Queue(current[t])
      /\ UNCHANGED <<init, handle, next, streams, current, within, sync>>
  BY Zenon DEF Submit, poolVars, objVars
<1>2. init = "yes"
  BY <1>1, Zenon DEF Queue
<1>3. current[t] \in DOMAIN handle /\ current[t] \in Ids
  BY <1>2 DEF StreamInv, HandlesInv, Usable, StreamTypes
<1>4. next' \in [{"low", "high", "host"} -> Nat] /\ next'["low"] \in DOMAIN Low
      /\ next'["high"] \in DOMAIN High /\ next'["host"] \in DOMAIN Host
  BY <1>1 DEF StreamInv, StreamTypes
<1> QED
  BY <1>1, <1>3, <1>4, QueueStreams, Zenon

LEMMA SubmitHostStreams ==
  ASSUME StreamInv, SubmitHost
  PROVE  StreamInv'
<1>1. /\ Queue(Host[next["host"]]) /\ next' = Advance("host")
      /\ UNCHANGED <<init, handle, streams, current, within, sync>>
  BY Zenon DEF SubmitHost, objVars
<1>2. init = "yes"
  BY <1>1, Zenon DEF Queue
<1>3. Host[next["host"]] \in DOMAIN handle /\ Host[next["host"]] \in Ids
  BY <1>2 DEF StreamInv, HandlesInv, StreamTypes, IdsOf
<1>4. next' \in [{"low", "high", "host"} -> Nat] /\ next'["low"] \in DOMAIN Low
      /\ next'["high"] \in DOMAIN High /\ next'["host"] \in DOMAIN Host
  BY <1>1, AdvanceInPool DEF StreamInv
<1> QED
  BY <1>1, <1>3, <1>4, QueueStreams, Zenon

(* Completing an operation only takes it off its queue. *)
LEMMA CompleteStreams ==
  ASSUME NEW id \in Ids, StreamInv, Complete(id)
  PROVE  StreamInv'
<1> USE DEF StreamInv
<1>1. /\ queue' = [queue EXCEPT ![id] = {n \in @ : \E m \in @ : m < n}]
      /\ UNCHANGED <<init, handle, next, streams, current, within, ops, sync>>
  BY Zenon DEF Complete, poolVars, objVars
<1>2. queue \in [Ids -> SUBSET Nat]
  BY DEF StreamTypes
<1>3. /\ queue' \in [Ids -> SUBSET Nat]
      /\ \A i \in Ids : queue'[i] \subseteq queue[i]
  BY <1>1, <1>2
<1>4. StreamTypes'
  BY <1>1, <1>3 DEF StreamTypes
<1>5. HandlesInv'
  BY <1>1, <1>3 DEF HandlesInv, Usable
<1>6. QueueInv'
  BY <1>1, <1>3 DEF QueueInv
<1>7. OwedInv'
  BY <1>1, <1>3 DEF OwedInv
<1>8. StacksInv'
  BY <1>1, StacksKept
<1> QED
  BY <1>4, <1>5, <1>6, <1>7, <1>8

(* A step that changes only what a thread's synchronize() is at. *)
LEMMA SyncKeeps ==
  ASSUME StreamInv, UNCHANGED <<init, handle, next, streams, current, within, queue, ops>>,
         sync' \in [Users -> Syncs], OwedInv'
  PROVE  StreamInv'
<1> USE DEF StreamInv
<1>1. StreamTypes'
  BY DEF StreamTypes
<1>2. HandlesInv' /\ QueueInv'
  BY DEF HandlesInv, QueueInv, Usable
<1>3. StacksInv'
  BY StacksKept
<1> QED
  BY <1>1, <1>2, <1>3

(* synchronizeDevice collects the handle of every stream that holds something. *)
LEMMA SyncBeginStreams ==
  ASSUME NEW t \in Users, StreamInv, SyncBegin(t)
  PROVE  StreamInv'
<1> DEFINE all == UNION {queue[i] : i \in Ids}
<1>1. /\ sync' = [sync EXCEPT ![t] = [rest |-> DOMAIN handle, on |-> {}, owed |-> all]]
      /\ UNCHANGED <<init, handle, next, streams, current, within, queue, ops>>
  BY Zenon DEF SyncBegin, Collected, Queued, poolVars,
               objVars
<1>2. /\ queue \in [Ids -> SUBSET Nat] /\ sync \in [Users -> Syncs]
      /\ DOMAIN handle \subseteq Ids
  BY DEF StreamInv, StreamTypes
<1>3. all \subseteq Nat /\ \A n \in all : n <= ops
  BY <1>2 DEF StreamInv, QueueInv
<1> HIDE DEF all
<1>4. sync' \in [Users -> Syncs]
  BY <1>1, <1>2, <1>3 DEF Syncs
<1>5. sync'[t].rest = DOMAIN handle /\ sync'[t].owed = all
      /\ \A u \in Users : u # t => sync'[u] = sync[u]
  BY <1>1, <1>2
<1>6. OwedInv'
  <2> SUFFICES ASSUME NEW u \in Users
               PROVE  /\ \A n \in sync'[u].owed : n <= ops
                      /\ \A i \in Ids : \A n \in sync'[u].owed \cap queue[i] :
                           i \in sync'[u].rest \/ n \in sync'[u].on
    BY <1>1 DEF OwedInv
  <2>1. CASE u = t
    BY <1>3, <1>5, <2>1, Zenon DEF StreamInv, QueueInv
  <2>2. CASE u # t
    BY <1>5, <2>2 DEF StreamInv, OwedInv
  <2> QED
    BY <2>1, <2>2
<1> QED
  BY <1>1, <1>4, <1>6, SyncKeeps, Zenon

(* What the one handle waited for has left the queues when the next is taken, *)
(* and what is in the next one's queue is then waited for.                     *)
LEMMA SyncStreamStreams ==
  ASSUME NEW t \in Users, StreamInv, SyncStream(t)
  PROVE  StreamInv'
<1>1. PICK id \in sync[t].rest :
        sync' = [sync EXCEPT ![t].rest = @ \ {id}, ![t].on = queue[id]]
  BY Zenon DEF SyncStream
<1>2. /\ UNCHANGED <<init, handle, next, streams, current, within, queue, ops>>
      /\ \A i \in Ids : \A n \in queue[i] : n \notin sync[t].on
  BY DEF SyncStream, poolVars, objVars, Queued
<1>3. queue \in [Ids -> SUBSET Nat] /\ sync \in [Users -> Syncs]
  BY DEF StreamInv, StreamTypes
<1>4. sync[t] \in Syncs
  BY <1>3
<1>5. id \in Ids
  BY <1>4 DEF Syncs
<1> DEFINE made == [sync[t] EXCEPT !.rest = @ \ {id}, !.on = queue[id]]
<1>6. sync' = [sync EXCEPT ![t] = made]
  BY <1>1, <1>3, Zenon
<1>7. /\ made \in Syncs /\ made.rest = sync[t].rest \ {id} /\ made.on = queue[id]
      /\ made.owed = sync[t].owed
  BY <1>3, <1>4, <1>5, Zenon DEF Syncs
<1> HIDE DEF made
<1>8. sync' \in [Users -> Syncs] /\ sync'[t] = made
      /\ \A u \in Users : u # t => sync'[u] = sync[u]
  BY <1>3, <1>6, <1>7
<1>9. OwedInv'
  <2> SUFFICES ASSUME NEW u \in Users
               PROVE  /\ \A n \in sync'[u].owed : n <= ops
                      /\ \A i \in Ids : \A n \in sync'[u].owed \cap queue[i] :
                           i \in sync'[u].rest \/ n \in sync'[u].on
    BY <1>2 DEF OwedInv
  <2>1. CASE u = t
    BY <1>2, <1>7, <1>8, <2>1 DEF StreamInv, OwedInv
  <2>2. CASE u # t
    BY <1>8, <2>2 DEF StreamInv, OwedInv
  <2> QED
    BY <2>1, <2>2
<1> QED
  BY <1>2, <1>8, <1>9, SyncKeeps, Zenon

(* After the last handle nothing that is owed is still queued. *)
LEMMA SyncEndStreams ==
  ASSUME NEW t \in Users, StreamInv, SyncEnd(t)
  PROVE  StreamInv'
<1>1. sync' = [sync EXCEPT ![t].on = {}]
  BY Zenon DEF SyncEnd
<1>2. /\ UNCHANGED <<init, handle, next, streams, current, within, queue, ops>>
      /\ \A i \in Ids : \A n \in queue[i] : n \notin sync[t].on
  BY DEF SyncEnd, poolVars, objVars, Queued
<1>3. sync \in [Users -> Syncs]
  BY DEF StreamInv, StreamTypes
<1> DEFINE made == [sync[t] EXCEPT !.on = {}]
<1>4. sync' = [sync EXCEPT ![t] = made]
  BY <1>1, <1>3, Zenon
<1>5. /\ made \in Syncs /\ made.rest = sync[t].rest /\ made.owed = sync[t].owed
  BY <1>3 DEF Syncs
<1> HIDE DEF made
<1>6. sync' \in [Users -> Syncs] /\ sync'[t] = made
      /\ \A u \in Users : u # t => sync'[u] = sync[u]
  BY <1>3, <1>4, <1>5
<1>7. OwedInv'
  <2> SUFFICES ASSUME NEW u \in Users
               PROVE  /\ \A n \in sync'[u].owed : n <= ops
                      /\ \A i \in Ids : \A n \in sync'[u].owed \cap queue[i] :
                           i \in sync'[u].rest \/ n \in sync'[u].on
    BY <1>2 DEF OwedInv
  <2>1. CASE u = t
    BY <1>2, <1>5, <1>6, <2>1 DEF StreamInv, OwedInv
  <2>2. CASE u # t
    BY <1>6, <2>2 DEF StreamInv, OwedInv
  <2> QED
    BY <2>1, <2>2
<1> QED
  BY <1>2, <1>6, <1>7, SyncKeeps, Zenon

(* A step that leaves the streams alone keeps what is known of them. *)
LEMMA StutterStreams == StreamInv /\ UNCHANGED streamVars => StreamInv'
<1> SUFFICES ASSUME StreamInv, UNCHANGED streamVars PROVE StreamInv'
  OBVIOUS
<1>1. UNCHANGED <<init, handle, next, streams, current, within, queue, ops, sync>>
  BY DEF streamVars
<1>2. sync' \in [Users -> Syncs] /\ OwedInv'
  BY <1>1 DEF StreamInv, StreamTypes, OwedInv
<1> QED
  BY <1>1, <1>2, SyncKeeps, Zenon

LEMMA NextStreams == StreamInv /\ [PoolNext]_streamVars => StreamInv'
<1> SUFFICES ASSUME StreamInv, PoolNext \/ UNCHANGED streamVars PROVE StreamInv'
  BY Zenon
<1>1. CASE Initialize
  BY <1>1, InitializeStreams
<1>2. CASE SubmitHost
  BY <1>2, SubmitHostStreams
<1>3. CASE \E id \in Ids : Complete(id)
  BY <1>3, CompleteStreams
<1>4. ASSUME NEW t \in Users, \E priority \in {"0", "-1", "1"} : NewStream(t, priority)
      PROVE  StreamInv'
  BY <1>4, NewStreamStreams
<1>5. ASSUME NEW t \in Users, \E o \in DOMAIN streams : Enter(t, o)
      PROVE  StreamInv'
  BY <1>5, EnterStreams
<1>6. ASSUME NEW t \in Users, Exit(t) \/ Submit(t)
      PROVE  StreamInv'
  BY <1>6, ExitStreams, SubmitStreams
<1>7. ASSUME NEW t \in Users,
             SyncBegin(t) \/ SyncStream(t) \/ SyncEnd(t)
      PROVE  StreamInv'
  BY <1>7, SyncBeginStreams, SyncStreamStreams, SyncEndStreams
<1>8. CASE UNCHANGED streamVars
  BY <1>8, StutterStreams
<1> QED
  BY <1>1, <1>2, <1>3, <1>4, <1>5, <1>6, <1>7, <1>8, Zenon DEF PoolNext

(* What the invariant says of the streams is what the runs check. *)
LEMMA StreamsHold == StreamInv => StreamsSound
<1> SUFFICES ASSUME StreamInv PROVE StreamsSound
  OBVIOUS
<1> USE DEF StreamInv
<1>1. PoolTypeOK
  <2>1. ASSUME NEW o \in DOMAIN streams
        PROVE  streams[o].id \in IdsOf(Low) \cup IdsOf(High)
    <3>1. streams \in Seq(StreamObjects)
      BY DEF StreamTypes
    <3>2. streams[o] \in StreamObjects
      BY <3>1
    <3> QED
      BY <3>2 DEF StreamObjects, PoolIds
  <2>2. \A p \in {"low", "high", "host"} : next[p] \in DOMAIN PoolOf(p)
    BY DEF StreamTypes, PoolOf
  <2> QED
    BY <2>1, <2>2, Zenon DEF StreamTypes, PoolTypeOK
<1>2. HandlesExist
  BY Zenon DEF HandlesInv, HandlesExist
<1>3. SyncCovers
  BY DEF OwedInv, SyncCovers, Queued
<1>4. ASSUME ~Shared PROVE RestoresPrevious
  <2>1. ASSUME NEW t \in Users, within[t] # <<>>
        PROVE  Top(streams[Top(within[t]).obj].prev) = Top(within[t]).before
    <3>1. PICK place \in [Users -> [Nat -> Nat]] : Placed(place, streams, within)
      BY Zenon DEF StacksInv
    <3>2. StackTypes(place, streams, within)
      BY Zenon DEF StackTypes, StreamTypes
    <3> QED
      BY <1>4, <2>1, <3>1, <3>2, InnermostOnTop DEF Top
  <2> QED
    BY <2>1, Zenon DEF RestoresPrevious
<1> QED
  BY <1>1, <1>2, <1>3, <1>4 DEF StreamsSound

-----------------------------------------------------------------------------
(* The stream pool, for any pools, threads and submissions: every stream that   *)
(* can be submitted to has a flex stream behind it, synchronizeDevice waits for *)
(* everything submitted before it was called, and leaving a `with` block brings *)
(* back the stream that was current on entry when no two threads use one object.*)
THEOREM StreamsStaySound == PoolSpec => []StreamsSound
<1>1. PoolInit => StreamInv
  BY InitStreams
<1>2. StreamInv /\ [PoolNext]_streamVars => StreamInv'
  BY NextStreams
<1> QED
  BY <1>1, <1>2, StreamsHold, PTL DEF PoolSpec
=============================================================================
