----------------------------- MODULE StreamPool -----------------------------
(***************************************************************************)
(* The stream pool of a device (csrc/spyre_stream.cpp) and the Stream      *)
(* objects over it (streams.py).  Pool functions hold the pool's mutex     *)
(* from their lookups to their last write, so each is one step;            *)
(* synchronizeDevice() copies the handles under the lock and waits for     *)
(* them after releasing it.  `current_streams` is per thread; a Stream     *)
(* object and its stack of displaced streams are shared by all threads     *)
(* that use it.  The flex runtime (createStream, the work queued on a      *)
(* stream) is external.                                                    *)
(***************************************************************************)
EXTENDS Naturals, Sequences

CONSTANTS
    Users,             \* the threads
    Low, High, Host,   \* stream ids of the three pools, as sequences
    Shared,            \* may a Stream object be used by several threads?
    Limits             \* bounds of a behaviour: the Stream objects made, operations
                       \* submitted, synchronizeDevice() calls, nested `with` blocks
                       \* of a thread, and createStream calls that throw

\* The streams of a pool are numbered from 1; 0 is the default stream.
ASSUME PoolsAssumption ==
    \A pool \in {Low, High, Host} : pool \in Seq(Nat \ {0}) /\ pool # <<>>

VARIABLES
    init,      \* "no", "yes", or "failed": initialization threw part-way
    handle,    \* stream id -> priority of its flex stream
    next,      \* pool -> round-robin position
    streams,   \* the Stream objects made: [id, asked, owner, prev]
    current,   \* thread -> id of its current stream (0 is the default)
    within,    \* thread -> the `with` blocks it is in: [obj, before]
    queue,     \* stream id -> operations submitted and not complete
    ops, syncs,
    sync,      \* thread -> its synchronizeDevice() call
    refused,   \* createStream calls that threw
    limit      \* the bounds of this behaviour, of Limits

streamVars == <<init, handle, next, streams, current, within, queue, ops, syncs, sync,
                refused, limit>>
poolVars == <<init, handle, next, refused, limit>>
workVars == <<queue, ops, syncs, sync>>
objVars == <<streams, current, within>>

IdsOf(pool) == {pool[i] : i \in DOMAIN pool}
Ids == {0} \union IdsOf(Low) \union IdsOf(High) \union IdsOf(Host)
PoolOf(p) == CASE p = "low" -> Low [] p = "high" -> High [] p = "host" -> Host
Queued == UNION {queue[i] : i \in Ids}
Top(stack) == stack[Len(stack)]
Popped(stack) == SubSeq(stack, 1, Len(stack) - 1)
NoSync == [rest |-> {}, on |-> {}, owed |-> {}]

PoolInit ==
    /\ init = "no" /\ handle = <<>>
    /\ next = [p \in {"low", "high", "host"} |-> 1]
    /\ streams = <<>>
    /\ current = [t \in Users |-> 0] /\ within = [t \in Users |-> <<>>]
    /\ queue = [i \in Ids |-> {}] /\ ops = 0 /\ syncs = 0
    /\ sync = [t \in Users |-> NoSync]
    /\ refused = 0 /\ limit \in Limits

-----------------------------------------------------------------------------
\* initializeStreamPoolImpl: the default and the host compute streams get
\* their handles.  `initialized` is set first, so after a createStream that
\* throws every later call fails its check.
Initialize ==
    /\ init = "no"
    /\ \E n \in 0..Len(Host) :
          /\ n < Len(Host) => refused < limit.faults
          /\ handle' = [i \in {0} \union {Host[j] : j \in 1..n} |-> "NORMAL"]
          /\ init' = IF n = Len(Host) THEN "yes" ELSE "failed"
          /\ refused' = IF n = Len(Host) THEN refused ELSE refused + 1
    /\ UNCHANGED <<next, limit, objVars, workVars>>

Advance(p) == [next EXCEPT ![p] = (@ % Len(PoolOf(p))) + 1]

FlexPriority(priority) == IF priority = "-1" THEN "HIGH" ELSE "NORMAL"

Ensured(id, priority) ==
    [i \in DOMAIN handle \union {id} |->
        IF i \in DOMAIN handle THEN handle[i] ELSE FlexPriority(priority)]

\* Stream(): getStreamFromPool.  The position moves before createStream.
NewStream(t, priority) ==
    LET p == IF priority = "0" THEN "low" ELSE "high"
        id == PoolOf(p)[next[p]] IN
    /\ init = "yes" /\ Len(streams) < limit.streams
    /\ next' = Advance(p)
    /\ \/ /\ handle' = Ensured(id, priority)
          /\ streams' = Append(streams, [id |-> id, asked |-> priority, owner |-> t,
                                         prev |-> <<>>])
          /\ UNCHANGED refused
       \/ /\ id \notin DOMAIN handle /\ refused < limit.faults
          /\ refused' = refused + 1
          /\ UNCHANGED <<handle, streams>>
    /\ UNCHANGED <<init, limit, current, within, workVars>>

May(t, o) == Shared \/ streams[o].owner = t

\* Stream.__enter__
Enter(t, o) ==
    /\ May(t, o) /\ Len(within[t]) < limit.depth
    /\ streams' = [streams EXCEPT ![o].prev = Append(@, current[t])]
    /\ within' = [within EXCEPT ![t] = Append(@, [obj |-> o, before |-> current[t]])]
    /\ current' = [current EXCEPT ![t] = streams[o].id]
    /\ UNCHANGED <<poolVars, workVars>>

\* Stream.__exit__ of the innermost `with` block.
Exit(t) ==
    /\ within[t] # <<>>
    /\ LET o == Top(within[t]).obj IN
       /\ current' = [current EXCEPT ![t] = Top(streams[o].prev)]
       /\ streams' = [streams EXCEPT ![o].prev = Popped(@)]
    /\ within' = [within EXCEPT ![t] = Popped(@)]
    /\ UNCHANGED <<poolVars, workVars>>

-----------------------------------------------------------------------------
Queue(id) == /\ init = "yes" /\ ops < limit.ops
             /\ ops' = ops + 1
             /\ queue' = [queue EXCEPT ![id] = @ \union {ops + 1}]

\* Work on the thread's current stream.
Submit(t) == Queue(current[t]) /\ UNCHANGED <<poolVars, objVars, syncs, sync>>

\* getHostComputeStream, and the correction that runs on it.
SubmitHost ==
    /\ Queue(Host[next["host"]])
    /\ next' = Advance("host")
    /\ UNCHANGED <<init, handle, refused, limit, objVars, syncs, sync>>

\* The device completes the oldest operation of a stream.
Complete(id) ==
    /\ queue[id] # {}
    /\ queue' = [queue EXCEPT ![id] = {n \in @ : \E m \in @ : m < n}]
    /\ UNCHANGED <<poolVars, objVars, ops, syncs, sync>>

\* Mutant: the host compute streams are not collected.
CollectedPools == DOMAIN handle \intersect ({0} \union IdsOf(Low) \union IdsOf(High))

\* The handles synchronizeDevice finds: the default's and every pool's.
Collected == DOMAIN handle

SyncBegin(t) ==
    /\ sync[t].rest = {} /\ sync[t].on = {}
    /\ syncs < limit.syncs /\ syncs' = syncs + 1
    /\ sync' = [sync EXCEPT ![t] = [rest |-> Collected, on |-> {}, owed |-> Queued]]
    /\ UNCHANGED <<poolVars, objVars, queue, ops>>

\* One handle after the other, in the order of their ids;
\* handle->synchronize() waits for what is queued when it is called.
SyncStream(t) ==
    /\ sync[t].rest # {} /\ sync[t].on \intersect Queued = {}
    /\ \E id \in sync[t].rest :
          /\ \A other \in sync[t].rest : id <= other
          /\ sync' = [sync EXCEPT ![t].rest = @ \ {id}, ![t].on = queue[id]]
    /\ UNCHANGED <<poolVars, objVars, queue, ops, syncs>>

SyncEnd(t) ==
    /\ sync[t].rest = {} /\ sync[t].on # {}
    /\ sync[t].on \intersect Queued = {}
    /\ sync' = [sync EXCEPT ![t].on = {}]
    /\ UNCHANGED <<poolVars, objVars, queue, ops, syncs>>

PoolNext ==
    \/ Initialize \/ SubmitHost
    \/ \E id \in Ids : Complete(id)
    \/ \E t \in Users :
          \/ \E priority \in {"0", "-1", "1"} : NewStream(t, priority)
          \/ \E o \in DOMAIN streams : Enter(t, o)
          \/ Exit(t) \/ Submit(t) \/ SyncBegin(t) \/ SyncStream(t) \/ SyncEnd(t)

PoolSpec == PoolInit /\ [][PoolNext]_streamVars

-----------------------------------------------------------------------------
\* The round robin of each pool stays within the pool and hands out its ids
\* only (getStreamFromPool, getHostComputeStream).
PoolTypeOK ==
    /\ DOMAIN handle \subseteq Ids /\ handle \in [DOMAIN handle -> {"NORMAL", "HIGH"}]
    /\ \A p \in {"low", "high", "host"} : next[p] \in DOMAIN PoolOf(p)
    /\ \A o \in DOMAIN streams : streams[o].id \in IdsOf(Low) \union IdsOf(High)
    /\ current \in [Users -> Ids]

\* Every stream a thread can submit to has a flex stream behind it, also
\* after initialization or a later createStream threw.
HandlesExist ==
    /\ init = "yes" => 0 \in DOMAIN handle /\ IdsOf(Host) \subseteq DOMAIN handle
    /\ \A o \in DOMAIN streams : streams[o].id \in DOMAIN handle

\* synchronize() waits for everything submitted before it was called, by any
\* thread on any stream, although the pool may grow while it waits.
SyncCovers ==
    \A t \in Users :
        (sync[t].rest = {} /\ sync[t].on = {}) => sync[t].owed \intersect Queued = {}

\* Leaving a `with` block restores the stream that was current when it was
\* entered: the stack a Stream object keeps for a thread's blocks agrees
\* with those blocks, the innermost included.
RestoresPrevious ==
    \A t \in Users :
        within[t] # <<>> =>
            Top(streams[Top(within[t]).obj].prev) = Top(within[t]).before

\* The stream pool: every stream a thread can submit to has a flex stream behind
\* it, also after a createStream threw; synchronizeDevice waits for everything
\* submitted before it was called, although the pool may grow meanwhile; and,
\* when no two threads use one Stream object, leaving a `with` block restores the
\* stream that was current on entry, also when the object was re-entered.
StreamsSound ==
    /\ PoolTypeOK /\ HandlesExist /\ SyncCovers
    /\ ~Shared => RestoresPrevious

\* A stream asked for with a high priority has a high-priority flex stream.
PriorityHonoured ==
    \A o \in DOMAIN streams :
        streams[o].asked = "-1" => handle[streams[o].id] = "HIGH"
=============================================================================
