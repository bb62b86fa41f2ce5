----------------------------- MODULE MCRuntime -----------------------------
(***************************************************************************)
(* Two threads t1 and t2 for the collective, the start of the runtime and  *)
(* the stream pool, two threads "p" and "n" for the allocations, and the   *)
(* upload of a model: `part` says which of them a behaviour is of.         *)
(***************************************************************************)
EXTENDS Runtime, StreamPool, MemoryPressure, ModelUpload, TLC

MCParts == {"work", "streams", "start", "pressure", "upload"}

\* One or two streams stand for the 32 of a pool; every pool wraps round.
MCLow == <<1, 2>>
MCHigh == <<33>>
MCHost == <<65>>

\* One Stream object, made before or while a thread synchronizes the device, or
\* two without work, so that `with` blocks nest deeper.
MCLimits ==
    {[streams |-> 1, ops |-> 2, syncs |-> 1, depth |-> 1, faults |-> 1],
     [streams |-> 2, ops |-> 0, syncs |-> 0, depth |-> 3, faults |-> 1]}

\* Two threads, the second of which also enters the runtime from C++, and one
\* child; or one thread that comes through Python only, as rank 0 or 1.  There
\* are two devices, so that index 2 is out of range.
MCUses ==
    {[rank |-> 0, asked |-> {1}, calls |-> [t1 |-> 2, t2 |-> 1, kid |-> 1],
      native |-> {"t2"}]}
    \cup {[rank |-> r, asked |-> {0, 1, 2}, calls |-> [t1 |-> 3, t2 |-> 0, kid |-> 0],
           native |-> {}] : r \in {0, 1}}

\* Small models: an embedding tied to the head, a parameter shared with a
\* module that has its own _apply, a parameter the swap refuses, buffers.
Slot(m, k, o) == [module |-> m, kind |-> k, object |-> <<"old", o>>]
Build(slots, overrides, denied) ==
    [slots |-> slots, objects |-> {slots[i].object : i \in DOMAIN slots},
     overrides |-> overrides, refused |-> {<<"old", o>> : o \in denied}]
TiedHead == <<Slot("embed", "embedding", "E"), Slot("norm", "other", "N"),
              Slot("head", "linear", "E"), Slot("head", "other", "B"),
              Slot("rope", "buffer", "R")>>
SharedWeight ==
    <<Slot("quant", "other", "W"), Slot("fc", "linear_fp8", "W"),
      Slot("fc2", "linear_fp8", "W"), Slot("table", "embedding_untiled", "T"),
      Slot("mask", "buffer", "M"), Slot("mask2", "buffer", "M")>>
Models == {Build(TiedHead, {}, r) : r \in {{}, {"E"}, {"N", "B"}}}
            \cup {Build(SharedWeight, o, r) : o \in {{}, {"quant"}, {"fc2"}},
                                              r \in {{}, {"W"}}}

-----------------------------------------------------------------------------
MCInit ==
    /\ SuiteInit /\ PoolInit /\ Init /\ UploadInit
    /\ part # "streams" => limit = CHOOSE l \in Limits : TRUE
    /\ part # "upload" => shape = CHOOSE s \in Shapes : TRUE

MCNext ==
    \/ SuiteNext /\ UNCHANGED <<streamVars, vars, uploadVars>>
    \/ part = "streams" /\ PoolNext /\ UNCHANGED <<suiteVars, vars, uploadVars>>
    \/ part = "pressure" /\ Next /\ UNCHANGED <<suiteVars, streamVars, uploadVars>>
    \/ part = "upload" /\ UploadNext /\ UNCHANGED <<suiteVars, streamVars, vars>>

MCFairness ==
    /\ SuiteFairness
    /\ \A t \in Threads : SF_vars(part = "pressure" /\ Work(t))
                         /\ WF_vars(part = "pressure" /\ DropGil(t))
    /\ WF_uploadVars(part = "upload" /\ Load)

MCSpec == MCInit /\ [][MCNext]_<<suiteVars, streamVars, vars, uploadVars>> /\ MCFairness

\* Every call returns: a poll or wait on a collective, by failure as by success;
\* _lazy_init, set_device and a C++ start, also after a start that threw or in a
\* child forked while the lock is held; an allocation, as whoever holds flex's
\* mutex never waits for the GIL; a load in which an upload fails.
CallsReturn ==
    /\ Handle!CallsReturn /\ Start!CallsReturn /\ AllocationsEnd
    /\ part = "upload" => LoadEnds
=============================================================================
