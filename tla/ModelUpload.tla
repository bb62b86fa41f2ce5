---------------------------- MODULE ModelUpload ----------------------------
(***************************************************************************)
(* load_model_to_spyre (torch_spyre/model_utils.py): the walk that lists   *)
(* the parameters and buffers to move, the uploads on a thread pool, and   *)
(* the main thread that puts each result into the model as it finishes.    *)
(* An upload may fail, and the load be called again.                       *)
(*                                                                         *)
(* A model is a sequence of slots in the order the walk meets them (a      *)
(* module's children before its own parameters, those before its buffers). *)
(* A slot names a module, what it is, and the tensor object it holds; two  *)
(* slots with one object are tied.  Modules in Overrides have an _apply of *)
(* their own (external: as nn.Module._apply, it puts a new object into     *)
(* each slot).                                                             *)
(***************************************************************************)
EXTENDS Naturals, Sequences, FiniteSets

CONSTANTS
    Shapes,       \* the models: [slots, objects, overrides, refused]
    NumThreads,   \* num_threads, after _upload_thread_count
    UseFp8,       \* use_fp8_weights
    MaxFailed,    \* uploads that fail
    MaxLoads      \* calls of load_model_to_spyre

\* What a slot is, and the layouts of a tensor on the device.
Kinds == {"linear", "linear_fp8", "embedding", "embedding_untiled", "other", "buffer"}
Layouts == {"fp8_kernel", "linear", "embedding", "other", "buffer"}

\* The object that takes a slot's place.
New(s) == <<"new", s>>

\* Every slot holds an object of the model, which is a parameter or a buffer
\* in all of them (nn.Module keeps the two apart).
ASSUME ShapesAssumption ==
    \A m \in Shapes :
        /\ Len(m.slots) \in Nat /\ DOMAIN m.slots = 1 .. Len(m.slots)
        /\ \A s \in DOMAIN m.slots :
             /\ m.slots[s].object \in m.objects /\ m.slots[s].kind \in Kinds
             /\ New(s) \notin m.objects
             /\ \A r \in DOMAIN m.slots :
                  m.slots[r].object = m.slots[s].object
                    => (m.slots[r].kind = "buffer" <=> m.slots[s].kind = "buffer")

\* _upload_thread_count gives 1 at least.
ASSUME NumThreadsAssumption == NumThreads \in Nat \ {0}

VARIABLES
    shape,     \* the model, as it was built
    holds,     \* per slot: the object it holds now
    data,      \* per object: "host", or the layout it has on the device
    at,        \* the next slot of the walk
    seen,      \* the parameters the walk has listed
    uploads,   \* the list of the walk: [slot, kind, ties]
    state,     \* per upload: "queued", "running", "finished", "failed", "put", "dropped"
    phase,     \* "walk", "run", "drain" (an upload failed), "ok", "error"
    faults, loads

uploadVars == <<shape, holds, data, at, seen, uploads, state, phase, faults, loads>>

Slots == DOMAIN shape.slots
SlotOf(s) == shape.slots[s]
Overridden(s) == SlotOf(s).module \in shape.overrides

Objects == shape.objects \cup {New(s) : s \in Slots}
Here(s) == holds[s]

UploadInit ==
    /\ shape \in Shapes
    /\ holds = [s \in DOMAIN shape.slots |-> shape.slots[s].object]
    /\ data = [o \in shape.objects \cup {New(s) : s \in DOMAIN shape.slots} |-> "host"]
    /\ at = 1 /\ seen = {} /\ uploads = <<>> /\ state = <<>>
    /\ phase = "walk" /\ faults = 0 /\ loads = 1

\* _upload_parameter and _upload_buffer: the layout a slot asks for.
Layout(s) ==
    LET k == SlotOf(s).kind IN
    IF k = "linear_fp8" THEN IF UseFp8 THEN "fp8_kernel" ELSE "linear"
    ELSE IF k = "embedding_untiled" THEN "other" ELSE k

-----------------------------------------------------------------------------
\* _transfer_module, one slot after the other.
WalkOn == at' = at + 1 /\ UNCHANGED <<shape, phase, faults, loads>>

\* Already on the device: skipped.
Skip ==
    /\ phase = "walk" /\ at \in Slots /\ data[Here(at)] # "host"
    /\ WalkOn /\ UNCHANGED <<holds, data, seen, uploads, state>>

\* A module with an _apply of its own moves its tensors at once.
Delegate ==
    /\ phase = "walk" /\ at \in Slots /\ data[Here(at)] = "host" /\ Overridden(at)
    /\ holds' = [holds EXCEPT ![at] = New(at)]
    /\ data' = [data EXCEPT ![New(at)] = "other"]
    /\ WalkOn /\ UNCHANGED <<seen, uploads, state>>

Add(s) ==
    /\ uploads' = Append(uploads, [slot |-> s, kind |-> Layout(s), ties |-> {}])
    /\ state' = Append(state, "queued")

\* The upload the walk has listed for a parameter.
ListedFor(o) ==
    LET of(i) == uploads[i].kind # "buffer" /\ holds[uploads[i].slot] = o
    IN CHOOSE i \in DOMAIN uploads : of(i) /\ \A j \in DOMAIN uploads : of(j) => i <= j

\* A parameter is listed where it is first met; a later slot that holds it is
\* one of its ties.  A buffer is listed for every slot.
List ==
    /\ phase = "walk" /\ at \in Slots /\ data[Here(at)] = "host" /\ ~Overridden(at)
    /\ IF SlotOf(at).kind # "buffer" /\ Here(at) \in seen
       THEN /\ uploads' = [uploads EXCEPT ![ListedFor(Here(at))].ties = @ \cup {at}]
            /\ UNCHANGED state
       ELSE Add(at)
    /\ seen' = IF SlotOf(at).kind = "buffer" THEN seen ELSE seen \cup {Here(at)}
    /\ WalkOn /\ UNCHANGED <<holds, data>>

WalkEnds ==
    /\ phase = "walk" /\ at \notin Slots
    /\ phase' = "run"
    /\ UNCHANGED <<shape, holds, data, at, seen, uploads, state, faults, loads>>

-----------------------------------------------------------------------------
\* _run_uploads.
In(st) == {i \in DOMAIN uploads : state[i] = st}
Workers == IF NumThreads < Len(uploads) THEN NumThreads ELSE Len(uploads)
standing == <<shape, holds, data, at, seen, uploads, loads>>

\* A worker takes the next upload; with one worker the main thread runs it,
\* and takes the next only once the last is put in.
Begin(i) ==
    /\ phase = "run" /\ state[i] = "queued"
    /\ \A j \in DOMAIN uploads : j < i => state[j] # "queued"
    /\ Cardinality(In("running")) < Workers
    /\ Workers = 1 => In("finished") \cup In("failed") = {}
    /\ state' = [state EXCEPT ![i] = "running"]
    /\ UNCHANGED <<phase, faults>> /\ UNCHANGED standing

Upload(i) ==
    /\ state[i] = "running"
    /\ \/ state' = [state EXCEPT ![i] = "finished"] /\ UNCHANGED faults
       \/ /\ faults < MaxFailed /\ faults' = faults + 1
          /\ state' = [state EXCEPT ![i] = "failed"]
    /\ UNCHANGED phase /\ UNCHANGED standing

\* Mutant: a refused object is replaced only in the slot of the upload.
PutOne(u) ==
    LET o == holds[u.slot] IN
    IF u.kind # "buffer" /\ o \notin shape.refused
    THEN data' = [data EXCEPT ![o] = u.kind] /\ UNCHANGED holds
    ELSE /\ data' = [data EXCEPT ![New(u.slot)] = u.kind]
         /\ holds' = [holds EXCEPT ![u.slot] = New(u.slot)]

\* _put_upload: the object keeps its identity and gets the device tensor.  A
\* buffer, and a parameter the swap refuses, is replaced, the latter with its ties.
PutUpload(u) ==
    LET o == holds[u.slot] IN
    IF u.kind # "buffer" /\ o \notin shape.refused
    THEN data' = [data EXCEPT ![o] = u.kind] /\ UNCHANGED holds
    ELSE /\ data' = [data EXCEPT ![New(u.slot)] = u.kind]
         /\ holds' = [s \in Slots |-> IF s \in u.ties \cup {u.slot} THEN New(u.slot)
                                      ELSE holds[s]]

\* as_completed hands over a finished upload.
Put(i) ==
    /\ phase = "run" /\ state[i] = "finished"
    /\ PutUpload(uploads[i])
    /\ state' = [state EXCEPT ![i] = "put"]
    /\ UNCHANGED <<shape, at, seen, uploads, phase, faults, loads>>

\* ... or a failed one: what is queued is cancelled, what runs is waited for,
\* and what has finished is dropped.
Fail(i) ==
    /\ phase = "run" /\ state[i] = "failed"
    /\ phase' = "drain"
    /\ state' = [j \in DOMAIN state |-> IF state[j] = "queued" THEN "dropped" ELSE state[j]]
    /\ UNCHANGED faults /\ UNCHANGED standing

Raise ==
    /\ phase = "drain" /\ In("running") \cup In("queued") = {}
    /\ phase' = "error"
    /\ UNCHANGED <<state, faults>> /\ UNCHANGED standing

Return ==
    /\ phase = "run" /\ \A i \in DOMAIN uploads : state[i] = "put"
    /\ phase' = "ok"
    /\ UNCHANGED <<state, faults>> /\ UNCHANGED standing

\* The caller loads the model again, as after a failure.
LoadAgain ==
    /\ phase \in {"ok", "error"} /\ loads < MaxLoads
    /\ phase' = "walk" /\ at' = 1 /\ seen' = {} /\ uploads' = <<>> /\ state' = <<>>
    /\ loads' = loads + 1
    /\ UNCHANGED <<shape, holds, data, faults>>

Load ==
    \/ Skip \/ Delegate \/ List \/ WalkEnds \/ Raise \/ Return
    \/ \E i \in DOMAIN uploads : Begin(i) \/ Upload(i) \/ Put(i) \/ Fail(i)

UploadFinished == phase \in {"ok", "error"} /\ loads = MaxLoads /\ UNCHANGED uploadVars

UploadNext == Load \/ LoadAgain \/ UploadFinished

UploadSpec == UploadInit /\ [][UploadNext]_uploadVars

\* The main thread and the pool's threads go on.
FairUploadSpec == UploadSpec /\ WF_uploadVars(Load)

-----------------------------------------------------------------------------
\* Every slot holds one of its objects, every upload is in one state, and the
\* pool never runs more uploads than it has threads.
UploadTypeOK ==
    /\ holds \in [Slots -> Objects]
    /\ data \in [Objects -> {"host"} \cup Layouts]
    /\ Len(state) = Len(uploads)
    /\ Cardinality(In("running")) <= NumThreads
    /\ phase \in {"walk", "run", "drain", "ok", "error"}

Parameters == {s \in Slots : SlotOf(s).kind # "buffer" /\ ~Overridden(s)}
Tied(s, r) == SlotOf(s).object = SlotOf(r).object

\* Tied weights stay one tensor (_transfer_module): whatever finishes first,
\* fails or is refused by the swap, the slots of one parameter hold one object.
TiesTogether ==
    \A s, r \in Parameters : Tied(s, r) => holds[s] = holds[r]

\* A parameter keeps its Python object (_put_upload), so that a holder outside
\* the model, an optimizer for one, sees the tensor on the device.
ObjectsKept ==
    \A s \in Parameters : SlotOf(s).object \notin shape.refused
                            => holds[s] = SlotOf(s).object

\* When the load returns, everything is on the device, each parameter in the
\* layout of the first slot that holds it.
LoadedInLayout ==
    phase = "ok" =>
      /\ \A s \in Slots : data[holds[s]] # "host"
      /\ \A s \in Parameters :
           LET first == CHOOSE r \in Parameters : Tied(s, r) /\ \A q \in Parameters :
                                                  Tied(s, q) => r <= q
           IN data[holds[s]] = Layout(first)

\* A failed load keeps what was put in: nothing returns to the host, and a
\* slot on the device is not moved again by the next load.
NotMovedAgain ==
    \A s \in DOMAIN holds : data[holds[s]] # "host"
        => holds'[s] = holds[s] /\ data'[holds[s]] = data[holds[s]]

\* load_model_to_spyre: whatever finishes first, fails or is refused by the swap,
\* the slots of one parameter hold one object, which outside holders share; once
\* it returns each parameter is on the device in the layout of its first slot;
\* and a load after a failed one moves nothing that is on the device.
UploadSound ==
    /\ [](UploadTypeOK /\ TiesTogether /\ ObjectsKept /\ LoadedInLayout)
    /\ [][NotMovedAgain]_uploadVars

\* load_model_to_spyre ends, also when an upload fails while others run.
LoadEnds == phase \notin {"ok", "error"} ~> phase \in {"ok", "error"}
=============================================================================
