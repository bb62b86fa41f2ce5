# A TLA+ verification of torch-spyre

torch-spyre is the PyTorch backend of the Spyre accelerator: a C++ runtime layer
(`csrc`) over IBM's flex runtime, a Python package that starts it, an Inductor
backend that compiles graphs into SpyreCode directories, and a kernel cache that
keeps those directories. Beside it the repository holds clickhouse-ingest, which
records test results. This project models the parts where threads, streams, DMAs,
processes or retries meet, and the placement and loop algorithms of the compiler;
it checks them with TLC on small instances and proves the most important of their
invariants with TLAPS.

Paths below are relative to `src/torch_spyre/`, those marked *ingest* to
`src/extensions/clickhouse-ingest/spyre_clickhouse_ingest/`.

## 1. Inventory

| part | state | operations | what makes it hard |
|---|---|---|---|
| pinned allocator (`csrc/spyre_pinned_allocator.cpp`) | `allocations_`, `caches_`, the staging cache's free list, shared owners of each block | `allocate`, `deallocate`, `retain`, `empty_cache` | blocks outlive tensors through DMA tokens; acquire and release run outside the lock |
| copies (`csrc/spyre_stream.cpp`) | the host lifetime token of each DMA | `copyAsync`, `copyAsyncImpl`, `copyProgramAsync` | flex touches host pages after the call has returned |
| job plans (`csrc/job_plan.cpp`, `SpyreStream::launch`) | launch context, stream queues, program segment | `launch`, `construct` of H2D, D2H, Compute, HostCompute | launches overlap on the device, corrections must reach their own compute, a step may throw half way |
| kernel preparation (`csrc/prepare_kernel.cpp`) | builder buffers, uploads in flight, steps, registry entry | `executeAllocate`, `executeInitTransfer`, `translateJobExecPlan`, `validate`, `build` | failure at every stage, merged commands, ownership hand-over |
| stream pool (`csrc/spyre_stream.cpp`, `streams.py`) | handles, round-robin counters, thread-local current stream, stacks of displaced streams | `initializeStreamPool`, `getStreamFromPool`, `synchronizeDevice`, `__enter__`, `__exit__` | initialization that throws, snapshots taken while others create streams |
| device allocator (`csrc/spyre_allocator.cpp`) | statistics, blocks in use | `allocate`, `ReportAndDelete`, `memoryPressureCallback` | allocator mutex against the GIL, a collection inside an allocation |
| runtime start (`__init__.py`, `csrc/module.cpp`) | initialised flags, pending device, once flag, fork state | `_lazy_init`, `set_device`, `startRuntime`, the after-fork handler | double-checked lock, entries from C++, fork, a start that throws |
| collectives (`csrc/distributed/spyre_ccl.cpp`) | `completed_`, `exception_`, the future | `isCompleted`, `wait` | polled by several threads without a lock |
| model upload (`model_utils.py`) | the slots of a model, the upload pool | `load_model_to_spyre` | ties, refused swaps, uploads that fail, loading again |
| kernel cache (`execution/kernel_cache.py`) | committed, staging and failed directories | `get_cached_kernel_dir`, `allocate_compile_dir`, `commit_compile_dir`, `clear_cache` | several processes, killed writers, lost races |
| asynchronous compilation (`execution/async_compile.py`) | futures, process pool | `sdsc`, `wait` | one future of several failing |
| fusion and HBM pool (`_inductor/fusion.py`, `_inductor/hbm_pool_planning.py`) | bundles, free list, pending frees, offsets | `spyre_fuse_nodes`, `hbm_pool_planning` | live ranges of aliased and looped buffers |
| scratchpad solvers (`_inductor/scratchpad`) | gaps, usage, addresses | first fit, best fit, greedy | in-place parents, lifetimes widened by loops, paired groups |
| counted loops (`_inductor/loop_node.py`, `loop_scheduler.py`, `loop_carries.py`, `wsr/while_loop_bridge.py`) | the operation list, LoopNodes, carries | splice, collapse, carries, edits, peeling, scheduling | a value read under an old or a new name, operations moved across a loop |
| batched inserts (*ingest* `batching.py`) | rows of a table without keys | `insert_chunks` | a request that errs may have been, or may yet be, executed |
| case ingest (*ingest* `results.py`, `writer.py`) | outcome rows, counters, verdicts | ingest of a run's files, `copy_reused_cases` | attempts in any order, failures between requests |
| bundle ingest (*ingest* `bundle.py`) | rows, verdicts, the call in progress | `results --from-bundle` | retried, repeated and rival uploads |
| provenance registry (`csrc/kernel_provenance_registry.cpp`) | a map under one mutex, never erased | `register`, `lookup` | nothing beyond the mutex; not modelled |
| compiler passes, code generation, eager operators, layouts, logging, profiler | | | sequential; not modelled |

`PROJECT.json` lists every component, with a status and a reason, and every
hazard at its line with the properties that guard against it.

The correctness properties that follow: host memory a DMA touches is alive and not
reused; every block comes back; a compute runs with the corrections of its own
launch; the plan the builder accepts does what the SpyreCode says; a failed build
is invisible; a cached kernel directory is complete and found by whoever was
promised it; a device synchronization waits for all that was submitted; no call
blocks for ever on the allocator mutex and the GIL, and the statistics stay within
the device; nobody is told of the end of a collective while it runs, and its failure
is kept for `isSuccess()`; live buffers share no byte; a scheduled loop computes what
the graph says; no retry records a result twice, and what is reported ingested is
stored. Each holds under the conditions that sections 3 and 4 name.

## 2. Modules

### Runtime

**HostMemory** models `SpyrePinnedAllocator`, the part of `copyAsync` and
`copyAsyncImpl` that decides who owns the host pages, and pageable storages.
A block is pinned or pageable. Its owners are the entry of `allocations_` (or the
tensors on a pageable storage), the locals of threads and the tokens of DMAs
(`held`); dropping the last owner releases it (`~PinnedAllocationState`). Each
action is one critical section or one lock-free stretch of code:
`AllocateAcquire`/`AllocateEmplace`, `CopyRetain`/`CopyLaunch`/`CopyThrow`/
`CopyReturn`, `Deallocate`/`DeallocateReturn`, `EmptyCacheCollect`/
`EmptyCacheClear`, and `DmaComplete` for flex's scheduler thread. `gen` counts
how often a block was handed out and is capped by `MaxGen`; it tells a block from
its reincarnation. Addresses are numbers, so `findContaining` is the code's
upper_bound search with its bound check, on blocks without gaps between them.

**JobPlan** has no state: commands, steps (`PlanSteps` gives the shapes of the four
kinds), `translateJobExecPlan` with the merge of ComputeOnHost and H2D, `validate`,
`checkJobPlanStepOrdering` and the batching condition of `launch`.

**JobPlanLaunch** runs `SpyreStream::launch` step by step against streams that
the device works off concurrently. Every datum is a tag naming the launch and the
step that produced it, so using a correction of the wrong launch is visible. flex
is external: streams are FIFO; with the hazard tracker on, an operation waits for
earlier conflicting operations of other streams. With the tracker off the model
uses one stream, since `job_plan.h` declares the buffers unsafe for several.

**PrepareKernel** is `prepareKernel`: allocation, uploads that continue in the
background, translation, validation, registration, destruction of the plan; each
stage may throw, which destroys whoever owns the buffers. A command names its handle,
its region and, for a ComputeOnHost, its input and its metadata, so `PlanPreserved`
can compare the steps with the commands one by one. It assumes `Paired`: a
ComputeOnHost is followed at once by the H2D of the same handle, and its buffer is not
used otherwise. The comments at `csrc/prepare_kernel.cpp:438-442` and `:666-669` say
so; the code compares no handles, and a plan that breaks the rule would read the stub
that the merged step leaves.

**StreamPool** holds the pool functions, which keep the pool's mutex from their
lookups to their last write and are one step each, and `synchronizeDevice`, which
copies the handles under the lock and waits after releasing it (`SyncBegin`,
`SyncStream`, `SyncEnd`). `current` is per thread; a Stream object and its stack of
displaced streams are shared by the threads that use it. A few ids stand for the 32
of a pool, so that every pool wraps round.

**RuntimeInit** interleaves `_lazy_init` (test, lock, test again, apply the pending
device, start), `set_device`, `current_device` and the after-fork handler with
`startRuntime`, a `call_once` that C++ callers also reach without the GIL. The start
may throw. A process started with `IS_INDUCTOR_SPAWNED_SUBPROCESS=1` begins in the
state of a forked child. A child forked while a C++ caller is inside the
`call_once` and entering it from C++ too would block in it; the model leaves it
there and claims nothing of it.

**MemoryPressure** is `allocate`, `ReportAndDelete` and `memoryPressureCallback`
with the two locks they meet. A Python thread comes with the GIL and keeps it, a
C++ thread comes without. flex's `allocateInDomain` (lock, fit, callback, one
retry) and CPython's collection are external; a collection may fail, which the
callback swallows, and then the retry may fail although something was unreachable.
The statistics change after the block does, as in the code.

**CollectiveWork** is `SpyreCCLWork`. The object takes no lock, so each read and
write of `completed_`, `exception_` and the future is a step. The schedule of
spyre_comms is external: it runs until it is done or has failed, and stays so.
`WorkTruthful` does not say that `wait()` returns true only for a success: once a
failing poll has set `completed_`, every later `wait()` returns true and resolves the
future. What it says is that `exception_` is set by then, so `isSuccess()` is false.

**ModelUpload** is `load_model_to_spyre`: the walk over the slots of a model, the
uploads on a thread pool, and the main thread that puts results in as they finish.
Two slots with one object are tied; modules with an `_apply` of their own replace
objects; buffers are uploaded per slot. The choice of a layout is a function of the
slot. `patch_module_to_for_spyre` and the validation of dtypes are not modelled.

### Kernel cache

**KernelCache** covers `kernel_cache.py` and the cached path of `sdsc()` for one
key. A job is one `sdsc()` call; the directory it allocates carries its name, and
`where` says whether that is found under its temporary name, at the key, under
`failed/` or no more; `has` is the set of required artifacts in it, `names` its
`kernel_name.txt`. `Lookup` and `LoadHit` are the hit path, `Lookup`, `Generate`
and `BackendInline` or `BackendPool` the miss path, `CommitTest` and
`CommitRename` the two halves of `commit_compile_dir`, between which other
processes run. `Wait`, `ResolveError`, `ResolveTimeout` and `WaitEnd` are
`wait()` with its drain, `Kill` ends a process anywhere, and the `Clear` actions
delete file after file. Moving a failed directory may itself fail; the code swallows
that and the directory stays under its temporary name (`"kept"`). `os.rename` onto a
directory fails unless that is empty; this and `rmtree` are how the code uses the file
system. One key is enough:
different keys share no directory, and `clear_cache()` treats them alike.

**AtomicCache** is what the cache promises for one key: the first commit makes
the entry, nothing changes it, everybody gets it. `KernelCache` instantiates it
with the complete directory at the key as the entry.

### Compiler

**Fusion** has no state: which scheduler nodes fuse, which allocations move forward,
and the bundles `spyre_fuse_nodes` makes. **HbmPool** schedules a graph node by
node, fuses it, and plans bundle after bundle with the code's allocator (free list,
pending frees, alignment, limit). A loop runs its body twice in the trace that the
properties read. A `SpyreEmptyFallback` is a bundle of its own; a read goes to the
newest alias of a storage; dead stores are left out (`NoDeadStores`), as earlier
passes remove them; the report of peak usage is logging.

**LxPlacement** is what the scratchpad solvers share (lifetimes, accepted in-place
pairs, excluded buffers) and what a placement must satisfy. **LxGapFit** is the
first-fit and the best-fit solver, **LxGreedy** the walk through time with the
hand-over of a dying parent's slot and paired groups. `FreeAddresses` is the
reference definition the spills are compared with.

**LoopTree** has no state: the loops of an operation list as LoopNodes and as
scheduler nodes, peeling, hoisting, and the rebuilding of loops from a flat list.
**LoopProgram** takes a traced program through the passes: splice, collapse, carries,
promotion of constants, input clones, drains, hand-off. `Meaning` is the reference:
the values that the traced program computes, with loops that make two trips. Extern
kernels read whole buffers; a flat list that `_regroup` cannot make convex is refused
on the structured path. A carry begins with an earlier operation, with another loop's
result or with the caller's buffer (`Input`), and the graph may return initial values
and results of carries: `Private` and `MayDrain` decide when a buffer may be taken over
or drained into, and `MeaningKept` compares the returned buffers and the caller's at
the end of the run. Stacked and scatter carries, elided copies, externs with several
outputs, removed dead code, aliases (`never_reuse_buffers`), clones of plain outputs
and drains through collectives are not modelled.

### Ingest

**BatchInsert** is `insert_chunks` with a server that may refuse, execute or later
execute a request whose answer is an error, and with other writers in the probed
scope. `Settles` says whether the settle delay outlasts a request given up on.

**CaseRows** has no state: which outcome rows make which others redundant.
**CaseIngest** is one ingest after the other of a run's files, request by request,
each of which may fail executed or not, with deaths of the process in between.
Ingests of one run do not overlap: `src/.github/workflows/push-to-clickhouse.yaml:134-137`
says "Allow at most one ingest per triggering run (re-runs queue behind)". Attempt 0
is a manual re-ingest without `--run-attempt`. **ReuseCopy** is `copy_reused_cases`,
which only tests call so far, over runs that copy from one another.

**BundleIngest** is `results --from-bundle`, called by a relay for one bundle at a
time and again after exit code 1. A file fits in one batch of 5000 rows. Rows of a
vLLM bundle carry no source file, so the property about refused rounds leaves them
out; `write_tables` supersedes nothing. `NoDoubling` leaves out the benchmark rows of
a tables bundle (`Unchecked`), which a retry does insert again: section 4.
`insert_reason`, the resolution of artifacts and retracted rounds (nothing in this
code retracts one) are not modelled.

### Checking and proofs

The `MC*` modules give the constants their values. `MCRuntime`, `MCIngest`,
`MCPlacement` and `MCLoops` gather components that share no state: a behaviour is
one of one component, `part` says of which, and the other components' variables keep
their initial values. `MCCache` does the same for two caches (`cleared`). Their
properties conjoin the named properties of the components (`WorkTruthful` is
`NeverEarly`, `FailureVisible` and `WaitResolves` of CollectiveWork, for instance:
no end reported before the end, `exception_` set whenever a call has returned true for
a failed collective, a resolved future after `wait()`).

**Runtime** gathers CollectiveWork and RuntimeInit in this way without fixing their
constants, so that its properties `WorkTruthful` and `StartSound` can be both checked
(`MCRuntime` extends it) and proved. StreamPool names its own operators (`PoolInit`,
`PoolNext`, `PoolSpec`, `streamVars`) apart from those of the modules it is extended
with, and bounds a behaviour by a member of `Limits`; RuntimeInit bounds one by a
member of `Uses`.

The `*Proofs` modules hold the TLAPS proofs, section 5.

Definitions introduced by a comment "A mutant:" or "Mutant:" are deliberately wrong
variants of the definition they precede. `PROJECT.json` pairs every property of a run
with one of them: substituting it breaks the property, which shows that the property
constrains that definition.

## 3. What the runs check

| run | question | result |
|---|---|---|
| `host_memory` | can a DMA touch freed or reused pages, can the cache hand out a live block, can `retain` find the wrong block, can a block leak, does every block come back once its tensor is gone? | no leak, no misuse; yes |
| `launch` | can a compute run with corrections of another launch, can corrections of two groups mix, can streams block each other? | no |
| `prepare` | does an accepted plan transfer and compute what its commands do, in their order and from the same buffers, and read only buffers that were filled? | yes, when corrections are `Paired` |
| `cache` | can races, kills, failures, timeouts or `clear_cache()` leave an incomplete entry, a runner without one, a lost name, or, after `wait()`, a temporary directory that nothing tried to move; does the cache implement AtomicCache; is what the pool compiled published? | no; yes; yes |
| `runtime` | is anybody told of a collective too early or wrongly; are stream handles, synchronization and `with` blocks sound; are the statistics, the locks and the retry after a collection right; does the runtime start once, on the device asked for; are ties and layouts kept by a load; does every call return? | sound |
| `ingest` | can a retry store a batch, file or verdict twice, what removes an executed outcome, can a copy be misattributed, does the verdict cover every round, is everything settled in the end? | nothing is stored twice, but for the benchmark rows of a tables bundle; an executed outcome is removed only by the drop before the insert of a newer attempt of its file, and is lost if that insert then fails for good; otherwise sound |
| `placement` | can live buffers overlap in the HBM pool or the scratchpad, does fusion keep the dataflow, is a buffer spilled although there is room? | sound |
| `loops` | does the scheduled program compute what the graph says, on the structured and on the flat path, each kernel once per trip of its own loops, without overwriting a returned or a caller's buffer? | yes, without the two cases of section 4 |
| `launch_read_back` | does a HostCompute step see what an earlier D2H step of its plan transferred? | no: finding |
| `prepare_pages` | are the pages of a program upload alive until it is done? | no: finding |
| `prepare_ordering` | does a built plan pass `checkJobPlanStepOrdering`? | no: finding |
| `cache_repair` | does recompiling after a miss on an incomplete entry repair it? | no: finding |

**Bounds.** `host_memory`: two threads, one DMA, two pinned blocks with a pageable
one between them, each handed out twice; two generations are the least that tell a
block from its reincarnation, and two threads the least at which a release races an
acquire. `launch`: three launches, so that one can throw between two others, on one
or two user streams; plans with one and two corrections, several groups, the same
region corrected twice, H2D and D2H; correction limits 0, 1 and 2, below, at and
above the group sizes. `prepare`: every plan of up to four commands with two
handles and two regions, and of five plain commands, which is the first length with
two corrections and their compute; two programs. `cache`: two calls in one process and
one in another, so that calls race within a process (both in the pool) and across; with
`clear_cache()`, whose deletions multiply the states, one process with two calls.

`runtime`, by part. *work*: two threads, two calls each, the least for a poll
between another thread's test and store. *streams*: two low streams, a high one and a
host one, one Stream object, two operations, one synchronization and one
`createStream` that throws; *contexts*: two Stream objects and `with` blocks three
deep. *start*: two threads, one of which also enters from C++, a child, two devices
and one start that throws; *alone*: one Python thread with three calls and an index
out of range. *pressure*: a Python and a C++ thread, one block of memory and three
storages, so that every second allocation runs out. *upload*: two models (tied
embedding and head; a weight shared with modules that override `_apply`) with refused
swaps, two upload threads, one failing upload, two loads.

`ingest`, by part. *batches*: three batches (before, at and after the one that
fails), three attempts, two rows of other writers. *cases*: two files and three
ingests of attempts 0, 1, 2 in any order with one fault; *clean*: four ingests
without a fault. *reuse*: three runs (a copy of a copy), two cases, two tiers, three
copies. *rivals* and *rounds*: three bundles, three faults, one repeated upload; in
*rounds* JUnit files fail only by a crash, which leaves out the case of
`IngestedComplete` that section 4 lists, and no bundle is one of tables, which leaves
out that of `RoundNotRefused`; every bundle of *rivals*, of tables too, may meet an
error or a crash.

`placement`, by part. *pool*: graphs of four nodes over three names, two of which may
share storage; *loops*: three nodes, loops with two operations. In both no node
updates a name in place (`Rewrites` is FALSE), and an extern kernel writes no storage
that a kernel updates under its other name: the two cases of section 4.
*gapfit*: four buffers in six bytes aligned to two; *greedy*: four buffers and a
paired group in eight. `loops`, by part. *carried*: four operations, one loop, one
carry, two reads per kernel (one in the other parts); *externs*: the same with extern
kernels and a carry that may begin with the caller's buffer; *chained*: four
operations, two loops and two carries, one buffer returned, the least at which a loop
takes over another's result; *returned*: three operations, two carries that may begin
with the caller's buffer, one returned; *nested*: a loop in a loop, no carry.
`ExternReadsUpdate` and `NestedEntry` are FALSE, which leaves out the two cases of
section 4.

**Fairness.** `host_memory`: weak fairness of each thread's steps in the middle of a
call (a thread inside a call keeps running; nobody has to start one) and of DMA
completion, which the flex scheduler thread provides. `launch`: weak fairness of each
stream, i.e. the device keeps executing what may run. `cache`: weak fairness of every
process's own steps and of the pool worker, which ends because dbo-opt does or its
timeout strikes; a process may be killed instead. `runtime`: the schedule of a
collective makes progress and each thread inside a call keeps running (weak); for
memory pressure each thread's steps are strongly fair, since both locks hand over to
a waiter that keeps asking, and a Python thread outside a call gives up the GIL in
the end (the interpreter's switch interval); a load keeps running. `ingest`: the
client of `insert_chunks` keeps running and a late request is executed or dropped;
the relay calls again after exit code 1. `placement` and `loops` check safety only.
Deadlock is not checked in `runtime` and `ingest`, where callers may stop calling;
what must go on is in `CallsReturn` and `AllSettle`.

## 4. Findings

Each of these is a run that TLC must find violated.

1. `launch_read_back`: `src/docs/source/runtime/index.md:230-231` says that FIFO
   order makes each step complete before the next starts. HostCompute runs inline on
   the caller, so one that reads a buffer filled by an earlier D2H reads it too early.
2. `prepare_pages`: `executeInitTransfer` uploads without a lifetime token; if the
   build throws afterwards, or the plan is dropped at once, the program image is
   freed while the scheduler thread reads it. The comment in `copyAsync` requires
   a token for every H2D without conversion.
3. `prepare_ordering`: `job_plan.h` says `validate()` calls
   `checkJobPlanStepOrdering`; it does not, and the plans it accepts for every
   correction kernel are ones that function rejects.
4. `cache_repair`: `get_cached_kernel_dir` says that an incomplete directory
   triggers recompilation. It does, but `commit_compile_dir` only tests that the
   directory exists: it discards the new compilation and returns the incomplete
   directory, and so does every later compile of that key.

Other places where the code and its words differ were met while modelling. Each
is a property of the module named, and TLC violates it with the values given. No run
is kept for them: the passing runs do not check the property, or leave the case out as
section 3 says.

| property | where | the code | the words |
|---|---|---|---|
| HbmPool `ValuesSurvive`, `Rewrites` TRUE, five nodes | `_inductor/hbm_pool_planning.py:156` | the last writer of a name starts its live range, so a buffer updated in place counts as free before the update | `src/docs/source/compiler/hbm_pool_planning.md:134` "from its producer op to its last consumer op" |
| HbmPool `PoolIsBundleLocal`, an extern writing shared storage | `_inductor/hbm_pool_planning.py:368` | writes of extern nodes are not in the writer maps | `:219` "the bundle that writes it is the same bundle that contains every read of it" |
| CaseIngest `CountersCount`, one fault | *ingest* `writer.py:303` | rows and counters change in three requests; nothing recounts after a failure between them | `src/extensions/clickhouse-ingest/tests/test_one_outcome_per_case.py:15` "counts it once" |
| CaseIngest `PriorKept`, no fault | *ingest* `results.py:2236` | older attempts are dropped before `_keep_prior` could find their failure | *ingest* `writer.py:579` "Stamp on `row` the newest failure of an older attempt it replaces, else it is lost." |
| ReuseCopy `CopiedOnce`, three copies | *ingest* `results.py:1432` | the guard looks for the source in `ran_in`, which for a copied row is another run | `:1410` "re-running refuses them rather than doubling the counts" |
| ReuseCopy `TierWhole`, two copies | *ingest* `results.py:1435` | the second tier from a source is skipped though its cases differ | `:1427` "a second tier from the same source adds no rows anyway" |
| BundleIngest `IngestedComplete`, an error in a JUnit file | *ingest* `results.py:2269` | the failure of one file is contained and the bundle reported ingested | `src/extensions/clickhouse-ingest/README.md:456` "exits `0` ingested or duplicate, `1` failed (retried)" |
| BundleIngest `NoDoubling` with `Unchecked` FALSE | *ingest* `bundle.py:566` | benchmark rows are inserted again by a retry | `:583` "a write error is a retry; the writes dedup" |
| BundleIngest `RoundNotRefused`, rounds of tables, one error | *ingest* `bundle.py:138` | rows of a tables bundle carry no `upload_id`, so a retried round is refused for its own | `:125` "A retried upload's own rows are not counted." |
| BundleIngest `OneFirstBundle`, rivals of kind vLLM, one fault | *ingest* `bundle.py:108` | a bundle that failed before its verdict does not hold the run | `src/extensions/clickhouse-ingest/tests/test_bundle.py:389` `test_a_run_key_taken_by_other_results_is_rejected` |
| BundleIngest `ReUploadIsDuplicate`, one repeat | *ingest* `bundle.py:311` | after an appended round the first bundle is rejected, not a duplicate | `:22` "Exit codes: 0 ingested or already ingested" |
| CollectiveWork `PollResolves` | `csrc/distributed/spyre_ccl.cpp:794` | a failing poll marks the work completed without resolving the future | `:797` "callers who poll isCompleted() rather than calling wait() still see a resolved future" |
| StreamPool `RestoresPrevious`, `Shared` TRUE | `streams.py:79` | the stack belongs to the object, the current stream to the thread | `:75` "Exit stream context - restore previous stream" |
| StreamPool `PriorityHonoured`, three Stream objects | `csrc/spyre_stream.cpp:768` | a handle made for priority 1 stays NORMAL when its id serves priority -1 | `:168` "Streams 33-64: High priority streams (priority -1)" |
| RuntimeInit `DeviceHonoured`, two threads | `__init__.py:73` | an index set between reading the pending one and the start is not used | `:72` "Apply pending device index before runtime init" |
| RuntimeInit `DeviceHonoured`, a C++ entry | `csrc/module.cpp:136` | a start from C++ ignores the pending index | `:125` "tls_idx (non-zero) — set via explicit set_device() call" |
| RuntimeInit `CurrentIsSet` | `__init__.py:164` | before the start `current_device()` does not return what was set | `src/tests/test_spyre.py:959` "assert torch.spyre.current_device() == i" |
| RuntimeInit `ChildNeverStarts`, a child that enters from C++ | `csrc/module.cpp:166` | only Python knows of the bad fork | `__init__.py:141` "never starts the runtime" |
| MemoryPressure `NeverBoth` | `csrc/spyre_allocator.cpp:210` | a Python thread takes the mutex with the GIL held | `src/docs/source/runtime/memory_pressure_gc.md:39` "Both locks must never be held simultaneously." |
| MemoryPressure `PressureSerialised`, two C++ threads | `csrc/spyre_allocator.cpp:381` | the callback gives up the mutex, so two can run at a time | `memory_pressure_gc.md:215` "This serialises all memory-pressure events automatically." |
| LoopProgram `MeaningKept`, `ExternReadsUpdate` TRUE | `_inductor/loop_scheduler.py:382` | the refusal compares names, and the new value has the name of the storage | `:359` "One that reads a buffer the loop writes cannot go before it, and is refused." |
| LoopProgram `RunsPerTrip`, `NestedEntry` TRUE | `_inductor/loop_node.py:578` | the ends of a body are looked at before the nodes in it are peeled | `:583` "to the level it belongs to" |

## 5. Proofs

The theorems hold for every value of the constants that satisfies the named
assumptions: any number of threads, processes, blocks, storages, streams, launches,
commands or batches. Each rests on an inductive invariant, shown step by step, one
step per action, and combined at the end by temporal reasoning.

**HostMemoryProofs** (`TypeCorrect`, `DmaPagesStayAlive`, `NeverActiveAllocation`,
`RetainFindsOwner`, `BlocksAccountedFor`) assumes `BlockAssumption`: blocks are
disjoint intervals of addresses. None of the safety properties is inductive: that a
DMA's pages are alive needs to know who holds which owner at each program point.
`IInv` adds that: what an idle thread, a thread between acquire and emplace, a
deallocating thread and a copying thread hold (`IdleHeld`, `AcquiredHeld`,
`DeallocatingHeld`, `CopyHeld`), that an in-flight DMA holds the block it touches
(`DmaOwns`), and that entries are mapped and not cached (`Entries`). `DropAccounts`
is the central lemma: dropping an owner keeps every other owned block mapped and out
of the cache. `FindContaining` shows that the upper_bound search returns the
containing block.

**KernelCacheProofs** (`TypeCorrect`, `EntryRunnable`, `NamesNotLost`,
`NothingLeftBehind`, `Refinement`). The invariant `Clean` says where each job's
directory is and what it holds at each point of the job: a job that is about to
commit has all artifacts under its temporary name, so that the rename publishes a
complete directory, and a job that loses the race drops its own directory and not
the entry. `StepRefines` maps a hit, a won and a lost commit to `Obtain` of
AtomicCache, an error to `Fail` and everything else to a stutter; `Refinement`
assumes `~MayClear`. `NothingLeftBehind` holds with `clear_cache()` too: by
`Settled`, `wait()` ends when every job of the process has a runner, an error or was
given up, and a job with a runner or an error has no temporary directory, unless it
was one that could not be moved to `failed/`.

**PrepareKernelProofs** (`PlanKept`, `StepsWellFormed`, `FailureUnregistered`) assumes
that the plans are sequences of commands. The builder's loop is a recursive function
over the commands. A fact about all its iterations is proved from the least command
at which it would fail (`LeastNatural`, `UpTo`), after `LoopExists` has shown that the
function is defined; `TranslationFaithful` is the result: the steps, taken together,
have the effects of the commands in their order, and read no buffer that was not
filled. `PrepareInv` carries this through the phases of
`build()`, with the owner of the buffers at each and registration exactly from
"built" on. `StepsWellFormed` discharges the assumption of the next module.

**JobPlanLaunchProofs** (`LaunchInvariant`, `OwnCorrections`, `OneGroup`,
`NoOrphans`) assumes `StreamAssumption`: the plans are sequences of well-formed steps,
the preparation stream is no other stream, limits are naturals. `LaunchInv` is `Types`, `GroupInv` (corrections in hand are those of a
group that ends before a compute and fits the limit, collected up to the current
step), `QueueInv` (streams are FIFO in the order of submission, one stream when the
tracker is off) and `FreshInv`. The last one is the heart: every compute that is
queued, or could come next, `Finds` in each region it `Needs` the value its own
launch gave it; it brings the value itself, or the last pending writer before it
does, or nobody writes and it is there. So an operation that is executed, submitted
or lost in a throw must change what later ones find in step with the region, which
`ExecuteStep`, `UploadStep`, `ComputeStep`, `TransferStep`, `BatchedStep`,
`BeginStep` and `EndStep` show.

**MemoryPressureProofs** (`StatsNeverExceed`, `StatsNeverNegative`,
`RetryAfterCollection`, `LocksWhereHeld`) assumes finitely many threads and
storages. `PressureInv` is `Types`, `Allocating` and `Deleting` (a storage is
allocated or deleted by one thread at a time), `Owners` (who has a block), `Locks`
(who holds the GIL and the mutex where), `Seen` (what was unreachable when memory ran
out is unreachable still, then deleted by the collection that holds the GIL, then
freed before the retry, unless the collection failed) and `Counted`: the statistics
and the threads between a block's change of hands and its count add up to the blocks
in use.

**StreamPoolProofs** (`StreamsStaySound`) assumes `PoolsAssumption`: the pools are
sequences of ids other than 0, none empty (32, 32 and at least one host stream in the
code). `StreamInv` is `StreamTypes`, `HandlesInv` (which handles exist in each phase
of the initialization, and behind every current stream and every Stream object and
its stack), `QueueInv` (work is queued only where there is a handle, and numbered),
`OwedInv` (what a synchronization owes is complete, on a stream still to be visited,
or waited for right now) and `StacksInv`. A handle made after the snapshot cannot
carry work that is owed, which is why `QueueInv` is needed for `SyncCovers`.
`StacksInv` says that the stacks and the `with` blocks match: there is a place for
each block in the stack of its object (`Found`), of that block only (`Apart`), and no
place is left over (`Filled`), so that `__exit__` never finds an empty stack. When
objects are not shared, the place holds the stream the block displaced (`Kept`), and
the later blocks of a thread are above the earlier (`Nested`). So the innermost block
has the top of its object's stack, and popping it leaves the other places as they
are, also when an object is entered again inside itself.

**RuntimeProofs** (`SuiteWork`, `SuiteStart`) proves what `Runtime` states of its two
components. For `WorkTruthful` it assumes only that `MaxCalls` is a number: no lock
orders the accesses to a collective's handle, so `WorkInv` says what a thread at each
point of a call may have seen of a schedule that is running (`NothingEarly`), that
has failed (`FailureKept`), and of the future (`FutureResolved`). For `StartSound` it
assumes `StartAssumption`: the child is a thread of its own, there are 1 to 1000
devices (1000 stands for "no index"), and ranks and indices are numbers. `StartInv`
is `StartTypes`, `ControlInv` (which call is where, and that a thread with no calls is
nowhere), `LockInv` (who is between taking and releasing `_runtime_init_lock` holds
it), `RunInv` (the once_flag, `_initialized` and a thread past `start_runtime()` each
mean that there is a device) and `PendingInv`: for a thread alone, between applying
the pending index and the start, `tls_idx` is that index, or `LOCAL_RANK` when it is
0. `StartAims` turns the last one into the action property.

**IngestProofs** has three parts. *Batches* (`Inductive`, `NeverTwice`,
`ReturnIsComplete`, `FailureIsExact`) assumes `Settles`: the settle delay outlasts a
request the client gave up on. Without it the code makes no promise, and TLC finds a
batch stored twice. `IInv` carries that the probed count never falls below what the
call has stored (`CountInv`) and that the batch at hand is stored or still to be
stored, not both (`CarefulInv`); so a count equal to the expected one means that it
may be sent again. *Copies* (`CopiesStaySound`), for any runs, cases and tiers:
`CopiesSound` is inductive with the types of the rows; a run reports once, and its
report replaces what was copied, which is why a copy never stands beside an execution.
*Cases* (`OneOutcomeEach`, `ExecutionsStay`), for any files, attempts and reports and
a fault between any two requests. `CaseInv` says what an ingest relies on at each
request: which rows of the file at hand can be there (`FileInv`), that the planned
rows repeat nothing and stand beside nothing but rows about to be deleted (`PlanInv`),
that only skips are deleted as superseded (`SkipsOnly`), and, as long as there was no
fault, that skips beside executions and the counters are put right (`BesideInv`,
`CounterInv`). `ExecutionsStay` says that no step but the drop of an older attempt
removes an executed outcome; it does not say that the newer one arrives.

**Only model-checked.** Liveness, because fairness is outside the prover's reach:
`BlockReleased`, `AllExecuted`, `CompiledIsPublished`, `CallsReturn`, `AllSettle`.
`LoopTree` and `LoopProgram` use RECURSIVE operators, which the prover does not
take. The solvers, the HBM pool and fusion fold over sequences and sort them; what
such operators compute for every input needs an induction that the library's
theorems do not offer to these provers (the builder's loop could be done by hand as
above because each iteration reads one command). The model upload and the ingest of
bundles are checked with TLC only. `SelectSeq` cannot be unfolded by the prover; the
definitions that the theorems are about use sets of indices instead.

## 6. Not modelled

The other Inductor passes, code generation, eager operators and tensor layout
arithmetic are sequential transformations of large data without protocol state; the
provenance registry is a map under one mutex; the ILP scratchpad solver is external;
the collectors, parsers and command lines of the ingest read files and write through
what is modelled. Logging, profiler formatting and JSON parsing are left out as data.
flex, the device, the CPU allocator, CPython, ClickHouse and PyTorch are external and
appear only as the code in `src` relies on them.
