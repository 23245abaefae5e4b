# DERS: TLA+ models, checks and proofs

This directory models the parts of the DERS repository whose correctness depends
on the order of steps, checks them with TLC and proves theorems about seven of them
(pool, scheduler, data-parallel step, arena, loss reader, generation, checkpoints) with
TLAPS. Paths below are relative to the repository root.

    tlc -config SharedBlockPool.cfg SharedBlockPool     # model-check a module
    tlapm SharedBlockPoolProofs.tla                     # check a proof

`PROJECT.json` lists the components, the runs, the source lines behind every
definition (`map`), the hazards with the properties that watch them, the findings
and the theorems. For every property of a passing run it also names a *mutant*: an
operator in the module that changes one definition as a plausible bug would
(`DecRefFrees`, `FireUnordered`, `CutBackToHits`, ...). Mutants are no part of the specifications;
each, put in place of the definition it mutates, makes TLC report that property.

## 1. The system

The repository holds three programs and the scripts around them.

| Part | Where | What it does |
|---|---|---|
| OmniTrace | `src/`, `include/omni/`, `tools/` | a shader debugger: SPIR-V front end and back end around a small IR, instrumentation, a trace codec and store, time travel, a CPU reference interpreter, a reward oracle, shader synthesis |
| olmo_cpp | `training/src`, `training/include/olmo_cpp` | a LibTorch transformer: training loop, optimisers, distributed wrappers, checkpoints, and inference with paged KV caches, prefix sharing and speculative decoding |
| zwt | `training/zwt` | a CUDA-native trainer: activation arena, streams and events, data-parallel gradient reduction that overlaps backward, checkpoints |
| pipeline | `pipeline/`, `tools/` | scripts that generate data, call the trainers and score samples |

The three programs share no state. Inside one, components call each other
directly; the concurrency is between a host thread and the CUDA streams it feeds
(olmo_cpp, zwt), between the ranks of a job (collectives, a socket rendezvous), and
between requests of a single-threaded server that take turns on one page pool.

### Components

*Modelled* gives the modules of section 2; section 7 says why the others are left out.

| Component | State | Operations | What makes it correct, and what is hard | Modelled |
|---|---|---|---|---|
| Shared page pool, `model/shared_block_pool` | free list, reference counts, page hashes, hash table | allocate, find_or_lease, inc_ref, dec_ref, release_all | no page handed out twice or lost; a hash finds only a page that still holds that content | `BlockPool`, `SharedBlockPool` |
| Scheduler, `serve/scheduler` | requests with page tables, lengths, last token | admit, step (prefill chunk or decode token) | sharing a page is invisible to a client: prefix hits on pages that are not filled yet, writes to shared pages, exceptions in the middle of admit | `Scheduler` |
| zwt buckets and overlap, `zwt/dist/{ddp,comm}` | buckets' counters, staging buffers, events, `fire_idx` | mark_ready, fire callback, sync_and_finalize | AdamW reads the mean gradient of its own step although host, compute and comm stream only meet at events | `ZwtDdp` |
| zwt arena, `zwt/core/allocator` | bump pointer, free list | alloc, free, reset | live blocks are disjoint after frees in any order | `Arena`, `ZwtArena` |
| zwt layers, `zwt/layers`, `core/tensor` | saved activations and views as members, scratch tensors as locals | forward, backward, step_begin | backward sees what forward saved, although memory is recycled by C++ scope | `ZwtActivations` |
| Loss readout, `train/async_loss_reader` | ring of pinned slots, two heads, events | queue, poll, flush | poll reads only finished copies; streams lag, writer laps reader | `AsyncLossReader` |
| OmniTrace CFG, `uir/cfg` | postorder numbers, two trees | build_cfg, dominates, reconvergence, thread_frontier | both trees exact on every graph: irreducible, unreachable blocks, endless loops | `UirCfg` |
| UIR and verifier, `uir/{ir,verify}` | arenas of types, values, instructions | create, emit, verify | operands defined before use; one terminator, at the end of a block | partly, `TraceCapture` |
| Tap timeline, `capture/instrument`, `store/trace_store`, `timetravel` | tap sites, columns, a file and its directory, a cursor | insert_taps, add, write, open, column_by_site, rebuild, scrub | a rebuilt history is what the invocation computed; ids restart in each call; a file may be cut short | `TraceCapture` |
| Trace codec, `trace/codec` | bit stream | encode, decode | lossless for every width, mask, warp size and value kind | `TraceCodec` |
| CPU reference interpreter, `cpuref/interp` | values per lane | run | taps see the lane's values in execution order | partly, `TraceCapture` |
| SPIR-V, Vulkan capture, reward oracle, synthesis, small models | tables, external processes | - | numeric or format translation | - |
| KV caches, `model/{kv_cache,paged_kv_cache,block_manager}` | growing buffer; free pages, page table, cursor | update, truncate; append, advance_cursor, materialize | every token's K/V in its own slot, whatever the chunks and pages; no page lost or handed out twice | `KvCache`, `Generation` |
| Speculative decoding, `generate/*` | drafts, KV caches, adaptive draft length | draft, verify, accept, roll back | a rollback drops what was rejected and nothing that was accepted; replies end | `Generation` |
| Chat tool, `tools/chat` | conversation, caches of a reply, captured graph | read a prompt, prefill, decode, replay, clear | a reply is the greedy continuation over every cache and chunking | `Generation`, `GreedyDecoding` |
| olmo distributed, `distributed/*` | gradient buckets, pending works, pipeline slots | hooks, allreduce_gradients, 1F1B schedule | each gradient reduced once, all ranks in one order | - |
| olmo training loop, checkpoints, `train.cpp`, `train/*`, `io/*` | step, optimiser, files | step, save, resume | atomic save, resume where it stopped | partly (loss) |
| zwt checkpoints, `zwt/train/checkpoint`, resume in `zwt/tools/zwt_pretrain` | two pinned buffers, temporary file, step and loader cursor | save, load, resume, crash | a crash leaves the last file; its tensors and header are of one step; no batch is learned twice | `ZwtCheckpoint`, `AtomicSave` |
| zwt rendezvous, `zwt/dist/nccl_backend.cu` | sockets | exchange_id | every rank gets the id, or every rank fails | - |
| zwt graph capture, profiler, config; kernels and optimisers | - | - | driver wrappers and arithmetic | - |

`PROJECT.json` "hazards" lists what is hard to test, each at its line.

## 2. The modules

    PageLease      <--implements-- SharedBlockPool --+
                                                     +-- BlockPool  (operators on the pool's record)
    TokenService   <--implements-- Scheduler --------+

    GreedyDecoding <--implements-- Generation ---------- KvCache    (operators on two caches' records)

    AtomicSave     <--implements-- ZwtCheckpoint

                                   TraceCapture -------- TraceCodec (encode and decode of a column)

                       ZwtArena, ZwtActivations -------- Arena      (the arena, its tensors and its calls)

    ZwtDdp     AsyncLossReader     UirCfg                           (each on its own)

    MCScheduler, MCGeneration, MCZwtCheckpoint, MCTraceCapture, MCZwtDdp,
    MCZwtActivations, MCAsyncLossReader, MCUirCfg                   instances for TLC

    SharedBlockPoolProofs <-- SchedulerProofs                       TLAPS
    GenerationProofs, ZwtCheckpointProofs, ZwtDdpProofs,
    ZwtActivationsProofs, AsyncLossReaderProofs, OmniTraceProofs    TLAPS

An abstract specification (left) knows nothing of the mechanism; the detailed one is
shown to implement it by `INSTANCE ... WITH` and the abstract `Spec` as a property.

### BlockPool, SharedBlockPool, PageLease

`BlockPool` has the private state of `SharedBlockPool` as one record (`free` is
`free_list_`, `refs` is `ref_counts_`, `hashes` is `page_hashes_`, `index` is
`hash_to_page_`) and one operator per method, so that `Scheduler` can make several
pool calls. `HasFree` and `CanLease` are exactly the conditions under which the code
does not throw. Hashes are values of a set: a hash stands for the token blocks it
chains, and collisions of the 64-bit FNV are abstracted away.

`SharedBlockPool` has the callers. A *handle* is one reference that a caller holds,
so "callers give back what they lease, once" is a property of the state and not of
the model's luck. `release_all` is a loop of `dec_ref` calls, one step each; no other
call comes in between, as the caller serialises the pool.

`PageLease` is the promise without a free list, counts or table: a page is free
when no handle refers to it; a request for a known key shares the page; a key lasts
exactly as long as its page is held.

### Scheduler, TokenService

`Scheduler` is `admit`, `step`, the two run functions and `SharedPoolKVCache`. The
walk of `admit` is one action per block (`AdmitBlock`), because an exception can end
it between blocks (`AdmitThrow`); `call` holds what is local to it. `Step` picks the
first request that is not done and runs `PrefillSkip`, `PrefillChunk` or
`DecodeStep`. The K/V tensors are `kv`: a slot holds the token sequence whose
forward pass wrote it, or `Junk`. That is the level at which the properties differ: a
position read through a wrong page, a page that was never filled, or one overwritten
by someone else yields an entry that is not a prefix of the request's own tokens.
The sampler is a set (`Sampled`) and may draw any token when the cache is junk.
Nothing in the repository calls `release_all` for finished requests
(`shared_block_pool.hpp:89` only offers it); `DriverReleases` adds a driver that does.
A decode step with `last_token = -1` is rejected by the embedding; the exception
leaves the new page in the table and the rest as it was.

`TokenService` promises a client what a server without pages, prefixes, chunks or
turns would: tokens the model may emit after the request's own tokens, until the end
token or the budget.

### ZwtDdp

One host thread per rank runs the step loop of `zwt_pretrain.cpp`: `StartStep`
(zero_grad), `BackwardLayer` per layer and micro-batch, `MarkReady` per parameter in
the last micro-batch, `SyncAndFinalize`, `OptStep`. It only *enqueues*: the sequences
`compute` and `comm` are the launch queues of the two streams, and the `Run...`
actions execute them in order, so every lag between host and streams is a
behaviour. Events count their records (enqueued, completed); a wait captures the
last record at the time it is enqueued, which is the CUDA rule that makes a wait on
an event never recorded pass. `Buckets` is computed from `Sizes` and `BucketBytes` as
`build_buckets_` does. A gradient is the set of <<rank, step, micro-batch>>
contributions summed in it, so "the mean of this step" is one value and any mixture
another. Each parameter is in one layer: weight tying, which would put one in two, throws
(`transformer.cpp:53`). The all-reduce is external: a rank's kernel reads its buffer when it joins
and writes the mean once all ranks have put their part in.

### AsyncLossReader

`Train` is one step of the loop of `train.cpp` (zero_, backward, add_), `QueueCpu` and
`QueueCuda` are `queue()` on the two devices, `Poll` is `poll()`; `RunCompute` and
`RunCopy` are the two streams, as in `ZwtDdp`. A loss is the number of its step. Which
loop runs (device, how often it polls) is chosen in the initial state.

### Arena, ZwtArena, ZwtActivations

`Arena` has `ArenaAllocator` as operators on `[offset, free]`: best fit over the free
list with alignment, bump allocation, retraction of the topmost block. It also has the
blocks that tensors own (`own`), the two calls a tensor makes (`AllocCall`, `FreeCall`) and
what an arena promises its tensors. `ZwtArena` lets any tensors make these calls in any
order, `ZwtActivations` makes them in the order of the layers.

`ZwtActivations` is the client the arena is for. What a micro-batch does to scratch
memory is fixed by the C++ scopes of `forward` and `backward`, so each layer is a
sequence of instructions (`BlockF`, `AttentionB`, ...): take a scratch tensor, move it
into a member, make a view, run a kernel that reads and writes tensors, end a scope.
Executing one instruction is an action. Slots own a block or are views of one; a
kernel's write makes every other slot over the same bytes stale. Sizes are element
counts derived from the model's shape, small enough to enumerate and different
enough that blocks fit one another in different ways. A step that finds no room has
no successor: `bad_alloc` ends the run.

### UirCfg

`build_cfg` with both runs of `compute_idom`, one step per turn of a loop: the iterative
depth-first search (`Descend`, `Leave`), the sweeps in reverse postorder (`StartSweep`,
`VisitNode`), the loop over predecessors (`LookAtPred`), the two-finger climb of
`intersect` (`Climb`: the finger with the smaller number moves up, which is what the two
inner loops do), the new parent (`SetParent`); on the graph and then on its reverse with a
virtual exit (`EndForward`, `EndReverse`). `visit` is the code's `b`, its predecessors
still to look at, `a` of `intersect` and `newidom`. A block that branches twice to the same
target is in `g.pred` twice and in `Preds` once: the second turn would intersect a
parent with a node already below it. The graph is chosen in the initial state among
*all* graphs of N blocks.

`Dom` and `PostDom`, against which the trees are compared, are defined from reachability
that avoids a block, not from the algorithm. `Up` is the walk of `dominates` and
`post_dominates` up a finished tree; for a block that `build_cfg` never reached see
section 6. `Reach` and `ThreadFrontier` give the set that the worklist of
`thread_frontier` visits.

### KvCache, Generation, GreedyDecoding

`KvCache` has the two caches of olmo_cpp as operators on records. A cached entry is
`[tok, pos, sees]`: the token whose K and V it is, the position its rotary embedding
was given, and how many entries the attention row that computed it could see. Those are
the three things a wrong cache gets wrong. `Update` and `Truncate` are `LayerKVCache`
(doubling buffer, cursor); `Reserve`, `Write`, `AppendPaged`, `View` are `PagedKVCache`
over `BlockManager`: pages popped from a stack into a page table, a cursor that layer 0
moves, or the caller once the cursor is advanced from outside.

`Generation` is the REPL of `tools/chat.cpp` and the loop of
`generate/speculative_decode.cpp`. `mode` is what the command line selects: no cache, a
concatenated cache, a paged one with chunked prefill, a paged one with the decode step
captured in a CUDA graph, and the speculative loops. One action is one iteration of one
loop (`PrefillChunk`, `StepPaged`, `Capture`, `Replay`, `StepMtp`, ...); `ReadPrompt`
is the head of a turn, where the conversation is cut to the context and every cache is
built anew. The model is the constant `Target`, the best token after the entries that a
row sees; so a stale, misplaced or invisible entry changes the choice. Drafts are *any*
tokens, which is all that draft heads guarantee. Sampling is greedy (temperature 0,
no repetition penalty), the setting in which a promise of equal output has a meaning.

`GreedyDecoding` is that promise: one best token after the other until the end token or
the limit.

### ZwtCheckpoint, AtomicSave

`ZwtCheckpoint` is the life of `zwt_pretrain` over several launches: resume or fresh
start, the warm-up of the graph capture (which drains batches), optimiser steps, periodic
and final saves, and every way a launch ends. A save is three kinds of step (`SaveOpen`,
`SaveWrite` per record, `SaveClose`), and the copies of records to two pinned buffers are
work on the compute stream that runs when it likes (`DeviceRuns`), up to the event each
write waits for. A load goes record by record through the same buffers, with an action for
each exception it can throw. A tensor's value is the sequence of batches it has learned
from; so "the state of one step" means that all tensors, moments included, agree.
The medium is external: `safe` is what a power loss leaves for certain, `path` what a
process sees, and a file not yet written back may survive cut short, for the code never
calls `fsync`.

`AtomicSave` is what remains when records, buffers and streams are forgotten: a live
state, a saved state that changes at one instant, crashes that lose only the live one.

### TraceCodec, TraceCapture

`TraceCodec` is `encode` and `decode`, bit by bit: bit packing, masks, warps, the choice
between bare values and base with residuals, XOR residuals of floats.
`TraceCapture` is the way of a value through OmniTrace: the capture pass rewrites blocks
(`InsertTaps`, any number of times), the interpreter runs a lane at a time (`RunLane`), the
writer packs columns into a file or stops half-way (`Write`), the reader maps it and
checks its directory (`Open`), and a timeline is rebuilt for a lane and scrubbed. What an
instruction computes is the constant `Compute`; the driver that calls the parts in this
order is that of `tests/test_timetravel.cpp`.

`ProgramAssumption` says which functions this is about: no taps yet, one terminator at the
end of each block, each value defined once, and a return in the last block only. The
interpreter ignores where a branch goes (`interp.cpp:178`) and falls through, so a return
further up would end every lane there; the columns of the values below it would keep
the driver's zeros, and nothing in the file says that they were not computed.

## 3. Plan

The order was: what serves several clients at once (pool and scheduler), what overlaps
host and device (data-parallel step, loss readout, arena and activations), the
algorithm with the largest space of inputs (CFG), then the caches and loops of
generation, checkpoints, and the trace pipeline. All of these are written. The theorems
follow the same order and cover every safety property of the runs.

Candidates that were read and not modelled, most worthwhile first:

- olmo's `CheckpointManager`: asynchronous saves, `prune`, `latest`. What is wrong with it
  shows on reading (section 6), so that a model would only state it again.
- olmo's gradient hooks (`distributed/ddp.cpp`): when a bucket counts as complete hangs on
  which hooks libtorch runs and how often; that contract is not in the repository.
- the rendezvous of zwt: one blocking exchange at start-up.
- the 1F1B schedule of `pipeline_parallel.cpp`: one fixed sequence per stage.

## 4. The runs

Bounds are in the `.cfg` and `MC` files. `CHECK_DEADLOCK FALSE` stands where a bounded
run or a finished program really stops: after `MaxRequests` admissions, `MaxSteps`
steps, `MaxTurns` turns, `MaxLaunches` launches, the last micro-batch,
`walk = "done"`, or an exception that ends the program. The pool and the arena never
stop, and their runs check deadlock. The longest run, `checkpoint`, takes about two
minutes with two workers.

| Run | Instance | Shows |
|---|---|---|
| `pool` | 3 pages, 2 hashes, 4 handles | `FreeListExact`, `RefsCountHolders`, `HashTableExact` and the refinement of `PageLease` under every interleaving of calls. More handles than pages, so pages are shared and the pool runs dry; two hashes, so a page is freed under one and reused under the other. |
| `scheduler` | 12 pages of 2, chunks of 2, 3 requests, three prompts without a full last page | `CachedPrefixValid`: what a request takes as cached is the K/V of its own tokens when it runs, although its page may have been leased as a hit before its owner ran. `CachedSlotsStable`: nobody overwrites it. `ImplementsTokenService`, and `EveryRequestFinishes` under fairness. Chunks shorter than prompts, prompts that share one block or two, budgets that cross a page boundary. |
| `scheduler_small_pool` | 4 pages, prompts of all kinds | the pool runs dry in the middle of `admit` and of decoding: bookkeeping exact (`PoolSound`), every page has a reference for each table entry that points to it (`NoLeaseLost`), and a registered block has its predecessors registered (`ChainUnbroken`), which is why counting the *leading* hits loses none. |
| `ddp` | 2 ranks, 2 steps of 2 micro-batches, buckets {3,2} and {1} over layers {1,2}, {3} | `GatherComplete`: what is gathered has all micro-batches of the step and nothing else. `FirstStepUsesMean`: the first AdamW reads the mean. `TrainingEnds`: no rank or stream waits for ever. A bucket spans two layers and one fires in the middle of a layer. The launch queue (`QueueDepth` 2) only bounds when the host starts its next step; one step enqueues more than that. |
| `loss` | ring of 4; CPU polling every 10th step over 61 steps; GPU polling every 1st and 3rd over 6 steps | `ReadyMeansCopied`: a completed event means no copy into that slot is outstanding, even when the writer has lapped the ring. `LagBounded`: on the CPU the reported loss is younger than `Depth` steps. In 61 steps the writer laps the ring fifteen times and the reader takes seven values; 6 GPU steps lap it once. |
| `arena` | 10 units, alignment 2, 4 tensors of up to 4 | `LiveDisjoint`, `FreeListSound`. Small enough to run out, with odd sizes that alignment wastes and three free-list entries. |
| `activations` | 16 shapes: 1 or 2 layers, K/V heads own or shared, two head and two feed-forward widths; 565 elements | in the first micro-batch `LiveDisjoint`, `TemporariesReturned`, `OwnedReadsIntact`. The capacity is just short of the largest shape's peak, so running out is reached as well. |
| `cfg` | every graph of 4 blocks with at most two targets each | `TreesExact` (both dominator trees), `QueriesExact` (`dominates`, `post_dominates`), `FrontierReconverges`, `ParentsAbove` in every intermediate tree (this is what makes `intersect` end) and `Terminates`. Four blocks are enough for irreducible loops, unreachable blocks, endless loops and several exits at once. |
| `generate` | all 8 modes, 3 models, up to 3 turns; context of 8 tokens, replies of up to 4, chunks of 2 over a prompt of 3, 3 pages of 2 | `CacheMirrorsTokens`: token by token the cache is what it should be for the conversation. `ImplementsGreedyDecoding` for the modes without speculation or graphs. `CachesSound`: pages and page table under every mixture of prefill, eager steps, capture, replay; buffers under every rollback. `FailsOnlyWhenFull`, `NothingAcceptedIsLost`, `EosEndsReply`, and `ReplyEnds` under fairness. The conversation outgrows both the context (it is cut) and the 6 slots of the pages (a reply fails). A model is a mixing function of all visible entries, with one choice in five the end token; three of them reach both ends of a reply in every mode. |
| `checkpoint` | 4 models (one parameter under two names and two shapes, and two parameters), 3 steps, a save every 2nd, 3 launches | `ImplementsAtomicSave`: a checkpoint is one step's state although its copies overlap the file writes, and a process crash at any moment leaves the last one. `HeaderMatchesTensors`, `OnlyWarmUpIsSkipped` over resumptions, `LoadFailsForCause`. Six records take three rounds of the two buffers; three launches are a save, a resume from it, and a resume from what the second launch saved or failed to save; the models make a load meet a missing, a foreign and a misshapen record. |
| `taps` | 4 lanes of 2-bit values, warps of 3, 4 and 0 (taken as 1), 3 masks, both kinds, 2 regions of interest, up to 2 passes | `HistoryExact`: the rebuilt history of a lane is what it computed. `CutFileNeverLies`: of a file cut at any cell, a reader may show less, never something else. `TapsWellPlaced`. Lanes 4 and warps 3 leave a partial warp, and a mask with one lane a warp with no active lane. |
| `ddp_stale_event` | 2 ranks, 2 steps | finding, section 6 |

Each module also states a type invariant `TypeOK`. Those of the pool, the
arena, the loss reader and `UirCfg` (in `CfgSound`) are proved; the others hold when
`INVARIANT TypeOK` is added to the module's run.

### Fairness

`Scheduler`: weak fairness of `Step`, which `run_until_done` (and any server loop) calls
while work is left, and of the call in progress, since a function runs to its end. No
fairness for `Admit` or for the driver's releases. `Generation`: weak fairness of
`Generate`, one sequential loop that waits for nobody; none for the user. `ZwtDdp`: weak
fairness of each host thread and each stream; waiting on an event or on a collective
disables a stream, so weak fairness gives nothing to a rank that waits in vain.
`UirCfg`: weak fairness of `Next`, a sequential program. The other modules state safety
only.

## 5. The proofs

**`SharedBlockPoolProofs`** begins with lemmas about the pool's operators, for an arbitrary
pool record: `Sound(q)` collects type, free list and hash table, and `EmptyPoolSound`,
`AllocateSound`, `IncRefSound`, `FindOrLeaseSound`, `DecRefSound` say that it stays so and
what becomes of the counts. The proofs about the scheduler rest on them too. The module proves
for every number of pages, every set of hashes and every finite set of handles that
`TypeOK`, `FreeListExact`, `RefsCountHolders` and `HashTableExact` are invariants, and that
the pool implements `PageLease` (`PoolImplementsPageLease`). The inductive invariant `IInv`
is the conjunction of the four. None is inductive alone: `dec_ref` frees a page at count one, which is right
only because counts equal holders; a page taken from the free list has no holder only
because the list is exact; and `allocate` resets neither hash table, which is right
only because free pages are not registered. A step is one of two shapes, so two lemmas
serve all actions: `GainIInv` (a handle gets a page) and `GiveBackIInv` (a handle gives
one back). For the refinement, `FreeIffUnheld` turns "count zero" into "no handle", and
each action maps to one action of `PageLease`, `release_all` to a stutter and then
drops. Assumed: `MaxPages` a positive natural, the sentinel not a hash, a finite set of
handles.

**`SchedulerProofs`** proves `PoolSound` of the scheduler (`PoolStaysSound`) for every page
size, chunk size, prompt set, budget and sampler, with exceptions in the middle of
`admit` and drivers that release or do not. It takes the pool's lemmas by
`INSTANCE`. The strengthening (`SchedulerSound`) adds that page tables, and the calls
in progress, hold pages, that lengths are naturals, and that a finished request has a
page; without it nothing says that what `dec_ref` is given is a page, or that a block
looked up is one the hash table has an entry for.

Two more invariants of the same module say who holds a page.

- `LeasesKept`: `NoLeaseLost`. The strengthening (`LeaseInv`) says that no page has more entries
  in page tables than references (`Counted`), that a full block of a table lies in the page
  registered under that block, and that a page registered under nothing has one
  reader (`Keyed`). The entries are a set of pairs <<request, place>>, with those of the
  call in progress, so that counting them is cardinality and not a sum. `Counted` alone is not
  inductive: a decode step takes a page from the free list, and that nobody refers
  to it follows from the count being zero.
- `ChainKept`: `ChainUnbroken`. A registered block is followed back through the table that holds
  its page, so one must exist: counts may not *exceed* entries either. An
  admission that throws leaves references without a table. `ChainInv` says that there are
  tables of full blocks for these, with which entries and references agree exactly, and
  that a table once given back is out of the count. So the theorem covers thrown admissions
  and needs no hypothesis.

The second part of the module proves that sharing is invisible: `CachedPrefixKept`
(`CachedPrefixValid`), `SlotsStayPut` (`CachedSlotsStable`) and `SchedulerServes`, the refinement
of `TokenService`. Two hypotheses are part of the statements: the sampler draws tokens
(`SamplerTyped`), and no admission throws (`AdmitsComplete`), since after one that does the
properties are false (section 6); the run has a pool that cannot run dry for the same reason. A hit
leases a page that its owner may not have filled, so no invariant can say that a
registered page holds its block. `CacheInv` says that it does *or* that a live request
(`Pending`) or the admission in progress (`Walked`) is still to write it, and that the positions a
request takes as cached are filled or pending for a request admitted earlier
(`Filled`). The first unfinished request runs, so everything before it is done and nothing
it reads is pending. That a page it writes is nobody else's follows from the counts of
`LeaseInv`. Prompts that are cached whole, which the run leaves out, are covered: their first
decode step throws before it emits anything.

**`ZwtActivationsProofs`** proves first, of `ZwtArena`, for every capacity, alignment, set of
tensors and size, that live blocks are disjoint (`TensorsDisjoint`), inside the arena
(`ArenaTypes`), below the bump pointer (`LiveStaysBelow`) and clear of the free list
(`FreeListDisjoint`). The inductive invariant (`ArenaSound`, with `Sound` of an arena and its
blocks) adds that *no free-list entry is empty*: when the pointer retracts to the start of
the topmost block, every other entry is disjoint from that block and so still below the
pointer, unless it is an empty one at the old top. `AlignUpAbove`, `BestFitFits` (the scan
returns a fitting entry, by well-founded order on the waste) and `RemoveAtKeeps` are lemmas
about the operators. No lower bound on alignment but one is needed; a bound on the requests
(`MaxBytes`) is assumed to be a natural number.

Then it proves the three properties of `ZwtActivations` for every set of shapes, any number of
layers among them, every capacity and every alignment, with no hypothesis besides the
assumptions on the constants: `OwnersDisjoint` (`LiveDisjoint`), `FirstPassReturns`
(`TemporariesReturned`) and `FirstPassReads` (`OwnedReadsIntact`), each while `pass <= 1`,
since in the second pass they fail (section 6). An invariant that lists for every instruction
which slots own a block would be as long as the program. Instead the layers are run
symbolically:

- `Leads(i, s, r)` says what instruction `i` makes of `s`, the owners and the stale ones among
  them, and leads nowhere when it could go wrong: a tensor taken that is still alive, a moved
  one that owns nothing, a kernel that writes where nobody owns or reads a stale owner.
- `Good(seq, s, r)`: there is a trace of such states from `s` to `r` along `seq`. `Then`
  joins two sequences, `TakeOk`, `MoveOk`, `KernelOk`, ... are the instructions, and each layer
  has a lemma with the owners it must find and the owners it leaves (`RMSNormFOk`,
  `SdpaBOk`, `HeadsFOk` with its two layouts, `AttentionBOk`, ...). Not one of them names a
  block or the arena. The loops over the layers are an induction over a set of numbers
  (`BlocksFOk`, `BlocksBOk`); `MicroBatchOk` is the result.
- `TakeFollows`, `MoveFollows`, `KernelFollows`, ... connect the two: in a sound arena the
  *executed* instruction does to owners and stale owners what `Leads` says, and leaves the
  arena sound. This is where disjointness matters: a kernel makes no owner stale but through
  a byte they share.

The invariant (`PassInv`) says that in the first pass the arena is sound and the state is
the one the trace has at `pc`. That the trace does not change under a running micro-batch is
`MicroBatchStays`: it depends on the shape alone.

**`AsyncLossReaderProofs`** proves for every depth of the ring and every step loop that a slot
whose event has completed has no copy outstanding (`ReadySlotsAreCopied`), with streams
that lag without bound. The property compares an event's counters with a queue of work,
and is not inductive. The invariant (`ReaderSound`) numbers the records: those of a
slot that are still in the copy queue are the newest ones, in order, each right after
the copy it stands for, and greater than what the event has completed; so
"recorded = completed" leaves none in the queue. `LagIsBounded` is `LagBounded`, the bound on
how old a reported loss is on the CPU. A slot holds the loss of the step that wrote it, so
what is taken is recent; that there is always something to take needs `TakenBehind`: the slots
taken or never written lie between the write head and the read head in the
direction of travel, and when `poll()` is called the write head has just moved.

**`GenerationProofs`** proves six properties of the generation loops, over lemmas about
the operators of the two caches, for every vocabulary, prompt, context,
page size, number of pages, chunk size, draft length and number of heads, and every model
that answers with a token of the vocabulary (`TargetTyped`, the one hypothesis of the
theorems besides the assumptions on the constants):

- `CachesStaySound`: `CachesSound`. `ReserveSound` says that pages handed out keep free
  list and table a partition, `WriteSound` that a write fills the last slots below the
  cursor and no other (two positions share a slot only if they are one,
  `SlotsDistinct`), `TruncateSound` and `UpdateSound` what becomes of a buffer.
- `CachesMirror`: `CacheMirrorsTokens`. `AppendPagedSound` says that `append()` appends
  to what `materialize()` shows whatever pages the entries lie in, and `IdealGrows` that
  causal entries after causal entries are those of the whole.
- `FailsOnlyFull`: `FailsOnlyWhenFull`, from the number of pages in table and free
  list together and `OutOfPagesMeansFull`, the arithmetic of `blocks_needed`.
- `EosStaysLast`: `EosEndsReply`, one lemma per speculative step: the scan that accepts
  drafts (`FirstOfLeast`) stops no later than the first end token.
- `AcceptedKept`: `NothingAcceptedIsLost`. The property reads the cache from the left
  (`Embeds`); the invariant is that there is *some* way to read the conversation in it
  (`Within`), which stays true when both grow (`WithinExtends`), and a reading from the
  left never falls behind any other (`WithinEmbeds`). What a rollback leaves begins with the
  accepted tokens because the batch it cuts was the choice and the drafts (`StepMtpAccepts`).
- `LoopIsGreedy`: the loops `full`, `concat` and `paged` implement `GreedyDecoding`. A
  step emits the abstract choice because the cache mirrors the conversation; every
  other mode maps to a stutter.

The invariant (`GenerationSound`) adds what the properties need of each phase: before the
first token, the caches hold the prefilled part of a prompt that fits the first
buffer and does not end with an end token; while tokens are decoded, the cursor of
`PagedKVCache` is one behind the conversation, the buffer of a speculative mode is never
empty (an empty one would be allocated anew, shorter than what is fed), and a replay
finds the cursor moved by its caller. `ReplyEnds` is liveness and stays with TLC.

**`ZwtCheckpointProofs`** proves what the run checks of checkpoints, for every set of models,
number of steps, interval, accumulation and warm-up, and any number of launches, crashes
and power losses: `HeaderMatches` (`HeaderMatchesTensors`), `WarmUpSkips`
(`OnlyWarmUpIsSkipped`), `LoadFails` (`LoadFailsForCause`) and `SavesAtomically`, the refinement
of `AtomicSave`. Assumed: a model has a parameter and no two of one name; the marks
for no file and cut files are not themselves files or contents. Steps may still be queued
when a save begins, so what a tensor holds *now* is not what is written. The invariant
(`CheckpointSound`) speaks of `Lesson`, what the tensors will have learned when the
stream has run:

- While a checkpoint is saved (`CopiesUnderWay`), the stream has one of three shapes, both
  copies behind the steps, one copy, or none, and a buffer the loop is about to write holds
  the lesson as soon as its copy is gone from the stream; so every record holds
  it, although the buffers take turns.
- While one is loaded (`Loading`), a tensor found holds what the records hold, or has its
  copy queued from a buffer that does.
- A file on disk (`FileSound`), whole or cut, has the first records of one model, of the step
  and cursor in its header (`Learns`).

The queue's work is `FlattenSeq`, a fold; its laws (`FlattenAppend`, `FlattenHead`) are proved
by induction over a set of numbers, which needs no operator as a parameter. `LoadFails`
rests on counting: a file with as many records as the model has tensors, of distinct names
that the model has, misses none (`SameTensors`). In the refinement a `TrainStep` is
`Learn`, `SaveClose` (the rename) is `Save`, every end of a launch is `Crash`, `LoadDone` is
`Resume`, and all else, the device's steps included, is a stutter.

**`ZwtDdpProofs`** proves the two safety properties of the data-parallel step, `GatherKept`
(`GatherComplete`) and `FirstStepMean` (`FirstStepUsesMean`), for any number of ranks, gradient
sizes, bucket size, layers, micro-batches, steps and depth of the queues. Assumed of the
constants (`DdpAssumption`, `LayersAssumption`): there is a parameter and a micro-batch, a
gradient has at least one byte, a layer has at least one parameter, and each parameter is in
exactly one layer. Neither property is inductive: each speaks of the operation at the head of
a stream, which was enqueued long before, when the gradients held something else. The
invariant (`DdpSound`) therefore says what enqueued work *will find*.

- `Yields(q, g, p, k, V)`: when the first `k` operations of the compute stream `q` have run on
  the gradients `g`, that of parameter `p` is `V`. `GatherOk` says so of the place of every
  gather, `EndOk` of the end of the queue, where the host will enqueue the next. That a bucket
  fires after the last of its parameters is `MgrOk`: its counter is the number of parameters
  not yet signalled, and those signalled have all layers above them behind them.
- The ranks meet only in collectives, which are matched by number; that the n-th one is of
  the same bucket everywhere is proved from `Turn`, the order in which the layers complete
  buckets, which does not depend on the rank. `TurnOk` says so of the gathers enqueued,
  `CommAt` of the comm stream, `StagedOk` and `SentOk` of the staging buffers and what is
  in a collective. Of all steps only `FinishAllReduce` uses the invariant of another rank.
- `SyncOk`: in the first step each bucket has fired when `sync_and_finalize` enqueues its waits,
  so each wait is for a record that exists (`CountOk`) and holds back the scatters. Hence
  `ScatterOk`, AdamW finds every bucket scattered with the mean, and `UsedOk`. From the
  second step on the waits are for records of the first (section 6), `SyncOk` is false,
  and the theorem stops where the run does.

One lemma per conjunct says that it stays true when a stream takes the head of its queue
(`GatherPop`, `TurnPop`, ...) and when the host appends (`YieldsJoin`, `JoinLate`, ...). That
`build_buckets_` puts every parameter in exactly one bucket and leaves none empty is proved
by induction over the number of parameters placed, as a set of numbers (`Induction`).

**`OmniTraceProofs`**, first part, proves that `build_cfg` is right on every graph of every number of blocks,
with every kind of terminator: `ParentsStayAbove` (`ParentsAbove`), `TreesAreExact`
(`TreesExact`), `QueriesAreExact` (`QueriesExact`) and `FrontiersReconverge`
(`FrontierReconverges`). Assumed: there is a block, and terminators name blocks. The
invariant (`CfgSound`) has a part per loop.

- `Searching`: the stack of the depth-first search is a path; a node it has left has all its
  successors seen, and an edge from a node that is left later. Hence `DomsNumber`: a
  dominator has no smaller postorder number than what it dominates, since some path to
  any node runs through greater and greater numbers.
- `Tree`: in every intermediate tree a parent has the greater number, and every strict dominator of
  a node dominates its parent. This bounds the tree from one side only: early in
  the sweeps a parent may be far from dominating its child.
- `Visiting`: every strict dominator of the visited node dominates both fingers, and one of
  the two is on the way up from each predecessor looked at. `FingerMoves` shows that the lower
  finger is not a strict dominator itself while the two differ, by the numbers, so its move
  loses none.
- `Sweeping`: as long as a sweep has changed nothing, the parent of each node it passed is on
  the way up from all its predecessors.

In a sweep that ends without a change the last part holds of all nodes, and then parents do
dominate (`SettledIsExact`): a path around the parent would have to enter the nodes below
it over an edge. The tree is exact however many sweeps it took. `AncIsDoms` says the
same of the whole way up, which is what the queries walk.

Both walks use the same lemmas, which speak of `Out`, `In` and `Root`. `ForwardExact` and
`ReverseExact` carry the result back to paths of the graph: a path from the virtual exit
in the reverse graph is a path to an exit (`ReverseDoms`). Induction is over a set of numbers.
That the sweeps stop is `Terminates`, which stays with TLC.

**`OmniTraceProofs`**, second part, proves the three properties of the trace pipeline,
`TapsStayWellPlaced` (`TapsWellPlaced`), `HistoryIsExact` (`HistoryExact`) and
`CutFileTellsNoLies` (`CutFileNeverLies`), for every function of the kind
`ProgramAssumption` describes, any region of interest, number of lanes, mask, warp size and
number of bits of a value, and any number of runs of the capture pass. Assumed besides
(`CodecAssumption`, `CaptureAssumption`): a width fits its field (`2^WidthBits > ValueBits`; 6
and 32 in the code), there is a lane, a mask has a flag per lane, and what a captured
instruction computes fits a value. `HistoryExact` speaks of the end of a chain of steps
and holds only because of what each earlier one left behind. The invariant (`TraceInv`)
therefore has a part per link, each a closed form:

- `CodeInv`: the code is the program, or the program with one tap behind each captured value
  (`TappedCode`), and then the table of sites numbers those values in layout order. `FirstPass`
  is the pass on the bare program; `LaterPass` shows that a further pass finds each value
  already tapped and changes nothing. That what runs in order is what stands in order
  (`ExecutedAll`), so that the taps report the sites in the order of their ids (`SinkIs`), is
  where the place of the returns is needed.
- `RunInv`: the column of a site holds what its value is in each lane run so far.
- `StoreInv`: the writer holds the coded columns of the first sites; the file is all of what
  it packs, or a prefix.
- `ReadInv`: an open reader holds the directory of the file, and the timeline what `StepsOf`
  reads for its lane.

What ties the links together are three lemmas about the operators. `CodecExact`: what is
decoded is what was encoded, with zeros for the inactive lanes. It rests on
`WarpRoundTrip` for one warp in either mode (a base and residuals come back because a residual
fits the width written, `WidthFits`, and because `Xor` undoes itself, `XorTwice`), on
`NumeralOfBits`, and on the warps covering each active lane exactly once (`WarpsCover`).
`ReadWhole`: in a whole file the directory's offsets are where the blobs are
(`PackedIs`), so each site finds its column. `ReadCut`: a cut file that opens is so short
that no directory entry has a length. For if it held the first offset, which
points behind the directory, it would hold the whole directory, and the last entry would
end where the whole file ends. A reader of a cut file thus shows an empty history, which is
more than `CutFileNeverLies` asks.

The operators are recursive functions and `FlattenSeq`; the laws about them are proved by
induction over a set of numbers or of sequences (`SequencesAll`).

### Left to TLC

- Liveness under fairness: `EveryRequestFinishes`, `ReplyEnds`, `TrainingEnds`, `Terminates`.

## 6. What the code does differently from what it says

One disagreement has a run that shows it; `PROJECT.json` quotes the lines.

- `ddp_stale_event`: `fire_idx` is never reset, so `bucket_done_` is recorded in the first
  step only and later scatters and AdamW are not ordered after their all-reduces. `ddp`
  therefore checks the mean for the first step.

Four more are the reason for a restriction of a passing run, and are reproduced by
lifting it in the configuration:

- A prompt that is cached whole is never sampled from; its first decode step feeds token
  -1. `scheduler` therefore uses prompts with a partial last page. (`Scheduler.cfg` with
  `Prompts <- AlignedPrompts`, `DriverReleases = FALSE`, `MaxRequests = 2`, invariant
  `DecodeInputIsToken`.)
- zwt: inputs saved as views outlive their owners, and backward reads memory that has been
  recycled. `activations` therefore claims intact reads only for owned tensors.
  (`ZwtActivations.cfg` with invariant `ReadsIntact`.)
- zwt: from the second micro-batch on, members assigned again free blocks of the pass
  before into the reset arena, which then hands memory out twice. `activations`
  therefore runs one micro-batch. (`ZwtActivations.cfg` with `MaxPasses = 2`,
  `Capacity = 2000`, `Shapes <- One`, invariant `OwnedReadsIntact`.)
- `speculative_decode.cpp:19`: the result is said to be bit for bit that of the big model
  alone. A verification batch over a `KVCache` is attended without a causal mask, rejected
  drafts stay in the cache, and the loop stops at a token it has appended but goes on from
  the last of its batch. `ImplementsGreedyDecoding` therefore leaves this mode
  out. (`Generation.cfg` with `Modes = {"library"}`, invariant `LibraryReplyIsGreedy`.)

The others were met while modelling; the hazards name their lines.

Serving and generation:

- `scheduler.cpp:241-256`: an `admit` that throws leaves its pages leased and registered
  although nothing will fill them; a later prompt with that prefix takes them as cached.
  `CachedPrefixValid` is checked with a pool that cannot run dry.
- `scheduler.cpp:274`: the first unfinished request gets every step until it is done;
  `scheduler.hpp:82` says that each advances every four steps. Requests still all finish.
- Speculation in the chat tool: each path prefills the whole conversation and then feeds its
  last token again, which leaves a second entry for it; the rollback of the MTP step keeps
  one entry of a rejected draft; a drafted end token is accepted unverified; a tree's
  nodes see their seed and nothing of the conversation; the two-model step compares
  each draft with the choice that *follows* it, and returns without rolling back when
  its first choice ends the reply. What remains true, and is checked, is that no accepted
  token is lost and that replies end. A tree fanout of 0 would not end
  (`GenerationAssumption`).
- Graph mode: capturing records a step and runs nothing, so the token sampled after it comes
  from logits nobody wrote and the captured slot stays empty; the position in the graph is
  read after the cursor moved.

Training:

- `transformer.cpp:90` (zwt): the parameters of a layer are signalled in forward order and
  bucketed in reverse, so buckets do not fire in bucket order as `comm.cpp:43` says. The order
  is the same on every rank, which is what the collectives need.
- `async_loss_reader.cpp:66`: nothing makes the next `zero_()` wait for the copy, so a logged
  loss can be that of the zeroed tensor; and once the writer has lapped the read head, the
  slot there is not the oldest (`async_loss_reader.hpp:49`), polling every step or not
  (`train.cpp:969`).
- zwt checkpoints: no write is followed by `fsync`, so a power loss can leave an older or a
  cut file at the final name; `LoadFailsForCause` and `AtomicSave` allow exactly that.
  A file with more records than the model is refused, although `training/README.md` says
  extra records are skipped; tensors are overwritten record by record while the file is
  still being validated, although `checkpoint.hpp:18` says otherwise (the exception
  ends the program, so nobody trains on the mixture). Each launch with graph
  capture drains three batches unused, so a resumed stream does not continue "from the
  next chunk". The final save writes `max_steps` as its step even when the run was resumed
  beyond it. Parameters named `w` and `w.m` would collide in the loader's table
  (`CheckpointAssumption` excludes it).
- olmo checkpoints: `prune()` orders tags as strings, so `step_1000` counts as older than
  `step_250` and the newest may be deleted; `latest()` may choose a directory whose save a
  crash cut short; `load` leaves the optimiser alone although `train.cpp:782` says it is
  restored; an asynchronous save writes parameters only.

OmniTrace:

- `cfg.cpp:90`: `dominates(a, b)` for a block `b` no path reaches indexes its tree with -1.
- `trace_store.cpp`: a file whose `write` returned false stays where it is; cut inside its
  directory it still opens when the zeros read beyond its end make harmless entries, with
  columns missing.
- `instrument.cpp:23`: a second `insert_taps` with the same region of interest adds nothing
  and returns an empty table; one with another region starts ids at 0 again, and
  `column_by_site` then finds the first column only. `TraceCapture` keeps one region per
  function.

## 7. Not modelled

- Arithmetic: kernels, optimisers, models, the small models; nothing but data.
- Format translation: SPIR-V, configuration, tokenizers, formatting.
- Driver and compiler calls: Vulkan capture, the oracle's subprocesses.
- Scripts of the pipeline; tools that prepare or mine data.
- olmo's distributed wrappers, pipeline schedule and checkpoints, and zwt's rendezvous, for
  the reasons in section 3. In the rendezvous the server counts connections, not ranks,
  and accepts without a time-out: a rank that connects and dies is counted, and one that never
  connects leaves the others waiting.
- Of the modelled components: hash collisions of the page hashes; `mark`/`rewind` (no
  caller) and `PoolAllocator` of zwt's allocator; `flush` of the loss reader (no caller);
  `forward_residual` and tensor-parallel layers; what a captured training graph replays;
  a rank that dies in a collective (nothing recovers from it); INT4 pages and the layers
  other than the leading one of the paged cache; sliding-window attention; sampling
  with a temperature; retrieval and templates of the chat tool; `data/` loaders, whose sources
  are not in the repository (the checkpoint's resume position is modelled from their use).
