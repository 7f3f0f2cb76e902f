# ggmlc: TLA+ models and proofs

This directory is a verification development of ggmlc. It covers the two parts
of the program that carry its own logic: the serving core of the C++ runtime
(physical pages, the paged KV cache, the radix prefix tree, the continuous
batching scheduler), and the compiler (the importers of JAX and PyTorch programs,
the graph passes, lowering to the ggml dialect, memory planning). It holds TLA+
modules written from the code, TLC configurations that check them on small
instances, and TLAPS proofs for instances of any size. Paths below are relative
to `src/` unless they name a module; `python/` stands for `python/ggmlc/`.

## 1. Inventory

### The system

The Python side imports a model into a canonical graph, runs passes over it,
lowers it to operators of ggml, plans memory and writes a GGUF file (or C++). The
runtime loads the file, builds ggml graphs for concrete shapes and executes them.
For serving, a continuous batching scheduler drives the executor; the executor
keeps each request's keys and values in pages that a VMM block manager maps into
per-slot windows of virtual addresses; a radix tree remembers which prefixes of
prompts have pages already.

| Component | State | Operations | Talks to |
|---|---|---|---|
| VMM block manager (`runtime/src/vmm_pool.cu`) | `handle_refcounts`, `mapped_pages`, `prefix_page_table`, `free_pages_pool`, `max_warm_pages`, `prealloc_pages`, `total_mapped_physical_bytes` | init, alloc, retain, release, map, unmap, get/register/evict prefix, configure, drain, reset | CUDA driver; called by the executor |
| Paged KV slots (`runtime/src/executor.cpp` 602-920) | `paged_slots_` (active, pages per layer) | alloc slot, ensure tokens, map existing pages, extract handles, free slot, reset | block manager; called by the scheduler |
| Radix tree (`runtime/src/radix_tree.cpp`) | nodes with tokens, handles, `ref_count`, `last_accessed`; tick | match, retain, release, insert, evict, reset | called by the scheduler |
| Batching scheduler (`runtime/src/batch_scheduler.cpp`) | all requests, `pending_queue_`, `active_slots_`, caching flag, buckets | add_request, step, enable caching, destructor | executor, tree; called by `ggmlc-run serve` and Python |
| Op lowering of the executor (`executor.cpp` 1797-2848) | none: one ggml call or a few per operator | translate | ggml |
| Graph bucket cache (`executor.cpp` 922-1650, 2846-3060), CUDA graphs (`cuda_graph.cu`) | prepared graphs by shape, captured graphs | prepare, stash, activate, run | ggml backend, CUDA |
| JAX importer (`python/frontend/jax/importer.py`) | known values, tensor of each variable, permutations, the graph | one branch per primitive, nested calls in place | graph |
| PyTorch importer (`python/frontend/pytorch`) | tensor of each node, constants, aliases, the graph | placeholders, containers and parts, aliases, constants, operators, decompositions | graph |
| IR (`python/ir`) | tensors, operations in order, inputs, outputs | construct, query, validate | everything in the compiler |
| Graph passes (`python/transforms`) | the graph | constant folding, fusions and bakings, redundancy, dead code; the manager | compiler, exporter, lowering |
| ggml lowering (`python/dialect/ggml/lowering.py`) | the lowered graph | translate, fold dimensions, promote types, turn weights round | compiler |
| Memory planner (`python/memory`) | live ranges, active intervals, offsets | liveness, first-fit placement | compiler |
| Loader, kernels, tokenizer, image code, tools, bindings; codegen, serialization, quantization, pipelines, generator, validation, CLI | tables, files; the generator its KV position | parse, translate, compute, write | each other |
| ggml (`third_party`) | vendored | | |

### What is hard, and what makes each part correct

* **Block manager.** No concurrency inside, but three owners of one page
  (clients, addresses, the prefix table), failure of allocation in the middle,
  a pool with a limit, and three ways out for a page (to the pool, to the driver,
  by reset). Correct when a pooled page is nobody's, when the count covers the
  holders, when the driver's pages are exactly those the manager knows, and when
  the byte counter is what is mapped.
* **Paged KV.** Bookkeeping and mapping are changed by separate calls. Correct
  when the two agree, when a page is in one place unless it is shared on purpose,
  and when nothing stays mapped without work.
* **Radix tree.** Counts against holders over several ways to end, eviction that
  changes what is a leaf, hash collisions. Correct when it is closed under
  prefixes, spares nodes in use and returns a prompt's own pages.
* **Scheduler.** One long function with many exits: a request is admitted,
  prefilled, decoded and retired in it, and the caller may add requests, reset
  the cache or switch caching between any two calls. Correct when every request
  is served once, in order, within its budget, to its end.
* **Memory planner.** The planner forgets intervals that ended and reuses their
  bytes. Correct when no operation writes over a tensor that is still read, and the
  arena costs no more than separate tensors would.
* **Graph passes.** Each of fourteen fusions matches a pattern by the shape of the
  graph around it, removes operations it believes nobody else reads, overwrites
  weights other layers may share, and runs on what the others left. Correct when
  after every pass the graph computes what it computed, and still runs.
* **Importers and lowering.** Every primitive is translated to operators of another
  algebra (four dimensions, innermost first, broadcasting in one direction), with
  views, aliases and compile-time values in between. Correct when the executor
  computes what the framework computes, in the shapes that were declared.
* **Graph cache, CUDA graphs** (not modelled). Stale state: a graph reused after its
  shape, views or cache have changed.

`PROJECT.json` lists all components, also the ones left out with the reason, and
under `hazards` the places found where this code is hard to test, with the
property that covers each or why none does.

## 2. Modules

Runtime:

| Module | What it is |
|---|---|
| `VMMPool` | state of the block manager as a record, each operation as an operator on it |
| `VMMBlockManager` | state machine: the manager under clients that keep its contract |
| `PhysicalPages` | abstract specification of a supply of pages, implemented by `VMMBlockManager` |
| `RadixTree` | state of the tree and its operations |
| `RadixCache` | state machine: requests that match, retain, insert and release, with eviction and reset between |
| `PrefixCache` | abstract specification of a cache of prefixes, implemented by `RadixCache` |
| `PagedKV` | the executor's slots, on top of `VMMPool` |
| `BatchScheduler` | state machine: the scheduler composed with `PagedKV`, `VMMPool` and `RadixTree` |
| `FifoService` | abstract specification of first-come first-served service, implemented by `BatchScheduler` |
| `GgmlRuntime` | what the executor computes for a lowered graph: its choice of ggml calls and their meaning on four dimensions |

Compiler:

| Module | What it is |
|---|---|
| `TensorAlgebra` | meaning of the canonical operators, in exact arithmetic |
| `GraphIR` | the canonical graph, the questions passes ask of it, its validation and what it computes |
| `NormFusion`, `ActivationFusion`, `LinearFusion`, `AffineBake`, `CleanupPasses` | each fusion and pass as a function from graph to graph |
| `GraphPasses` | state machine: the pipeline at export, again in the compiler, and the fusions at lowering, one fusion a step |
| `PassConditions` | what a graph has to be for a pass to be right about it: regular, orderly, tame |
| `PassSources` | the graphs the passes are checked on, and their variations |
| `GraphBuilder` | what both importers share: adding tensors, operations and constants |
| `JaxPrograms`, `TorchPrograms` | a traced program and what the framework computes for it: the reference |
| `JaxHandlers`, `TorchHandlers` | the branch of each primitive, the decomposition of each operator |
| `JaxImporter`, `TorchImporter` | state machines: the importers, one equation or node a step |
| `GgmlLowering` | `lower_to_ggml` without the fusions |
| `MemoryPlanner` | state machine: liveness analysis and placement |

Proofs (section 6): `VMMBlockManagerProofs`, `RadixCacheProofs`, `SchedulerProofs`,
`MemoryPlannerProofs`, `GraphPassesProofs` (what the passes leave can run) and
`GraphResultsProofs` (it computes the same); and two modules of lemmas, `VMMPoolLemmas`
(what each operation of the manager does) and `NumberLemmas` (induction, minima, loops,
sums over finite sets). `MC*` modules and configurations give TLC the constants.

Loops of the code in modules that are proved about are recursive functions: `Loop` in
`PagedKV` gives the state after each number of steps, `Filtered` in `GraphIR` what is
kept of each beginning of a list, `OverNodes` folds a pass over the operations, and a
graph is evaluated by such a function of the operations done.

`VMMPool`, `RadixTree` and `PagedKV` are records with operators rather than
variables with actions because the scheduler calls several of their operations
in one step; the same definitions are checked under arbitrary clients
(`VMMBlockManager`, `RadixCache`) and under the real one (`BatchScheduler`). The
passes are functions for the same reason: the pipeline runs each of them up to three
times.

### Correspondence with the code: runtime

* **Atomicity.** The scheduler and everything below it run on one thread and
  give no control away inside an operation, so one call is one step, except
  `step()`: each iteration of its admission loop is a step (`Admit`), the return
  after the loop another (`ReturnFromStep`), the decode part a third (`Decode`).
  `AddRequest`, `EnablePrefixCaching`, `ResetKVCache` and `Destroy` are enabled
  between calls only (`Idle`); the flag `admitted_any` is the code's local.
* **Pages.** One page of `PagedKV` stands for the K and V pages with one index of
  all attention layers, which the code always handles together. A page is a
  handle; what is in it is not modelled. (In `RadixCache` a page is represented
  by the tokens its contents depend on, so that "the right page" has a meaning.)
* **Prompts** are sequences of full pages of tokens; tokens behind the last full
  page only make the prefill longer. Which token is sampled matters only in that
  it may be the end-of-sequence token: a nondeterministic bit.
* **Tree nodes** are named by the hashes on their path, so the code's pointers
  `parent` and `children` are the path's prefixes and extensions. The hash is a
  constant, any function of a page's tokens.
* **The driver.** `cuMemCreate` returns any page the driver does not have in use,
  or fails; physical memory stays while it is mapped, as CUDA documents. In
  `BatchScheduler` creation fails only when every handle is in use, and there are
  enough handles; with failing creation the manager alone is checked.
* **Clients of the manager.** `held` in `VMMBlockManager` is what the clients
  know: references they were given. The contract (release what you hold, map and
  register what you hold, unmap before you give up the last reference) is what
  the executor does; nothing in the manager enforces it.
* **Left out of the modelled parts:** `paged_kv_alloc_slot` with a prefix hash (no
  caller passes one, and nothing registers a page in the executor's manager),
  exceptions of `prepare` and `run`, prompts longer than a slot's window, token
  positions inside a page, the counters of statistics.

### Correspondence with the code: compiler

* **Values.** A tensor is a shape and a residue modulo 31 for every index. The laws
  the passes use (distributivity, splitting a sum, dividing by a count) hold
  exactly there, while floating-point rounding, which is no matter of the passes'
  logic, is absent. Square root, exponential and the like are fixed polynomials of
  which no law is used: a pass may move or fuse them, and a pass that applied one to
  the wrong operand shows a different residue. Constants of the patterns (the 0.044715
  of GELU, epsilon) are numbers of their own.
* **A fused operator computes what its parts compute**; that the kernels do is not
  checked.
* **Passes.** A function follows its Python function: the order of the scan, the
  match, the tests on readers and outputs, the operands that are rewired, what is
  removed, and the ids of new operations. A pattern that fails is left for the next
  round. `GraphPasses` runs `Stages`, the standard pipeline twice and the fusions once
  more, since export, the compiler and lowering each run their own; the manager's
  validation can end the compilation.
* **The planner** is one step per operation scanned and per tensor placed, as the two
  loops go.
* **Importers.** A step takes one equation (JAX) or node (PyTorch) with everything its
  branch does: known values and dimensions, operands reshaped or turned, operations
  emitted, the result's tensor and permutation. Calls of nested programs are
  imported in place. When all are done the graph is lowered and run by `GgmlRuntime`,
  and its outputs are compared with those of the program by `JaxPrograms` or
  `TorchPrograms`, which know nothing of the importer.
* **Not in the programs or left out of the branches:** symbolic dimensions; for JAX,
  literals are of type F32, `select_n` has no literal operands, images have four
  dimensions, evaluating an equation at compile time never raises (the code would fall
  back to its handler), the clipping of masks at -10000 and the two rewrites of large
  graphs (last logits only, quantized products) are left out; for PyTorch, tensors have no
  types, batch norms have their statistics and weights at hand (`importer.py` 1501-1518
  makes up what is missing), attention is neither causal nor given a scale (1060-1071),
  and `linspace`, `argmax`, ROPE, the gated delta net, attention masks and the `alpha` of
  additions are left out. The lookup of an operator by part of its name (`operators.py`
  135) is modelled by the opcode it returns.

## 3. What TLC checks

Passing runs:

| Run (cfg) | States | What it shows |
|---|---|---|
| `vmm_manager` (`MCVMMBlockManager`) | 44,645 (symmetry on pages) | `WarmPagesUnused`, `CountCoversHolders`, `MappedPagesCounted`, `DriverAccounting`, `MappedBytesExact`; the manager implements `PhysicalPages` |
| `radix_cache` (`MCRadixCache`) | 124,019 | with prompts that do not collide, and look-ups that may collide with them: `RefCountIsHolders`, `PrefixClosed`, `TicksDistinct`, `MatchedPagesAreForPrompt`; the tree implements `PrefixCache` |
| `scheduler` (`MCBatchScheduler`) | 480,826 | with prefix caching switched on and off, a warm pool, batch buckets and a reset at any moment: `RequestsConserved`, `TokenBudget`, `NodeRefsAreRequests`, `NothingMappedWithoutWork`; as long as nothing is cached `BookkeepingIsMapping`, `PagesExclusive`, `RunningRequestsBacked`; the scheduler implements `FifoService`; `EveryRequestEnds` |
| `memory_planner` (`MCMemoryPlanner`) | 109,200 | every graph of five operations, with two constants: `NothingOverwrittenWhileNeeded` (of the results of operations), `LiveTogetherApart`, `AlignedInsideArena`, `PeakBetweenBounds`, `EveryActivationPlaced` |
| `graph_passes` (`MCGraphPasses`) | 46,158 | every pattern in every order of its operands, read or returned in the middle (but for the graphs listed below), under all fusions, the safe ones, each alone and all but each: `SameResults`, `Executable` (no pass raises, either), `Recognized`, `NothingDead`, `Settled`; `SafeCasesInOrder`, that the hypotheses of the theorems about the passes hold |
| `jax_import` (`MCJaxImporter`) | 201 | 28 programs, each the shape a kind of layer has when JAX traces it, some of which the importer refuses: `SameOutputs`, `DeclaredShapes`, `RefusedForReason` |
| `torch_import` (`MCTorchImporter`) | 161 | 18 programs as `torch.export` gives them: `SameOutputs`, `DeclaredShapes` |

Runs that find a disagreement between the code and what its documents, comments
or tests say (each is a finding in `PROJECT.json`, with the quotation):

| Run | Violated | What the code does |
|---|---|---|
| `radix_collision` | `MatchedPagesAreForPrompt` | a prompt is inserted below the page of another one with the same hash, and a look-up then matches pages computed behind other tokens (`radix_tree.cpp` 105) |
| `scheduler_sharing` | `PagesSharedOnlyByPrefix` | the tree keeps handles without references; after their request ended they are given to another one while the tree still hands them out |
| `scheduler_leak` | `NoPageLeaked` | cached pages mapped into a slot that was backed as padding overwrite its own handles, which are never released |
| `column_softmax` | `SameResults` | a softmax over another dimension than the last is fused as one over the last (`fusion.py` 1195) |
| `torch_heads` | `SameOutputs` | `repeat_interleave` is computed by tiling, which scrambles the heads of grouped-query attention (`operators.py` 113), the pitfall that `docs/guides/troubleshooting_and_debugging.md` warns of |

Because of `scheduler_sharing`, three properties about pages say something only as long as
no prefix is in the tree (`NothingCached`), whatever is configured; those of requests,
nodes and service always do. Every passing property has a mutant in `PROJECT.json`: a
plausible bug of the modelled code (defined in the module, in front of the
definition it changes) under which TLC finds the property violated.

### Where the passing runs stop

The passing runs keep to inputs on which the code is right. What was met beyond them:

*Runtime.* The pre-allocated reserve shrinks when `max_warm_pages` is smaller than it
(`vmm_pool.cu` 228). `insert_prefix` descends by hash alone and hangs pages under a node
for other tokens, where `match_prefix` compares tokens (`radix_tree.cpp` 105, the run
`radix_collision`); hence the prompts of `radix_cache` do not collide with each other.
What is looked up there may collide with any of them, which is where the comparison of
tokens matters: without it (the mutant) the property fails. A slot at or above the largest
batch bucket is never decoded (`batch_scheduler.cpp` 91), so the largest bucket of
`scheduler` is `MaxBatch`. Decoding backs the empty slots of the batch, which stay mapped
until no request is active (`batch_scheduler.cpp` 306). `register_prefix_page` over an
existing key keeps the old page's reference (`vmm_pool.cu` 301); the clients of
`VMMBlockManager` do not do it.

*Graph passes.* Ten graphs in `MCGraphPasses` are defined but not among the cases; on
each a property fails:

| Graph | Where | What happens |
|---|---|---|
| `SharedSoftmax` | `fusion.py` 1196, `manager.py` 70-90 | the exponential of a softmax is removed though read elsewhere, and nothing validates the operand left dangling |
| `SharedBiasGelu` | `fusion.py` 1093 | the linear operation before GELU loses its bias though its result is read elsewhere |
| `ReturnedConv`, `ReturnedNorm` | `fusion.py` 792, `affine_bake.py` 76 | the unfused result is an output of the graph, and its operation is removed |
| `TwoScaled` | `affine_bake.py` 233 | a scaled activation read by two layers is baked into the first, and its operation removed before the second |
| `OneBias` | `affine_bake.py` 133 | what the norm adds is added to a bias once for each of the layers that share it |
| `TwoLayers` | `fusion.py` 1287, 1341-1345 | the weights of projections are dropped when the first layer that uses them is fused, and the second layer has none |
| `ThereAndBack` | `fusion.py` 1563-1594 | an attention transposed there and back: the first transposition is folded into it by one run of the fusions, the second by the next, which only sets the same attribute again |
| `PartOfThree` | `fusion.py` 1528 | two of three parts of a split are taken for halves |
| `Columns` | `constant_folding.py` 131 | a concatenation is folded along `axis`, where operations carry `dim`: constants side by side end below each other |

`Recognized` leaves out the sums that add epsilon from the left (`EpsilonFirst`): the
norm fusions look for the variance in the first operand only; and of attention and stacked
projections there is no second order of operands to find.

*Memory planner.* `liveness.py` 74 counts CONSTANT tensors as reclaimable. Nothing writes
them, so their first use stays the number of operations, behind their last (75, 87): the
planner places all of them last, at offset 0, over each other and over whatever result is
there, where `docs/ir/canonical_ir.md` 160 says that the memory of constants is not arena
reusable. The graphs of the run have two such tensors, and the properties speak of the
results of operations only. In the repository only tests and the benchmark read a plan's
offsets, the runtime does not.

*JAX.* `Unfaithful` in `MCJaxImporter` holds programs on which a property fails: integer
powers above the third (`Fourth`), any `pow` but a square (`ThirdPower`;
`docs/reference/operator_reference.md` 16 promises more), `max` of two tensors (`Maximum`:
RELU), a kernel shared by two layers, which the second finds turned round
(`SharedKernel`), products contracted over first dimensions (`Contracted`), strided
slices, sums over windows, a lone pad, `ge` as a value. Imports of a `split` before any
branch that defines its helper (`LoneSplit`), of a pad on the other side of a call than
its reader (`PadOutside`, `PadInside`) and of a program that returns its input
(`InputReturned`) raise; these are in the run, and `RefusedForReason` says that there is
no fourth such reason besides a primitive without lowering. Beyond these: `reduce_window`
pads low only, `reduce_and` and `reduce_or` take their first axis only, a condition known
at compile time is decided by its first element, a dynamic start is 0, comparisons are
exact for differences of whole numbers only, `or` is MAXIMUM, `rev` TRANSPOSE, `erf` GELU
and `not` NEG, and several documented primitives (`clamp`, `softmax`, `expand_dims`,
`take`) raise.

*PyTorch.* `Unfaithful` in `MCTorchImporter`: `repeat_interleave` (`Heads`), a permute in
five dimensions with an inner one of size 1 (`OneToken`), `select` with more than one
leading entry (`FirstTokens`), `unbind` of a negative dimension (`LastPart`), uneven
`chunk`, comparisons of two tensors and fills taken for masks (`Comparison`, `NewZeros`,
`FullLike`), `clamp_max`, `maximum`, the step of a slice, the dimension of a softmax, a
vector as long as the channels (`RowBias`), `gather`, `pad`; returning a copy of an input
is refused. Beyond these: negative `select`, `amax` and `amin` become sums, `minimum`
copies, the epsilon of some batch norms is lost, powers other than 2 and 3, reductions
without dimensions, grouped one-dimensional convolutions, adaptive pooling to more than
one element, transposes beyond four dimensions, `addmm` with a computed square weight.

### Bounds

* *Manager:* three pages, two addresses, two prefix keys, at most three
  references per page (`MaxRefs`), warm sizes and pre-allocations 0 and 2. A page
  can be pooled, shared, mapped at both addresses and registered under both keys
  while another is handed out and a third is in the pool; the theorems remove
  these bounds.
* *Tree:* three contents of a page, two of which have one hash, prompts of at most two
  pages, two requests at a time, evictions of one and two nodes, at most 12 ticks
  (`MaxTick`): enough for every branch of a path of two pages, for a node in use beside an
  unused one, and for several rounds of insertion and eviction. The theorems remove these
  bounds.
* *Scheduler:* two slots of two pages, three requests (`MaxRequests`; the third is
  admitted into a used slot while another runs), one reset (`MaxResets`), budgets of none
  (a request that ends on admission) and three tokens, a warm pool of one page (so that
  pages come from it, go to it and go past it), buckets of one and two. The theorems
  remove these bounds.
* *Planner:* every graph of five operations with one or two operands each, one of them
  recent, with sizes below the alignment and no multiple of it, and one tensor of half
  width, and two constants: blocks are reused, split around and left as gaps. The theorems
  remove the bounds.
* *Passes:* tensors of two or three elements in a dimension; every pattern once, or twice
  where layers can share a tensor. A pass matches by the neighbourhood of an
  operation, which these graphs vary: operands swapped, one more reader at each
  intermediate result, each intermediate result returned.
* *Importers:* each program is run with one choice of values, in which all elements
  differ and dimensions have different sizes where the program allows, so that a
  wrong axis, order or broadcast changes the result. These runs are
  sequences of states, one for each program: their breadth is in the programs.

### Fairness

`FairSpec` assumes only that `step()` goes on being called while it can do
something, and that a begun call returns. This is what the callers do: the serve
loop (`runtime/tools/ggmlc_run.cpp` 534) and the tests call `step()` while
`has_work()`. Nothing is assumed of the end-of-sequence token (a request ends by its
budget at the latest), nor of the arrival of requests. It is weak fairness of
`ReturnFromStep` and of `Step`, the latter with its enabling condition written out as
`StepCanAct`, since TLC takes very long to evaluate ENABLED of the composed step;
that the two conditions agree was checked on a small instance. Liveness is checked
for three requests; with an endless stream of requests that end on admission, a
step that admits never decodes and running requests starve, which the code
accepts. The compiler's modules state no fairness: their loops are over finite
lists, and their properties are about what a step does and how it ends.

## 4. Abstract specifications

`PhysicalPages` says a page is handed out only when nobody refers to it and no
address shows it, stays backed while someone refers to it, and is given up only
when it is shown nowhere; pooling, counting and the prefix table are hidden.
`PrefixCache` says a request gets the longest remembered prefix of its prompt and
keeps it until it is done. `FifoService` says requests start in order, each once,
at most `Capacity` at a time, and that running ones progress only when nothing
could start. Each is a PROPERTY of a run under a refinement mapping given with
INSTANCE, and all three refinements are proved. For the compiler the abstract
specification is a function: what the graph or the program computes.

## 5. Only model-checked

* *Liveness* (`EveryRequestEnds`): the prover has no support for ENABLED and fairness.
* *Graph passes:* `Recognized` (that a pattern is found is a matter of the patterns given)
  and `Settled`; and `Executable` and `SameResults` where a fusion outside `SafeFusions` is
  enabled. Section 3 lists graphs on which several of those break both, and each needs a
  hypothesis of its own that keeps such graphs out. Where only the safe fusions are
  enabled both are proved.
* *Importers and lowering:* `SameOutputs`, `DeclaredShapes` and `RefusedForReason` are
  about given programs and evaluate them by recursion over data; the first two fail
  on programs of section 3. `DeclaredShapes` compares what an operation computes with what
  was declared for it, which says something of products, convolutions, pools,
  concatenations and permutations; reshapes, views, repetitions and reductions are
  computed to the declared shape.
* *As long as nothing is cached only:* `BookkeepingIsMapping`, `PagesExclusive` and
  `RunningRequestsBacked` are checked and proved for schedulers whose tree is empty. After
  that the code shares pages by design, and the two `scheduler_` violation runs show what
  else happens.
* *`EveryRequestEnds`* is stated in one formula for all requests, to keep the tableau small: again
  and again everything that was submitted has ended. An end is final and submissions are
  finitely many, so each request ends.

## 6. Proofs

| Module | Theorems | About |
|---|---|---|
| `VMMBlockManagerProofs` | `InductiveInvariant`, `TypeCorrect`, `WarmPoolSafe`, `CountsCover`, `MappingsBacked`, `NoPageLost`, `MappedBytesCorrect`, `Refinement` | every invariant of `vmm_manager`; `Spec => ImplementsPhysicalPages` |
| `RadixCacheProofs` | `InductiveInvariant`, `TypeCorrect`, `CountsCorrect`, `Reachable`, `AccessTimesDistinct`, `MatchesRight`, `CacheRefinement` | every invariant of `radix_cache`; `Spec => ImplementsPrefixCache` |
| `SchedulerProofs` | about requests: `InductiveInvariant`, `Conserved`, `WithinTokenBudget`, `ServiceRefinement`; about pages and nodes: `SchedulerConsistent`, `TypesOK`, `RefsAreRequests`, `UnmappedWithoutWork`; as long as nothing is cached `SchedulerExclusive`, `BookkeepingRight`, `PagesBelongToOne`, `RunningBacked` | every invariant of `scheduler`; `Spec => ImplementsFifoService` |
| `MemoryPlannerProofs` | `ApartTheorem`, `NothingOverwrittenTheorem`, `InsideArenaTheorem`, `PlacedTheorem`, `TypeTheorem`, `PeakTheorem` | every invariant of `memory_planner` |
| `GraphPassesProofs` | `DeadCodeCorrect`, `ConstantFoldingCorrect`, `NothingDeadTheorem`, `DeadCodeKeepsResultsTheorem`, `StaysRegularTheorem`, `SafeCasesCompile`, `SafeCasesNothingDead` | dead-code elimination and constant folding, for every graph; `Executable` and `NothingDead` with the safe fusions |
| `GraphResultsProofs` | `ConvReluCorrect`, `SdpaCorrect`, `SwigluCorrect`, `RedundantCorrect`, `SafeCasesSameResults`, `TameCasesInOrder`, `TameCasesSameResults` | each safe fusion and the pruning of redundant operations, for every graph; `SameResults` with the safe fusions |

### Block manager

For every set of pages and finite sets of addresses and prefix keys, from
`NoHandleAssumption` (handle 0 is no page) and `SizesAssumption` (sizes are natural
numbers, `Hashes` and `Addrs` are finite, for cardinalities). `IInv` is the
conjunction of the checked invariants with one change: `MappedPagesCounted` (a mapped
page has a positive count) allows a mapped page that is counted for the prefix table
alone, and `evict_prefix_page` would then take its last reference under the mapping.
What the contract preserves is `MappedPagesHeld`: a mapped page is held by a client.
With `CountCoversHolders` it gives `MappedPagesCounted` (`HeldIsCounted`).
`DriverAccounting` and `WarmPagesUnused` need each other: a page created by the driver is
new to the pool because the driver's pages are exactly the pooled and the counted ones.

The warm pool is a sequence used as a set, so `PopFacts`, `PushFacts` and `ConcatFacts`
say what taking, adding and pre-allocating do to its elements. One `...Effect` lemma per
operation, in `VMMPoolLemmas`, restates what the operator returns; one `...Step` lemma per
action shows that it preserves `IInv` and that it is a step or a stutter of
`PhysicalPages`. `MaxRefs` is in the guards for TLC; the proofs never use it.

### Radix tree

For every finite set of requests, all prompts and every hash function (`SizesAssumption`:
`Requests` is finite, for the counts, and `MaxEvict` a natural number). `MatchesRight` and
`CacheRefinement` have the hypothesis `PromptsSeparate`: no two prompts that are served
have the same hashes and other tokens. It is about the prompts at hand, not about the hash
function, and without it both are false of this code (`radix_collision`). `MatchesRight`
holds for every look-up all the same, also for one that collides with the prompts served.

Matching and inserting walk down a row, the paths of the first pages of a prompt;
`WalkTicks` and `WalkClosed` say what a walk keeps, whatever it does to nodes. `GoodTree`
(its shape, closed under prefixes, distinct access times none of which is after the tick,
pages computed for tokens with the hashes on their node's path) is what the tree keeps by
itself. `RefCountIsHolders` is not inductive alone: that release and retirement meet the
node they count down needs that a request holds a whole row of existing nodes
(`RetainedIsPrefix`). Eviction is a loop, modelled by a recursive function; `EvictLoop`
shows that the function is defined for every number of rounds, by an induction that
`NumberLemmas` derives from the well-foundedness of the natural numbers, and each round
takes a leaf that nobody holds. For the refinement, `PromptsSeparate` makes the paths and
the beginnings of the prompts served correspond one to one (`Word`), so that the set of
cached prefixes is the set of nodes; each action then has a lemma of its own
(`EnterRefines`, `LeaveRefines`, `EvictRefines`, `ResetRefines`).

### Scheduler: requests

For any number of slots and requests, any prompts, budgets and buckets, and whatever the
page manager and the tree do: the proof uses nothing of them. `RequestsConserved` (a
request waits, runs or has ended, once) becomes inductive by `QueueIsTail`: the queue is
the last part of the requests in the order of submission, so that a new request has the
number of none that waits and the one admitted next is the first that never ran. With it
go `WaitingFresh`, `RunningUnfinished`, `WithinBudget`, `SlotsDistinct` and
`NobodyForgotten`. A request that ends on admission is in the queue and then ended
without a slot; `Decode` and `Destroy` empty slots, and share one lemma about that.

### Scheduler: pages and nodes

For any number of slots, pages, requests and buckets, any prompts and any hash function.
`Consistent(K)` joins the invariant of the requests to two others and is
inductive:

* `NodesInv`: the `ref_count` of a node is the number of requests that hold it, what a
  request holds exists, and only a request that runs in a slot holds anything. The last
  part is what makes the count come out at the end of a request, whichever way
  out it takes (on admission, in a decode step, with the scheduler).
* `CacheInv(K)`: the executor's cache is in the set `K`, no slot of it is active when
  nothing runs, and until a reset every running slot lists a page for its whole window.

What the executor does to its slots is treated once, for every set `K` that allocating
and freeing a slot and adding a page do not leave (`Kept`), and taking over a cached
page neither if caching may be on (`TakesPages`). Two sets are shown to be like that:

* `Accounted`, with any settings: what is mapped in a slot's window is listed by the slot,
  a slot that is not allocated lists nothing, and the number of mapped addresses is the
  one counted. From it follows `UnmappedWithoutWork`. `SchedulerConsistent` is about it.
* `Exclusive`, as long as no page is taken over: the slot lists exactly what is mapped, and
  no page is mapped twice or pooled while mapped. From it follow `BookkeepingRight` and
  `PagesBelongToOne`.

The set is a parameter because the code has no one invariant: a cached page taken over by
a padded slot overwrites that slot's handle (`scheduler_leak`), and from then on only
`Accounted` is true. Hence `SchedulerExclusive` is about states in which `NothingCached`:
what is in the tree stays there (`CachedStays`), so that before such a state nothing was
cached either and every step so far kept `Exclusive`, whatever the settings of caching.
The last three theorems follow from it. `RunningBacked` has the hypothesis `Enough` as
well: there are as many pages as the windows of all slots need, or creation fails and the
code goes on without the page. `EnoughPages` shows by counting that a page is then always
left, which takes `Exclusive`.

### Memory planner

For every set of graphs in static single assignment, with any constants
(`GraphsAssumption`: a tensor is written at most once, before it is read) and every
alignment. `LiveTogetherApart` is not inductive: the planner forgets intervals that ended.
`ActiveComplete` says that what it forgot ended before the tensors still to come begin,
which rests on the order of placement. `ScannedUses` says that the intervals found so far
are those of the operations scanned, and `AnalysisFirst` that nothing is placed before;
`NothingOverwrittenTheorem` needs both. It is about results of operations: the planner
places constants over them (section 3). For `InsideArenaTheorem` the offsets are aligned
because each is 0 or the aligned end of an interval.

`PeakTheorem` compares the peak with two sums. Above: `PeakCovered` says that no active
interval ends behind the peak, and that the peak, aligned, is at most the sum of the
aligned sizes of the tensors placed so far: the next is placed at the start or at the
aligned end of an active interval, so the peak rises by no more than the sum. Below:
tensors needed together lie apart in the arena (`ApartTheorem`), and the sizes of disjoint
intervals sum up to no more than where the last one ends (`SumOfApart`). The sums are
folds over finite sets; `SumAny` shows that the fold is the sum taken in any order.

### Graph passes: what can run

Dead-code elimination and constant folding are treated on any graph that is *executable*:
every operation has a result and an id of its own, operands come before their readers, and
no result is computed twice.

`DeadCodeCorrect` (`python/transforms/dce.py`): the result is executable, nothing in it is
dead, and it has the same results for all values of inputs, constants and states. The
argument:

1. The code marks from the outputs backwards until nothing is new. In a graph whose
   operands come first, an operation is at most as many steps from the outputs as there
   are operations after it (`LiveSoon`), so the rounds of the model suffice and the marked
   set contains the operands of its members (`LiveSet`).
2. What is removed keeps the order of what stays (`FilterIn`, `LiveOrder`), so operands
   still come first (`RemovalExecutable`), and the marked set of the result is all of it
   (`RemovalComplete`).
3. Both graphs are evaluated operation by operation; after each one retained the two
   valuations agree on what is marked (`SameOperation`, `NoOperation`, `RemovalResults`).

All later results about values use another description of them: an executable graph has
one valuation that gives every operation's result what the operation computes and every
other tensor what it is given (`Solves`). So two graphs are compared by showing that the
values of one solve the other. `ConstantFoldingCorrect` is the first: a folded operation
becomes a constant with the value it had. Its hypothesis `ConcatsByAxis` keeps out
`Columns` of section 3.

The passes take more for granted: `IsRegular` adds to executable that tensors and
operations have their fields, every tensor named is there, every operation has one result,
and those of `UnaryOps` have one operand, the only one that the passes look at. Every
rewriting of a safe fusion or of the redundancy pass is one of two kinds, each shown to
keep regular graphs regular:

* an operation *takes over* the result of a later one that alone reads its own
  (`TakeoverRegular`: convolution with ReLU, attention with a transposition, the unsqueeze
  of a pattern that ends as a permutation);
* an operation does the work of a producer of one of its operands as well
  (`InliningRegular`: SwiGLU).

A pruned operation's readers read its operand instead, which is an earlier tensor at any
distance, through any number of others that are pruned (`PruningRegular`).

`SafeFusions` are the fusions that look who else reads a result before they remove it and
overwrite no weight: `conv2d_relu`, `swiglu`, `sdpa_transpose`. A case is *safe* when its
source is regular and no other fusion is enabled. `StaysRegular` is then inductive for the
pipeline of all stages, with which `SafeCasesCompile` gives `Executable` (also that the
manager's validation never raises) and `SafeCasesNothingDead` gives `NothingDead`, which
before (`NothingDeadTheorem`) had the hypothesis that all graphs on the way can run.

### Graph passes: what is computed

`Preserves(h, g, env)` says that `h` computes from the inputs `env` what `g` does, and
that what is known of it has the declared shapes if that was so of `g`. It is proved of
the three fusions and of the redundancy pass on every regular graph, each under what
excludes the graphs on which it is false of the code:

* `ConvReluCorrect`: no convolution that is taken over is returned (`ReturnedConv`).
* `SwigluCorrect`: no activation that is taken over is returned besides the product, as
  the code asks for its readers only. A product commutes, so the operand that is the gate
  may be either.
* `SdpaCorrect`: no attention does the work of a transposition already (`ThereAndBack`).
  Exchanging dimensions 1 and 2 is what the fused operator computes.
* `RedundantCorrect`: the dimensions named by unsqueezes, transpositions and permutations
  are there, and no result inside a matched pattern is returned. The proof goes by
  dimensions: with -1 for the new one, the code moves the list of dimensions as the
  tensor's are moved, and the squeeze takes the -1 out again, so that what is left is a
  permutation of the operand's dimensions and both ways fetch each element from the same
  place.

Operators appear in these proofs by their definitions in `TensorAlgebra`. Their recursive
part, the indices of a shape, is characterised once as the lists of its length with a
number below each dimension (`IndexIs`, `IndexFound`), by an induction over the length that
`UpTo` of `NumberLemmas` gives.

`SafeCasesSameResults` puts the passes together: in a safe case in which the graph on the
way is `IsOrderly` (the conjunction of the hypotheses above) each time a stage is to
rewrite it, `SameResults` holds. Whether it is orderly then depends on what the earlier
passes did. `TameCasesInOrder` removes that dependence: a source is *tame* when nothing
that it returns is read in it, when its ranks are declared as its operations make them,
when no tensor is turned twice, and when what constant folding may come to fold gives its
dimension in both ways. The last two are about what later rounds may do, so they name two
sets: the *turned* tensors, which a transposition of the middle dimensions gives or which
are moved from one (so that no pruning can bring a second transposition next to the
attention), and the *fixed* ones, computed from constants alone. The sets chosen for the
source serve for all later graphs: every pass leaves a tame graph tame with the same sets
(`StageTame`), and a tame regular graph is orderly (`TameOrderly`). So
`TameCasesSameResults` has hypotheses about the source alone: it is regular, tame, and its
values have the declared shapes.

That these hypotheses can be met is what `SafeCasesInOrder` checks in `graph_passes`:
every source of the run under the safe fusions is regular and of the declared shapes,
every graph on the way is orderly, and every source that reads nothing it returns is tame,
with the sets computed in the order of the graph (`Turned`, `Fixed`), and stays so. The
sources that return a result and read it as well show that being tame is not necessary.

## 7. Plan

Done: the block manager, the radix tree, the paged slots, the scheduler and the memory
planner, with every safety invariant proved; the graph passes, with every pass of the
pipeline and the safe fusions proved; the two importers with lowering and the executor's
operators. Left to prove: that each of the other fusions keeps graphs executable and their
results, under the condition that excludes its graph in section 3; the rewritings of
`GraphPassesProofs` are stated for any pass that lets operations take over results or do
an operand's work too, as several of these fusions do. Left to model, in this order:

1. `KVLayout`: token positions, the decode position shared by a batch
   (`batch_scheduler.cpp` 297), tokens per page against the head-major layout
   (`executor.cpp` 698), requests longer than the window, what pages hold after a reset.
2. Exceptions of the executor inside `Admit` and `Decode`, and allocation failure
   in `BatchScheduler` (`executor.cpp` 829).
3. `GraphCache`: prepare, stash and activate of graph buckets with resets of the cache in
   between, once ggml's contexts, views and buffers have a model; then `CudaGraphs`.
4. Symbolic dimensions and masks in lowering and the importers.
5. The generation loop, tokenizer merging as a pure function.

## 8. Not modelled

* *Graph bucket cache, CUDA graphs:* their state is that of ggml contexts, views and backend
  buffers, and of the driver's stream capture; a model that kept less would have no
  stale graph to find.
* *Kernels, image code, quantization* are numerical. *Loader, tokenizer, serialization,
  code generation to C++* are parsing, string and byte layout without state that
  lasts. *Runner and generator* forward to the executor in a sequential loop.
  *Pipelines, validation, visualization, command line* configure and report. The stub of
  CPU builds does nothing. ggml is vendored.
* Races by calling the scheduler from two Python threads (the binding drops the
  interpreter lock in `step`) are undefined behaviour that no caller in the repository
  provokes.

Things met while reading that no model covers: the serve command's warm pool is 64
by default (`ggmlc_run.cpp` 317) where the documentation says 0; `configure_vmm_pool`
before `init_paged_kv_cache` is silently ignored; an `alloc_physical_page` that returns
0 is mapped and recorded without a look.

## Running

    tlc -config MCBatchScheduler.cfg MCBatchScheduler
    tlapm RadixCacheProofs.tla

Each run takes about two minutes or less with a few workers. The proofs take about two minutes per
module, those of `SchedulerProofs` about eight, of `GraphPassesProofs` about twenty and of
`GraphResultsProofs` seventeen.
