# A verification of the Cycles render engine (coreBlackbird)

This directory holds TLA+ models of the parts of this repository whose
correctness depends on order: which thread does what, when, and what it may
still rely on when it does it.  `src/src/` is the Cycles production renderer
(CMake project, C++), with its device back ends, kernels, scene synchronization
for Blender and a standalone application.

Paths below are relative to `src/src/`.

## 1. Inventory

### 1.1 Control of a render

| Component | State | Operations | Interacts with |
|---|---|---|---|
| **Session** (`render/session.*`) | `params`, `pause`, `delayed_reset`, `display_outdated`, `gpu_draw_ready`, `gpu_need_display_buffer_update`, five mutexes (`tile`, `buffers`, `display`, `pause`, `delayed_reset`) and three condition variables | `start`, `reset`, `draw`, `set_samples`, `set_pause`, `set_denoising`, `wait`, destructor (main thread); `run_cpu` / `run_gpu` (session thread); `acquire_tile`, `release_tile`, `update_tile_sample`, `map_neighbor_tiles` (device threads) | calls `TileManager`, `Scene::device_update`, `Device::task_add/task_wait/task_cancel`, `Progress`; is called by the Blender layer and by device threads |
| **TileManager** (`render/tile.*`) | sample counters, `resolution_divider`, the tile table with a state per tile, a queue per logical device of tiles to render and to denoise | `reset`, `set_samples`, `next`, `next_tile`, `finish_tile`, `get_neighbor_index`, `device_free` | owned by the session, called under `tile_mutex` by device threads and without a lock by the session thread |
| **RenderBuffers, DisplayBuffer** (`render/buffers.*`) | pixel memory on a device, draw size | `reset`, `zero`, `copy_from_device`, `draw_set`, `draw_ready` | written by kernels, read by the callbacks of the host application |
| **Progress** (`util/util_progress.h`) | cancel and error flags with messages, counters of samples, tiles and times | `set_cancel`, `set_error`, `add_samples`, `get_progress` | every thread |
| **Blender layer** (`blender/`) | Blender's view of the session: the render passes, the last status | `synchronize`, `render`, `draw`, `write_render_tile`, `update_resumable_tile_manager` | main thread of the session |

### 1.2 Threads and devices

| Component | State | Operations | Interacts with |
|---|---|---|---|
| **Task scheduler** (`util/util_task.*`) | global queue, workers, per-pool counters; `DedicatedTaskPool` has a thread of its own | `push`, `wait_work`, `cancel`, `stop` | every parallel part of the host |
| **CPU device** (`device/device_cpu.cpp`) | task pool, OIDN mutex | `thread_render`, `denoise_nlm`, `denoise_openimagedenoise` | session callbacks |
| **Multi device** (`device/device_multi.cpp`) | list of render and denoising devices, pointer map | `task_add`, `task_wait`, `mem_alloc/copy/free`, `map_neighbor_tiles` | session, sub devices |
| **CUDA, OptiX, OpenCL devices** (`device/cuda`, `device/opencl`, `device/device_optix.cpp`) | device memory maps, compiled programs, streams | `thread_run`, `mem_*`, `load_kernels` | session callbacks |
| **OpenCL memory manager** (`device/opencl/memory_manager.*`) | allocations packed into one of eight buffers each | `alloc`, `free`, `alloc_device` | OpenCL device |
| **Network device** (`device/device_network.*`) | socket, memory pointers of the other side | RPC of every device operation | a server process |
| **Split kernel** (`device/device_split_kernel.*`) | queues of path states | `path_trace` | OpenCL |
| **Device task** (`device/device_task.*`) | a rectangle of work | `split`, `update_progress` | all devices |

### 1.3 Scene data

| Component | State | Operations |
|---|---|---|
| **Scene** (`render/scene.*`) | all nodes, update flags of the managers | `device_update` in a fixed order, `need_update`, `reset` |
| **Image manager** (`render/image.*`) | slots with a user count and a need-load flag | `add_image`, `add_image_user`, `remove_image_user`, `device_update`, `device_load_image` |
| **Lookup tables** (`render/tables.*`) | intervals of one device array | `add_table`, `remove_table` |
| **Shader graph** (`render/graph.*`, `render/constant_fold.*`) | nodes, sockets, links | `connect`, `disconnect`, `relink`, `remove_proxy_nodes`, `deduplicate_nodes`, `break_cycles`, `expand` |
| **SVM compiler** (`render/svm.*`) | stack of 255 slots with a user count, instruction list | `stack_find_offset`, `stack_assign`, `stack_clear_*`, `generate_closure_node` |
| **Managers** of geometry, object, light, film, camera, integrator, particles, bake, shader (`render/*.cpp`) | `need_update` flags and device arrays | `device_update`, `device_free`, `tag_update` |
| **Node graph** (`graph/`) | node types and sockets | `register_type`, `set`, `equals`, `hash` |
| **BVH** (`bvh/`) | primitive ranges | object, spatial and binned splits, packing, refit |
| **Subdivision** (`subd/`) | patches, edges with a dicing factor | `split`, `dice` |
| **Merge, Denoise** (`render/merge.cpp`, `render/denoising.cpp`) | images on disk | merge of sample ranges; denoising of frames with neighbours in time |
| **Kernels** (`kernel/`) | per-path state | integrator, intersection, shading |

### 1.4 What is hard

* **Interleaving.**  Device threads acquire and release tiles while the session
  thread waits for them and the main thread resets, pauses, draws or cancels.
* **Memory.**  Buffers of a tile are read by the denoising of its neighbours and
  freed by whichever thread finishes last.
* **Waiting.**  Device threads wait for denoising tiles, the session thread waits
  for work, the main thread waits for the session thread: every condition
  variable is a chance of a lost wake-up.
* **Counters.**  Previews, progressive samples, sample ranges and changes of the
  number of samples share four integers.

### 1.5 What makes each component correct

* Tile manager and session, final render: every tile is rendered by one thread at
  a time, denoised when and only when its neighbours are complete, written once
  with the number of samples it holds, freed after the last reader; the render
  ends.
* Session, viewport: a reset is applied before the next image is shown; a paused
  session does not render; the session thread sleeps only when there is nothing
  to do; a destroyed session ends.
* Task pools: every pushed task runs once or is cancelled, and waiting ends.
* Image manager, lookup tables, memory manager: no two users share memory, none
  is lost, an unused one is reclaimed.
* SVM compiler: two live values never share a stack slot.
* Shader graph: transformations keep links symmetric and the graph acyclic.

## 2. The models

### 2.1 Control of a render

| Module | Models | Source |
|---|---|---|
| `PassCounter` | the sample counter, the resolution divider and the sample range, shared by all modules below | `TileManager::reset`, `set_samples`, `next`, `done` |
| `TileManager` | the state of every tile and the queues, as operators on them | `next_tile`, `finish_tile`, `check_neighbor_state`, `set_tiles`, `device_free` |
| `TileRender` | a final render: the session thread and the device threads | `Session::run_cpu`, `acquire_tile`, `release_tile`, `map_neighbor_tiles`, `CPUDevice::thread_render`, `MultiDevice::task_add/task_wait` |
| `FinalRender` | what the caller of a final render is promised (abstract) | implemented by `TileRender` |
| `ViewportCPU` | an interactive session on a CPU device | `Session::reset_cpu`, `run_cpu`, `set_samples`, `set_pause`, `~Session` |
| `ViewportGPU` | an interactive session drawn through OpenGL | `Session::reset_gpu`, `run_gpu`, `draw_gpu` and the same callers |
| `Viewport` | what the window of a session is promised (abstract) | implemented by both |
| `TileGrid` | the pure geometry: dividers, slices, rows, the Hilbert spiral, neighbours, the total of pixel samples | `get_divider`, `gen_tiles`, `get_neighbor_index`, `set_samples` |
| `TileLayout` | the passes of a session over such grids | `next`, `set_tiles`, `Progress::add_samples` |
| `DedicatedTaskPool` | the worker thread of a GPU device and its callers | `util/util_task.cpp` |
| `TaskPool` | what the session is promised of such a pool (abstract) | implemented by `DedicatedTaskPool` |

`TileRender` EXTENDS `TileManager`, which EXTENDS `PassCounter`; the viewports
and the layout extend `PassCounter` only: in a viewport the device renders one
pass at a time and the tiles within it do not matter, in a final render they are
all that matters.

### 2.2 Scene data

| Module | Models | Source |
|---|---|---|
| `LookupTables` | tables of several owners in one device vector: first fit, growth, removal, the copy to the device | `render/tables.cpp`, `device_vector::resize` |
| `SceneUpdate` | the update of a scene, one action per manager, in the fixed order; edits, with the flags they and the `tag_update` methods raise; cancels, the next frame with persistent data, deletion | `Scene::device_update`, `need_data_update`, `reset`, `free_memory`; every manager's `device_update`; `BlenderSync` |
| `ImageManager` | slots with users, handles as shader nodes hold, copy and drop them, parallel compilation, parallel loads, cancels | `render/image.cpp`, `ImageTextureNode::compile`, `SVMShaderManager::device_update`, `GeometryManager::device_update_volume_images` |
| `ShaderGraph` | the transformations of a graph of nodes before it is compiled: folding, deduplication, breaking cycles, removal of unused nodes, weights of closures | `ShaderGraph::clean`, `finalize`, `transform_multi_closure`, `render/constant_fold.cpp` |
| `ShaderCompiler` | code for such a graph: allocation and release of stack positions, dependencies, jumps over closures of zero weight, AOVs | `SVMCompiler` |
| `ShaderVM` | the loop that runs this code for one shading point, next to the value the graph of the artist describes | `svm_eval_nodes` and the nodes' functions in `kernel/svm/` |

`SceneUpdate` EXTENDS `LookupTables`: the film, the camera and the shader manager
are the owners of its tables.  `ShaderVM` EXTENDS `ShaderCompiler`, which EXTENDS
`ShaderGraph`: a behaviour takes one graph, compiles it in one step and then
executes one instruction per step.  `ImageManager` stands alone: to the scene it
is the flag `image` and the product `images`.

**SceneUpdate.**  A *product* is what one manager makes and a kernel or another
manager reads.  `DependsOn` and `Needs` state, from the bodies of the
`device_update` methods, which parts of the scene and which other products each
is made of; an edit makes every product that depends on it stale, and making a
product from a stale one leaves it stale.  Against this stand the flags as the
code raises and tests them.  Flags that are raised only when a value differs
(emission, volumes, visibility, light groups) follow those values, as do
products read only in such cases.

**ImageManager.**  What holds a mutex is one action; `handle = add_image(...)` is
not, so it is a chain of one action per tile: slots for a temporary handle, users
for the copy, users of the temporary dropped.

**Shaders.**  Values are numbers in halves; a stack position that no instruction
wrote holds `Garbage`, which every computation propagates.  The graph is kept as the
sequence of nodes in order of their ids, since the order of generation depends on it.

Theorems and proofs are in the modules of section 5, named after what they prove
about: `TileRenderProofs` and, on top of it, `TileDeliveryProofs` (final renders),
`TileLayoutProofs` (the geometry and the passes over it), `ViewportCPUProofs`,
`ViewportGPUProofs`, `DedicatedTaskPoolProofs`, `SceneUpdateProofs` (with the lookup
tables) and `ImageManagerProofs`.
The `MC*` modules are instances for TLC.

### 2.3 Conventions

**Grain of the actions.**  A stretch of code that holds a mutex and does not
wait is one action.  What runs without a lock and can be disturbed is split:
in `ViewportGPU` `next()` and `TileManager::reset`, write by write (what `next()` has
read before it may use again or read anew); the test and the wait on a condition
variable where somebody notifies without the mutex; push and clear of the task pool.  A thread
in a wait is in a place of its own, from which a notification or a spurious
wake-up takes it.

**Data.**  A buffer is the number of samples it accumulated, an image the request
it belongs to and the number of passes it holds and is divided by.  Tile positions
are left to `TileGrid`; `TileRender` takes any symmetric, reflexive neighbour
relation; `NeighborsAssumed` proves that the geometry yields one, and
`NeighborsAlwaysTouch` that it is the one of the tiles that `gen_tiles` generates.

**History variables** (`acc`, `written`, `content`, `shown`, `requested`,
`applied`, `torn`, `pushed`, `ended`, `old`, `fresh`, and `cut` in both modules that have one)
record what no variable of the program does; no guard of a modelled operation reads
them, except where they bound the run.

## 3. The runs

| Run | Instance | Shows |
|---|---|---|
| `final` | 3 tiles in a row, 2 CPU threads, 2 samples, cancel anywhere | tiles are written with the samples they hold, also when cancelled; `FinalRender` is implemented |
| `denoise` | 4 tiles, 2 threads that render and denoise, one sample of a range, cancel anywhere | neighbours' buffers exist, are complete and stay still while they are read; one thread per tile; every tile is written and no buffers are lost; no thread waits forever |
| `refine` | 4 tiles on 2 GPUs that keep their tiles, 2 progressive samples, denoised in the last | a pass starts from empty queues; one write per tile, with the right count |
| `viewport` | 2 previews and 2 or 3 samples, 3 requests, one change of samples, pause, error, destruction | only whole passes are shown, divided by their number; counters and tiles are still while a pass is rendered; the newest image is completed; `Viewport` is implemented |
| `gpu` | the same through OpenGL, resets also among the writes of `next()` | a pass is copied before the next is rendered; thread and window wake each other, so the image of the last request is completed unless its reset met `next()`; `Viewport` is implemented |
| `grid` | images up to 33x19, 1 to 3 devices, tiles from 1x1 to larger than the image, both generation orders, previews, ranges | every pixel is in one tile, every tile's device has a queue, neighbours are the tiles that touch, progress ends at its total |
| `task_pool` | 3 tasks, 2 cancels and the destructor's | the count is exact, tasks end, `TaskPool` is implemented |
| `scene` | two kinds of shader graphs (emissive, displaced, glossy; volume), every edit, cancels after and within every step, next frames, deletion; tables of 1 to 3 chunks | what the kernels get shows every edit; stale data restarts the viewport; updates settle; tables stay apart and reach the device |
| `images` | three nodes with handles of one and two tiles, a file that both kinds use, another, and an image in memory | users are exact, handles valid, slots not doubled, unused images noticed, images loaded |
| `shaders` | 4828 graphs of up to three nested mixes and adds, with sharing, equal nodes, constants and cycles; every value of their factors; a stack of 10 positions | code reads what it wrote, computes what the graph describes, and gives back the stack |
| `viewport_destroy`, `shaders_aov` | small; the graphs of `shaders` | the first two disagreements of section 6 |

**Why the bounds are enough.**  A row of three tiles has a tile with two
neighbours and a pair that are not neighbours; a row of four has two disjoint
neighbourhoods, so that one tile can be freed while another is still rendered.
Two threads suffice for every race between a reader and a finisher; the theorems
of section 5 lift those properties to any number.  Two previews distinguish the
first from the last, two and three samples the first, a middle and the last.  Three
requests allow one to be applied, one to be pending and one to overtake it.  The
image sizes of `grid` straddle multiples of the tile, device and Hilbert block
sizes; 33 tiles wide needs a third ring of the spiral.  Three tasks put one with the
worker, one in the queue and one on its way there, with one cancel before the
destructor's at every moment.

In `scene` one edit is made between two updates (`MaxEdits`), but a cancelled update
leaves its flags and stale products to the next, so edits do add up; with two edits
the properties hold as well (1.8 million states, which takes longer than the rest of
the runs together).  The two kinds of graphs switch every value-dependent tag on and
off.  The smallest table fills one chunk and the largest three, so that one owner's gap
fits another's table or does not.  In `images` two nodes can share a slot while a third takes the
one they leave.  In `shaders` three levels of mixes are the least in which a node is
shared between an inner branch and an outer one; 10 positions are enough for most
graphs and too few for some, so that running out of stack is covered too.

The bounds appear by name: `MaxRequests`, `MaxChanges`, `MaxCancels`, `MaxEdits` in
guards, the rest as constants of the configurations.  `scene`, `images` and the two
shader runs are made without the deadlock check: a deleted scene or manager and a
shader that has been run have no next step, and nobody waits in these modules.

**Fairness.**  Weak fairness of each thread: the operating system schedules it, a
sample and a task take finite time, and mutexes are held for bounded stretches.
Nobody has to make a request, set a cancel or wake up spuriously.  Strong fairness is
assumed where another thread may take the same mutex again and again: `Draw` in
`ViewportGPU` (a window is redrawn because each pass asks for it through
`progress.set_update`), `PushQueue` and `ClearQueue` in `DedicatedTaskPool`.

## 4. What the properties say

* `TileHeldOnce`: `finish_tile` switches on the state of a tile and not on what its
  thread did.  That is right only if no neighbour's end moves a tile that somebody holds.
* `NoUseAfterFree`, `DenoiseInputsStable`, `DenoiseInputsComplete`: the denoiser reads
  nine tiles after the mutex was released.
* `WrittenOnce`, `WrittenSamplesMatch`, `WrittenSamplesMatchOnCancel`, `NothingLost`,
  `QueuesDrained`: what reaches the caller.  `WrittenSamplesMatchOnCancel` fails
  for progressive refinement with a cancel (section 6), so `refine` checks
  `WrittenSamplesMatch` instead.  `NothingLost`: a render that ends uncancelled has
  written every tile, buffers are deleted only after they were written, and none are
  left when the session is freed.
* `ShownComplete`, `PassesMatchDivisor`, `StableWhileRendering`, `CompletesImage`,
  `CopiedBeforeNextPass`: what reaches the window.  In an errored
  session the cut pass may be copied once before the end; `ShownComplete` excludes it.
  `CompletesImage` assumes that the number of samples is not changed and, through
  OpenGL, that the reset of the last request did not meet `next()` (section 6).
* `CountMatches`: the invariant behind `wait()`.
* `FreshWhenCopied`, `StaleIsNoticed`, `Settles`: the flags of the scene against what
  the managers read; too few flags show an old scene, too many update forever.
* `TablesDisjoint`, `TablesOnDevice`, `TablesRemoved`: the lookup tables, as their owners
  and the kernels find them.
* `UsersCounted`, `HandlesValid`, `LoadedOnce`, `UnusedNoticed`, `LoadedWhenRendering`:
  reference counting of images by hand, with parallel tasks.  `LoadedWhenRendering`
  excepts images whose load a cancel has cut short (section 6).
* `InputsFresh`, `ShadesAsDescribed`, `StackBalanced`: an instruction never reads a
  position that was not written, or that another value has taken; transformations,
  compiler and virtual machine together compute what the graph says; every position
  counts exactly the values that still have readers.
* Abstract specifications: `FinalRender` (delivered once; ends uncancelled only when
  all is delivered), `Viewport` (never an image of an older request than the window
  already asked for), `TaskPool`.

## 5. Proofs

`TileRenderProofs` proves, for any set of tiles with a reflexive and symmetric
neighbour relation, any assignment of tiles to devices, any number of threads and any
number of samples: `TypeOK`, `TileHeldOnce`, `TaskMatchesState` (a held tile is in the
state of its task), `NoUseAfterFree` and
`DenoiseInputsStable`.  None is inductive.  A thread that finishes a tile looks only
at states, so `IInv` has to say what states imply:

* *Exclusive*: a thread holds a tile exactly between acquire and release, alone, and
  queued tiles are in the state their queue is for and held by nobody;
* *Grid*: in a pass that denoises, a tile past RENDERED has no neighbour still in
  RENDER, a DONE tile none before DENOISED, and every tile between RENDERED and
  DENOISED, or held past its allocation, owns buffers;
* *Passes*: only the last pass denoises, and a pass begins with idle threads; without
  this the reset of all tiles to RENDER at the start of a pass would break *Grid*.

`NoUseAfterFree` then follows because a tile in DENOISE has neighbours in RENDERED,
DENOISE or DENOISED only, and those own buffers.  The step that matters is
`finish_tile`: it moves *all* neighbours whose neighbourhood is ready, and symmetry of
the relation is what keeps a freed tile from being somebody's input.

`TileDeliveryProofs` continues with what the caller receives: `QueuesDrained`,
`DenoiseInputsComplete`, `WrittenOnce`, `WrittenSamplesMatch`,
`WrittenSamplesMatchOnCancel`, `NothingLost` and the refinement of `FinalRender`.  Its
invariant `DInv` is checked together with `IInv`:

* *Counted*: which values the counters take at which point of the loop: a final render
  has one pass with all samples, a progressive one a pass per sample, and the loop ends
  uncancelled only when `done()`;
* *Samples*: a tile's buffers hold the samples of the passes before, plus those its
  thread has traced so far; a tile past RENDER holds those of this pass as well, unless
  its thread stopped for a cancel;
* *Drained*: in an uncancelled pass a tile in RENDER is in its queue or with a thread,
  and a thread stops only when its queue is empty, one that denoises only when all tiles
  are done.  Since every device has at least one thread, which the assumption on
  the constants says, the last thread to stop leaves nothing;
* *DeliveredAtOnce*, *DeliveredAtEnd*: in one pass a tile is written when it is finished,
  and a tile that no thread has finished was not; in a progressive render nothing is written before
  the last pass is over, and then all tiles at once.

`WrittenOnce`, `WrittenSamplesMatch` and `DenoiseInputsComplete` have one hypothesis, for progressive renders:
`RangeFits`, that the sample range lies inside the number of samples asked for.  It is
needed: `done()` compares with the end of the range, `update_progressive_refine` with
the number of samples.  A range that overshoots reaches the latter first, writes its
tiles, goes on and writes them again.  The Blender layer means to prevent this by
shortening the last chunk, but shortens it by the wrong number
(`blender/blender_session.cpp:1099`), so the hypothesis is not guaranteed by the code,
and TLC finds the second write on the instance of `refine` with `RangeStart = 1`,
`RangeNum = 2`, `NumSamples = 2`.  `CounterAssumption` says of ranges only what the
code does: without a range the start is 0.  `WrittenSamplesMatchOnCancel` is proved for
renders that are neither progressive nor denoised, where a thread writes the tile that
it traced and knows where it stopped; for the others it is false (section 6).

`TileLayoutProofs` is about the geometry, for every size of image and tiles, any number
of devices and slices, both tile orders and every start resolution:

* `ImageIsCovered`: in each pass of each render every pixel is in a tile, in one only if
  slices do not overlap, and no tile is empty, reaches out of the image or belongs to a
  device without a list; the Hilbert spiral comes to every tile once (`TilesCoverImage`);
* `NeighborsAlwaysTouch`: `get_neighbor_index` finds the tiles that touch (`NeighborsTouch`);
* `NeighborsAssumed`: the relation it computes meets `TileAssumption` of `TileRender`, so
  the theorems on final renders rest on no assumption about geometry; `TouchingTiles` and
  `OneTilePerPixel` are the facts on columns, rows and slices behind these three;
* `SpiralStops`: the loop over blocks in `gen_tiles` has no other end than the test
  whether it is at the centre; the walk is there exactly after n * n blocks;
* `ProgressEnds`: what the tiles of all passes report adds up to the total that
  `set_samples` announced (`ProgressReachesTotal`).

The argument has four parts.

*One slice.*  An index is its quotient and its remainder by the number of columns
(`Split`, `Position`).  Along one dimension the extents are of the tile size but the
last, so that exactly one covers a pixel (`OneHolds`) and two touch when their numbers
differ by at most one (`Adjacent`).  The provers do no division by variables beyond the
defining equation, hence these lemmas.

*All slices.*  `SlicedTiles` joins the slices' tiles.  Such folds and recursive functions
are CHOSEN to satisfy an equation: a lemma shows that some function does, and the next,
by induction, what every such function returns (`Joined`: where each slice begins in
the table; `RowsAdded`: how many pixels its tiles have).  The library's induction
theorems take an operator as a parameter, which no installed prover can instantiate;
instead a set of numbers without a least element is empty (`WFMin`), and `Induction`
applies that to the set of numbers for which something fails.

*The Hilbert spiral.*  A spiral of n by n blocks (n odd) has rings that begin at
`RingStart`; `Heading` says where on its ring a block is and where it goes next, and
each step keeps it, hence no block is visited twice.  Within a block the curve is made
of four quadrants that stay apart (`QuadrantApart`), unrolled for the sides 4 and 8 that
the code has.  n * n different positions in a square of n by n are all of them
(`AllPositions`), so every place of the square is reached, and `KeptTiles` drops exactly
those outside the image.  The order of tiles is thus a permutation (`OrderIndices`) and the tiles
are the rectangles of the single slice (`HilbertRectangles`), for which the rest is known.

*The passes.*  `LaidOut`: the tiles are those of the pass's resolution, although most passes
do not lay them out.  `Counted`: what is reported and what is left to report make the
total, at every pass; dividers are powers of two (`Doublings`), without which halving
would miss the previews that the total counts.

`SetupAssumption` says what the callers set; its comment gives the reasons.  `ProgressEnds`
has one hypothesis more, `SomeSamples`: a progressive render that is asked for no
sample at all takes one nevertheless (`done()` is first asked at sample -1), which the total
does not count.  The overlap of slices is excepted by the property itself.

`ViewportCPUProofs` proves for any numbers of requests, changes, previews and samples
`PassesMatchDivisor`, `ShownComplete`, the action property `StableWhileRendering` and the
refinement of `Viewport`.  Only the session thread applies a reset in `run_cpu`, so the
invariant counts for each point of the loop the passes that the buffers hold (*Passes*:
`sample` of them up to the device's work, `sample + 1` from there to the copy) and says
that until a request is applied `delayed_reset.do_reset` announces it (*ResetPending*):
a task is cancelled only while it is set, and nothing is copied then.

`ViewportGPUProofs` does the same through OpenGL (`CopiedBeforeNextPass`,
`PassesMatchDivisor`, the refinement of `Viewport`), where `reset_gpu` runs in the main
thread between any two unlocked steps of `run_gpu` and the writes of
`TileManager::reset` fall between any two of `next()`.  Counters and tile table can then
be left half reset and half counted.  What holds nevertheless: a reset takes the size of
the image away before it touches a counter, nothing is rendered or copied without a
size, and `next()` gives the size back only with sample 0, for which the buffers are
cleared, or, if a reset has undone that meanwhile, with sample -1 (*Current*, *Fresh*).
So whatever is copied with a divisor other than zero is of the newest request.  That
the buffers hold the passes they are divided by (*Intact*, *Passes*) is true only of
requests whose reset did not meet `next()`, and `PassesMatchDivisor` says so; `torn`
records the others.  Section 6, items 5 and 11, shows what happens to those.

`DedicatedTaskPoolProofs` proves, for any finite set of tasks and any number of
cancels, `TypeOK` (the count is never negative), `CountMatches`, and that the pool
implements `TaskPool`.  The invariant says that an open task is in one place (with the
pusher, once in the queue, or with the worker), from which the cardinality argument is
one lemma per step; the refinement follows since `num = 0` then means that nothing is
open.

The first part of `SceneUpdateProofs` is about `LookupTables` alone: for any owners, table
sizes and chunk size, tables never overlap (`NoOverlap`) and the host vector holds every
table whole at its owner's offset (`DataInPlace`).  The heart is a lemma on first fit: a place that ends
before every table that starts at or after it, and that is 0 or some table's end,
is apart from all tables, because the tables before it end there at the latest;
which needs that the tables were disjoint, and that owners and tables correspond.

The second part proves, for any shader graphs, edits and sizes, that a scene uses
the tables only as `LookupTables` says and hence `SceneTablesDisjoint`; that they are on
the device when the kernels get their data (`TablesReachDevice`; the invariant says
that the copy equals the host's unless `need_update` is set, and what is left to run
before the copy); that all are gone when the scene is deleted (`NoTableLeft`); and
`UpdateSettles`, whose invariant says for each step which flags are down by then: a
flag that a later step raises belongs to a manager that is still to come.

The third part is about the opposite error, a flag too few: `FreshWhenCopied` and
`StaleIsNoticed`.  The invariant (`Follows`) has a conjunct for each product: it is fresh, or its
manager is tagged and still to come in the update (`Owed`); with what the manager's
inputs must then be, as products are made from other products, and with the values
(emission, visibility, volumes) that decide whether a tag is raised at all.
An edit keeps it if it tells the managers of everything it changes (`Tells`, LEMMA
TagKeeps); a manager keeps it if it runs after all that it reads.  After a cancel
nothing is claimed, since the session resets the scene before it goes on, and the reset
tags everything.  The hypothesis `EditsTagged` excludes two edits, those that the code
does not announce to everyone (items 8 and 9 of section 6); nothing else is assumed.

`ImageManagerProofs` proves, for any nodes, tiles and images, `UsersCounted`,
`HandlesValid`, `LoadedOnce`, `UnusedNoticed` and `LoadedWhenRendering`.  The invariant gives a user for every
tile of a temporary or held handle in each stage of its assignment; adding or dropping
one is a lemma on the cardinality of that set, and equal cardinalities make a slot
with a handle one with users, which is never freed or given away.  Loads are followed
separately (*Loading*): an image that is not loaded is pending, or will be once its
update comes because `need_update` is set, or its load was cut by a cancel.

Assumptions are those of the modules' `ASSUME`s, which TLC evaluates in every run.
Every invariant and action property of the runs is proved, except those of the
shaders.  Only model-checked remain:

* everything that must eventually happen (`Terminates`, `CompletesImage`, `TasksEnd`):
  no installed prover reasons about fairness;
* the shaders (`InputsFresh`, `ShadesAsDescribed`, `StackBalanced`): compiler and graph
  transformations recurse over a graph, and a statement for all graphs needs an
  induction over the graphs themselves.  Their modules use RECURSIVE operators, for
  which the prover has no SMT backend; the checks cover all graphs of the bounded
  shapes named in section 3.

## 6. Where code and text disagree

Two have a run that ends in a counterexample:

1. `viewport_destroy` (`DestroyEnds`): the destructor's notification can fall between the
   session thread's test for a cancel and its wait (`render/session.cpp:685`).
2. `shaders_aov` (`AovsFresh`): a texture that a closure and an AOV use is generated inside
   the branch of the closure, and is jumped over with it (`render/svm.cpp:593`).

The others can be seen with a configuration that checks the one property named:

3. A cancel between two tiles leaves the thread of a denoising-only device asleep on
   `denoising_cond` (`render/session.cpp:403`): `Terminates` in `MCTileRender`, three tiles
   in a row, `Worker <- RenderAndDenoiser`, `WorkerDevice <- RenderAndDenoiserNumber`,
   `NumDevices = 2`, `RenderWorker <- Renderer`,
   `DenoiseWorker <- Denoiser`.
4. A pending reset takes back a later `set_samples` (`render/session.cpp:749`; the callers at
   `blender/blender_session.cpp:785`): `SamplesNeverDecrease` in `MCViewport`,
   `OnlyIncrease = TRUE`.
5. A reset in the middle of `next()` may leave an image without a size, or a table without
   tiles, that is never laid out (`render/session.cpp:226`): `CompletesImageOnReset` in
   `MCViewportGPU`.
6. The task pool's destructor can notify between the worker's test and its wait
   (`util/util_task.cpp:134`): `DestructorEnds` in `DedicatedTaskPool`.
7. A load that a cancel skipped is not done by later updates, since `need_update` is
   cleared all the same (`render/image.cpp:888`): `AllLoaded` in `MCImageManager`.
8. An edit of the integrator's volume step rate does not tag the background, whose step
   size is computed from it (`render/background.cpp:97`): `FreshWhenCopied` with
   `RateChanges = {TRUE}`.
9. Switching on the UV and the AO pass in one edit tags the managers of the first only
   (`render/film.cpp:626`): `FreshWhenCopied` with `PassChanges` containing both at once.
10. With progressive refinement a cancel during the scene update makes the session write
    tiles with one sample more than they hold (`render/session.cpp:713`):
    `WrittenSamplesMatchOnCancel` on the instance of `refine`.
11. A reset after `next()` has set `state.sample` and before `set_tiles` is done
    (`render/tile.cpp:583` to 391) leaves sample -1 with tiles laid out.  `render` then
    does not clear the buffers (`render/session.cpp:1192`): the pass is added to the
    older request's, and `draw_gpu` copies both, divided by sample + 1 = 0:
    `CopiedOfNewest` in `MCViewportGPU`, on the instance of `gpu`.  The next pass, with
    sample 0, clears them.  The comment at `render/session.cpp:296` relies on
    `buffers_mutex` "to allow reset and draw in between", which does not cover
    `next()`.  `ImplementsViewport` takes an image divided by zero for none.

Met while reading, outside the modules: `set_samples` may notify between `next()` and the
wait and be missed; the destructor of an OpenGL session has the race of item 1 a second
time at line 106; tiles cut short by a cancel are denoised as if complete; the lock
around OpenImageDenoise is never released by the thread that got it
(`device/device_cpu.cpp:1252`); the last chunk of a resumable render is shortened by the
wrong number (`blender/blender_session.cpp:1100`); `ImageHandle::metadata` and `svm_slot`
read the manager's vector without its mutex while other tasks append to it
(`render/image.cpp:147`); a light's number of samples is read by the integrator, which
`Light::tag_update` does not tag; a shader that turns into a volume does not tag the
camera, which counts the volumes it is in.

## 7. Not modelled, and why

Pixels, kernels and geometry on floating point numbers (out of reach of finite
checking) are the bulk of this repository: of some 180,000 lines more than half are
kernels, numeric tables (`render/sobol.cpp`, `util/util_sky_model_data.h`), vector
types and the declarations of some 90 shader nodes.  In the modelled parts are left out:
the order of tiles within a queue (no property depends on it); `display_outdated` and
times; what a reset that clears the vectors of the tile table while `next()` fills them
does to the memory (`ViewportGPU` only says whether the table ends up with tiles); the
scene mutex, which serializes `synchronize` with `update_scene`; switching
from preview to feature kernels (OpenCL); adaptive sampling's early end of a tile; in
the scene, baking, motion passes, AOVs and the values of all arrays; in the image
manager, animated images and the reading of files; in the shader graph, proxies,
default inputs, bump, displacement and volumes, and the folding of arithmetic; the
translation of Blender's data; the TBB task pool.
`PROJECT.json` lists every component with its status.

## 8. Plan

1. *(done)* Final render, viewports, grid, device task pool; safety of the tile table
   and the task pool proved.
2. *(done)* Lookup tables, scene update, image manager, with their proofs; shader graph,
   compiler and virtual machine.
3. *(done)* Proofs of what a final render delivers and of its refinement of
   `FinalRender`; of both viewports and their refinements of `Viewport`; of the freshness
   of the scene and the loading of images.
4. *(done)* Proofs about the geometry: slices, the Hilbert spiral, neighbours, the passes
   and the progress bar.
5. Candidates, by what they may find: the lock of the CPU device around
   OpenImageDenoise; the OpenCL memory manager, whose sizes drift; the chunks of a
   resumable render; RPCs and tile callbacks of the network device on one socket; the
   pointer map of the multi device; volume and displacement in `ShaderCompiler`.
