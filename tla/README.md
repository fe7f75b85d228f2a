# RenoDX: a verification development

RenoDX is a C++ toolkit for ReShade add-ons: per-game mods and developer tools
that are loaded into a game's process, sit between the game and its graphics
API, replace shaders, upgrade swap chains and resources, and can be inspected
from outside by a tool bridge. This directory holds TLA+ models of the parts
of it that are protocols: several threads, several DLLs or several processes
that have to agree, in code a unit test cannot drive into the interesting
interleavings.

All paths below are relative to the repository root; the longer ones are
shortened to the file name once they have been introduced.

## Inventory

### Components

| component | source | state it keeps | operations | status |
|---|---|---|---|---|
| cross-add-on sharing | `src/utils/cross_addon.hpp` | one process-wide `ControlBlock` per data type: data, module records, event handler | `RegisterModule`, `RegisterEvent`, `RegisterCallback` and their opposites | modelled |
| pipe server | `src/utils/ipc/ipc.hpp` `Server` | worker thread, published listener, map of connections, startup and stop flags | `Start`, `Stop`, `Send`, `Run`, `RunConnection` | modelled |
| pipe client | `ipc.hpp` `Client` | one handle, next request id | `Connect`, `Request`, `Disconnect` | as the bridge uses it |
| MCP server | `src/utils/mcp/server.hpp` | tools, per-connection session states | `Start`, `Stop`, `RegisterTool`, message handler | partly |
| MCP bridge | `src/apps/mcp_bridge/main.cpp` | selected pipe, forwarded session | stdio loop, discovery, reconnect, forwarding | modelled |
| GPU fences | `src/utils/gpu_fence.hpp` | one timeline of points, queue of callbacks, delivery worker | `QueueSignal`, completion queries, destruction; `QueueWait` | delivery and all backends modelled, without `QueueWait` and the discovery of contexts |
| shader file watcher and live shaders | `src/utils/shader_compiler_watcher.hpp`, `src/addons/devkit/addon.cpp` | watched directory, cache of compiled shaders, pending updates | `Start`, `Stop`, `Watch`, `CompileCustomShaders`, `FlushCompiledShaders`, load, unload | one directory, one device |
| dev kit tools and snapshots | `addon.cpp`, `src/addons/devkit/mcp/` | request deques per device, the list of devices, the snapshot under way and the one queued, its draws and indexes | tool handlers on pipe threads, present callbacks, command list callbacks | the protocols modelled, the data not |
| shader replacement | `src/utils/shader.hpp`, `src/utils/pipeline.hpp` | records of pipelines, registered bytes, built replacements | pipeline and bind events, `AddRuntimeReplacement`, `RemoveRuntimeReplacements` | late resolution modelled |
| resources and upgrades | `src/utils/resource.hpp`, `resource_upgrade.hpp`, `resource_replace.hpp` | views, clones, upgrade targets | ReShade resource events, copy redirection | not modelled |
| swap chain mods, device proxy | `src/mods/swapchain_v1.hpp`, `swapchain_v2.hpp`, `src/utils/swapchain.hpp`, `device_proxy.hpp` | back-buffer clones, proxy device and shared textures | swap chain and present events | not modelled |
| command lists, descriptors, state | `src/utils/command_action.hpp`, `descriptor.hpp`, `state.hpp`, `draw.hpp`, `render.hpp` | tracked state per command list, deferred actions | bind, draw and reset events | not modelled |
| settings, platform, hooks | `src/utils/settings.hpp`, `platform.hpp`, `detour.hpp`, `iat_hook.hpp`, `vtable.hpp` | presets, process-shared slots, patches | load, save, install, remove | not modelled |
| decompiler and shader compilers | `src/decompiler/`, `src/utils/shader_decompiler_dxc.hpp` and others | none | translation | not modelled |
| games and add-ons | `src/games/`, `src/addons/` | settings, embedded shaders | registration of the above | not modelled |

### How the parts interact

* Every DLL built from this code joins the process-wide block of
  `cross_addon.hpp` with plain calls; the block in turn calls ReShade's
  `register_event` and `unregister_event`. Nothing is locked: the callers are
  serialised by the loader.
* The dev kit owns one `mcp::Server`, which owns one `ipc::Server`. Requests
  come in on connection threads and call the message handler there. The MCP
  bridge is another process: it finds games by the names of their pipes, selects
  one and forwards tool calls through an `ipc::Client`.
* A tool that needs the render thread puts a request into a deque of a device and
  waits for a present of that device to perform it. A tool, or the overlay's menu,
  queues a snapshot by writing an atomic that the presents read; the threads that
  record and submit command lists then append to what the present will sort.
* A `Fence` forwards to one backend per graphics API. Its delivery worker polls
  the backend; the OpenGL backend has a worker of its own. The other backends
  put commands into queues the GPU executes at its own pace.
* The dev kit's present callback starts, polls and stops the shader watcher. The
  two threads share three maps, some flags and one mutex; the file system tells
  the watcher of changes through an asynchronous notification. What it compiles
  becomes a runtime replacement, which the game's recording threads resolve when
  they next bind the pipeline.

### What is hard

The behaviours worth a model, with the line where each bites and the properties
about it, are the `hazards` of `PROJECT.json`. In short: Windows calls that cancel
only what is pending; notifications without the mutex; local copies of shared
handles; ids, indexes and handles that are used again; submissions that fail half
way on one of several queues; a GPU that is slow or never answers; queues reserved
before and committed after a call that may throw; files that change while they are
read; time limits that race the answer; games that die between any two steps of a
request; and DLLs that come and go in any order.

### What makes each component correct

| component | promise | stated as |
|---|---|---|
| cross-add-on sharing | one copy of each callback is registered, by a member; no hand-over loses an event; a DLL that left has nothing registered | `DeliveredExactlyOnce`, `NoDeliveryGap`, `DetachedLeavesNothing` |
| pipe server | handles are closed once, answers reach the requester, `Start` and `Stop` mean what they say, clients that leave are released | `HandlesHaveOneOwner`, `AnswersReachTheRequester`, `QuietAfterStop`, `StartReturns`, `WorkerIsWoken`, `LeaversAreReleased`; violated: `StopReturns` |
| MCP bridge | a call runs once and where it was meant to, no dead session is trusted, the only game there is is found, at the latest after one failed call on a dead link | `CallsRunOnceWhereSelected`, `SessionsAreReal`, `AutoConnectsUnlessChosen` |
| callback delivery | callbacks run in order, once, after completion, never after destruction | `KeepsThePromise`, `OnlyCompletedPointsRun`, `QuietAfterDestruction`, `CompletedAreDelivered` |
| fence backends | points complete in order, a completed point covers what was submitted before it, nothing hangs, no sync object is lost or deleted twice | `IsATimeline`, `CompletionCoversAllContexts`, `CompletionCoversTheQueues`, `QueuesNeverLock`, `QueuesDrain`, `EverySyncHasOneHolder`, `NoSyncOutlivesTheContext`, `CompletionNeedsASignal`, `DestructorReturns` |
| live shaders | no edit and no update is lost, what is in use becomes what is on disk, presenting never hangs | `NoChangeGoesUnnoticed`, `UpdatesAddUp`, `MetadataNeverFlatters`, `LiveShadersConverge`, `PresentNeverHangs` |
| tool requests | an answer is true, and comes | `AnswersAreTruthful`, `CallsReturn` |
| snapshots | a capture ends, the queue moves on, indexes name the draws they are meant for | `CapturesEnd`, `QueueMovesOn`, `BatchesNameTheirDraws`, `UsageFitsTheDraws` |
| shader replacement | a replacement pipeline is destroyed once, and is made from the bytes registered now | `EveryReplacementHasOneHolder`, `ReplacementsAreCurrent` |

## The modules

| module | models | composes with |
|---|---|---|
| `CrossAddon` | `cross_addon.hpp`, every operation | |
| `IpcServer` | `Server` of `ipc.hpp`, driven by `mcp::Server::Start` and `Stop` | |
| `McpBridge` | the bridge with its pipe client, against games that speak the session protocol of `server.hpp` | |
| `FenceTimeline` | abstract: what a backend promises `Fence` | |
| `FenceDelivery` | `Fence::QueueSignal`, the delivery worker, `~Fence` | extends `FenceTimeline` as its backend |
| `CallbackPromise` | abstract: what `QueueSignal` promises its caller | implemented by `FenceDelivery` |
| `OpenGLFence` | the OpenGL backend | instance of `FenceBackends` |
| `GpuQueue` | external: queues and monitored fences of the GPU | |
| `KmtFence` | the kernel-mode backend of D3D9 and D3D10 | extends `GpuQueue`, instance of `FenceBackends` |
| `CrossQueueFence` | the D3D11, D3D12 and Vulkan backends | extends `GpuQueue`, instance of `FenceBackends` |
| `FenceBackends` | the variant of backends a `Fence` holds | implements `FenceTimeline` |
| `ShaderWatcher` | `shader_compiler_watcher.hpp` with the dev kit's consumer | |
| `DevkitRequests` | requests from tools to a device's present, for live shaders and resource analysis | |
| `SnapshotQueue` | `snapshot_device` and `snapshot_queued_device`: who captures, and who is next | |
| `SnapshotCapture` | the draws of a capture: recording, submission, sorting, indexing | |
| `ShaderReplacement` | late resolution of replacements over the records of pipelines | |
| `CrossAddon_proofs`, `IpcServer_proofs`, `McpBridge_proofs`, `FenceDelivery_proofs`, `FenceBackends_proofs`, `ShaderWatcher_proofs`, `ShaderReplacement_proofs` | their theorems | each extends its module |
| `Devkit_proofs` | the theorems of `DevkitRequests` and `SnapshotCapture` | extends both, which is why the latter names its specification `CaptureSpec` |

`MCCrossAddon`, `MCIpcServer`, `MCShaderWatcher` and `MCShaderReplacement` supply
sets, sessions and symmetry for model checking; the other modules take their
constants from the `.cfg` alone. A definition whose comment begins with "Defect for
comparison" or "A bug for comparison" is a plausible mistake in the code, kept
beside the definition it would replace: with the replacement TLC refutes the
property `PROJECT.json` names for it. No `Next` uses one.

A step of a model is what a thread does between two points where another thread
may interfere: one critical section, one access of an atomic, one system call.
Where the code runs under a lock throughout, or is serialised by its contract, a
whole call is one step.

### CrossAddon

`sequence`, `active` and `registrationCount` are the fields of `ModuleRecord`;
`records`, `live` and `registered` are its list of `EventRecord`s, seen as three sets of
callbacks (has a record, `active`, `reshade_registered`). `handler` and
`nextSequence` belong to the `ControlBlock`, and `bound` says whether the DLL's
`Shared::module` is set. `Join` is `RegisterModule` up to its last
synchronisation, which every Register call runs first; `Eldest`, `HandOver`,
`Sync` and `Withdraw` are `ElectHandler` and the functions it calls, applied in
the order of the code. A record is never freed, so a DLL that comes back finds
its own and with it its place in the order: it may take the role back from a younger
handler, while a newcomer never does.

### IpcServer

The owner's thread, the worker (`Run`) and one thread per connection
(`RunConnection`) each have a variable that says where they are; their local
handles are variables too (`workerPipe`, `connPipe`, `snapListener`,
`snapConns`, `closing`). `state_mutex_` sections are single steps, except that a
worker about to wait holds the mutex across two (`parking`), so that a
notification without the mutex can fall in between. Pipe instances are modelled
as Windows documents them: `ConnectNamedPipe` blocks, or returns at once when a
client came (`connected`) or came and left (`noData`); `CancelIoEx` acts only on a call that is
pending; an instance is `free` only when its handle is closed. With `Faults`,
each call may fail on its own account.

### McpBridge

The bridge handles one request at a time; `step` is where `HandleRequestObject`
is, from the first look at the backend through enumeration, connection and the
`initialize` exchange to the forwarded call. Every exchange is split (`wire`), so that a
game can die, or stop its server, before it reads the request, after it performed
it and before it answers, or after it answered; and any answer can be one the bridge cannot use
(`Discard`). A game's server clears its sessions before it
stops and its pipe is still there meanwhile ("stopping"). `performed` and `calm`
are history: which games took the call on, and whether since the request began one game, of a version the bridge
knows, has been there alone, has let it connect in time and has sent answers it can use. `calm` says nothing of the
link the bridge holds when the request begins, which may be to a game that ended.

### Fences

`FenceDelivery` takes an arbitrary `FenceTimeline` as its backend: the GPU may
finish points one by one or several at once, be lost (`UINT64_MAX` in the code,
`MaxPoints + 1` here), or stop accepting. `QueueSignal` is split where the worker
can interfere: entry, creation of delivery and worker, then the reservation, the
backend's call and the commit or the withdrawal with the mutex held
(`submitter = "reserved"`), and the notification after it. `CallbackPromise` says what the caller
may rely on, in four actions; the refinement mapping hides the reservation
(`Committed`) and the points.

`OpenGLFence` follows each sync object from its creation by the producer through
the queue into the worker's hands; `deletions` counts its deletions, so that
leaks and double deletions are both visible. `KmtFence` and `CrossQueueFence`
put signals and waits into the queues of `GpuQueue`, which execute independently
and in order. `owed` records, for each point, the work that was submitted
before it, and `retired` what the GPU has done of it. D3D11, D3D12 and Vulkan are
one instance of `CrossQueueFence`, which differ in the queues a fence is signalled
from (`Source`: D3D11 has its immediate context only) and in when they wait (`NeedsWait`).
`FenceBackends` chooses one of the five at the start, as the constructor of `Fence`
does by the API, and keeps it; all of them implement `FenceTimeline`, the assumption
`FenceDelivery` makes: this is how delivery is composed with each backend. The theorem
`BackendsAreTimelines` shows it for every number of queues and points.

### ShaderWatcher

A file is the number of its last write, 0 if absent; a custom shader is the
write it was compiled from with the revision of the defines, or a marker for a
failure or a removal. `Scan(t)` is `CompileCustomShaders`, run by the worker or
by the present thread: it holds the mutex, but the editor goes on writing, so each
file is stamped in one step and compiled, as it is by then, in another. `armed` and
`fired` are the outstanding `ReadDirectoryChangesExW` and its queued completion.
`frame` is where the present thread is in `OnPresent` or in a button of the dev
kit, `taken` what it took from the watcher, and `active` the replacements in
use. A session bounds what the editor and the user do and says whether calls may fail.

### DevkitRequests, SnapshotQueue, SnapshotCapture

In `DevkitRequests` a request is also its caller: `call` is where the pipe thread is,
from the resolved index over the wait of at most 15 seconds, which may end at any moment before the
request is started, to the answer. `started`, `canceled` and `completed` are the flags under the
request's mutex. Devices are addressed by their position in `list`, which shrinks
when one is destroyed, also between resolving an index and using it; withdrawing
a request that timed out goes by that index too. `queue`, `taken` and `running` are a device's deques, the
deque its present swapped out, and what it is performing, which may throw.
`served` is history: the devices that began to perform a request.

`SnapshotQueue` takes every read and write of the two atomics as a step, on the
pipe threads, in the overlay's menu, in the presents of each device and in its
destruction. Its processes check and then write without holding anything the
others hold, as the code does.

`SnapshotCapture` follows one device. Threads see the capture on and take the lock
later, so draws may come in after the capture ended, and after the next one began.
`batch` and `usage` are `draw_detail_indexes_by_cmd_list` and
`shader_draw_indexes`, positions in the list of draws, which `Finish` rearranges; the sort is
not assumed to be stable.

### ShaderReplacement

`info` is the map of `PipelineInfo`s, each under the lock of its shard, so that each access is a
step; `work` is `WithReplacementPipeline` on each thread: the record is read, the
bytes are read shader by shader, the pipeline is built, and under the lock again
the result is put in or thrown away. `update` is `AddRuntimeReplacement` or
`RemoveRuntimeReplacements` on its way from the registration through the copied list of handles and
the invalidation of each record to the destruction of what it took out. Handles
of pipelines and of replacements are used again. `recipe` is history: what each replacement was built
for and from.

## The runs

| run | instance | distinct states | question |
|---|---|---|---|
| `cross_addon` | 3 DLLs, 2 events, 1 callback each | 18 279 | registrations under any order of calls |
| `ipc_safety` | 2 clients, 2 instances, 3 connections, 2 starts, failing calls | 1 558 491 | ownership of handles, answers, meaning of `Stop` |
| `ipc_liveness` | 2 clients, 1 instance, 2 connections, 2 starts, failing calls | 22 002 | what must eventually happen |
| `ipc_stop_hang` | 1 instance, 1 connection, 1 start, no failures | violated | `Stop` returns |
| `mcp_bridge` | 3 games, one of another protocol version | 18 747 | calls, sessions and discovery while games come and go |
| `fence_delivery` | 4 calls, 3 points | 24 400 | order, completion, destruction, refinement of `CallbackPromise` |
| `fence_backends` | 4 sync objects; or 3 contexts, 2 points; or 1 or 2 queues, 3 points, 2 failures; 1 piece of work each | 194 663 | coverage, timeline, life of sync objects, no circle of waits, nothing hangs |
| `shader_watcher` | 2 shaders, 2 edits, 1 change of defines, 2 toggles; or 1 shader, 2 edits, 2 toggles, 2 loads or unloads by hand, failures; or 2 shaders, 2 edits, 2 toggles, failures | 435 246 | no edit, no update lost; convergence; no hang |
| `devkit_requests` | 2 devices, 1 request of each kind | 45 657 | true answers, and that they come |
| `snapshot_queue` | 2 devices, 2 tools, 1 menu | 87 536 | captures end, the queue moves on |
| `snapshot_capture` | 2 lists, 2 shaders, 2 draws, 2 submissions, 2 draws per list | 350 708 | indexes over sorting, late draws and further captures |
| `shader_replacement` | 1 pipeline handle, 2 shaders, 1 set of bytes, 3 replacement handles, 2 threads, 2 generations, 2 updates | 687 923 | one destroyer for each replacement; what is in use is current |

### Bounds

* Three DLLs: a handler, one that takes over and one that comes back in between.
  Two events, since what is registered for one must not depend on another. The
  number of calls is not bounded: the state space is finite.
* Two pipe instances and three connections, so that an instance is reused while
  another is in use and ids and handles no longer coincide; two starts, so that something of the
  first can be left over in the second. The liveness run has one instance (the
  default of `ServerConfig`), since only then does the worker wait for room.
* Three games: one to lose, one to find instead, and one that refuses the bridge. The number of
  requests is not bounded; a game that is started again has a new name.
* Three points and four calls let two callbacks wait while one runs and a fourth
  call is reserved, withdrawn or without callback.
* Four sync objects: one in the worker, two queued, one in the producer's hand.
  Three contexts: the primary one and two joined, so that a failure can leave one
  signalled and one not; two points, for one submission after a partial one.
  Two queues and three points: there and back again; two failures, one on each
  queue or both on one. One piece of work per queue tells what a point covers.
* Three versions of a file (one that is there at the start, two edits), so that it can change
  between the stamp and the compilation and once more afterwards. Two shaders, so that a scan
  has more to do when an edit comes in.
* Two devices, so that an index can come to name the other one; one request of each
  kind, as the kinds have deques of their own; a caller can be in front of or behind the other.
* Two draws can be compared only one way round, while the code's comparison of three or more,
  some of them not submitted, can go round in a circle. `Arrangements` then admits every
  arrangement, and the proof covers any number of draws.
* One pipeline handle with two generations stands for two pipelines that follow one
  another; two threads build for it, and a third replacement handle can be fresh
  while two are in use. One set of bytes and none are the two values an update can change between.

The proofs cover every size of the models they are about, for all safety properties the
runs check. For the liveness properties, and so for `snapshot_queue` as a whole, the argument
rests on the bounds alone.

### Symmetry

`cross_addon`, `ipc_safety` and `shader_replacement` permute DLLs, clients, and threads
and handles. Nothing in the models tells them apart (sequence
numbers are given by the order of arrival), and none of the three checks liveness.

### Deadlock

`cross_addon`, `mcp_bridge`, and no other, are checked for deadlock: a DLL can always make a call
and the bridge can always be asked. The other
instances really stop: the owner has used up its starts and stopped the
server, the fence is destroyed, the GPU has nothing left to execute, the editor
is done and live shaders are off, every request is answered, no device is left.
Hangs that matter are stated as liveness properties instead.

### Fairness

* `IpcServer`: the owner's thread within a call, the worker and each connection
  thread keep running, and handlers return. Nobody has to call `Start` or `Stop`, and
  clients need do nothing.
* `FenceDelivery`, `FenceBackends`: the threads of the class keep running, and callbacks return.
  Each queue of the GPU executes what it can execute, except that OpenGL's GPU is
  not fair: destruction must end even if it hangs. Nothing promises
  that a call is ever made.
* `ShaderWatcher`: the worker keeps running and the game keeps presenting; the
  editor and the user need do nothing.
* `DevkitRequests`: pipe threads run on, the clock included; a present that has begun goes on. No device
  need ever present, and devices may go at any time.
* `SnapshotQueue`: devices keep presenting, and a request, a present or a
  destruction that has begun goes on. Nobody need queue anything.

These are weak fairness conditions on whole threads: a thread that can go on
without interruption does, as the operating system schedules it. None of them
lets a thread pass a lock that others keep taking.

## A disagreement

`ipc_stop_hang` finds that `Stop` may wait forever. The worker publishes its listener
and reports success (`ipc.hpp:619-623`) before it calls `ConnectNamedPipe` (`:625`); a `Stop` in
between cancels a call that is not pending (`:488`), and the worker then blocks in a call
that nobody cancels any more, while `Stop` waits for it in `join`. `src/tests/ipc_pipe_test.cpp` stops a server at once after
starting it and expects this to work; so it nearly always does.

## Observations

Behaviours the models have that a maintainer may want to know of. No document or
test of the repository says otherwise, so they are not counted as disagreements.

* The listener can end for good when a client leaves while all instances are
  taken: `RemoveConnection` wakes the worker (`ipc.hpp:716`) before
  `CloseConnection` gives the instance back (`:728-738`), `CreateNamedPipeW` fails,
  and `Run` ends. The server then counts as stopped.
* `Stop` notifies without the mutex (`ipc.hpp:474`). The worker is woken all the same,
  but by the connections that end, whose threads take the mutex: `WorkerIsWoken` needs them.
* The device a tool selects, and the device of a request, is an index
  (`addon.cpp:148`, `snapshot_tools.hpp:242`). When a device before it is destroyed (`addon.cpp:4284`) the index
  names another one. Nothing the tools' protocol knows tells them apart, so no property can say which
  one was meant; `AnswersAreTruthful` is about the device the request was put to.
* Two requesters can both be told that their snapshot is queued (`addon.cpp:4117`,
  `:4138`, `:5446`): they find the queue free together, and the later write
  replaces the earlier. `QueueMovesOn` says that the queue gets through nevertheless.
* A tool that found its device before the destruction of that device cleared the queue can
  write the queue afterwards (`addon.cpp:4275-4283`): the entry then names no living device and
  stays until the menu queues another snapshot: tools refuse while it is there, and only a present of its device would take it.
* When a game was started again its pipe has a new name, and the first tool call after that fails: the bridge
  trusts the link to the game that ended (`main.cpp:736`), the call sent there gets no answer (`:600-606`), and the tool is told that no
  backend is available (`:1120-1133`), although one game is there and nobody chose a pipe. The link is then given up, and the next call finds the
  game. The call is rightly not sent again, since it may have run. `AutoConnectsUnlessChosen` allows for this one call.
* After `renodx_connect` the bridge no longer selects a pipe on its own
  (`main.cpp:742-744`, `:892`), also when the chosen game has ended and one other
  runs. `AutoConnectsUnlessChosen` has this exception too.
* Loading by hand reads the cache and then discards the queue (`addon.cpp:5389`):
  an update queued in between is dropped. If the notification cannot be
  armed in the round in which the compile request is taken
  (`shader_compiler_watcher.hpp:699`), a change before the next round is not seen. `UpdatesAddUp`,
  `NoChangeGoesUnnoticed` and `LiveShadersConverge` are therefore about sessions without either.
* A replacement handed out by `WithReplacementPipeline` is bound after the record's
  lock is released (`pipeline.hpp:904`); an update may destroy it in between. Nothing says until when it may be used.
* Hazards that were looked at and left out of the list: `UnregisterModule` withdraws a
  module's events but not the callbacks it put into the shared data
  (`cross_addon.hpp:303`), and knows a module by the address of a static (`:85`), where
  another DLL could be loaded later; `Stop` needs a connection's `write_mutex`, which a write to a
  client that does not read can hold (`ipc.hpp:493`); the close handler of a
  connection runs after its entry was erased, possibly after `Stop` (`:718`), and clears the session of an id
  that may have been given again (`server.hpp:65`); a callback that destroys its own
  fence detaches the worker (`gpu_fence.hpp:986`); points are 64-bit numbers with two
  reserved values (`:366`), out of reach by counting; the device API is read before the
  mutex is taken (`shader_compiler_watcher.hpp:297`).

## The proofs

TLAPS checks the theorems for every value of the constants that satisfies the
`ASSUME` of the module, which TLC evaluates on the instances. Each module has the
same layout: an invariant `Inv`, a conjunction of named parts; `InitInv`; the preservation by each action,
in one lemma per part (with a case per action) or one per action; and the theorems, which follow from `Inv` with PTL.

* `CrossAddon_proofs` assumes only that every callback is written for some event
  and that the null pointer is no module. Two parts of `Inv` are there to make it
  inductive: `SequencesOrdered`,
  since the eldest module is unique only if no two share a sequence number, and
  `HandlerInSync`, since what is delivered follows from what is *registered* only if
  every call leaves the handler's registrations up to date. `JoinKeeps` shows that
  the common prefix of all Register calls preserves what the rest of each call
  needs; `ElectAndSync` says what an election and a synchronisation do to the
  registrations.
* `IpcServer_proofs` has five parts beside the types. `WorkerInv` ties the worker's handle and the
  published one to the worker's place; `ConnectionInv` says that a connection stays
  in the map under its id, with a handle, until it is removed, and that objects are used in
  order; `HandleInv` that the handles are distinct and open; `MessageInv` that the
  request a thread handles is from the client at the other end; `OwnerInv` what `Stop` has
  established when it returns. The last one is why ids may begin again with a
  start: nothing serves any more. `HandlesHaveOneOwner`, `AnswersReachTheRequester` and `QuietAfterStop` follow.
* `McpBridge_proofs` says what the bridge believes (`Linked`), what the game at the other end knows
  (`Remembered`), how far an exchange is (`Exchanged`), what was performed and answered by when (`Counted`) and,
  for requests with one lasting game, that only a link from before the request can fail (`Calm`): a connection the request made
  itself leads to that game, which answers. `Disconnected` says that giving up a link leaves none.
* `FenceDelivery_proofs` joins the types, `QueueIsInOrder` (only the last entry can be a reservation, and
  accepted points are queued in order), `QueueInv` (the queue holds calls in order,
  for accepted points, and at its end the reservation of the call under way),
  `WorkerInv` (what the worker runs and has run is older than everything queued) and
  `LifeInv` (the mutex is not held once delivery stops, and there is no queue
  without a worker). The refinement
  `DeliveryKeepsThePromise` then shows that every step of `FenceDelivery` is a step
  of `CallbackPromise` or leaves its variables alone; `CallsOfAppend`, `CallsOfTail` and
  `WithdrawnAppend` say how the mapped queue follows the real one.
* `FenceBackends_proofs` has an invariant for each kind of backend (`GLInv`, `KernelInv`, `CrossInv`);
  `Inv` joins them by `backend`, and the theorems follow from it.
  * OpenGL. `GLSyncs` says that sync objects pass from the producer through the queue to the worker in
    the order of their creation, and that those nobody holds (`Alive`) are deleted, once; `GLPoints`
    that points are queued without a gap, which makes completion go one by one; `GLThreads` what the place
    of each thread says of what it holds.
  * D3D9 and D3D10. A completed point covers the work of a context since a signal in its queue stands
    behind that work. What is behind what is said by a *meter* (`Meter`), a function that gives for each
    position in a queue the work retired when the queue gets there; every command enqueued or executed
    extends or shifts it, so that no induction over the queue is needed. `KernelWaits` carries this over to the primary context: in front
    of a signal for a point there stands a wait for it on every joined context (`Awaited`), also while a call that
    failed has left signals and waits behind; from then on a joined timeline is ahead (`Stranded`), and `QueueFence` refuses. `KernelCall` says how far the call under way is.
  * D3D11, D3D12 and Vulkan. The same meters, and `CrossOrder`: in front of each signal stands a wait for the point before it, or
    its signal (`Behind`). Hence the value never goes back, and a point covers what the one before it
    covers. `CrossLast` is why Vulkan needs no wait on the queue that signalled last, and `CrossSignals`
    why every accepted point is signalled, once.
  * `QueuesGoOn` takes the least point that is not reached: its signal is in some queue, and what stands
    in front of it there waits for nothing later. With joined contexts, only the primary one waits at all.
  * `BackendsAreTimelines` is the refinement. `Moves` spells out the steps of `FenceTimeline` for the
    mapped values; `GLMoves`, `KernelMoves` and `CrossMoves` show that each action makes one or none.
* `ShaderWatcher_proofs` shows `MetadataNeverFlatters` for every session, from `StampInv`: no stamp
  runs ahead of the writes. For undisturbed sessions it shows `UpdatesAddUp`, which is
  inductive once `CalmInv` says that only the worker compiles, and
  `NoChangeGoesUnnoticed`. That one needs `NoticeInv`: as long as the armed notification has not
  fired and nobody asked for a compilation, every file a scan has passed is `Settled`.
* `Devkit_proofs` has two halves. For `DevkitRequests` it says where a request can lie (`Placed`: in the deques of the device it was put to, or in the one its present took) and what its flags say (`Flagged`: `started` and `canceled` exclude each other, and the
  caller's place follows).
  For `SnapshotCapture` (`CaptureInv`) it shows both indexes correct, whatever arrangement the sort ends with.
* `ShaderReplacement_proofs` takes ownership as a function from holders to sets (`Each`) with lemmas
  for moving, creating and destroying a replacement; currency follows from `RecordInv` and
  `WorkInv`: a record, and what a thread has read, is current or the update under way has yet to invalidate it.

Liveness stays with TLC: `StartReturns`, `WorkerIsWoken`, `LeaversAreReleased`, `CompletedAreDelivered`,
`DestructorReturns`, `QueuesDrain`, `LiveShadersConverge`, `PresentNeverHangs`, `CallsReturn`, and both properties of `SnapshotQueue`,
`CapturesEnd` and `QueueMovesOn`, which is why that module has no theorems. All other properties of the
passing runs are stated by a theorem. `QueuesNeverLock` is the safety half of `QueuesDrain`; that the queues then do get empty
rests on fairness and is checked on the instance only.
Nothing is proved about how TLC's instances relate to the C++ code: that
is what `map` in `PROJECT.json` and the comments are for.

## Not modelled, and why

* A handle in `Stop`'s snapshot that the system gave to something else before it is used
  (`ipc.hpp:480-490`): the model's handles are the server's own pipes. `CancelIoEx` and `DisconnectNamedPipe`
  on the listener (`:488-489`) are one step; a `ConnectNamedPipe` that starts between them counts as one that starts after both.
* An exception of `create_directories` in the watcher's thread (`shader_compiler_watcher.hpp:590`): nothing catches it, and
  the process ends.
* The close handler of the pipe server on its detached thread, and writes that
  block on a client that does not read. The registration of tools while clients ask for them.
* The client's framing and size limits: data.
* `QueueWait`, whose users, the proxy devices, are not modelled either; the discovery of kernel-mode queue
  contexts and the hooks it needs.
* `SetLivePath` and `SetDeviceApi` of the watcher, and several devices that present:
  the dev kit keeps live state per device, the watcher one.
* The overlay, and what the tools report of a snapshot or a resource: data.
* Replacement at the creation of a pipeline, layouts with injected constants, and the end of a device with
  replacements on it.
* Resources and their upgrades: mostly bookkeeping of ReShade's own callbacks under locks, for which a model would be a list of
  hash-table updates. The swap chain mods and the device proxy rest on them.
* Command lists, descriptors and tracked state: each list belongs to the thread that records
  it, and what is tracked is data.
* Settings, platform, hooks: wrappers around system calls.
* Decompilation, compilation and games: no protocol; the data is what matters, and most of the repository's lines are of this kind.
