# AM Pilot Slicer Core in TLA+

A verification development of the Slicer worker: TLA+ modules that model the
program under `src/src/`, configurations that model-check them with TLC on small
instances, and theorems proved with TLAPS for every value of the constants.
`PROJECT.json` lists the components, the runs, the lines every definition
stands for, the hazards of the code and the theorems.

- [The system](#the-system): what the worker is made of and what is hard about it
- [The modules](#the-modules): how the models correspond to the code
- [What is checked](#what-is-checked): runs, bounds, fairness
- [What is proved](#what-is-proved): theorems and the invariants behind them
- [Where code and text disagree](#where-code-and-text-disagree)
- [What is not modelled](#what-is-not-modelled) and [the plan](#the-plan)

## The system

The worker polls the AM Pilot API for Slicer runs, one execution slot for all
the engines it serves. A claimed run is downloaded, normalized, sliced by a
native engine, turned into a toolpath preview and a manifest, and uploaded. It
is leased: it reports progress, sends heartbeats, and may lose its lease, be
cancelled, or be interrupted by SIGTERM at any await.

| Component | State | Operations | Talks to | Correct when |
| --- | --- | --- | --- | --- |
| Worker loop (`worker.js` 422-499, `index.js`) | next engine, empty count, errors in a row, process signal | verify engines, claim, execute, poll delay, control backoff, stop | API (claim, health), runClaim, cache (dispose) | every queue is asked in turn, a delay means all are idle, a signal ends the process cleanly |
| Run (`runClaim`, `worker.js` 218-419) | job signal and its reason, heartbeat interval, progress, run directory, upload attempt | progress, heartbeat, work, complete with retry, fail, cleanup | API (progress, complete, fail), everything below | success means the API accepted it, silence means the lease is over, nothing outlives the slot |
| API client (`api-client.js`) | none between calls | health, claim, progress, fail, download, complete | fetch, with a timeout and the caller's signal | each failure is classed retryable or not, and no call waits for ever |
| Source download (`api-client.js` 174-244, `worker.js` 146-169) | bytes received, hash, file, attempt | request, chunk, verify, retry | API, run directory | what is returned is the model |
| Native process (`process.js`, `native-cpu-affinity.js`) | one promise, timer, abort listener, child | spawn, output, close, error, timeout, abort | child processes | a call settles once; success is genuine; no engine works for nobody |
| Normalization cache (`normalization-cache.js`) | Map of entries, byte account, closed | get, put, prune, stats, dispose | plate preparation, interval timer | within its limits; tenants and runs never share a buffer; reuse ends at the TTL; released memory is zeroed |
| Plate preparation (`plate.js`) | sources by file, painted sources, byte totals | convert, reuse, paint, write inputs | cache, native process, 3MF rewriting | every object gets its own file and paint, within the limits |
| Toolpath compiler (`toolpath.js`) | comment state, chunk buffer, chunks, layers, records file | comments, moves, flush, assemble | G-code file, summary of `gcode.js` | layers and chunks index the same records |
| G-code evidence (`gcode.js`, `layer-gcode.js`, `pause-verification.js`, `gcode-lines.js`) | layers and events read | inspect, verify scripts, verify pauses | the same G-code file, read four times | the readers agree, and what they accept was asked for |
| Egress proxy (`egress-proxy.js`) | client and upstream socket per tunnel | connect, reject, relay, time out, stop | worker, API | the sockets of a tunnel end together; one status line per connection |
| API transport (`network.js`) | dispatcher, one tunnel | fetch directly or through the proxy | egress proxy, API client | stages arrive in order; through the proxy only a long request of the run's own costs a heartbeat its turn |
| Preparation contract (`preparation-contract.js`, `validateClaim`) | none | validate plate, points, scripts, modifiers, capabilities | run | nothing else is prepared |
| Geometry (`three-mf.js`, `advanced-three-mf.js`, `transform.js`, `object-overrides.js`, `modifier-geometry.js`) | none | flatten, place, number, share, override | plate preparation, engines | every placement is its own object's |
| Support paint (`support-paint.js`) | none | check annotation, paint, compare after conversion | plate preparation, native converter | paint stays on its facets |
| Engines and profile (`engine.js`, `bambu-*.js`, `execution-profile.js`) | completed and failed phases | phases in order, one event | run, native process | the event comes once and is true |
| Manifest (`manifest.js`) | none | build, write | run | it is about the file that was checked |
| Configuration | none | read once | all | out of scope |

What makes it hard: the heartbeat, the process signal and the run's own
coroutine all act on one job signal; answers of the API are lost, late or
garbled while the API has acted; a killed child outlives its promise; a
conversion of minutes lies between a cache miss and the put; one buffer is
written to a file asynchronously and filled again; comments of user scripts look
like the engine's; the native converter and the native engine may return anything,
and what they return is read by several readers; through the proxy a heartbeat and a
transfer share one connection, and each socket of a tunnel may end at any moment.

## The modules

**`SlicerRun`** models `runClaim`. `pc` is the await the coroutine is in:
`claimed`, `progress`/`awaitProgress`, `work`, `send`/`awaitComplete`/`backoff`,
`catch`, `awaitFail`, `removing`. Each action runs from one await to the next, as
JavaScript does: `Catch` is the whole catch block up to the await of `api.fail`,
`Finish` the whole way out. `net` holds the requests that left the worker; the API
(external) may act on one and lose the answer, answer what it did not do, refuse,
or let it lie. The heartbeat is `BeatFires`, `BeatEnds` and `BeatGivesUp` with the
`heartbeatActive` flag in `beat`; `reason` is `jobSignal.reason`, set once by
whichever came first. The work between two updates (download, preparation,
slicing, preview) is one step here and the other modules' subject. Left out: what
a progress request says, the length of pauses, log lines.

**`RunContract`** is what the run promises, in terms of the slot, leases and
verdicts only: success is claimed only for accepted artifacts, silence is excused,
artifacts are offered only by the open run in the slot. `SlicerRun!ImplementsContract`
is the refinement (`slot <- cur`, leases and the process mode derived).

**`WorkerLoop`** models `runWorker` and `runWorkerLoop`: `next`, `empty` and the
catch block with its backoff, the exit code of `index.js`. `runClaim` is the step
`ExecuteReturns`, justified by `SlicerRun!ClaimSettles`.

**`SourceDownload`** models one model's download: chunks, the limits tested before
each write, the final test, the error paths that remove the file, three attempts.
`ShortWrites` says whether the file system may write less than it is asked to.

**`NativeProcess`** models `runProcess` for the calls of one slot, one after the
other. A child has a life of its own: a killed child stays `alive` until it exits
and `exited` until its pipes are read. **`NativeCpuAffinity`** is the pure part of a
call: the CPUs a thread budget selects from the kernel's list of ranges, and every reason
to refuse the list. A call records the list it read and the CPUs its child is bound to.

**`NormalizationCache`** models the cache and its caller over a heap of buffers, so
that aliasing, zeroing and leaks between runs are visible. The JavaScript Map is a set of
entries and the order `before` in which it iterates them; a hit or a put moves its key
behind all others (`MovedLast`), and eviction keeps what lies behind the first entry after which
the new value fits (`Evicted`). `storedAt` and `older` are history: when each source was put,
and which were used since. Left out: the counters.

**`PlateInputs`** models `materializePlateInputs` for several runs of one process.
Normalized bytes are the file and paint they were made from and whether the paint
survived; the cache may forget anything at any time (what it really forgets is
`NormalizationCache`). Left out: geometry; conditions that only data decides are one
action, `Refused`.

**`ToolpathCompiler`** models the compiler's line loop: which comments are heard
(custom scripts, firmware blocks, dialects), how records fill the chunk buffer, how
chunks are written piece by piece, how layers open and close, and the final
reconciliation with the summary's count. Left out: coordinates, modal state,
statistics. `buffer` keeps stale records as the real one does.

**`EgressProxy`** models the CONNECT proxy: per connection a client socket with its two
directions, an upstream socket, the stage of the request and the status lines sent; every
handler is an action, among them `RejectedClientFails`, the error nobody listens to, after
which the process and all its tunnels are gone. What node does to half-closed sockets is
external. **`ApiTransport`** EXTENDS it with the transport of `network.js` and the two
senders of a run (its coroutine and its heartbeat). Directly every request has a connection;
through the proxy they wait in `queue` for the one tunnel. Time is counted in ticks since a
request was made (`age`). A heartbeat that fails aborts the job's signal and with it every
request (`BeatFails`); an update of main that fails ends the job without its signal, and a
heartbeat on its way goes on (`MainFails`); the report that follows is `SlicerRun`'s. Every step of
the transport is a step of the proxy or leaves it alone: the transport implements `ProxySpec`.

**`PreparedPrint`** composes what happens to one claim from validation to manifest, with the
rules of the parts in modules of their own:

- **`PreparationContract`**: the limits on pauses, scripts and modifiers, their relations to
  each other and to the capability of the claim, and what lines a script is made of.
- **`SupportPaint`**: the paint trees of an annotation with their node budget and depth, the
  mesh that is painted, and the comparison with what the converter returns.
- **`GeometryPackage`**: the object graph of a source, flattened within depth and byte
  budgets, and the packages of both engines with their numbering, shared meshes, modifiers and
  overrides. Space is a line and a matrix a scale and an offset on it; a negative scale
  mirrors and turns facets, as a negative determinant does.
- **`GcodeEvidence`**: the readers of the printed file, one line at a time: the summary's
  count, `verifyNativePauseEvents`, `verifyNativeLayerGcode`; and what an accepted file does,
  stated by where its lines stand.
- **`GcodeLines`**: how each reader cuts text into lines: the batches of
  `readGcodeLineBatches` with `carry` and `skipLf`, `readline`, and `gcodeLines`.

The native converter (`Conversions`) and the native engine (`Lines`, `LineEnds`) may return
anything within the bounds. Any step may throw instead (`Fails`); `Throw` is the catch block
of `runClaim` as far as the profile is concerned.

The modules meet at named properties: `SlicerRun` takes from `NativeProcess` that
native work ends (`EveryCallSettles`) and from `SourceDownload` that downloads do
(`DownloadEnds`); `WorkerLoop` takes `ClaimSettles`; `PlateInputs` takes from the cache
that a hit is what was put (`HeldIsOwn`) and adds that what is put is true
(`ReuseIsFaithful`); `PreparedPrint` takes from `PlateInputs` that each object's source is its
own (`PreparedAsAsked`) and leaves aborts and retries to `SlicerRun`; `ApiTransport` refines
what `SlicerRun` calls a request that is lost, late or given up.

`MCSlicerRun`, `MCNativeProcess`, `MCNormalizationCache`, `MCPlateInputs` and
`MCPreparedPrint` add symmetry, bounds and values for TLC; the other modules are checked as
they are. Definitions introduced by
a comment "Mutant:" are changed forms of the definition after them, as a plausible
bug would have it; `PROJECT.json` pairs each property with one that violates it.

## What is checked

| Run | Question | Bounds |
| --- | --- | --- |
| `slicer_run` | Are verdicts, offers and reports justified, is the directory removed, is the slot quiet, does the run implement `RunContract`? | two runs, one model, at most two requests in flight, the second run up to its second update; 911,000 states |
| `slicer_run_live` | Is the slot always given back; does a signal always end the worker? | one run, five requests in flight (more than it can have) |
| `worker_loop` | Fair rotation, delay exactly when idle, every queue asked, the signal ends the process | three engines, queues that change at any time |
| `worker_loop_exit` | Does a stop request always exit with code 0? It does not. | two engines |
| `source_download` | Is the returned file the model; does the call end? | four bytes, chunks up to three, limit five |
| `source_download_short` | The same if writes may be short: the file is not the model. | the same |
| `native_process` | Genuine success, one working engine on permitted CPUs only, every call settles | two calls; every list of up to two ranges of three CPUs, no budget or one of 2, 3 and 4 with a maximum of 3 |
| `normalization_cache` | Budget, ownership, TTL, LRU, zeroing | five identities of two tenants (one shared source, one that fits beside a small one only, one larger than the cache), two entries, four bytes, TTL two of three ticks, five buffers; 313,000 states |
| `plate_inputs` | The engine is given what was asked; the cache holds nothing untrue; memory is counted | two runs, two models, two paints, plates of up to two objects |
| `toolpath_compiler` | Layers and chunks index the file; features are the engine's | five records in chunks of two, three layer comments, two features, both dialects |
| `api_transport` | Sockets end together, one status line, silent tunnels are closed; through the proxy stages stay in order; there a heartbeat that times out behind a request of main's waited for one that is at least as old, a transfer or an update that is out of time too | two clients of the proxy, one of them the worker; with and without a dispatcher; request limit three ticks, job limit four, three stages; 330,000 states |
| `prepared_print` | Paint survives the converter; placements are their own; accepted files print what was asked; one true profile event; all readers count the same lines | 1020 claims in three families (paints, plates, heights), files of up to seven lines with layer actions and two without, chunks of up to two characters; 1.6 million states |

Why the bounds are enough. *Runs*: a heartbeat or an upload of one run can only
disturb its successor; two runs in one process show it, and the constraint cuts the
second run after its second update because what follows is what the first one does.
*Requests in flight*: main and the timer have one each at a time; more are those given
up, which only answer late. *Engines*: three neighbours are more than any deployment
has; the theorems cover every number. *Cache*: with two entries and four bytes each
limit is reached without the other: a small value displaces the older of two entries by number,
a value of three displaces by bytes, and sometimes more than it would have to. *Toolpath*: five
records make a full, a full and a partial chunk, and one more than fits; three layers
give an empty one between two others. *Plate*: two objects are the least that can share
or confuse a painted source, the second run the least that can trust what the first left.
*CPUs*: two ranges overlap, touch, are out of order or leave a gap; the budget is below, at
and above what they hold and what the policy allows. *Transport*: a transfer of four
ticks is longer than the three a heartbeat has, three updates may follow each other while one
waits, and the other client can crash the proxy or
keep it from stopping. *Paints*: two divided facets reach the node budget, three exceed it; a
source with one facet twice, or with a flat one, must be refused. *Plates*: two objects are the
least that can share a mesh they should not; what a graph means is read as deep as `flattenSource`
follows it (`MaxGraphDepth`), and the theorem covers every limit of it and every number of objects. *Heights*: a layer between two asked ones, a pause
and a script at one height, two pauses in either order; a file that holds two whole scripts needs eight
lines and is not reached, so only its refusals are; the theorem covers files of any length. *Text*: any mix of LF, CRLF and CR
in files without layer actions, LF or CRLF throughout in the others, cut into chunks of none, one or
two characters; files of more than four lines (`MaxCutLines`) are read in one chunk.

Deadlock is not checked in any run: every one of these programs is meant to stop.

Fairness, and why the code justifies it:

- `SlicerRun`: weak fairness of main's steps only. Each await is a request under
  `AbortSignal.timeout` (`combineSignal`), a pause, native work bounded by
  `jobTimeoutMs` or local work; the API, the timer and the signal owe nothing.
- `WorkerLoop`: weak fairness of the worker's steps, with the above for `runClaim`.
- `NativeProcess`: the timer, once set, fires, and `/proc` is read. Nothing is assumed
  of the child: it may run for ever or keep its pipes open.
- `SourceDownload`: request and stream are one fetch under `jobTimeoutMs`.
- `ApiTransport`: the idle timer of a socket fires while nothing moves on it
  (`socket.setTimeout`). Nothing is assumed of the API, the other clients or the network.

## What is proved

All proofs hold for every value of the constants under the named assumptions of the
modules, which TLC evaluates in the runs:

- `NoRunAssumption`, `ModelsAssumption` (`SlicerRun`), `NAssumption` (`WorkerLoop`),
  `SizesAssumption` (`SourceDownload`), `ModelsAssumption` (`PlateInputs`), `BudgetAssumption`
  (`NativeCpuAffinity`), `ConnectionsAssumption` (`EgressProxy`), `TransportAssumption`
  (`ApiTransport`), and `LimitsAssumption` of `PlateInputs`, `ToolpathCompiler` and
  `NormalizationCache`: types and ranges, as `config.js` enforces them.
- `ListsAssumption` (`NativeProcess`): the kernel's list is a sequence of ranges of natural
  numbers, in any order, overlapping or empty; what does not match the expression of
  `native-cpu-affinity.js` is refused before there are ranges.
- `PrintAssumption` and `LineEndsAssumption` (`PreparedPrint`): a chunk is not of no characters
  for ever, and a line has any of the three ends, the last one perhaps none. A file with layer
  actions has no end of CR only, because the readers of such files do not know it (see
  [below](#where-code-and-text-disagree)).
- `PaintAssumption` (`SupportPaint`) and `PaintsAssumption` (`PreparedPrint`): limits are
  numbers; the coordinates of an STL and of a mesh are numbers (`readPaintableStl` and the
  reading half of `assertSupportPaintRoundtrip` refuse what is not), a record of a paint is a
  facet and digits (the expression of `validateSupportPaint`), and objects come in a sequence.
  Nothing is assumed of which facets a mesh has, where they are, or what is painted on them.
- `PlacesAssumption` (`PreparedPrint`): a normalized file is read as a document of numbers
  (`parse3mfTransform` and `flattenSource` refuse what is not finite), and the scales at which an
  object or a modifier is placed are greater than 0 (`vector` with `positive` in `transform.js:24`
  and `preparation-contract.js:91`). The parts of a source may be mirrored, shared, cyclic, missing
  or empty, at any depth.
- `EvidenceAssumption` (`GcodeEvidence`) and `PointsAssumption` (`PreparedPrint`): pauses and
  scripts come in lists, their heights are numbers (`finite` in `preparation-contract.js`), no
  script is called null, which is what the reader has while none is open, and a plate of an older
  project has none of them. That no two are alike is not assumed: the contract refuses it.

A type invariant that is proved (`TypeCorrect`) is not spent a run on where TLC would only
repeat it.

| Module | Theorems |
| --- | --- |
| `SlicerRunProofs` | `TypeCorrect`, `PublishedWasAccepted`, `WithdrawnWasExcused`, `DirectoriesReleased`, `OffersUnderLiveSignal`, `NeverFailsOnLeaseError`, `QuietOnceReleased`, `Refinement` |
| `WorkerProofs` (the loop, then the cache it disposes of) | `LoopTypeCorrect`, `NoStarvation`, `PausesWhenIdle`; `TypeCorrect`, `CopiesAreOwn`, `ReuseEndsAtTtl`, `ReleasesZeroed`, `BudgetKept`, `LeastRecentGoFirst` |
| `ApiClientProofs` (the download, then the transport) | `DownloadTypeCorrect`, `CompleteWritesReturnTheModel`; `UsesTheProxy`, `UpstreamHasItsClient`, `StatusIsOne`, `TypeCorrect`, `StagesNeverGoBack`, `UpdatesNeverCostTheJob` |
| `NativeEngineProofs` (a child process, then a prepared print) | `ProcessTypeCorrect`, `SuccessIsGenuine`, `NoOrphanWorks`, `BoundToPermitted`; `ProfileIsTrue`, `LinesAreCountedAlike`, `PaintIsKept`, `AcceptedDoesAsAsked`, `PackageMeansThePlate` |
| `GeometryProofs` (what a document and a package mean) | `SourceFlattened`, `BambuOwn`, `PrusaOwn`, `FileOwn` |
| `PlateInputsProofs` | `TypeCorrect`, `EngineGetsThePlate`, `CacheIsFaithful`, `EveryByteIsCounted` |
| `ToolpathCompilerProofs` | `TypeCorrect`, `LayersReconcile`, `ChunksReconcile`, `ScriptsKeepTheFeature` |
| `DataInduction` | the lemmas about data the others cite |

**Induction over data.** The library's induction theorems take an operator as a parameter,
which the provers cannot instantiate. `DataInduction` states them for sets instead: a set of
numbers with 0 and every successor is all of `Nat` (`AllNat`), a set of subsets of a finite set
that grows by one element has all of them (`AllSubsets`), both from the well-foundedness of their
orders. From these it follows what a definition by recursion is equal to: over numbers
(`RecursionUpTo`), over subsets (`RecursionOnSubsets`), and over any set with a measure that
decreases (`MeasuredRecursion`); then what `FoldLeft` and `FlattenSeq` give (`FoldEnds`,
`FlattenRecursion`), and what a sum over a finite set is (`SumOfOneMore`, `SumSplit`,
`SumsAgree`). Its last part is about ranks: in a finite set whose members differ in a number, each
has a place of its own (`RankIsOnto`), and a list that grows with a set holds the set in order
(`OneMoreCollected`, `FirstCollected`); and about sequences of sequences: where the entries of each
stand when all are put together (`ConcatIndexed`), and how to find them there (`PartIndexed`). A recursive definition is a `CHOOSE` of a function that satisfies its equation; the
lemmas show that there is one.

Each component's proof has an inductive invariant from which the rest follows:

- *SlicerRun* (`IInv`). Safety is not inductive by itself: that a published run was accepted
  needs that an `ok` in `reply` to an upload implies an accepted run; that in turn needs
  that only requests of the run in the slot, of a kind that fits `pc`, can be answered
  into `reply`, and that an aborted job has no listener. `IInv` adds what the reason of an
  abort says about the lease (a `terminal` reason means the lease is over), which timers
  may be set, and which runs are untouched. `WireGrowth` names the only steps that send;
  the action properties follow from it. `NeverFailsOnLeaseError` speaks of the error `runClaim`
  reports - the reason of the abort if there was one, else what main threw - and of the shutdown by
  itself, whatever reason came first; a lease that ended without the worker knowing is the API's
  to refuse, and so is one main learns of after a heartbeat failed for another reason. `StepImplements` goes through the steps and
  names the contract's step for each.
- *WorkerLoop* (`LoopInv`). `skipped[e]` is tied to the distance from `next` back to `e` in the
  rotation, which makes starvation impossible; `empty` counts exactly the engines
  behind `next` whose last answer was empty, which makes the delay exact. The
  arithmetic of the rotation is a lemma of its own.
- *SourceDownload* (`DownloadInv`). While streaming, the file holds what was received (if
  writes are complete), and it is removed on every path that does not return it.
- *ApiTransport* (`SenderInv`). The proxy's part is an invariant of `ProxySpec` alone (which
  states of the two sockets go with which stage and status), carried over by `UsesTheProxy`. The
  order of stages needs that what may still reach the API is older than what the run has come
  to, and that of two updates the one written first is the older: one request at a time on
  the tunnel. An update on the wire that nobody waits for any more is the last of the run, because
  main's update carries the progress of its moment. That a heartbeat waits for one elder request only
  needs that who stands before another, on the tunnel or in the queue, was made no later.
- *NativeProcess* (`ProcessInv`). What was killed is already given up, and a working child that
  is awaited has its timer and listener: the two facts that connect a child's life with
  its promise's. That the CPUs of a budget are the lowest permitted ones, as many as the
  budget, is about the list alone: flattening the ranges gives every number in one of them and
  no other, sorting without duplicates keeps the set, and a prefix of it is its least members.
- *PreparedPrint, profile* (`ProfileInv`). While the engine works, `completed` are the phases
  among the steps behind `step` and nothing is logged; a failure logs them with the phase it
  was in; afterwards nothing changes what was logged.
- *PreparedPrint, readers* (`ReadersInv`). What the stream reader holds after any number of chunks
  is what feeding it the same characters one by one gives, so that it does not matter where the
  text was cut. The reader that takes a whole text, and the one that looks for line feeds only,
  are compared with that one on texts whose lines hold no line ends.
- *PreparedPrint, paint* (`PaintInv`). A reader of a tree owes one tree at first; a division owes
  three more, a leaf one fewer, and the tree is whole when nothing is owed exactly at its
  end: `WholeIsTree` shows that `Read`, recursive over depth, accepts only those. The mesh that
  goes to the converter has an entry for every corner (`IndexLeadsBack`), so that every facet of
  the source is in it with its own annotation. What comes back is compared in one of two frames,
  which differ by a shift; as many different facets came back as were sent, and each is one of
  them, so that none is missing. An object that shares a painted source shares its file and
  its paint.
- *PreparedPrint, evidence* (`EvidenceInv`). A reader sees one line at a time, and the promise is
  about the file as a whole. The invariant says what each has made of the lines so far: the layers
  are the native ones in order, and the height is the last one's; the events of pauses are the
  native pauses in order, each with the height it is printed at; every script that was begun was
  begun once and stands there whole, but for the open one, whose body is everything since; and
  markers are counted, so that there are no others. `InsideGrows` and `NativeGrows` say what one
  more line changes. At the end of the file the layer a reader waits for is the first that reaches
  the height (`TargetIsReached`), and as many different layers as there are actions means that no
  two share one (`LayersAreShared`).
- *PreparedPrint, placements* (`PlacedInv`). The state adds little to what is an argument about the
  package: `SourcesInv` says that every object has a document, its own file's if it is not painted,
  and that objects of one source (`SourceKey`) have the same, which is what `plate.js` compares by
  identity. `PlacementsAreOwn` itself is the rest. The argument, in `GeometryProofs`, goes from the
  source to the package:
  1. To place twice is to place by the product of the matrices (`PlaceTwice`), also where one of them
     mirrors: two turns of a facet cancel, and the model turns where the code tests a determinant.
  2. The leaves of an item, which the code appends to one mesh with the matrix multiplied on the way
     down, are by induction over the levels the facets that the graph means from below, placed one
     level at a time (`SourceFlattened`). Offsets of vertices are right because every mesh is whole:
     its corners are vertices of its own.
  3. After k objects (`BambuUpTo`, `PrusaUpTo`) the numbers of the resources differ and are below the
     next one; record and item k are of one number; and what a definition is linked to are parts
     of an object of the same source and variant. A new object disturbs none of it, because its
     numbers are new (`BambuStep`, `PrusaStep`).
  4. What is found by numbers (`BambuOwn`) or by ranges of triangles (`PrusaOwn`) is therefore what is
     asked. A linked instance finds the parts of an earlier one, and its own are equal to them: same
     source, modifiers, overrides and paint. Paint is kept for Prusa and dropped from what is asked
     of Bambu where the object is not painted, as `paintAttributes` drops it from the file.
  5. A single file is moved, not flattened (`FileOwn`): the matrix of each item is multiplied.
- *PlateInputs* (`IInv`, `UncountedInv`, `SumInv`). The first loop holds the source of every model
  behind its index, the second all of them and an input for every object behind its index; what a
  map or the cache holds under a key is what the key stands for, which is where the round trip of
  the paint is needed. That memory is counted needs that what is asked for is not in hand yet:
  otherwise it would be counted twice, or replaced without being released.
- *NormalizationCache* (`IInv`, `JInv`). No buffer has two owners (`Separate`), which is what lets a
  run scribble and an eviction zero without anybody else noticing; an entry expires `Ttl` after its
  put (`Timed`). What a removal does to the heap is one lemma (`WipedBuffers`), used by every
  action. The account is the sum over the entries; that eviction leaves room needs that the order
  of the Map is a strict total order of the keys (`Ordered`), so that there is a first entry after
  which the new value fits. That the oldest go first is that what is used last is behind all
  others in that order. The code evicts strictly in that order: it does not keep an older small
  entry when a younger large one would have made room, and `EvictsLeastRecent` says so.
- *ToolpathCompiler* (`IInv`). Records on disk and in the buffer add up (`Counting`), every record
  is in its place (`Numbered`), closed chunks are full and follow each other (`ClosedChunks`), the
  open layer begins where the last closed one ends (`OpenLayer`). The stale records of the
  buffer are never counted, which is what the proof of a flush in pieces is about.

Model-checked only: liveness (`ClaimSettles`, `ShutdownStops`, `QueueIsAsked`,
`SignalEndsProcess`, `EveryCallSettles`, `DownloadEnds`, `ClientFollows`), because it needs
fairness and ENABLED, which are out of the provers' reach. Every safety and action property of a
passing run is a theorem.

`GeometryPackage` folds over sequences by recursive functions (`leaves`, `flat`, `after`, `joined`,
`meaning`), because the provers can reason about these and not about an operator as a parameter.

## Where code and text disagree

1. **A stop request during the control backoff ends in a failure** (`worker_loop_exit`).
   The backoff waits inside the catch block (`worker.js:448`), so the rejection by the
   signal is caught by nothing: the process logs a fatal start failure and exits with
   code 1. The test of the same request in the poll delay asserts code 0 and the
   `slicer_worker_stopped` event (`test/worker.test.js:250-256`).
2. **A short write is verified but not noticed** (`source_download_short`). The
   download hashes what arrives and ignores `bytesWritten` (`api-client.js:223`), while
   README.md promises that models are verified before use. The toolpath compiler's
   `writeFully` and the header writer of `gcode.js` do look at it. With complete writes the
   property is a theorem.

Not a run, but worth knowing: a lone CR inside a line ends it for the summary and the preview
and not for the readers of scripts and pauses (`layer-gcode.js:9`); the contract removes CRs from
scripts (`preparation-contract.js:64`), and the engines print none. The readline of the
summary (`gcode.js:5`) also ends a line at U+2028 and U+2029, which the other readers do not; no
character of the model stands for them. Both ways of the transport have a weakness of their own:
on direct connections a heartbeat may overtake the next update, so that stages are in order
through the proxy only, and through the proxy a transfer longer than `requestTimeoutMs` ends its
own job by the heartbeat that waits behind it. Neither is excluded by a text of the repository.

## What is not modelled

- Geometry beyond a line: rotations, rounded coordinates, and the XML and ZIP text of 3MF
  packages (`three-mf.js`, `modifier-geometry.js`, `object-overrides.js` in part). `mergePlate3mf`,
  which nothing in the worker calls.
- Preset and project documents of the engines, the comparison of native configurations, the
  inspection of archives, the header's time stamp, native statistics, the checksums of the
  manifest, `config.js`: pure functions of large data with no order of steps to get wrong.
  Their failures are steps (`WorkFails`, `Refused`, `Fails`).
- Coordinates, arcs and modal state of `toolpath.js`, and the statistics of a preview.
- The API's own lease logic: external; it is only assumed to act on a live lease.
- The abort listener every pause of an idle worker leaves on the process signal
  (`worker.js:45`): memory of the runtime, not a state the program reads.
- That a layer-change comment and the height comment after it agree: they are one kind of line, so the
  layer count of the summary cannot differ from the heights the other readers see.
- What a source's depth and byte limits bound (`advanced-three-mf.js:44`): they are steps of
  `GeometryPackage` (`MaxGraphDepth`, `Budget`), no property speaks of them.
- Scripts, native patches and qualification data: not part of the running worker.

## The plan

Done, in order of importance: `RunContract` and `SlicerRun`, `WorkerLoop`,
`SourceDownload`, `NativeProcess` with `NativeCpuAffinity`, `PlateInputs`,
`NormalizationCache`, `ToolpathCompiler`, `EgressProxy` and `ApiTransport`, `PreparedPrint` with
its five parts; a theorem for every safety and action property.

What is left:

1. `ToolpathCompiler` with the modal state of its moves (absolute and relative axes, the height
   of a layer before it is announced, retraction), for the hazard at `toolpath.js:477`.
2. The comparison of native configurations in `bambu-configuration-validation.js`: which keys must
   be kept, as relations between documents.
