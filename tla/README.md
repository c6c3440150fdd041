# TLA+ verification of bazel-github-actions-cache-v2

The program is a loopback HTTP server that gives Bazel a remote cache inside a
GitHub Actions job and keeps the content in the GitHub Actions cache. It has two
storage modes. In objects mode every object and every action result is one cache
entry. In packed mode it batches uploads into immutable CARv2 packs and commits each
batch with an immutable manifest; the manifests of all jobs form a DAG that later
jobs discover and merge. A wrapper (`action/main.js`, `action/post.js`) starts the
server in the main step of the action and stops it in the post step.

This directory models both modes for any number of jobs that share one cache, what a
single server does between its requests, the formats it reads and writes, and the
process with its wrapper. The models are checked with TLC; most of the
safety properties that are checked are also proved with TLAPS.

## 1. Inventory

| Part | State | Operations | Correct when |
|---|---|---|---|
| Packed storage, `internal/server/pack_store.go` | merged index (`packs`, `cas`, `actions`, `actionConflicts`, `heads`), staged writes (`pendingCAS`, `pendingActions`, their order, `pendingBytes`), one mutex `mu` | discover, resolve, materialize, stageCAS, stageAction, flush of one batch, final flush | packs before manifests; closures complete; conflicts never served; nothing staged is lost or published twice; it is published in time |
| Pack downloads, same file | `loadedPacks`, `loadingPacks`, the semaphore | loadPack with leader and followers, downloadPack | one download per pack; a failure is not remembered; no deadlock with the flush |
| Request handling, `internal/server/server.go`, `stats.go` | `objects`: spooled files by key, first one wins; the files; counters | GET/HEAD/PUT of `/cas` and `/ac`, `/shutdown` | a 200 for `/ac` means that the whole closure can be read from this server; the failure policy holds on every path |
| Objects mode, same file | one cache entry per object | resolve, backendExists, validate and publish | a result is saved after its closure |
| Publication, `server.go`, `limiter.go` | `published`, `publishing`, semaphore, next slot | publishOnce with leader and followers, acquire, wait, Save | one save per key, failures can be retried, the rate is kept |
| Action result validation, `action_result_validation.go` | digests validated so far, closure | blobs, trees, directories breadth first | every referenced object is visited once, within the limit |
| Message parsers, `action_result.go`, `reapi_directory.go`, `reapi_wire.go` | none | parse ActionResult, Tree, Directory, Digest | exactly what a message refers to, or a refusal |
| Manifest format, `manifest.go` | none | encode, decode, validate; merging into the index | decode inverts encode, the name is the hash of the content, what is written can be read |
| Backend and catalog, `internal/cache` | GitHub's entries | Load, Exists, Save with polling, paginated List | immutable keys; what a listing can hide is bounded |
| Process, `cmd/cache-server` | ready file, `/shutdown` channel, signals, deadlines | start, discover, serve, close, final flush | the final flush gets its time |
| Wrapper, `action/main.js`, `action/post.js` | saved state, deadlines, temporary directory | start, wait for ready, stop, clean up | no false failure, nothing left behind |
| Statistics, `stats.go` | counters | count, report | each answer is counted once |
| Build and distribution | none | release tooling | not a part of the running system |

How they interact. Handlers run concurrently with each other and with the flush
worker. They share `objects` (its own lock) and the pack store (`mu`). `resolve`
looks an entry up under `mu`, lets go of it, downloads the pack and stores the
object; between these steps any other request or flush can run. A PUT stores the
object, then validates the closure (again possibly downloading packs), then
stages under `mu`. The flush holds `mu` from the selection of the batch to the
removal of the staged entries and makes two saves meanwhile. Processes of
different jobs meet only in the cache: a listing made at start, loads, and saves
under immutable keys.

What is hard: a crash or a lost answer between the two saves; retries; eviction of
any entry at any time; concurrent writers that do not see each other; handlers that
outlive the HTTP shutdown; closures split over several packs; clients that leave while
others wait for their download or upload; `mu` and the semaphore taken in different
orders; pages of a listing that shift; deadlines that three programs compute from one
timeout. `PROJECT.json` lists each hazard at its line.

## 2. Modules

| Module | Models | Proofs |
|---|---|---|
| `PackStore` | the packed mode of all jobs that share a cache | `PackStoreProofs` |
| `ObjectStore` | the objects mode of all jobs that share a cache | `ObjectStoreProofs` |
| `DurableCache` | what both modes promise to later jobs, without packs, manifests or processes | |
| `Publication` | `publishOnce`, `publish`, the semaphore, `Save`, in one server | `PublicationProofs` |
| `Limiter` | `intervalLimiter` in discrete time | `PublicationProofs` |
| `PackLoad` | `loadPack`, `downloadPack`, the semaphore and `mu`, in one server | `DiscoveryProofs` |
| `FlushSchedule` | when the flush worker publishes what, in discrete time | `TimingProofs` |
| `RequestHandling` | every path of a request: answer, files, counters | `RequestHandlingProofs` |
| `ActionResultValidation` | the traversal of a result's closure | `ResultValidationProofs` |
| `Reading` | a loop over a sequence that ends with the first item it refuses | `ReadingProofs` |
| `ReapiMessages` | the parsers of the messages that it traverses | `ResultValidationProofs` |
| `ManifestFormat` | encoding, decoding, validation and merging of manifests | `DiscoveryProofs` |
| `Catalog` | the listing of manifests, page by page | `DiscoveryProofs` |
| `Lifecycle` | wrapper, process and flush worker in discrete time | `TimingProofs` |
| `ResultValidation` | `validateActionResultClosure` from bytes to answer: `ReapiMessages` composed with `ActionResultValidation` | `ResultValidationProofs` |
| `Discovery` | `newPackStore` and `discover`: `Catalog` composed with `ManifestFormat` | `DiscoveryProofs` |

`PackStoreProofs` has two parts: the inductive invariant of `PackStore` with the
refinement of `DurableCache`, and what one job serves, stages, merges and drains. The
names of `Limiter` begin with the module's, so that its proofs can stand beside those of
`Publication`, whose last step it is; `TimingProofs` has two parts for the same reason, and so has
`DiscoveryProofs`: the index of packs, and the downloads of the packs that it names, whose
definitions in `PackLoad` begin with `Load`. `MC<module>.tla` and `MC<module>.cfg` are the instances for TLC; `PackStore`
has three.

How the modules meet. `PackStore` and `ObjectStore` are the wholes; the others are
their parts in more detail, and the wholes use only what is shown of the parts.

- `publishOnce`: a success means that the key is in the cache (`SuccessIsSaved`), a key
  is remembered only after a success (`Remember`), a failure is the caller's own
  (`OwnErrorsOnly`), the call returns (`EveryCallReturns`). `Publication` takes the
  limiter's wait as one step without a duration; `Limiter` has the durations.
- A download of a pack is one step of `PackStore` that succeeds or fails; `PackLoad`
  shows that an answer stands for a verified download or a failure within the call.
- A flush of `PackStore` may happen whenever `mu` is free. `FlushSchedule` says when it
  does, `PackLoad` that readers and flushes do not block each other, `Lifecycle` that
  the last one gets its time.
- A result has a constant closure in `PackStore` and `ObjectStore`.
  `ActionResultValidation` has the traversal, `ReapiMessages` the parsers, and
  `ResultValidation` starts from the bytes of the result: its references are what the
  parser returned. It shows that what is accepted was visited down to its last object.
- A manifest is a record in `PackStore`; `ManifestFormat` shows that the format loses
  nothing and that the merged index does not depend on the order. A listing is any
  subset of the manifests in `PackStore`; `Catalog` shows what a listing can miss.
  `Discovery` runs one after the other: what was listed, less what cannot be loaded, is
  merged, and the server's own manifests follow.
- `RequestHandling` lets every call inside a request have any outcome, and shows what
  the client, the disk and the statistics see of it.

State and actions of `PackStore` come first, those of the parts after them.

### State of PackStore

| Model | Code |
|---|---|
| `backendPacks`, `backendManifests` | entries that GitHub's cache has now |
| `savedPacks`, `manifestTable` | history: packs ever saved, content of every manifest name ever saved |
| `phase[r]` | where job `r` is in `run`: `off`, `discovering`, `serving`, `closing` (HTTP shutdown), `draining` (final flush), `stopped`, `failed`, `gone` |
| `casObjects`, `acObjects` | `Server.objects`, by kind |
| `loadedPacks`, `packs`, `cas`, `actions`, `actionConflicts`, `heads` | the fields of `packStore` with these names |
| `todo`, `view` | manifests that discovery has still to apply; history: the ones it applied |
| `uploading` | objects stored by a PUT that has not reached `stageCAS` yet |
| `pendingCAS`, `pendingActions` | staged writes; the sequence is `pendingCASOrder` |
| `published` | pack keys in `Server.published` |
| `flush` | the batch between its two saves, or `NoBatch` |
| `requests` | `/ac` requests in flight: about to load a pack (`load`), or validating for a read (`get`) or an upload (`put`) |
| `puts`, `putValues`, `served` | bound and history: uploads made, results served |

Data. A pack is the pair of sets of objects and results it contains; its hash is
an element of the order `PackRank` (the index prefers the smaller name). Packs that
differ only in the order of their blocks are identified. A manifest name is a number
that `SaveManifest` binds to the content, the same number for the same content;
which number is arbitrary, so every order of manifest names occurs. A result is a
model value with its closure, digests are model values. Sizes are numbers, because
selection and the download limit depend on them.

### Actions of PackStore

`Start`, `MergeNext`, `Ready` are `newPackStore` and `discover`: a listing returns any
subset of the manifests, or fails. `PutCAS`/`StageCAS` and
`PutAC`/`CheckRef`/`StageAction` are the two halves of `handlePut`, `GetCAS`,
`GetAC`, `LookupAC`, `MaterializeAC`, `CheckRef`, `Serve` are `handleRead`, cut
where the code lets go of its locks; `Abandon` is every error exit. `FlushPack`,
`FlushManifest` and their failing forms are the two saves of `flushOneLocked`; a save
may fail without effect at any time and, as a counted fault, after it took effect.
`Shutdown`, `Drain`, `Stop`, `Exit`, `Crash` are the end of `run`. `EvictPack` and
`EvictManifest` belong to GitHub.

Atomicity. `mu` is modelled by `MuFree`: between the two saves nothing that needs the
mutex can run, and the final flush never releases it between its batches. Lookups of
CAS entries are merged with the use of the entry, because an entry never changes
once it is there while the process serves (an object that is known is not staged,
`StagedOnce`). A download is one step. Time is not modelled: a flush may happen
whenever `mu` is free, so what is shown holds for every flush interval and size
threshold. An upload that is staged after the final flush ended is lost in the code
and stays in `uploading` here.

### Publication

`pc` tells where each handler is: `check` (the critical section at the head of the
loop in `publishOnce`), `follow` (waiting for another handler's channel), `acquire`,
`limit`, `save`, `upload`, `poll` (inside `publish` and `Save`), `settle` (before the
second critical section), `done`. `published` and `publishing` are the server's maps.
The code allocates one `publication` per leader and a handler leads at most once, so
`publishing[k]` is the leader, `ongoing[h]` the leader that a follower holds a
pointer to, and `outcome` that publication's `err` with its closed channel. `sem`
counts the slots in use. `store` is the state of a key in GitHub's cache: a key is
reserved before it can be read, and a reservation whose upload failed, of this server
(`ours`) or of another job (`theirs`), may never be finalized.

Each critical section is one action, with one action per branch; a `select` is one
action per case. `PublishReturns` is every return of `publish` after `acquire` and
includes the deferred `release`. `Save` is cut where the service can act in between:
the reservation, the upload, each poll. It may fail before or after it took effect,
and `PollGivesUp` may happen at any poll because the timeout of the context can expire
there. `Cancel` marks a client as gone; the code reacts where it looks at the context.
A failed publication of a cancelled leader lets its followers go round the loop. The
limiter's wait is one step without a duration. `Downloads` are the calls that take
slots of the same semaphore. Entries are not evicted here, so `present` reads as "was
finalized".

### ObjectStore

Handlers belong to jobs (`JobOf`). `backendCAS`, `backendAC` are the entries of the
cache, `savedCAS`, `savedAC` the history of all saves; `casObjects`, `acObjects`,
`publishedCAS`, `publishedAC` are `objects` and `published` of each server, and
`request[h]` is what a handler is doing: publishing an object, loading a result,
having loaded it, validating for a read (`get`) or an upload (`put`). A handler is cut
at each call of the cache service, so that an entry can be evicted or saved by another
job between any two calls, and between the load of a result and the second look at the
spool (`StoreLoaded`). `CheckRef` checks one reference in any order; a read accepts
what is in the spool or in the cache and loads containers, an upload accepts only what
is in the cache (`requirePersisted`). `PublishCASFails` and `PublishACFails` include a
save that takes effect and reports a failure. `Restart` is the end of a job and the
start of another one with an empty spool.

### PackLoad

`pc[r]` tells where a reader is in `loadPack`: before the first critical section, a
follower, waiting for a slot, downloading, before the second critical section.
`loadingPacks[p]` is the leader of a download; the followers share its error, unlike
those of `publishOnce`. `sem` is the set of slot holders. The flush worker takes `mu`,
then a slot, and keeps `mu`; readers take a slot without `mu` and need `mu` afterwards.
`Settle` needs `mu` and gives nothing back: the slot was given back when the download
ended. `Cancel` marks a client as gone.

### FlushSchedule

`pendingBytes`, `flushRequest` (the channel of capacity one), `tick` (the ticker's
channel), `saving` (the batch that is being saved; `mu` is held). `age` counts the time
that an item has been ready to be published, `pack` in which pack a pending object will
leave, counted from the next one: its predecessors decide that when it is staged
(`PackAfter`), and each save moves it one pack ahead. `packsAhead` is the number of packs
that an item had to wait for: the one it had when it was staged, and every batch that
failed since. Sizes are compared by counting bytes (`Bytes`), which is what the theorems
can reason about for any number of items.
`Clock` advances the time, the ticker and the save. A batch in `Refused` can never be
saved: its key is reserved by somebody who did not finalize it.

### Lifecycle

`main`, `server`, `worker`, `post` tell where each program is; `readyFile` is created
and then written; `inbox` and `due` are the channels of capacity one; `left` is the time
until each deadline. A local step takes no time, because `Tick` waits for every program
that can go on; a call of the cache service takes any time up to its deadline.
`RequestFlush` stands for handlers that stage enough for a flush. `extraRound` and
`requestLost` record the two events that the wrapper's budget does not cover.

### Limiter

`next` is the limiter's next free slot, `slot[c]` the slot a caller sleeps for,
`uploads` the times at which uploads began. The interval is the integer division of a
minute by the rate, as in the code, and timers are exact: a caller begins at its slot.
Real timers are late by a scheduling delay, which this model does not have; two uploads
can then begin closer to each other than an interval.

### Validation and messages

In `ActionResultValidation`, `input` is the result with what every object contains;
the messages may refer to each other in any way, cycles included. `pending` holds the
references that the loops have still to visit, in any order that the loops' nesting
allows (`Turn`), `validated` the three maps of the code, `validatedObjects` the counter
behind the limit. Uploads, saves and evictions of the objects in `Changing` happen at
any time before the answer. In `ReapiMessages` a message is a sequence of fields with
number, wire type and value; each parser is a loop over the fields (`Reading`), as
`visitWireFields` is. Its properties say what a message means without mentioning an order.

### Manifests and catalog

In `ManifestFormat` a stored manifest is a DAG-CBOR node, a kind and a value. `Discover`
decodes and validates what was loaded and keeps in `unmerged` what is readable,
`MergeNext` merges it, one manifest after the other in the order of their CIDs; `Write` is
the manifest of one flush. The functions have the source's names. A loop that adds the
entries of one manifest to a map is one map over another (`ApplyPacks`, `ApplyObjects`,
`ApplyActions`): no name is repeated in a manifest that `validate` accepts or that a batch
yields, so the order of its entries does not matter. `List` sends neither `sort` nor
`direction` (`catalog.go:76-82`), so in `Catalog` the service uses its default order: the
entry that was saved or restored last comes first. That default is documented by GitHub and
not by this repository. `Create`, `Evict` and `Restore` happen between any two pages; every
server in packed mode restores manifests when it starts. `jumped` are the entries that a
restore has moved off the pages still to be read; `keys` is what
was read, as a set, and `read` the length of the code's slice, in which an entry that was
read twice counts twice. `Discovery` gives the k-th key the k-th entry of `uploads`; when
the listing has ended, its variables are reset, so that histories of the listing do not
multiply the states of the merge.

### Compositions

`ResultValidation` adds to the variables of the traversal what is parsed (`kind`,
`message`) and what the parser returns (`result`), which is computed in the initial state
because a file in the spool does not change. A case parses either the action result, and
the contents of the trees and directories are given, or the tree in the only output
directory. `Disturbed` limits uploads, saves and evictions during the validation to some
of the cases.

### RequestHandling

A request is at one of the places in `pc` and takes one path of `serveHTTP`,
`handleRead` or `handlePut`; what the cache service, the disk, the index and the
validation answer is chosen freely, and `trouble` remembers what went wrong first.
`files` are the files in the spool directory, named by the request that made them,
`stored` the ones that `objects` points to. `config` is one of the eight combinations
of storage mode, write mode and failure policy.

## 3. Runs

| Run | Instance | Shows |
|---|---|---|
| `faults` | `PackStore`: two writers and a later reader, one job serving at a time, one object, two results for one key, two requests in flight, one fault (crash, lost answer or eviction) | `TypeOK`, `PackBeforeManifest`, `ServedClosureIsLocal`, `NoSilentChoice`, `NoHeadLost`, `OneResultPerJob` |
| `batches` | `PackStore`: one job, a result that refers to two objects, a pack for each of them and for the result, saves that fail, fairness | `ClosureAdvertised`, `DrainComplete`, `StagedOnce`, `ImplementsDurableCache`, `StagedIsCommitted`, `ShutdownCompletes` |
| `evicted` | `PackStore`: two writers, one eviction between them | `PublishedClosureIsPersistent` is violated (section 5) |
| `objects` | `ObjectStore`: one job, two handlers, two objects of which one is a container, two results, failing saves, evictions, restarts | `ServedStable`, `SavedWhilePersistent`, `ImplementsDurableCache` |
| `publication` | two handlers of one key, one download, one slot, two polls, cancelled clients, another job, fairness | `TruthfulAnswers`, `Coalesced`, `EveryCallReturns`, `DownloadsProceed` |
| `packload` | two readers, two packs, one slot, the flush worker, fairness | `OneDownload`, `TruthfulAnswers`, `EveryReaderReturns` |
| `schedule` | three objects of sizes 1, 2, 1, one result, target size 2, one failure, one batch refused for ever, fairness | `DelayPerPack`, `PublishedUnlessRefused` |
| `lifecycle` | timeout 60 s, discovery may fail, the request to stop may be lost, fairness | `BudgetSuffices`, `ServerEnds` |
| `results` | `ResultValidation`: all action results and trees of up to three fields of a pool of valid and broken ones; closures that share, nest, repeat, contradict or exceed the limit of four, with objects that come and go | `OncePerObject`, `AcceptedIsComplete`, `AcceptedNamesOnlyFound`, `ExactReferences`, `TreeIsClosed` |
| `answers` | `RequestHandling`: three requests at two keys, all eight configurations | `SpoolIsExact`, `FailurePolicy`, `AnswersAddUp` |
| `discovery` | `Discovery`: one manifest with valid entries in every combination or one defect of every kind in every place; three histories of up to seven manifests listed in pages of two with two evictions and a restore; three own batches after it | `MissedArePaidFor`, `IndexIsClosed`, `IndexIsMerge`, `RoundTrip`, `WrittenIsReadable` |
| `limiter` | three callers, four uploads in a minute of ten units, one below the limit of five | `RateIsKept` |

Three of the properties contain the type invariant of their module (`DelayPerPack`,
`SpoolIsExact`, `MissedArePaidFor`). The type invariants of the other modules, and the
auxiliary invariants `IndexGrounded`, `DeduplicatedWasSaved`, `ServedClosureExists`,
`NobodyWaitsInVain`, `SlotsAccounted`, `FollowersHaveLeader`, `DeadlinesNest`,
`OnlyReferences`, `AcceptedIsAvailable` and `UploadsSpaced`, are theorems (section 4) and
are not repeated in a run.

Why the bounds are enough.

- `PackStore`. A conflict needs two results, a split closure two objects that do not
  fit into one pack, a stale lookup two requests, a dropped head two writers and
  one reader. In `faults` one job serves at a time (`MaxRunning`). A later job may list
  any subset of the earlier manifests, which is what it would see had the two overlapped:
  jobs meet only in the cache, whose entries are immutable. `MaxPuts`, `MaxRequests`,
  `MaxFaults` and `ManifestIDs` bound the state space; a job that finds no free manifest
  name cannot commit, which only removes behaviours. The third job, which merges what two
  others committed, is looked at without a fault (`ThirdIsUndisturbed`). The writers are
  interchangeable (symmetry). In `batches` the target size is less than every object, so
  each needs a pack of its own and three manifests commit one result.
- `ObjectStore`. Handlers meet at a key of one job, jobs only at an entry, and a handler
  of another job does to an entry what `Restart` and the handlers of this job do. The two
  handlers are interchangeable. Nothing is bounded by a counter. The theorems have any
  number of jobs.
- `Publication`. Two handlers are a leader that fails and a follower that leads after it;
  a leader that comes after both finds the same states. One slot is what makes a download
  and an upload exclude each other; two polls are a miss before a hit. Keys do not
  interact except through the semaphore, so one key is enough.
- `PackLoad`. A reader calls again after it returned, so two readers are a leader, a
  follower and one that comes later; two packs let leaders compete for the slot.
- `Limiter`. The rate is the highest that `server.go:91` accepts, one below the limit, like
  199 of 200, and ten units divided by four is inexact, as 60 seconds divided by 199 is: a
  minute has room for as many slots as the limit. The clock ends after 14 units
  (`MaxTime`), so a minute may begin at each of the first five.
- `FlushSchedule`. Sizes below and at the target. `MaxSave`, the longest save, is twice
  the interval, so that ticks are dropped (by default a save may take ten intervals);
  the theorem has shorter saves, too. `MaxFailures` is the number of failed
  saves; the histories stop at `MaxCount`, which is above what `DelayPerPack` allows for
  one pack.
- `Lifecycle`. A unit is ten seconds, so `T` = 6 is a backend timeout of a minute,
  `Grace` = 1 is the ten seconds of `main.go:170`, `MinWait` = 6 and `Slack` = 3 are the
  least wait and the margin of `main.js:160`.
  Every deadline of the code is a multiple of a unit.
- `ResultValidation`. Three fields are two that agree or contradict each other and one in
  between; four objects, of which two can be containers, share in every pair of kinds,
  nest, and contradict each other's sizes; `MaxObjects` is exceeded by one result.
  Numbers end at `MaxInt64` = 2.
- `Discovery`. With pages of two, the second and third keys not being manifests
  (`Foreign`) makes a page with one match on each side; two evictions hide entries more
  than once, a restore makes an unread entry jump to a page that was read and moves others
  over a page boundary, before, between and after the evictions, and more than four entries exceed the limit. Two entries of each kind make
  an order, a duplicate and a reference to another one; the limits of a manifest are 2,
  and `MaxParents` is 5, which the heads do not reach. `MaxKeys`,
  `MaxEvictions` and `MaxRestores` bound the service.
- `RequestHandling`. Requests meet at the object of a key: one that stores it, one that
  finds it stored, one that is between.

`CHECK_DEADLOCK FALSE` stands where the system ends: all jobs have ended (`PackStore`),
every call has returned (`Publication`), the validation has its answer, nothing is left
to write after discovery, every request is answered, or the clock of `Limiter` has
reached its bound. `ObjectStore`, `PackLoad`, `Lifecycle` and `FlushSchedule` check for
deadlock.

Fairness.

- `PackStore` (`batches`). The process takes its own steps (weak fairness). A save
  that is tried again and again succeeds in the end and a handler that waits for `mu`
  gets it (strong fairness): the worker's ticker repeats a failed flush, and
  `sync.Mutex` does not starve. Clients and faults have no fairness. The final flush
  does not retry, so `StagedIsCommitted` allows an end with an error.
- `Publication`. A handler takes its own steps, the limiter's
  timer fires and `Save` ends because its context has a timeout (weak fairness); a
  sender that waits for a slot of the semaphore is served in turn, as Go's channels do
  (strong fairness). That a save succeeds, that a client stays or leaves and what other
  jobs do is not assumed: `EveryCallReturns` holds when every save fails, because each
  failed leader leaves one caller less.
- `PackLoad`. As before: `mu` and the semaphore serve whoever waits
  (strong fairness of `Lookup`, `Acquire`, `Settle`, `FlushAcquires`); downloads, woken
  followers and saves go on (weak fairness); a flush has a last batch (strong fairness
  of the step that lets go of `mu`).
- `FlushSchedule`. The worker begins a flush that is due and ends
  it, and the clock goes on; the clock needs strong fairness because uploads that take
  no time could hold it. That a batch is saved is assumed of none: `MaxFailures` bounds
  the transient failures, and the refused batch fails for ever.
- `Lifecycle`. Each program
  is scheduled (weak fairness); `select` takes either of two channels that are ready,
  so the closed stop channel is taken in the end (strong fairness of `StopWorker`); time
  passes whenever every program waits, again and again (strong fairness of `Tick`).

## 4. Proofs

### PackStore

`ConstantsAssumption` and `NoneAssumption` are all that is assumed: the constants
have their types and `None` is not a value. Sets of jobs, objects, results and
manifest names are arbitrary, no bound of a run is used.

`CommitInvariant` proves `Spec => []CommitInv`, from which follow `TypeCorrect`,
`CommitOrder`, `ClosureIsAdvertised` and `IndexIsGrounded`. None of these invariants
is inductive alone. A manifest is correct when it is saved because of what the flush
knows at that moment, so `CommitInv` adds:

- `BatchStable`: while a batch is between its saves, its pack is saved, it still is a
  prefix of the pending order, its results are still staged and still eligible. It
  holds because everything that could change it needs `mu`, and because the index
  only grows.
- `PublishedIsSaved`: a key remembered by `publishOnce` was saved, so that a skipped
  save is harmless.
- `NamesBound` and `KnownIsCommitted`: heads, views and listings are names of saved
  manifests, and what the index knows comes from saved manifests.

There is one lemma per kind of step: `QuietCommit` for the steps that touch none of
this, then staging, the two saves and their failures, merging, the end of a process
and eviction. Eviction is harmless to the invariant because it speaks of what was ever
saved.

`PackStoreImplementsDurableCache` maps the abstract state to what the bound manifests
list. Only the save of a manifest changes it (`CommitPoint`), and that step is a
`Commit` of a batch whose closure is committed before or with it (`SaveIsCommit`,
from `BatchStable` and `KnownIsCommitted`).

The second part of `PackStoreProofs` has five more invariants:

- `RequestInv`, for `ServedIsLocal` and `JobServesWhatItSaves`: for a request under way,
  the references that are checked are in the spool, and the result that it will serve or
  stage is the one stored under the key; so is what was served and what is staged. It needs
  only the types: the spool grows and the object of a key is never replaced. That a
  manifest advertises what is stored then follows, since only the second save of a flush
  commits (`OnlySavesCommit`) and takes the results from what is staged.
- `NoHeadLost` is inductive with `CommitInv`: the content of a saved manifest never
  changes, so a manifest once referenced stays referenced (`HeadsAreKept`).
- `StagedInv`, for `NothingTwice`: `StagedOnce`, and nothing is pending before a job
  serves. The last part is needed for discovery, which adds to the index; for a flush
  it is `BatchStable` that says that the objects which become known are exactly the
  prefix that leaves the pending order.
- `DrainInv`, for `DrainIsComplete`: an object in a writer's spool is on its way to
  `stageCAS`, pending, or known to the index, and the closure of a staged result is in the
  spool. A batch makes known what it takes out of the pending order, so when the order is
  empty every staged result is eligible unless an object never reached `stageCAS`.
- `ChoiceInv`, for `ChoiceIsOpen`: the index names a result or a conflict for everything
  it has merged, and the object under an action key was uploaded here or is undisputed in
  the index. A lookup is only acted on while nothing is stored under the key, so a conflict
  that a flush brings in between is not overlooked: a flush merges this job's own results,
  which are the stored ones (`RequestInv`).

### Publication

`PublicationAssumption` gives the constants their types; the semaphore has at least
one slot, and handlers, downloads and keys are arbitrary sets, even infinite ones.
`PublishInvariant` proves `PublishInv`: the types, `Coalesced`, `NobodyWaitsInVain`,
`OwnErrorsOnly`, and two parts that make them inductive. `Truthful` traces every sign of
a success (an entry of `published`, the result of a save, an outcome, an answer) to a
key that is in the cache. `Followers` says that a publication is found under its
leader's key, that a follower's leader has the follower's key, and that an outcome
comes with the leader's return. From it follow `PublishedIsThere`, `OnePublication`,
`FollowersAreWoken`, `ErrorsAreOwn` and, of the first and the last, `AnswersAreTrue`.

`SlotInvariant` is about the semaphore: the set of slot holders is finite, its
cardinality is `sem` and within the capacity. Every action takes, gives back or keeps
a slot together with its holder (`SlotTaken`, `SlotGivenBack`, `SlotKept`).
`SemaphoreIsExact` and `PublicationTypes` follow.

### ObjectStore

`ObjectStoreAssumption` gives the constants their types. `ObjectInv` is `StoreTypes`,
`DeduplicatedWasSaved` and three parts that make it inductive: `SavedBefore` (what is in
the cache was saved), `ServedIsStored` (what a job has served is what it has stored under
the key), `RequestsGood` (for each handler between two calls: what its validation has
passed is in the cache, in the spool, or in `lost`, the objects evicted since it began).
`lost` is what keeps the invariant true when an entry is evicted under a handler's eyes.
`ObjectTypes`, `OneResultServed`, `SkippedWasSaved` follow, and from the same invariant the
action properties `PublishedIsPersistent` and `ServedCanBeRead`, and
`ObjectStoreImplementsDurableCache`: the save of a result is a commit whose closure was
saved before (`PublishedIsPersistent`), every other step changes nothing that is
committed.

### PackLoad

`PackLoadInv` adds to the properties `LeadersAtWork` (a pack in `loadingPacks` has its
reader at work on it) and `OutcomesTrue` (an outcome stands for a verified download or
for a failure within the call). Readers are a finite set, for the cardinality of the slot
holders; everything else is arbitrary. Theorems: `PackLoadTypes`, `DownloadsAreShared`,
`WaitersHaveLeaders`, `AnswersAreTrue`, `SlotsAreExact`.

### Validation

The closure of a result is given by arbitrary functions from hashes to references, so a
traversal by induction over the tree is not available, and not needed: `NothingForgotten`
says that whatever the result or a visited object refers to is visited, waiting or
implicit, and at the end nothing waits (`AcceptedAtEnd`). The visited set is then closed
under references. Theorems: `ValidationTypes`, `AcceptedResultsAreComplete`,
`AcceptedResultsAreAvailable`, `NothingElseIsDemanded`, `EveryObjectOnce`.

`ReceivedInv` carries this over to `ResultValidation`, where a call starts from the bytes.
`InputIsParsed` links the two: the references that the traversal works on are the ones
that the parser returned for the message. `CasesAssumption` and `FieldsAssumption` give the cases their types:
a case has a message of one kind, and what the objects that are not parsed in it contain; a
message is a sequence of any length of fields out of `Fields`, and so is the value of a
field, to any depth. `ReceivedResultsAreComplete` and `ReceivedObjectsOnce` follow.

### Parsers

What a parser returns for every message is shown by induction over the fields that it has
read. The library's induction theorems take an operator as a parameter, which the provers
cannot instantiate; `ReadingProofs` does without them. Its constants are the body of a loop
(`Read`) and what is to be shown of it (`ReadSoFar`). `Induction` counts: if a number up to
n had not the property, the predecessor of each number without it would be another one
without it, and the set of them could be mapped one to one into a smaller set.
`ReadingExists` shows with it that the loop has a result after each item, `ReadInduction`
that what holds before the first item and is kept by one more item holds at the end.

`ResultValidationProofs` makes one instance for each loop, and states in `...SoFar` what was
made of the fields so far, in the terms of `ReapiMessages` that mention no order. What one
field more changes in these terms is a lemma of its own (`FieldsOfNumber`,
`DigestsExtended`, `ResultExtended`, `TreeExtended`, ...). So `ParsedDigest`, `ParsedFile`,
`ParsedDirectory`, `ParsedResult`, `ParsedNodes` and `ParsedTree` say of each parser what it
returns. The two streams needed most care: the digest of a stream is the last one, counts
only when the contents are not in the message, and both may come in either order, so what
was read so far is about fields that a later field can take back (`Gathered`, `Streamed`).

`ReferencesAreExact` and `TreesAreClosed` follow with `ResultIsParsed`, which says that the
parser has run on the bytes of the call. With `NothingForgotten` they give
`NamedObjectsAreFound`: for any message, any closure and any changes of the cache meanwhile,
every object that the bytes of an accepted result name was visited and found.

### Discovery

`ListInv` is about the listing and assumes nothing of the page size, the number of
entries, or what the service evicts and other jobs restore. `Passed` are the entries before
the current page's offset, `Unread` the manifests that were there from the beginning, are
there still, were not read and did not jump. While the listing runs, what is in both is not
more than the evictions. An eviction moves at most one entry over the offset; a new entry
moves others behind it, where they are read again; a restore does the same to the entries
before the one that it moves to the front (`RestoreStep`), so it hides no other. From it
follows `ListingMissesOnlyEvicted`.

`IndexInv` is about the index. Every merged manifest is `WellFormed`, because the reader
validates what it decodes and because of how a writer builds it; `PacksMerged`,
`ObjectsMerged` and `ActionsMerged` say that the maps hold the smallest key of each pack,
the smallest pack of each object, and the results that do not contradict each other, of
the manifests in `applied`. One lemma for each map shows that merging a well-formed
manifest adds its entries to that set, so the maps are a function of the set:
`IndexDependsOnTheSet`. `IndexStaysClosed` uses that an entry's pack is in the same
manifest.

`StoredInv` is about the encoding: every manifest of the index, read or written, is
`Stored`. Its lists can be sorted, and within the limits it passes the checks of a reader.
From it follow `ManifestsRoundTrip` (within the limits, what is encoded is read back, and
encoded again in the same way) and `WrittenIsAccepted` (`WrittenIsReadable`, for manifests within the limits).
`ManifestFormat` sorts without recursion: the place of an item is the number of items that
come no later. By cardinalities every item has a place and every place an item (`Places`),
so one order sorts all columns of a list (`HasOrder`), and what is sorted stays as it is
(`SortedAgain`). The rest goes along the encoding: each list is read as it was written
(`PacksRead`, `ObjectsRead`, `ActionsRead`), sorting keeps what `validate` accepts
(`SortedIsValid`), and what a server reads or builds is `Stored` (`ReadIsStored`,
`WrittenIsStored`).

Of the bytes that other jobs have stored under manifest keys the theorems assume nothing but
how they are represented here (`UploadsAssumption`): a list is a sequence, a hash is a CID,
and a string has a number as its rank in the order of strings, so that it can be sorted. Of this
server's own packs `OwnPacksAssumption` says what `buildPackLocked` and the staging maps
ensure: a pack has a digest, a key of its own and a header, an object or a result has a
digest and is in the batch once, and the closure of a result is finite.

### RequestHandling

The set of requests is finite (`RequestHandlingAssumption`), because the counters are compared
with cardinalities; it is arbitrary otherwise, and so are the keys at which requests meet.
`HandlingInv` is the types, `FailurePolicy`, `AnswersAddUp` and four parts that make them
inductive. `FilesKept`: the object of a key was stored by a request for that key that will
not store again, and a request finds its own file until it has handed it over; in objects
mode every file is one or the other. `NoTroubleYet`: a request that met a failure is
answered in the same step. `Modes`: only packed mode stages. `CountedOnce`: no counter
except `requests` exceeds the number of requests that passed the place behind which it is
counted, so the counters are bounded by the requests and none is incremented twice for
one. The actions are grouped by what they do to a request, an answer with its counters or
a move to the next place, and one lemma covers each group (`AnswerStep`, `MoveStep`).
Theorems: `SpoolStaysExact`, `FailuresFollowPolicy`, `CountersAddUp`.

### Lifecycle

`LifecycleInv` has the order of events (`InOrder`), that a flush which began before stop
was closed ends before `flushContext` does (`RoundEndsFirst`), and `TimeLeft`: while post
waits, the time that the server still needs at most is less than the time that post still
waits. `LifecycleAssumption` has the one fact about the code's numbers that it needs:
`Grace < Slack`, ten seconds are less than thirty. Theorems, for every timeout:
`LifecycleTypes`, `DeadlinesAreNested`, `PostWaitsLongEnough`.

### FlushSchedule

`DelayIsBounded` (`TimingProofs`): an item waits one round for each pack that leaves
before it and its own, one for each failed flush, and one save, for any items, sizes,
target, interval and duration of a save. A round is the interval or the longest save,
whichever is longer. That saves are shorter than the interval is not assumed, because the
defaults (30 s, and 5 min for the cache service) do not have it. The bound `MaxCount` of
the histories is arbitrary.

`ScheduleInv` needs three facts that the property does not have. `PacksInv`: the pack that
was foreseen for an object when it was staged is the pack that the selection would give it
now; so every save takes exactly the objects of pack 1 (`SelectionIs`, `BatchIs`), and
what is left moves one pack ahead because each remaining pack still begins with the same
object (`PackAfterSave`). `SavingInv`: the batch that is saved is the one that would be
selected, since nothing is staged meanwhile. `WaitInv`: what is not ready has not waited,
and the time an item has waited is within its budget even when the time to the next tick,
or to the end of the save, is added (`InTime`). One case of it carries the argument: after
a save that was longer than the interval the channel holds a tick, so the next round begins
at once (`SaveEnds`). That a wake-up finds nothing to publish costs no time, because then
nothing is ready (`EmptyBatch`). `OrderInv` has the byte counter: it is the size of what is
pending at every moment.

### Limiter

`LimiterInv`: slots that are waited for are an interval apart from each other, from the
next free slot and from every upload that began. It proves `NoBurst`. `InAMinute` takes the
first of the uploads in one minute and counts those that can follow it: when `n` intervals
are a minute or longer, no minute has more than `n` uploads. `RateKept` uses it with
`PerMinute + 1`: `LimiterAssumption` says that the division cuts off one interval at most,
which is so for every rate from 1 to 199. `RateStaysBelow` uses it with `Limit - 1`, as a
condition under which the comment of the limiter holds. A rate of 199 does not meet it
(section 5), 198 does.

### Only model-checked

- All liveness: `StagedIsCommitted`, `ShutdownCompletes`, `EveryCallReturns`,
  `DownloadsProceed`, `EveryReaderReturns`, `PublishedUnlessRefused`, `ServerEnds`.
  Liveness under fairness and `ENABLED` are out of the prover's reach.
- `WrittenIsReadable` as it stands. It is proved for manifests within the limits
  (`WrittenIsAccepted`). Beyond them it is false, because the code does not check the limits
  when it writes (section 5).

## 5. Where the code differs from what is said about it

The run `evicted` shows one difference. The index is taken as proof of persistence: after
the eviction of a pack, its objects are not uploaded again, and results that need them are
committed with an incomplete closure until the manifest is evicted too, although the
README promises "AC publication only after every referenced CAS object is persistent".
Readers get a miss.

The models have these too; no property denies them.

- The conflict branch of `stageAction` is dead, because `handlePut` always passes the
  object that was stored first (`server.go:488-495`). A job that produces two results for one
  key publishes the first without a notice, although the comment says "Do not publish either
  value" (`pack_store.go:158-161`); the repository's README makes disagreeing results a miss
  (`README.md:89-90`), which the code keeps for results in different manifests only
  (`NoSilentChoice`). No property calls this right: `OneResultPerJob` says that a job
  serves and publishes one result, and nothing of the one it drops.
- After discovery a manifest can be a head although another one names it as its parent.
  Later manifests carry superfluous parents; no head is lost (`NoHeadLost`).
- A pack may be larger than the download limit and is then committed and never readable
  (`pack_store.go:335`).
- The empty digest is implicit for files only. A result with an empty output directory is
  incomplete unless the client has uploaded the empty object (`Implicit`).
- The worker may begin another flush after stop was closed (`pack_store.go:110`); post may
  then give up while the final flush runs, and removes its files. `BudgetSuffices` names
  this case (`extraRound`).
- The final flush shares its deadline with the wait for the flush that the worker is in
  (`main.go:175`) and may begin with no time left.
- The wrapper's deadline for the start is as long as the server's for discovery and begins
  earlier (`main.js:26`), so a slow discovery fails the step.
- The ready file is parsed as soon as it exists, possibly empty (`main.js:138`). After a
  failed start post has no state: the server keeps running, its directory stays.
- A manifest with more parents than a reader accepts is written (`manifest.go:286`).
- 199 uploads per minute become 200, since the interval is cut off (`limiter.go:21`). That
  reaches the limit, which the comment wants "to stay below" (`limiter.go:9`), and does not
  exceed it (`RateIsKept`); `RateStaysBelow` says at which rates the comment holds.
- The listing can hide manifests, although its pages are followed so that a later writer
  "does not silently hide older DAG parents" (`catalog.go:67-69`). Since no order is requested
  (`catalog.go:76-82`), a manifest that another job restores between two pages jumps to a page
  that was read and is missed, without any eviction; and an eviction between two pages hides
  another one. `MissedArePaidFor` says that nothing else hides one, and an eviction not more
  than one. The README calls an unseen manifest a temporary miss (`README.md:91-92`).
- A tick publishes one pack, so what fills several packs waits for several intervals
  (`DelayPerPack`); what is left after a flush may fill a pack and still waits for a tick.
- With `fail-on-cache-error` an evicted pack is an HTTP 502 and not a miss
  (`pack_store.go:346`); in objects mode the same eviction is a miss.

## 6. Not modelled

- `action/main.js` before the spawn (inputs and their checks, write mode, download of the
  binary) and `action/lib.js`: sequential code without state that meets another part.
- `NewActionsBackend` and `NewActionsCatalog`: they read the environment once.
- The bytes of protobuf (`protowire`), DAG-CBOR and CARv2: taken as injective encodings.
  Varints that are cut off and sizes that overflow are modelled, as outcomes of a field.
- Statistics other than the counters of requests: byte counts, discovery and throttle
  counters, the JSON form.
- Temporary files of pack downloads: they stay behind after failures, and nothing
  documents a bound.
- Delays of timers and of the scheduler in `Limiter` and `Lifecycle`: steps happen at
  their time, or take whole units.
- HTTP headers and texts, logging, build scripts and release tooling.

Three hazards in `PROJECT.json` have no property, because the code has no guard against
them: a pack beyond the download limit (`pack_store.go:335`), a manifest beyond the limits
of its readers (`manifest.go:286`) and a start that fails after the spawn (`main.js:138`).
The models contain the behaviour; section 5 says what comes of it.
