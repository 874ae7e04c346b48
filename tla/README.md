# A verification of grog in TLA+

grog is a build tool for monorepos. It reads the targets of a repository,
hashes their inputs, and runs the commands of those whose result is not in a
cache that is shared by builds, checkouts and machines. This directory holds
TLA+ models of the parts of grog in which order, failure and concurrency
matter, configurations that check them with TLC, and proofs that TLAPS checks.

1. [The system](#1-the-system): its parts, their state, how they interact
2. [Modules](#2-modules): which module models what, and how
3. [Runs](#3-runs): what each shows, its bounds, the fairness assumed
4. [Disagreements](#4-disagreements-between-code-and-documentation) found
5. [Proofs](#5-proofs): the theorems and the arguments behind them
6. [Limits](#6-limits): what is only model-checked, what is not modelled
7. [Plan](#7-plan): what comes next and in which order

## 1. The system

A build, `grog build`, goes through these steps
(`src/internal/cmd/cmds/build.go`):

    lock the workspace              locking/workspace_locker.go
    load packages, build the graph  loading/, analysis/, dag/graph.go
    select targets                  selection/
    Executor.Execute                execution/execute.go
      Walker.Walk                   dag/graph_walker.go
        per target: a goroutine, when its dependencies are done
          change hash               hashing/
          Scheduler.Schedule        execution/scheduler.go, worker/
            cache, taint, load      output/, caching/
            resources, command      execution/resource_manager.go
            prepare, persist        execution/cache_writer.go, worker/ (I/O pool)
      ResourceManager.TeardownAll
      wait for the I/O pool
    unlock, report, os.Exit on failure

### Core components

| component | state | operations | correct when |
|---|---|---|---|
| graph walker | completion map, a ready and a cancel channel per node, fail-fast flag, context | `Walk`, node goroutines, `startNode`, `cancelNode`, `onComplete` | a callback runs once, over successful dependencies; a failure leaves out what depends on it and nothing else; `Walk` returns |
| executor | per target: change hash, output hash, `OutputsLoaded`; `rerunGroup` (singleflight) | `getTaskFunc`, `executeTarget`, `LoadDependencyOutputs` | outputs are those of a clean build; a command sees its inputs; nothing runs twice, nothing cached runs |
| hashes | none | `SetTargetChangeHash`, `GetTargetChangeHash`, `getOutputHash`, `GetNoCacheOutputHash` | equal hashes mean equal outputs |
| output registry and handlers | workspace files, staged files | `PrepareOutputs`, `LoadOutputs` | loading gives what was written, a failure publishes nothing |
| cache writer | jobs in the I/O pool | `PersistPreparedTarget`, `commit`, `wait` | a result never names a blob that is not there |
| target cache, CAS, taint store | key/value entries in a backend | `Load`, `Write`, `Exists`, `Taint`, `Clear` | a taint is not forgotten before the target ran |
| cache backends | files, objects of a bucket, I/O slots | `Get`, `Set`, `BeginWrite`, `Exists`, `Delete` | local and remote agree, slots are not exhausted |
| worker pools | channel, counter of active jobs, closed flag | `Run`, `RunFireAndForget`, workers, `Shutdown`, `WaitForCompletion` | each accepted job runs once and is answered; the counter is exact |
| scheduler | a semaphore per concurrency group | `Schedule` | the limit of a group holds, permits come back |
| resource manager | start results, start order, active starts, teardown flag | `EnsureResourcesStarted`, `ensureStarted`, `TeardownAll` | started once, after what it needs, stopped before it, none forgotten |
| workspace lock | a file with a process id per workspace | `Lock`, `Unlock`, `FindActiveLocks` | one build per workspace, no `clean` under a build, a dead owner blocks nobody |

### Around the core

| component | state | operations | correct when |
|---|---|---|---|
| loading | a queue of files, packages by path, the first error | `LoadPackages`, `mergePackages`, `getEnrichedPackage` | every definition is there once, whatever worker loads its file; a load cut short fails |
| analysis and selection | the graph, a mark per node | `BuildGraph`, `FindCycle`, `detectOutputConflicts`, `CheckTargetConstraints`, `SelectTargetsForBuild` | no cycle passes, concurrent targets write apart, tests stay at the leaves, the selection is closed |
| queries | none | `list`, `graph`, `deps`, `rdeps`, `owners`, `changes`, `explain-changes` | what changed, or depends on it, is listed |
| file and directory outputs | workspace files, snapshots, blobs, trees | `Write`, `Execute`, `Cleanup`, `Load` | what is restored is what was written, a `bin_output` is executable |
| loopback registry | upload sessions, a lock each, `uploadsMu`, the server | POST, PATCH, PUT, manifests, `Close` | a blob is what its digest says, a staged writer has an owner until `Close` ends, `Close` returns |
| image outputs and pushes | references in the Docker daemon, push reports | `Write`, `Load`, write plans, `PushImage` | a stored result names a stored image, no push that was tried fails silently |
| named mutexes | an entry with a count per name in use | `Lock`, `Unlock` | one holder per name, no entry without a user |
| traces | two files per build, locally and remotely | `Finalize`, `Write`, `Pull`, `Prune`, queries | a prune removes the old and nothing else, reports agree |

Console, configuration, completions and the progress tracker are display and
input; PROJECT.json lists them, and what is left out of the others, with the
reason.

### Interactions

* The walker calls the executor's callback from one goroutine per node. The
  executor writes hashes and `OutputsLoaded` into the target; other goroutines
  read them, ordered by the walker (a dependency completes before a dependant
  starts) for all but reruns, which `rerunGroup` orders.
* A callback goes through the scheduler into the task pool and waits for its
  answer. Cache writes go into the I/O pool and nobody waits for one of them;
  `Execute` waits for all of them at the end.
* Resources are started by whichever task needs one first and stopped by
  `Execute`, not by the task.
* Builds meet in the file system: the lock file, the cache, the taint store.
  Machines meet in the remote store, where nothing is locked.
* The Docker daemon is a client of grog during a push: the write plan of an
  image asks the daemon to push, and the daemon calls the loopback registry of
  the same process, which writes to the CAS.

### What is hard here

* The last dependencies of a node complete at the same time (walker).
* A cancelled context: `Walk`, workers, callers and resources each react to it
  on their own, and `Walk` returns before its goroutines do.
* Shutdown while callers are still sending on the channel that is closed.
* `load_outputs=minimal`: a cache hit loads nothing, so that missing outputs
  are found late, by several dependants at once, and may need reruns that need
  reruns.
* A crash, a failed write or a lost object between two builds, which leaves the
  next one to tell what can be trusted.
* A lock made from file operations that are not atomic together.
* One stream that feeds two stores, staged writes that commit in one and then
  in the other, on services with different promises.
* Requests of one upload session that overlap, break off and are repeated,
  while the server is being closed.
* Snapshots, hashes and uploads of outputs at different times, with other
  commands writing in the workspace, and downloads that go on after an error.

PROJECT.json lists these at their lines as 40 hazards, with the properties
that would catch them going wrong.

## 2. Modules

| module | models | state ↔ code |
|---|---|---|
| `Walker` | graph walker | `routine[n]`: the node's goroutine; `sent`, `cancelled`: its channels; `completions`: the `CompletionMap`; `walk`, `result`: the goroutine in `Walk` |
| `DagRun` | what the walk promises | `status[n]`: pending, running, settled; an abort; a verdict |
| `Fingerprints` | hashes | operators: what each hash covers |
| `Executor` | executor, output registry, cache writer, result and taint stores | `pc[t]`, `frames[t]`: the task of a target and its recursion; `flight`: `rerunGroup`; `results`, `cas`, `tainted`: the stores; `writes`: jobs of the I/O pool; `workspace`: output files |
| `WorkerPool` | pools and scheduler | `caller[j]`: the goroutine that brings job j; `line`, `permits`: the semaphore; `channel`, `closed`, `active`, `worker`: the pool |
| `Resources` | resource manager | `pc`, `frames`: the tasks; `result`: `startResults`; `flight`: `startGroup`; `started`: start order; `main`: `Execute` |
| `WorkspaceLock` | lock, its users, `grog clean` | `at[p]`: a process; `file[w]`: the lock file, who created it and whether it is written; `dir[w]`: its directory |
| `RemoteCache` | `Cas`, `TargetResultCache`, I/O slots, local and remote store | `op[c]`: the call of a goroutine; `fs[m]`, `remote`: entries; `known[m]`: `keyExistsCache`; `free[m]`: slots; `staged[c]`: a staged writer |
| `ObjectStores` | the three vendors of the remote store | operators: what each call of S3, GCS and Azure may leave and answer |
| `SharedStore` | what the cache promises | `here[m]`, `there`: entries, whole ones |
| `OciProxy` | loopback registry | `session[s]`, `listed`: uploads; `at[s][r]`: the handler of a request; `server`: how far `Close` is; `push[p]`: the daemon |
| `ImageOutputs` | both image handlers, push plans, the close of the registry | `job[t]`: a target; `image`, `name`, `cacheTag`, `pullRef`: the daemon; `digest`, `result`, `reports` |
| `FileOutputs` | file and directory handlers | `disk`: what is at the path; `staged`: the snapshot; `recorded`, `cas`: the stores; `todo`, `pending`: directories that a `Load` has yet to fill, and its goroutines |
| `MutexMap` | named mutexes | `locks`: the map; `owner`, `waiters`: of a mutex; `pc[c]`: a caller |
| `TraceStore` | traces and their commands | `local[m]`, `remote`: files; `job[p]`: a process |
| `Loading` | `LoadPackages` | `queue`, `worker[w]`, `packages`, `loadError`, `cancelled` |
| `CycleSearch` | `FindCycle` | `visited`, `stack`, `tried` (edges followed), `cycle` |
| `Planning` | the commands up to execution, and queries | `nodes`, `edges`: the graph; `selected`; `left`: nodes not looked at; `answer` |

`Walker` implements `DagRun` by a refinement mapping (`Status`), `RemoteCache`
implements `SharedStore` (`Store`). `Executor` extends `Fingerprints`,
`RemoteCache` extends `ObjectStores`, `ImageOutputs` composes the handlers with
`OciProxy`, and `Planning` composes `Loading`, `CycleSearch`, the checks and the
selection into one command. Modules named `MC...` define small instances, and
modules named `..._proofs` hold theorems. Operators commented *Mutant* are
plausible mistakes in the code below them; they are not used by the models.

**Walker.** One action per critical section of `doneMutex` or `nodeMutex` and
one per channel operation. `Edges[d][n]` counts how often n lists d: `AddEdge`
keeps duplicates, and each makes `onComplete` consider n again. A callback
succeeds or fails; with the context cancelled it may also report the
cancellation, which `onComplete` does not record. `Walk` returns when all
goroutines are gone or, after a cancellation, without them.

**Executor.** An action is a step between two points at which another task or
the file system can interfere: the change hash, the cache check with its taint
check, a load, a failed load, the call of `rerunGroup` (the result of the
failed load is already old), the start and the end of a command, an error on
its way up. `LoadDependencyOutputs` and `executeTarget` call each other, so a
task has a stack: its own target at the bottom, above it the dependencies it
runs again, each with the dependencies still to be gone through. The order in
which a frame goes through them is left open, although the code has a fixed
one. The user acts between builds (edits, taints, fresh checkouts, lost cache
entries); a build may crash at any step. The reads of the cache check may fail:
an unreadable result is a miss (`ResultUnread`), an unreadable taint is logged
and taken for none (`TaintUnread`, remembered in `misread`). A target has one
input and at most one output; a digest is the value it is made of, so a hit on
stale content shows as a hit. While a command runs, or when a load was cut off
by a crash, its output file holds `Junk`.

**WorkerPool.** Callers are the goroutines of the walk (or, with
`Forget`, those that hand in cache writes). `enqueue` checks the flag, counts
the job, then sends; a send on the channel that was closed meanwhile panics and
is recovered, an expired one-second backstop sees the flag. Only the wait for a
permit ends with the context; the pool is shut down by a watcher of it. The
`select` of a worker may take `ctx.Done` although jobs are there.

**Resources.** A task is a stack again: `start` first ensures what the resource
depends on. `flight` joins overlapping starts, `result` remembers outcomes.
`beginStart` refuses when the teardown has begun, `TeardownAll` waits for the
starts under way. `Down` means that a resource has had its turn in the teardown:
the code skips one without a down command and only warns when the command fails. With `Late`, tasks also run after the teardown: `grog run`
may ask for reruns once `Execute` has returned.

**WorkspaceLock.** Every file operation of `Lock` is a step: create, write,
read, remove, wait. A process that is killed leaves its file, and so does one
that exits through `os.Exit` with the lock held. `nested` is a `grog` called by
the program that `grog run` started. `grog clean` scans for locks and then
removes directories, step by step.

**RemoteCache.** A write is `Cas.Write` (is it there, take a slot, feed two
pipes from one stream, wait for three goroutines) or a staged write (both
sides, commit here and then there, with the vendor's copy and the removal of
the staging object as steps of their own). A read holds its slot until the
reader is closed, and copies what only the remote store has. Any call may fail
at any step, a stream may break off, a process may die. `ObjectStores` keeps
the vendors apart where they differ: what a broken upload leaves, and that
Azure's copy ends later, listed before it can be read, and may fail, also over a
blob that was there. `SharedStore` takes an entry of the bucket to be one that
is listed. Not in the model: a
process that dies leaves files in `.staging` and `.uploads` that nobody
removes, and removing one's own staging file is taken not to fail.

**OciProxy, ImageOutputs.** A handler is a goroutine that may stop between
looking the session up, taking its lock, copying a chunk, and cancelling it,
which are under different locks. The daemon may give up a PATCH and repeat it,
start over, or fail. All targets have one image, so the references that grog
puts on it are shared, and cleaning up after one target may take a reference
from another. A hit may be left in the cache (`SkipLoad`) until a dependant needs
it, and a target without a cache is only hashed (`HashOnly`): neither has plans.
`Commit` and `Cancel` of a staged writer are one step here (`RemoteCache` has
theirs). `Close` waits five seconds for requests and then goes on without them;
`late` remembers, for the property alone, which sessions a POST was still about
to list when the sweep of `Close` was over.

**FileOutputs.** One output, a file, a `bin_output` (`bin`) or a directory, over
several builds: the command
writes anything, `Write` copies and describes it, files are uploaded in any
order, the result is stored, a later build restores or runs. Between these,
other commands write at the path, calls fail and the process dies. A tree is a
function from paths to files with their modes, links and directories. The result
of a single file has its content only: `os.Create` keeps the mode of what is
there, and only a `bin_output` is then made executable. The digest of a directory is all that is below it, so that equal parts have one
message. `Load` of a directory is step by step, one action for each call of
`loadDirectoryRecursive` and two for each download; calls that fill different
directories may come in any order. Downloads go on when `Load` has returned with
an error.

**TraceStore.** The date of a file, which names its directory, is derived from
the start of the build by the writer and again by the pruner; both files are
written and deleted locally and remotely in steps that may fail. Queries are
operators over the local files.

**MutexMap.** A mutex has an address, so that a caller may hold one that the map
no longer has; what it guards is the work of `LoadOutputs`, done once.

**Loading, CycleSearch, Planning.** The file walker's queue is a set that is
full at the start; files are taken and merged in any order. `FindCycle` follows
the edges of a node in any order. An input of `Planning` is a workspace, its
older revision and a command, and a behaviour is what the command does with it:
load, build the graph, search, check, then select or answer.

## 3. Runs

The twelve runs are one for each question asked. "Pass" runs exhaust the state
space of their instance.

| run | distinct states | shows |
|---|---|---|
| `walker` | 11,603 | no callback before its dependencies, no lost start, exactly what depends on a failure is left out, a nil error means everything was built, `Walk` returns and no goroutine stays behind, and the walk implements `DagRun` |
| `exec_builds` | 2,746,966 | over up to three builds: outputs are those of a clean build, commands see their inputs, nothing that a build knows to be tainted is skipped, nothing cached is run, results come after their blobs |
| `exec_minimal` | 276,784 | two targets miss the same dependencies at once: reruns nest and join each other, each dependency is run again once, a failure reaches all who wait, the build ends |
| `pool` | 488,078 | the group limit and the permits, the counter of jobs on every error path, what is refused never runs, what was accepted has run when the pool is drained, everything settles |
| `resources` | 47,579 | a resource is started once, after and stopped before what it needs, commands run with theirs up, the teardown forgets none, nobody waits for ever |
| `lock` | 45,608 | only the dead leave lock files, a build whose lock has settled stays alone and its cache in place, whoever waits is let in |
| `remote_cache` | 869,369 | a machine that has published a result can read its blobs (but for destinations of Azure copies), no part of an entry is ever found, every job ends with a single I/O slot, and the cache implements `SharedStore` |
| `images` | 1,695,881 | a staged writer has an owner until `Close` ends, a stored result has its image, whatever is stored or restored is pushed or its push reported, `Close` returns |
| `artifacts` | 1,456,571 | what a `Load` restores is what was written, but for the mode of a file; a prune keeps its word and reports agree; a name has one holder |
| `planning` | 714,398 | a load that succeeds is complete, a search is right, a graph that is accepted is sound, a selection is closed, changes are covered |
| `alias`, `lock_twice` | until the violation | one disagreement each, see section 4 |

Deadlock is not checked: a walk, a drained pool, the last allowed build, a
closed registry, an answered query and processes that are done are ends the
programs really have. That nothing stops short of its end is what the liveness
properties say.

### Bounds, and why they are enough

* `walker`: a diamond, the smallest graph in which two dependencies of one node
  race; `right` lists `base` twice, for duplicate edges; `other` depends on
  `left` and is not selected. Every outcome, fail-fast on and off, an interrupt
  at any point. All counters are bounded by the edges.
* `exec_builds`: a chain with a shortcut (`app` reads `gen` and `lib`, `gen`
  reads `lib`), so that the rerun of `gen` may need the rerun of `lib`, which
  `app` needs too; `lib` has no outputs. `Bound` limits the history to three
  builds with one edit, one loss (an object, a result or the checkout), one
  taint, one failure (command, cache write or crash) and one failed load or
  read of the cache check, in any order. Three builds are needed for warm builds: one fills the cache, the
  second repairs or confirms it, the third is the one that must run nothing.
* `exec_minimal`: a diamond (`gen` reads `lib`; `app` and `test` read both and
  are not cached, so that they run in every build), the smallest graph where two
  tasks meet in `rerunGroup` with reruns that need a rerun: both may run `gen`
  again, and for it `lib`, or join the other's rerun of either. Three losses in
  two or three builds, to lose the outputs of both in the cache or in a fresh
  checkout; one failure, which no earlier build has to spend, for a rerun that
  fails while others wait for it; liveness is checked.
* `pool`: two jobs in a group of capacity 1, one outside, one fire-and-forget,
  two workers, hence a channel of two: callers wait for a permit, for room and
  for an answer, all at once. Shutdown, cancellation and
  `WaitForCompletion` come at any point.
* `resources`: three tasks, three resources, one of which depends on another,
  in orders that differ between the tasks, so that starts are joined, nested
  and both. Starts fail and the interrupt comes at any point.
* `lock`: two checkouts; a build, a run and the grog it calls in one, a test
  and a clean in the other. A third builder in one checkout is what it takes
  for one to remove a file that another has just created over a stale one.
* `remote_cache`: on one machine a goroutine that writes files and one that
  writes a file, writes an image or reads, with one I/O slot between them, and
  on another machine one that writes an image, so that slots, the machine's own
  entries and the shared ones are all fought over; one blob and one result, each
  of the three vendors. Failures are not bounded, one process dies.
* `images`: two targets with the same image and eleven combinations of
  options (`MCOptions`): all of them with a cache registry, and with the loopback
  registry those that differ in what it is asked, with and without `--push`,
  `load_outputs=minimal` and a `no-cache` target; one upload session at a time per name, which is taken again when
  nothing refers to it, and a layer of one chunk, sent in up to three requests
  at once. Results and images of earlier builds may be there.
* `artifacts`: the sum of three instances that share no variable, so that each
  component is exhausted on its own. Outputs: two contents, three trees with
  equal parts, a link, an empty directory, as a file, a `bin_output` and a
  directory; three builds with three events
  (failure, kill, foreign write). Traces: two processes on one or two machines,
  two traces, two days and a half, one fault. Mutexes: three callers of two
  names, three addresses.
* `planning`: families of workspaces, each exhaustive in what it is about: every
  graph over three labels; acyclic graphs with every kind of node, with ten
  sets of outputs at two of them, or with node variants under seventeen commands;
  three BUILD files out of eight, loaded by two workers; changes of a
  repository with a glob, an exclusion and two revisions.

Passing runs of `Executor` assume what section 4 shows to be necessary: no
alias among the dependencies, distinct output paths, the cache on, no
`no-cache` target, no taint and no edit during a build.

### Fairness

Weak fairness, each time because the code runs it in a goroutine or process
that nothing else has to enable again:

* the goroutine of `Walk`, of every node and of every pending cancellation; a
  callback ends, since commands end or are killed by their timeout;
* every task, every I/O worker and the end of `Execute` (`Executor`);
* every caller and worker, the closing of the channel once the flag is set,
  `WaitForCompletion` once called, and `Shutdown` after a cancellation, which a
  goroutine of the pool watches for (`WorkerPool`);
* every task and the teardown (`Resources`);
* every process that wants or has the lock (`WorkspaceLock`): it polls every
  second and its build ends;
* every client of the cache (`RemoteCache`): its calls return, with an error if
  nothing else;
* the handlers of a session and the closing of the registry (`ImageOutputs`):
  the body of a request ends or its connection breaks. A daemon that kept a
  PATCH open for ever without sending would keep the sweep of `Close` waiting
  for the lock of its session (`ociproxy/registry.go:160`).

The user's steps, interrupts, failures, crashes, and losses have no fairness.
No property needs strong fairness.

## 4. Disagreements between code and documentation

Two are runs that TLC refutes, and findings in PROJECT.json with the quoted
text.

| run | property | what happens |
|---|---|---|
| `alias` | `OutputsMatchSource` | an alias among the dependencies contributes nothing to the change hash (`hashing/target_hasher.go:48`): the dependant is not rebuilt |
| `lock_twice` | `MutualExclusion` | a lock file that is created and not yet written is taken for a stale one (`locking/workspace_locker.go:70`) |

Known divergences that no run is spent on. These four can be reproduced by
changing a configuration:

| change of the configuration | violated | what happens |
|---|---|---|
| `MCExecutorMinimal.cfg` with `Bound <- BoundAll` and the invariant `InputsReady` | `InputsReady` | one dependant runs a dependency again while another loads it from the cache and starts its command over the file being rewritten (`execution/execute.go:692`) |
| `MCExecutor.cfg` with `NoCache = {lib}` | `OutputsMatchSource` | a `no-cache` target without outputs has the hash of nothing (`execution/execute.go:581` against `:593`) |
| `MCExecutor.cfg` with `TaintAnytime = TRUE` | `TaintHonoured` | a taint set while the target runs is cleared by that run (`execution/execute.go:558`) |
| `MCExecutor.cfg` with `CacheOptions = {TRUE, FALSE}` | `WarmBuildRunsNothing` | a build without cache overwrites results by ones without outputs (`execution/execute.go:589`) |

These follow from the code and are kept out of the properties on purpose:

* Dependencies in two packages that swap the contents of outputs of the same
  name leave the change hash as it was: the hashes are sorted and joined without
  labels (`hashing/hash_target.go:46`).
* With `load_outputs=minimal` only direct dependencies are loaded before a
  command, although it can read the indirect ones (`execution/execute.go:652`).
* A failing output check does not prevent a cache hit
  (`execution/execute.go:384`), though binary-outputs.mdx:261 says the target is
  executed then. Output checks are not in `Executor`.
* Workers of a cancelled pool leave with a job in the channel; its caller waits
  for ever (`worker/task_worker_pool.go:124`). `EverythingSettles` is about a
  context that lives.
* A rerun for `grog run` finds the remembered start of a resource that was torn
  down (`execution/resource_manager.go:104`). `UpWhileUsed` is about the walk.
* When the remote commit of a staged write fails, the machine keeps the blob and
  publishes the result to both stores with the next build; the comment at
  `caching/backends/remote_wrapper.go:308` says that a read elsewhere re-triggers
  the build, which it does by failing to load a hit. `PublisherFindsBlobs` is
  about the machine that publishes.
* `Cas.Exists` takes an Azure copy that is pending or has failed for stored:
  `BlobExists` asks for properties and not for `CopyStatus`
  (`caching/backends/azure.go:86`). An upload of the blob is then skipped and its
  result published, although the blob cannot be read. `PublisherFindsBlobs`
  makes an exception of these keys, and `CacheImplementsStore` is about what is
  listed.
* A taint that cannot be read is logged and taken for none
  (`execution/execute.go:390`): the target may be served from the cache, though
  it was tainted. `TaintHonoured` makes an exception of that build; the taint
  itself stays.
* A POST that is still opening its writer when the five seconds of `Close` are
  over lists its upload after the sweep (`ociproxy/registry.go:567` against
  `:158`). Nobody commits or cancels the writer then, while the comment of
  `Close` says that it cancels any pending uploads (`ociproxy/registry.go:142`).
  `WriterHasOwner` makes an exception of these uploads.
* With `--push`, three kinds of targets push nothing and report nothing: a hit
  that `load_outputs=minimal` leaves in the cache (`execution/execute.go:405`), a
  target without a cache (`execution/execute.go:581`, `output/registry.go:276`),
  and one whose cache plan fails in an asynchronous write, which is logged as a
  failed write (`execution/cache_writer.go:89`, `:118`). docker-outputs.mdx:326
  says that cache hits still ship. `PushedUnlessReported` is about the targets
  whose outputs are stored or restored.
* The mode of a file output is not restored: the CAS has its content, the file
  is made with `os.Create` (`output/handlers/file_output_handler.go:188`), and
  only a `bin_output` is made executable (`output/registry.go:386`).
  `RestoredIsWritten` leaves this mode open. A change of the mode alone leaves
  the hash of the output as it was, too.
* A `Load` that cannot make a directory or a link returns while its downloads go
  on (`output/handlers/dir_output_handler.go:507`), under the command that then
  runs: files of the cached tree may be staged as its outputs.
* `Pull` takes the backend for a `RemoteWrapper`, which is behind the I/O limit
  (`tracing/store.go:144`): its check asks the remote store too, so that it
  fetches only what a failed check missed. A killed prune leaves spans without
  a row. The row of a build counts cancelled targets as failures, the
  bottlenecks do not.
* A directory output that is the workspace itself is in conflict with nothing
  (`analysis/output_conflicts.go:135`), directory outputs are not checked to be
  inside the workspace (`analysis/target_constraints.go:216`), and a target is
  not among its own ancestors, so that its own overlapping outputs are a
  conflict, against the comment at `analysis/output_conflicts.go:162`.
* A file that was deleted matches no glob, and `grog changes` does not report
  the target that had it (`cmd/cmds/changes.go:75`); nor does it report an alias
  or resource whose definition changed.

Also, `Walk` does not wait for its goroutines after a cancellation, although
the comment at `dag/graph_walker.go:95` says that it returns when all are done;
`WalkReturns` therefore speaks of the goroutines and of `Walk` separately.

## 5. Proofs

TLC's verdicts are about the instances above. The theorems below hold for every
value of the constants, under the modules' named assumptions. These say what
the constants are: sets of nodes with a dependency relation, a selection closed
under dependencies (`SelectedAssumption`, from `SelectTargetsForBuild`), a
finite number of jobs and workers (`PoolAssumption`), options drawn from their
values, `None` different from what it stands against. Four say something of
the program's surroundings. `AcyclicAssumption` (`Fingerprints`), because the
graph was analysed before, is used by the three theorems about freshness and by
no other. In `PoolAssumption` the jobs whose caller does not wait have no group,
because the cache writer submits them to its own pool
(`caching/cache_writer.go:81`). In `ProxyAssumption` a layer has content. In
`OutputsAssumption` commands leave trees. No
other theorem needs the graph to be free of cycles, and none needs it to be
finite.

### Walker_proofs

| theorem | statement |
|---|---|
| `TypeCorrect` | `Spec => []TypeOK` |
| `CallbackAfterDeps` | `Spec => []RunsAfterDeps` |
| `StartNotLost` | `Spec => []NoLostStart` |
| `StartedOnce` | `Spec => []StartedOncePerEdge` |
| `KeepGoingExact` | `Spec => []KeepGoing` |
| `NilMeansBuiltTheorem` | `Spec => []NilMeansBuilt` |
| `WalkerImplementsRun` | `Spec => ImplementsRun` (refinement of `DagRun`) |

The inductive invariant is `WInv`. `RunsAfterDeps` alone is not inductive: a
routine starts on a message, so a message must stand for dependencies that
succeeded (`SendInv`). `KeepGoing` says which nodes have no outcome, so one
must know who closed a cancel channel: while the context is alive, a failure
upstream did (`CancelInv`). That the last of two concurrent completions starts
the node rests on `onComplete` recording its outcome and reading the others in
one critical section. For the refinement, the one delicate step is the record
of a failure with fail-fast, which is one abstract step that fails a node and
aborts the run.

### Executor_proofs

| theorem | statement |
|---|---|
| `RerunInvariant` | `Spec => []RInv` |
| `ExecutorTypeCorrect` | `Spec => []TypeOK` |
| `NoTargetRunsTwice` | `Spec => []RunsOnce` |
| `TaintsAreHonoured` | `~TaintAnytime => (Spec => []TaintHonoured)` |
| `ResultsComeLast` | `Spec => BlobBeforeResult` |
| `BuildsAreFresh` | `Ordinary => (Spec => []OutputsMatchSource)` |
| `CommandsSeeFreshInputs` | `Ordinary => (Spec => []InputsReady)` |
| `WarmBuildsRunNothing` | `Ordinary /\ Caching => (Spec => []WarmBuildRunsNothing)` |

`RunsOnce` is about counters and says nothing of why a second run cannot
happen, so `RInv` describes the stacks. A stack holds the task's own target at
the bottom (`Stacks`); every frame above is a dependency that was done before
and whose flight in `rerunGroup` the task holds (`Flights`). A flight has one
holder and a task under way is not done, so no target is on two stacks or twice
on one (lemma `OneOwner`). What is on a stack has not run yet in this build,
and what has run is marked as loaded (`NotYetRun`), which is what `rerunGroup`
looks at again once it is in the group. `Asked` and `DepsDone` carry the fact
that a dependency is done from the moment a task sets out to the moment it asks
for the rerun. The argument does not need the graph to be acyclic.

`TaintHonoured` needs to know that no goroutine is about to clear a taint that
is owed and that no hit of a tainted target is being loaded (`TaintsKept`). The
assumption `~TaintAnytime` is needed: with taints during a build the property
is false (section 4), and so is its exception for a taint that a build could
not read (`misread`).

The last three theorems are about what the build produces, and each hypothesis
stands for a case of section 4 or of the limits in which the property fails.
`Ordinary` has three parts. `AllMode`: with `load_outputs=minimal` a task may
load an output over the one that a dependant reads at that moment. `Declared`:
commands read outputs of the targets their own target lists; one that reads
through an alias, whose dependency `GetTargetDependencies` leaves out, is run
`alias`. `Attributable`: a hash of a dependency says whose it is, because the
change hash joins the sorted hashes without labels. So no two dependencies of a
target have outputs under one path (if they swap contents, the hash stays),
at most one is no-cache (its hash has no path), and there are no targets without
outputs whose hash leaves out their inputs, which is the case if they are
no-cache or the cache is off. `Caching` says that the cache is on in every build
(with it off a build overwrites what the next one would have hit) and that what
a command makes is not `Unset`, the value that stands for no content.

The difficulty is that a change hash is made of the output hashes of the
dependencies, and these were restored from results that were stored under
change hashes, and so on. An induction over the graph is out of reach; the
proof takes a minimal counterexample instead. `AcyclicAssumption` gives, in
every set of targets, one without dependencies in the set; with it the output
of a build from scratch is well defined for any number of targets
(`CleanIsBuilt`), and so is what a change hash means (`KeyMeans`): one output
fits it, whatever build, machine state or history it was computed in
(`OneFits`). `FInv` then says that a result that is stored, or on its way to the
store, holds the output that its key means (`CacheSound`), that the change hash
of a task under way covers the present input and the hashes of its dependencies
(`Hashed`), and that what is done holds in the workspace what its command makes
of the present outputs of its dependencies (`Fresh`). A hit is right because the
key under which the result was found means that output, in whatever build,
checkout or history it was stored; a task that ends changes the output of no
target that is done. From `Fresh` at every target the theorem follows, again by
a minimal counterexample (`FreshIsClean`).

For warm builds `WInv` says that the output hashes of the present build are
those of a build from scratch (`Exact`, `HashesAreExact`), so that two builds of
the same sources compute the same keys. A build that may turn out to have cached
everything has a result, or a writer on its way, for each cacheable target that
is done (`Filling`); a cache that it filled has all results of a build from
scratch and their blobs (`Filled`, `Blobs`, `Listings`); and in a build over
such a cache whoever runs had a taint when its task looked (`OnlyTainted`).

The attempt to prove this found a flaw in the model. In `EndBuild` the next
value of `warm` was given by a `CASE` whose guards overlapped, which TLA+ leaves
open and TLC decides by order, so that the runs checked less than the module
said. It is a nested `IF` now, and so is the like definition in `Planning`.

### WorkerPool_proofs

| theorem | statement |
|---|---|
| `PoolInvariant` | `Spec => []IInv` |
| `PoolTypeCorrect` | `Spec => []TypeOK` |
| `GroupLimitHolds` | `Spec => []GroupLimit` |
| `CounterIsExact` | `Spec => []CounterExact` |
| `DrainKeepsItsPromise` | `Spec => []DrainedMeansRun` |

The properties count jobs at one place; a step moves a job between two. `IInv`
gives each job one place: the stage of its caller and its own agree (`Stages`),
the line of a group holds those who wait for a permit, each once (`GroupOK`),
the channel holds the queued jobs, each once, and a running job has one worker.
With this a permit, a place in the line and a unit of the counter are elements
of sets, and each step adds or removes one element, which is what the theorems
on cardinality can use. `GroupLimit` needs to know who holds the permit of a
running job: its caller does, until it has the answer.

### Resources_proofs

| theorem | statement |
|---|---|
| `ResourcesInvariant` | `Spec => []IInv` |
| `ResourcesTypeCorrect` | `Spec => []TypeOK` |
| `StartsAreOrdered` | `Spec => []StartedInOrder` |
| `UsedResourcesAreUp` | `Spec => []UpWhileUsed` |
| `NoneIsForgotten` | `Spec => []NoneForgotten` |

The shape is that of the reruns: a stack of frames per task, a flight with one
holder per resource. What a frame had to ensure is still to do or has been
started (`TaskOK`), which gives the order of starts when a frame is popped.
`NoneForgotten` needs the counter of starts under way to be the number of tasks
that are past the check of `tearingDown` and not yet registered: the teardown
waits for zero and then takes the list, so that nothing is registered behind
its back. Dependencies between resources may have cycles.

### RemoteCache_proofs

| theorem | statement |
|---|---|
| `CacheInvariant` | `Spec => []IInv` |
| `CacheTypeCorrect` | `Spec => []TypeOK` |
| `SlotsAreHeld` | `Spec => []Slots` |
| `PublishersFindBlobs` | `Spec => []PublisherFindsBlobs` |
| `CacheImplementsStore` | `Spec => ImplementsStore` (refinement of `SharedStore`) |

A machine that has published a result can read its blobs because its client
wrote them before, and a crash, a failing upload or another client cannot take
them away, unless the client is about to copy in Azure's way (`CopiesAreAzures`):
then what was there may be lost, and what is not there yet passes for stored.
The property makes an exception of these keys; for the others, S3 and Google,
what is listed can be read. `IInv` therefore follows what a client has in hand: the key of the call is
one it still has to do, results come when no blob is left (`Position`); a
stream that ended has been whole, and what is committed, uploaded or copied has
the whole content (`Content`); every blob that is neither to do nor in hand is
found on its machine. `Whole` is the same for the stores: nothing there is part of an
entry. `Slots` is the account of the I/O semaphore: on every error path of
every vendor a slot is given back once.

### Outputs_proofs

| theorem | statement |
|---|---|
| `ImageInvariant` | `Spec => []IInv` |
| `WritersHaveOwners` | `Spec => []WriterHasOwner` |
| `RecordedAreComplete` | `Spec => []RecordedImagesComplete` |
| `PushesAreReported` | `Spec => []PushedUnlessReported` |
| `FilesInvariant` | `FilesSpec => []FInv` |
| `LoadRestoresWhatWasWritten` | `FilesSpec => []RestoredIsWritten` |

The requests of one upload session may overlap, so that the content of a writer
and the digest of its hash can only be compared by who holds the session's
lock: whoever copies has it, and from the moment a PUT has it nobody else
copies, so the digest is of the content (`Opening`, `Locked`, `Finished`,
`Digested`). A push sends its manifest after its layer is there, and a result is
stored after the push or the blobs it names. `Owned` is the part about the
writers: a writer without a handler is in the list that `Close` sweeps, or was
put there by a POST that had opened it and not listed it when the sweep ended.

Files and directories (`FileOutputs`) are restored from what lies under digests
in the CAS. `CasHolds` says that this is always what the digest is of, which is
why the plan must read the snapshot; `Restorable` says that all of a stored
result is there. Two messages with one digest tell the same of every path below
them (`SameMessage`, `ChildOfDigest`), so `Load` finds the message of a
subdirectory whichever of the equal ones was stored. `Partly` and `OnItsWay` are
the invariant of a `Load`: nothing is on disk that the output does not have,
apart from the contents of files, and every node of the output is there, is
being downloaded, or lies below a directory that is still to be filled. A
failed download leaves a node in none of these places, and `Load` then does not
end as `restored`. When there is nothing left to do the tree is whole, for trees
of any depth and without induction on it. The mode of a single file, which the
result does not have, is left open throughout. `OutputsAssumption` (`FileOutputs`)
says what file systems guarantee of the output of a command: what lies below
something lies below directories; and that an output is not itself a link.

### Sharing_proofs

| theorem | statement |
|---|---|
| `LockTypeCorrect` | `Spec => []TypeOK` |
| `OnlyTheDeadLeaveFiles` | `Spec => []NothingLeftBehind` |
| `SettledLockIsSafe` | `Spec => SettledLockStays` |
| `MutexMapIsExclusive` | `MutexSpec => []OneHolder` |
| `TraceInvariant` | `TraceSpec => []TraceInv` |
| `PrunesKeepTheirWord` | `TraceSpec => PruneKeepsItsWord` |
| `ReportsAlwaysAgree` | `TraceSpec => []ReportsAgree` |

The module is about what processes and goroutines share outside of the cache:
`WorkspaceLock`, `MutexMap` and `TraceStore`.

A process removes the file in its own workspace, so one must know that a file
lies in the workspace of the process that created it (`FilesAtHome`), for any
number of processes. `SettledLockIsSafe` is what is left of mutual exclusion:
a build is safe from the moment on at which its file is written and no other
process of the workspace, and no cleaner, is past the point where it would have
seen that.

`OneHolder` is about names and a mutex is about addresses, so the invariant has
to say that whoever uses a name refers to the mutex that the map has under it
(`RefersToEntry`) and that no two names share one (`Distinct`). Both would be
lost if `Unlock` deleted an entry that somebody still uses; it deletes one when
the count is zero, and the count is exact (`Counted`, `CountedUse`).

`PruneKeepsItsWord` is about one step of a prune, `TraceInv` about what leads to
it. A file of a trace lies under the trace's date on every machine (`Dated`), so
the pruner's path is the writer's. A row that the prune has seen is still to do,
or is the one being deleted, or is gone (`Pruned`). That it stays away needs
three facts: a trace has one writer (`OneWriter`); what a command has yet to
store is neither in the remote store nor in the keys that a pull has read from
there (`Ahead`, `NotAhead`); and so a pull without a failed call finds nothing
to fetch, since `Exists` asks the remote store as well (`PullsOK`). The clause
on faults in the property is thus needed, and only for the local files.
`ReportsAgree` is about cardinalities: a sum is stated as the number of pairs
of a row and a unit, so that the sums compare as sets do. It rests on
`CompletionsAssumption` (`TraceStore`): a build has one completion for a target
(`dag.CompletionMap` is a map by label), without which spans and totals differ.

### Planning_proofs

| theorem | statement |
|---|---|
| `LoadIsComplete` | `Spec => []LoadedAll` |
| `FindCycleIsSound` | `Search => []SearchIsSound` |
| `CyclesAreFound` | `Spec => []SearchIsSound` |
| `AcceptedGraphsAreSound` | `Spec => []AcceptedIsSound` |
| `SelectionsAreClosed` | `Spec => []SelectionClosed` |
| `ChangesAreCovered` | `Spec => []ChangesCover` |

They hold for any number of workers, files, labels and nodes, and for every
graph, also one with cycles, which the search must find.

`LoadIsComplete` follows each file: it is in the queue, in the hands of one
worker, merged, or skipped for a reason (`Tracked`). `EntryOK` says that each
entry of a package comes from a file that was merged, and `Whole` that a merged
file has all its entries there, for which `mergePackages` must not be
interleaved with itself: it runs under the lock. A worker that fails leaves its
error (`WorkerOK`). `MapInv` carries this over to the nodes of the graph.

`FindCycleIsSound`: the nodes being visited form a path (`Path`, `Visiting`),
which gives the cycle that is reported. An edge that was followed leads to a
visited node or to the next one on the path (`Followed`), so the neighbours of
visited nodes are visited (`Closed`) and there is no cycle among the visited
nodes (`NoneAmongVisited`); in the end all are visited.

`NoneAmongVisited` is stated for sets: a set of visited nodes each of which has a
dependency in it is empty, and so for dependants. In the end this says that the
graph is well-founded in both directions, and `GraphInv` keeps it
(`GoodGraph`). It is why the recursions of the code end, and what their value
is: `ancestors`, `descendants`, `resolveDependencyTarget` and
`buildUpstreamTree` are recursive functions, and each collects the smallest set
that is closed under one step (`CollectExists`, `CollectUnique`,
`CollectClosed`, `CollectDual`, stated once for any function on any
well-founded graph). The arguments over the graph take a minimal
counterexample where one would use induction.

With these, `AcceptedIsSound` is what the checks of the analysis say of a
pair of targets and of a path: a test is not reached through aliases, resources
or other targets, because on the way to it some target would have been refused
(`NoTestBelow`, `NoTestOnlyBelow`). `SelectInv` says of the set of selected
nodes, in any order of the walk, that it is closed and lies between what is
asked for and what that needs. `CoverInv` compares the sources with those of the
revision; that the trees of `explain-changes` show every affected node is that
each of them has a consumer above it (`TreesCoverAffected`).

`InputsAssumption` (`Loading`) says what parsers return: definitions with the
fields of their type, of one of three kinds. `NoOneAssumption` (`MutexMap`)
says that the value for nobody is none of the others.

The first attempt at `ChangesCover` failed for a reason. The property compared
the definitions of a name as sets, and a revision whose BUILD file defines a
name twice made it false, although no such revision can be loaded; the
property now says so.

## 6. Limits

Only model-checked: liveness (`WalkReturns`, `BuildEnds`, `EverythingSettles`,
`TasksAndTeardownEnd`, `WaitingEnds`, `JobsEnd`, `CloseReturns`), because TLAPS
proves nothing about fairness or `ENABLED`; what a build with
`load_outputs=minimal` leaves (`OutputsMatchSource` in run `exec_builds`), because
`InputsReady`, from which the proof starts, is false there.

Abstractions:

* Hashes have no collisions; how values are joined before hashing is left out.
* A target of `Executor` has one input and one output file. `FileOutputs` and
  `ImageOutputs` have the other kinds, one output at a time.
* Failure of a command and of its timeout is one outcome; output checks are left
  out.
* The cache of `Executor` is one store. Its objects vanish between builds only.
  `RemoteCache` has the stores it consists of.
* What the Docker daemon, the object stores and git do is external, and modelled
  as far as the code looks at their answers.
* Process ids are not reused, `--force` is not given, and a directory is
  removed in one step (`WorkspaceLock`).
* A resource's commands, exports and timeouts are one outcome.

Not modelled: the console, the progress tracker and the pool coordinator, on
which no decision depends; configuration, completions and the root command;
parsers of BUILD files and labels, which are an outcome in `Loading`; the
rendering of queries and traces; the critical path; `grog run` of a script,
which adds a node to a graph that was analysed before; generated code. Other
programs (Docker, cloud stores, git) are external.

## 7. Plan

1. Executor with WorkerPool: permits while tasks run dependencies again; the
   hazard that a rerun is not counted in the dependency's group.
2. Output checks in `Executor`, and several outputs of one target.

## Files

| kind | files |
|---|---|
| models | `Walker`, `DagRun`, `Fingerprints`, `Executor`, `WorkerPool`, `Resources`, `WorkspaceLock`, `RemoteCache`, `ObjectStores`, `SharedStore`, `OciProxy`, `ImageOutputs`, `FileOutputs`, `MutexMap`, `TraceStore`, `Loading`, `CycleSearch`, `Planning` |
| instances | `MCWalker`, `MCExecutor`, `MCWorkerPool`, `MCResources`, `MCWorkspaceLock`, `MCRemoteCache`, `MCImageOutputs`, `MCArtifacts`, `MCPlanning`, each with its `.cfg` files |
| proofs | `Walker_proofs`, `Executor_proofs`, `Sharing_proofs`, `WorkerPool_proofs`, `Resources_proofs`, `RemoteCache_proofs`, `Outputs_proofs`, `Planning_proofs` |
| index | `PROJECT.json`: components, runs, mutants, map to the source, findings, hazards, theorems |

To check a model: `tlc -config MCWalker.cfg MCWalker`. To check the proofs of a
module: `tlapm Walker_proofs.tla`.
