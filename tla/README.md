# Angstrom integration layer: BitBake and the programs of its layers

This directory holds a TLA+ development of the programs in this repository. The largest is BitBake,
the build tool in `src/bitbake`; beside it the layers carry a handful of C programs that are
written or patched here: unifdef, a Git proxy, the binary plugin cache of GStreamer, makedevs,
raw2flash, and the parser of dates of `at`. Everything else is recipes, patches and data.

The development models the parts where processes, stamps, callbacks and commands interleave
(the executors of a build's tasks and setscene tasks, the command side of the server, lock files,
the proxy, the plugin cache) and the algorithms whose result is easy to get wrong and hard to look at
(the collapse of a dependency graph, unifdef, dates, device tables, flash pages). TLC checks each module on
small instances; TLAPS proves for all instances the safety properties of both executors, the collapse, the server, lock files,
unifdef, the proxy and the flash programs. `PROJECT.json` maps every definition to the lines it models.

Paths of Python files are relative to `src/bitbake/lib/bb/`. The C programs are abbreviated as

| short | file |
|---|---|
| `unifdef.c` | `src/meta/recipes-devtools/unifdef/files/unifdef.c` |
| `proxy` | `src/scripts/oe-git-proxy-socks.c` |
| `registry` | `src/meta/recipes-multimedia/gstreamer/gstreamer-0.10.32/gstregistrybinary.c` |
| `makedevs.c` | `src/meta/recipes-devtools/makedevs/makedevs-1.0.0/makedevs.c` |
| `raw2flash.c` | `src/meta/recipes-devtools/qemu/qemu-helper/raw2flash.c` |
| `posixtm.c` | `src/meta/recipes-extended/at/files/posixtm.c` |

## The system

BitBake is a server process and a user interface. The server is *one thread*. A turn of its loop
(`server/process.py:97-115`) takes at most one command from the client and calls the registered
idle functions. A build is such an idle function: it calls `RunQueue.execute_runqueue` again and
again, and each call does a little (starts one task, or waits for one). The tasks run in forked
*worker processes*, which write stamp files and send events over a pipe.

    client ──commands──▶ ProcessServer ──▶ Command ──▶ BBCooker
                            │ idle functions            │
                            │                  runCommands: updateCache, then the command
                            │                  buildTargetsIdle / buildFileIdle
                            ▼                           ▼
                        RunQueue: Prepare ─▶ SceneInit/SceneRun ─▶ RunInit/Running ─▶ CleanUp ─▶ Complete/Failed
                                                  │ fork                 │ fork
                                                  ▼                      ▼
                                               workers ──── stamp files ─── workers

### Inventory

| component | state | operations | hard behaviour | correct when |
|---|---|---|---|---|
| task executor (`runqueue.py:1164-1374`) | `runq_buildable/running/complete`, `stats`, `build_pids`, `failed_fnids`, `RunQueue.state` | constructor with covered tasks, `execute`, `task_complete/fail/skip`, `finish`, `finish_now` | exits in any order between calls, failures among running workers, stop and shutdown at any point | dependencies first, never more than the limit, everything that can be built is, the verdict is true |
| setscene executor (`runqueue.py:1376-1620`) | `sq_revdeps2`, `scenequeue_covered/notcovered`, the same queue state | hash checks, `execute`, `task_skip`, `task_failoutright`, hand-over | one decision per task, by hash check, by stamp or by a worker; forced targets | every task decided once, dependents first; what is called covered is restored |
| collapse of the graph (`runqueue.py:1391-1447`) | `endpoints`, `sq_revdeps`, `sq_revdeps_new` | `process_endpoints`, the test after it | walks a `dict`, whose order is a hash table's | sound, complete, ends |
| stamps (`build.py:376-441`, `runqueue.py:867-923`) | two stamp files per task, whole-second mtimes | `make_stamp`, `del_stamp`, `check_stamp_task` | a worker dies between removing a stamp and making it; two recipes share a stamp | a current stamp means up-to-date work |
| preparation (`runqueue.py:370-748`) | `runq_depends`, `runq_revdeps`, `runq_setscene` | `prepare`, `circular_depchains_handler`, `calculate_task_weights` | loops, recursive dependencies, renumbering | acyclic, closed under dependencies, weights respect order |
| schedulers (`runqueue.py:80-190`) | `prio_map`, `build_stamps` | `next_buildable_task`, `next` | shared stamps | a buildable task is found if there is one |
| cooker and command (`cooker.py`, `command.py`) | `BBCooker.state`, `currentAsyncCommand`, parser | `runCommand`, `runAsyncCommand`, `updateCache`, `finishAsyncCommand` | commands arriving during a parse or a build, parses continued behind a failure, commands that replace the cache | one answer for each command, builds on a parsed cache |
| process server (`server/process.py`) | idle functions, `keep_running`, command pipe | `main`, `idle_commands`, `runCommand`, `terminate` | replies after the half-second timeout; leaving with work left | ends with its client; answers pair with commands |
| parser pool (`cooker.py:1340-1510`) | processes, result iterator | `start`, `parse_next`, `shutdown` | shutdown in the middle, errors in a process | every recipe parsed once |
| recipe and codeparser caches (`cache.py`, `codeparser.py`) | cached metadata, mtimes, per-process files | `cacheValid`, merge at the end of a parse | changed files, several writers | never stale |
| task data, providers (`taskdata.py`, `providers.py`) | build and run targets, failed recipes | `add_unresolved`, `fail_fnid`, `remove_buildtarget` | removals that cascade, alternatives | a fixpoint with no dangling target |
| events (`event.py`, `ui/uievent.py`) | handlers, queues, worker pipes | `fire`, `fire_from_worker`, `runQueuePipe.read` | a handler that fails, a truncated pipe | delivered in order, once |
| knotty and the other interfaces (`ui/*.py`) | shutdown counter | the main loop | three interrupts, missing final events | ends when the command does |
| lock files (`utils.py:405-462`) | inodes, kernel locks | `lockfile`, `unlockfile` | unlink against open | mutual exclusion |
| persistent data, PR service (`persist_data.py`, `../prserv`) | database rows | `__setitem__`, `getValue` | select then write | a key once, revisions grow |
| fetchers (`fetch2`) | download directory, done stamps, locks | `Fetch.download` | mirrors, failures half-way | a done stamp means a full download |
| data store (`data_smart.py`, `COW.py`) | layered dictionaries | `setVar`, overrides, `createCopy` | copies share until written | a copy is independent |
| signatures (`siggen.py`) | hashes | `get_taskhash` | recursion over dependencies | equal inputs, equal hashes |
| recipe language, utilities, other servers, vendored code, metadata | | | text processing, transport | |

The programs in C:

| component | state | operations | hard behaviour | correct when |
|---|---|---|---|---|
| unifdef (`unifdef.c`) | `ifstate`, `ignoring`, `depth`, `incomment`, `linestate`, `delcount` | one transition per line, `getline34`, `skipcomment`, `ifeval` | 10 states by 12 types of line, twice; comments and literals that span lines | the output means what the input means, on the same lines |
| oe-git-proxy-socks (`proxy`) | the socket, two buffers, timer, credentials | negotiations, `do_repeater`, `-P` | a proxy that challenges, redirects, falls silent or closes; partial writes | no byte before the proxy agreed, none lost or out of order, an end |
| plugin cache (`registry`) | the cache file, temporary files | `read_cache`, `write_cache` | several writers, failing writes, kills, plugins that change | the cache is whole |
| makedevs (`makedevs.c`) | the nodes of an image's root | one call per entry | failures that are ignored, roots that are not empty | the root is as the table says, also the second time |
| raw2flash, flash2raw (`raw2flash.c`) | position in a pipe, page buffer | `buffer_fill`, `buffer_digest`, the two mains | short reads, erased pages, odd ends | the image comes back; an error code tells the wrong bit |
| dates of at (`posixtm.c`) | | `posixtime` | pivots, leap years, -1 as an error | what POSIX means by the digits, or an error |
| pong-clock, tunctl, signGP, skeletons, images and tables | | | none | |

`PROJECT.json` lists the same components with their status, and under `hazards` the lines where
this code can go wrong in ways a test would hardly reach.

## Modules

| module | models | code it stands for |
|---|---|---|
| `RunQueueData` | a prepared run queue as one record, stamp files, `check_stamp_task` | preparation's result, `build.stampfile` |
| `RunQueueExecute` | the children both executors fork and signal | class `RunQueueExecute` |
| `RunQueueTasks` | the task executor, its workers, its idle function | class `RunQueueExecuteTasks`, `buildTargetsIdle` |
| `BuildPlan` | abstract: what an executor promises | (specification only) |
| `RunQueueTasksProofs` | theorems about `RunQueueTasks` | |
| `SceneGraph` | the collapse of the graph | `RunQueueExecuteScenequeue.__init__`, `process_endpoints` |
| `SceneGraphProofs` | theorems about `SceneGraph` | |
| `SceneQueue` | the setscene executor | class `RunQueueExecuteScenequeue` |
| `SceneQueueProofs` | theorems about `SceneQueue` | |
| `CookerServer` | commands, parse, idle functions and loop of the server | `command.py`, `cooker.py`, `server/process.py` |
| `CookerServerProofs` | theorems about `CookerServer` | |
| `LockFile` | calls of `lockfile` and `unlockfile` on one name | `utils.py:405-462` |
| `Unifdef` | the state machine over lines | the transitions, `trans_table`, `flushline`, `process` |
| `UnifdefMeaning` | `Unifdef` beside two preprocessors, which say what its output means | |
| `UnifdefProofs` | theorems about `UnifdefMeaning` | |
| `UnifdefLine` | the reader of lines as a step machine, beside a reader after the C standard | `getline34`, `skipcomment` |
| `UnifdefExpr` | conditions and the table of symbols | `ifeval`, `eval_*`, `addsym` |
| `ProxyNegotiation` | from the connection to the proxy's consent | `begin_*_relay`, `set_timeout`, `main` |
| `GitProxy` | the whole program: negotiation, relay, the next local connection | `do_repeater`, `accept_connection`, `main` |
| `GitProxyProofs` | theorems about `GitProxy` | |
| `GstRegistry` | processes over one plugin cache | `gstregistrybinary.c` |
| `FileProofs` | theorems about `GstRegistry` and `LockFile` | |
| `MakeDevs`, `FlashEcc` | functions with what they should return | `makedevs.c`, `ecc_*` and `buffer_digest` |
| `PosixTime` | `posixtime` and the calendar it asks, beside what a string means | `posixtm.c` |
| `RawFlash` | `raw2flash` and `flash2raw` over pipes | the two `main`s, `buffer_fill` |
| `AlgorithmProofs` | theorems about `UnifdefLine`, `RawFlash` and `PosixTime` | |
| `MCRunQueueTasks`, `MCSceneQueue`, `MCSceneGraph`, `MCUnifdef`, `MCGitProxy` | instances for TLC | |
| `MCAlgorithms` | inputs of the sequential algorithms in C | |
| `MCFiles` | `GstRegistry` and `LockFile`, one behaviour about one of them | |

How they fit: `RunQueueTasks` and `SceneQueue` both extend `RunQueueExecute`, which extends
`RunQueueData`. `SceneQueue` starts from any collapsed graph that `SceneGraph`'s `CollapseSound`
allows. `SceneQueue`'s hand-over is the start of `RunQueueTasks`: the theorem `HandOverStartsTasks` shows that each state in which
it hands over satisfies `RunQueueTasks`' `Init`, with the stamp files, `covered` and the cooker's state as they are and the records of
the new executor empty. (A stop may then have been asked for between two calls of the setscene executor, and only if there are setscene tasks: without them the first call of the
idle function gets as far as the tasks, and a stop before it never gets there, see `MCCookerStop`. A shutdown may not.) `CookerServer` sees a run queue
only as the value of `rq`, and takes from the other two that a queue that is called often enough
ends. `RunQueueTasks` is shown to implement `BuildPlan`.

`GitProxy` extends `ProxyNegotiation`: the relay starts where the negotiation ends, and `-P` comes back to it.
`UnifdefMeaning` extends `Unifdef`, whose alphabet is the types of lines that `UnifdefLine` finds; a condition's
type is what `UnifdefExpr` evaluates it to. The programs in C know nothing of each other.

### RunQueueTasks

A task is an element of `Task`; the Python lists of zeros and ones are sets. `phase` says where
the server is in one call of the idle function: `idle` between calls, `execute` at
`if self.state is runQueueRunning`, `wait` at the tail of `execute()`, `cleanup` and `end` at the later
`if` blocks of `execute_runqueue`. Each action is one path through a block:

| action | code |
|---|---|
| `RunInit` | the constructor: closure of the covered tasks, `covered_remove`, what is skipped, what is buildable |
| `SkipTask`, `FinishInline`, `ForkOffTask`, `ForkFails`, `NothingToStart` | the paths of `execute()` for the scheduler's task |
| `WaitChild`, `RunDry` | the tail of `execute()` |
| `CallBegin`, `CleanUpBlock`, `EndBlock` | `buildTargetsIdle` with `finish_runqueue`, and the blocks after `execute` |
| `WorkerStart`, `WorkerUnstamp`, `WorkerStamp`, `WorkerSucceeds`, `WorkerFails` | the child, to `os._exit` |
| `StateShutdown`, `StateStop` | the client's commands, run between two calls |
| `Tick` | a second passes |

The scheduler's choice is `SchedNext`: the first candidate in the order `prio`, which is any order in
a theorem. A worker may fail or be killed at any point. `SIGTERM` reaches a child only
once it has called `setpgid`.

### SceneQueue

The same shape. The hash check is any subset of the setscene tasks without a stamp (`HashValidate`).
The loop over hash checks calls `task_skip` and `task_failoutright` for a whole set at once, before any
task runs; `UpdateCounters` is those calls together. `TaskNumber` is the order in which buildable tasks
are tried and in which `make_stamp` of a `noexec` task becomes visible to later tasks.

### SceneGraph

One action per turn of the loop in `process_endpoints` and one per recursion. A round visits its points in
any order, since Python's does. `endpoints[p]` is `{}` for `None` and `{task}` otherwise;
`Collected` drops the task numbered 0 with `None`, as `if task:` does.

### CookerServer

`pc` is where the thread is in a turn, `to_call` the copy of the list of idle functions that
`idle_commands` walks, `current` is `currentAsyncCommand`. The commands stand for classes of
methods: those that need the cache, call `updateCache` themselves, or go on as a build. `finished` and
`accepted` count, for the property that compares them. A shutdown or stop that finds a run queue
without an executor is `BuildRaises`.

`pool`, `total`, `left` and `failed` are the parser as `updateCache` sees it: its processes, its recipes, those that `parse_next` has still to
return, and those that it could not parse. `status` is the set of recipes in `BBCooker.status`; `owner` is "parser" while that is the
cache this parser was made with. `buildFile` puts its one recipe there (0 in the model, since it has no dependencies), `showEnvironment` with a file
leaves it empty, and neither changes `state`. A recipe that fails ends its command and leaves the state at "parsing": the next command that needs recipes
goes on behind it. A cached recipe that fails takes the cached ones behind it along (the generator has ended), and a pool that was terminated after the failure
never delivers the rest, so that `results.next()` blocks the server (`ParserHangs`). The processes of the pool themselves are left out.

`BuildMissesOnlyFailed` is what holds of all this: when a build of targets starts, the parser has returned everything, and the cache lacks only what failed, unless
another command replaced it. That it may have been replaced is the finding of `MCCookerCache`.

`Ends` is two promises in one property: a command in progress ends (`CommandEnds`), unless a stop or shutdown reached its
run queue too early, and the server leaves its loop when its client has gone (`ServerLeaves`); both except the server that a terminated pool has blocked.

### LockFile

`at` is where a caller is between `open`, `flock`, `exists` and `stat` in `lockfile`, and between the promotion of a
shared lock, `unlink` and the release in `unlockfile`. The file is named by `disk`, an inode number that is used again
once nobody has it open. The promotion of a shared lock does not wait: it succeeds, or it fails and the shared lock is lost, as on
Linux. `FlockRaises` is `retry=False`, whose exception the handler swallows before it begins again. A caller is killed at any point.

### Unifdef

One action per line read. A function of the source's state machine (`Strue`, `Mpass`, ...) is a record of what it does:
keep or drop the line, how the keyword is edited, whether a group is opened or left, what becomes of `ignoring`; `trans_table` gives
one for each state and type, and `Process` carries it out. `Readable` says which lines `getline34` may find in which
state of the comment, and is what `UnifdefLine` examines in the text itself, token by token. In `UnifdefMeaning`
a condition that unifdef does not know may be true or false, the same in the input and in the output; a preprocessor is a stack of groups.

In `UnifdefLine` `pc` is where `getline34` is: which of its calls of `skipcomment` runs (`begin`, `hash`, `argument`, `ending`, `tail`). A turn of
`skipcomment`'s loop is one action per state of the comment (`NoComment`, `CComment`, ...), with one disjunct per branch; what `getline34` does between two calls is
an action too (`Begin`, `Keyword`, `Ending`, ...). `cp` is what is left of the line. `ref` is the other reader: the C standard's, which splices lines and removes comments first. It is
given each token that the parser passes, and knows nothing of where the parser thinks it is.

`UnifdefExpr` evaluates sequences of tokens by recursion over the levels of operators. `Bound` makes an `int` three bits wide, so
that conversions wrap; what `ifeval` cannot read is "unknown".

### ProxyNegotiation and GitProxy

`pc` is the place where the program blocks, or how it ended; one action is what it does with the bytes it waited for.
The proxy answers anything the source distinguishes, in any order, or closes the connection (`PeerCloses`). A header or a line is counted, not spelled.
`timer` is `alarm()` in ticks, and its handler ends the program. In `GitProxy` an action `Repeat` is one turn of `do_repeater`'s loop, with
`select`'s answer, and with the system taking any part of what is written. A byte is its position in what its side wrote.

Three consequences of undefined or unexpected behaviour are in the state, so that the properties can say when they hold: `damaged`
(`memcpy` over itself, or what is left of `lbuf` when a local connection ends is forgotten), `torn` (a write to the local side that
took a part: the length is counted down before it is compared, `proxy:2754`) and `relay_lost` (a `Location` was read: `relay_host` points into the frame of a
call that has ended, and `relay_port` is 0, because the token before the first colon is not a number, so that no connection is made).
Nothing bounds the redirections: `redirected` is whether there was one, and `asked` counts the connections tried since the last.

### GstRegistry

A file is a sequence of chunks, one per structure written. A process maps the cache and reads it plugin by plugin (`Start`, `ReadPlugin`), scans
the plugins (external: it ends with the plugins there are, in any order), writes a temporary file plugin by plugin and renames it; a write may fail or
write a part of its chunk, and a process may be killed between any two steps. The file that is mapped stays when another is renamed over its name, so
`mapped` is what is left of it for each reader, and `goal` remembers what was in it. A plugin that is refused has the size -1, and the reader is
`astray` (`registry:469`). A process that has renamed its file, or given up, goes back to "off": what it does with its registry is not about the cache.

### MakeDevs, RawFlash, FlashEcc, PosixTime

A table is a sequence of entries over paths of two levels, a root a function from paths to nodes; `mknod`, `mkdir`, `open` and `chown` are external and
fail as they do on Linux when a node exists or has no directory; `open` for writing waits on a fifo that nobody reads. An image is the sequence of its positions; `eccbyte` counts the blocks of
a page whose codes are prepared, as the program does, and `pages` the pages `flash2raw` has read. A byte of an
error code is a set of bits, and exclusive or the symmetric difference. A date is its sequence of pairs of digits and its seconds; `posixtime`
reads it in one step, into `answer`. `MCAlgorithms` evaluates what is a function in its initial states, one for each input, and runs
`UnifdefLine`, `RawFlash` and `PosixTime` as the machines they are.

## Runs

Passing runs, and what bounds them. The first four are BitBake.

| run | instance | shows |
|---|---|---|
| `MCTasks` | three tasks, 1-3 workers, four families of run queues (below); clock 3-4, old stamps of seconds 0-2 | all safety and action properties of the executor, `ImplementsPlan`, and `Termination` |
| `MCSceneGraph` | all graphs of four tasks with every set of setscene tasks; the separable graphs of five | soundness, no stranded task, exactness, end |
| `MCSceneQueue` | up to three setscene tasks over chain, fork and join, every collapsed graph they allow, any hash answer, any forced set; clock 1, and 2 with two setscene tasks at most | order, limit, one decision, hand-over, end |
| `MCCookerServer` | five requests, two recipes | all properties of the command side |
| `MCUnifdef` | any lines, groups three deep, eight command lines | the output means what the input means |
| `MCAlgorithms` | any number of lines of up to three tokens after nothing or the beginning of a directive; conditions of up to three operands, three sets of options; 13 years, 56 days, 9 times of the day; tables of three entries of twelve, four roots; every bit of three blocks alone and with another; a flash of four pages of two blocks, images of 14 sizes in every pattern of reads | the results of the sequential algorithms |
| `MCGitProxy` | five methods; any number of redirections, two headers, buffers of three bytes; four bytes each way without a proxy, two with a local port, one behind a proxy | negotiation, relay and end of the proxy |
| `MCFiles` | two processes, two plugins of four kinds, two versions; three callers, four inodes | whole caches, exclusive locks |

A property of a run may be the conjunction of several that are about one promise:

| property | is |
|---|---|
| `Scheduling` | `DependencyOrder`, `ConcurrencyLimit`, `SharedStampExclusion` |
| `Ending` | `SanityChecks`, `ContinueBuildsTheRest`, `NoWorkerLeft`, `FailureReported` |
| `SceneScheduling` | `SceneOrder`, `SceneLimit`, `ForcedWithoutHashes` |
| `Collapse` | `CollapseSound`, `NothingStranded`, `CollapseExact` |
| `CommandTracked` | `OneCompletionEach`, `CommandHasWorker` |
| `LinesKept` | `SameLines`, `LineNumbers` |
| `Nesting` | `OutputNests`, `NestingChecked` |
| `NegotiationSound` | `RelayGranted`, `StreamAligned`, `OneConnection`, `RealPassword`, `AskedTwice`, `AlarmInNegotiation` |
| `RelaySound` | `RemoteInOrder`, `LocalInOrder`, `AllReceived`, `SessionHeld` |
| `ProxyEnds` | `AttemptEnds`, `RelayEnds` |

`MCTasks` has one initial state per run queue and stamp directory of: *graphs* (every labelled DAG on
three tasks, with and without `--continue`, no stamps), *stamped* (chain, join, fork; two recipes with or without
a whitelist; a `nostamp` task, a `noexec` task, dry runs; any old stamps), *shared* (two tasks writing one
stamp, with three workers), *setscene* (every covered subset over every graph whose tasks depend on
lower numbers). `MCInit` gives each family only the stamps that matter to it, a setscene stamp to the covered tasks only, and `ClockBound` lets time pass
only in the families where stamps are compared; `MCSpec` is `FairSpec` from these states, and `Init` itself allows all.
`prio` is the identity, which loses nothing where every labelling of a graph is present.
`MCSceneQueue` has a `ClockBound` of its own, which cuts off only behaviours in which a second passes; the clock is under no fairness.

Why small is enough. A property of the executor relates at most two running tasks and one
that depends on them, which three tasks cover; a second second of the clock is what two stamps need
to differ. In the collapse four tasks are two setscene tasks, one between and one beside; a fifth
lets two chains through intermediate tasks meet. Five requests allow a build, a command during
it, a stop or a reset, a command that replaces the cache or fails, and a second build after it. Two recipes are one that fails and one behind it. What unifdef does with a line depends on the group it is in and on the one
around it (`ignoring`), so three levels have an inner, a middle and an outer group; the sequences of lines are not bounded at all. Lines of three tokens after a
beginning hold every pair of characters that means something, with one behind it, and follow each other without bound. A buffer of three
bytes can be empty, partly filled and full, and be drained by a part; more bytes than the buffer are written. Three callers of a lock
are a holder, one that waits on the old inode and one that makes the new. The bounds are named where they are declared: `MaxClock`,
`MaxRequests`, `MaxFiles`, `NumTasks`, `MAXDEPTH`, `MaxTokens`, `MaxEntries`, `MaxHeaders`, `BufferSize`, `bytes` of a command line, `MaxVersion`.

`MAXDEPTH` and `BufferSize` are constants of the programs, smaller here. `MCFiles` uses the symmetry of processes, of plugins and of callers, which
no property distinguishes; it checks no liveness.

Deadlock is checked in every run: the ends of the programs are explicit stuttering steps (`Ended`,
`Terminated`, `Down`, `Exited`, `Idle`), which in the executors need the remaining children to have exited. `Idle` of the proxy
includes the loops over header lines that read on after the connection has ended (below).

Every property of a passing run has a mutant: an operator named `X_...` beside `X` that changes
`X` as a plausible bug would (a limit tested with `<=`, a child not waited for, dependencies not compared). With
it TLC refutes the property.

### What the code does otherwise than it says

| run | property | disagreement |
|---|---|---|
| `MCTasksStop` | `StopStartsNothing` | `finish_now` (`runqueue.py:1041`) signals the workers but leaves the state Running: the same call goes on to `execute()`, which may start the next task. The killed task fails later, and only then does the queue stop; with `--continue` it goes on to the end. In the trace the stop comes between two calls, while a worker runs, and the next call forks another task |
| `MCTasksCoveredNeeded` | `DependenciesProvided` | a covered task that is put back to run (`:1215`) may be started though a dependency that was skipped only for its sake has neither run nor been restored |
| `MCCookerStop` | `StopEndsCommand` | a stop before the first call of the build's idle function makes `finish_runqueue` raise at every turn (`cooker.py:1056`): the command stays in progress and every later one is told Busy |
| `MCCookerCache` | `BuildOnParsedFiles` | `buildFile` (`cooker.py:960`, `:972`, `:983`) and `showEnvironment` with a file (`:277`) put another cache in the place of the parsed one although they "don't use the cache" (`:957`, `:275`); the state stays running, `updateCache` returns at once (`:1102`), and a later `buildTargets` looks for its providers in a cache of one recipe, or none |

Other things the models do because the code does, with no run of their own; where a property would fail for them alone, its
definition says so:

* One pass over the covered tasks (`runqueue.py:1202`) looks at the set it began with: a task is still skipped when a dependency in its
  recipe was taken out of the set in that pass.
* The collapse loses dependencies in three cases: `if task:` (`:1420`) drops the task numbered 0; `endpoints[dep] = task` (`:1414`) keeps only the
  last of two setscene tasks that need one task directly; and a setscene task that another needs directly becomes a point of the walk itself, which takes
  its users from it (`:1424`) and hands them on to its own dependencies. `CollapseExact` is about the graphs on which none of them happens (`Separable`).
* A recipe that cannot be parsed ends its command, but not the parse: the next command that needs recipes goes on behind it (`cooker.py:1467`), reaches
  running, and builds without that recipe. If the failure has terminated the pool (`:1466`), that command waits for ever, and the server with it.
* With a hash check function a forced target is covered by its old setscene stamp (`:1483`); `ForcedWithoutHashes` is about builds without.
* Two recipes that share a stamp file share its work only between them: when a third writes it too, it may remove the stamp of the first
  before the second is checked, and the work is done again. A second writer of a *dependency's* stamp may likewise make the stamp newer
  than the task that has just run. `SharedWorkOnce` and `RerunPropagates` are about tasks that are alone with their stamp (`Alone`).
* With `BB_NUMBER_THREADS = "0"` no task starts, every sanity check logs an error and the build reports success (the theorems and
  runs that need it assume at least one worker).
* `resetCooker` during a parse forgets the parser without shutting its pool down.
* `lockfile` with `retry=False` (`utils.py:445`) does not return when the lock is held: the handler catches the error of `flock` and tries again.
* A write to the local side that takes a part repeats or loses bytes (`proxy:2754`); the loops over header lines read the end of the connection as
  empty lines for ever, which only the alarm of `-w` ends (`proxy:2441`); a redirection after an authentication sends an empty password,
  because it was erased after its use (`proxy:2386`), and then uses a host name in a frame that is gone; with the port it reads from the same line, always 0, no
  redirection to a `Location` can succeed.
* The write to the local side blocks (`proxy:2747-2750`): a local side that does not take its bytes keeps the relay alive after the destination has closed.
* An answer 302 is retried without limit (`proxy:2451`, `:2930`), and each retry arms the alarm of `-w` anew (`:2881`), although `-w` is said to give the "timeout seconds for
  making connection with TARGET host" (`proxy:108`): a proxy that redirects for ever is never given up. `AttemptEnds` is about what comes between two redirections.
* "Regular files must exist in the target root directory" (`makedevs.c:180`): an `f` entry whose file is missing makes an empty one instead (`makedevs.c:142`, `O_CREAT`).
  `TablePutIn` is about tables that keep to the comment (`FilesThere`).
* makedevs waits for ever on an `f` entry whose path is a fifo (`makedevs.c:142` opens without `O_NONBLOCK`), and ignores the failures of `mkdir` and `mknod`: of a
  table that names nodes in a directory that is missing nothing is demanded (`DirectoriesFirst`).
* The size of a plugin that is refused is -1 in an unsigned variable (`registry:469`), and the reader goes on one byte before it;
  `CacheWhole` excepts it.
* A comment that is opened behind something else on an `#elif`, `#else` or `#endif` (`#else x /*`) goes unnoticed: `getline34` looks for comments up to what it calls junk
  (`unifdef.c:593`), so that the line is not called dodgy and the comment is torn when the line and the next have different fates. `CommentsWhole` excepts it (`Unnoticed`).
* A directive that ends with a line continuation (`#else \`) ends unifdef with `abort()` (`unifdef.c:600`): no newline has set `linestate` back.
  A `#` that a continuation separates from its keyword is taken for an ordinary line (`odd` in `UnifdefLine`).
* Device nodes that are made by a numbered entry of makedevs stay root's: the owner is set on the path without the number.
* `raw2flash` skips its header with one `read`, which a pipe may cut short (`raw2flash.c:257`); the rest of the header is then taken for the
  image. `FlashWhole` is about headers that came whole.

## Fairness

* `RunQueueTasks`, `SceneQueue`: weak fairness of `Server`, since `ProcessServer.main` calls the idle
  functions in every turn and never blocks for longer than its poll; weak fairness of each
  worker, since a task's function returns or the process dies. A task that never returns is outside both. No
  fairness of the clock or of the commands. Since each worker ends in any case, a `SIGTERM` that is lost is not
  missed by `Termination` and `SceneEnds`: it makes the end late, not impossible.
* `SceneGraph`: weak fairness of `Next`, a sequential loop.
* `CookerServer`: weak fairness of `Server`, the thread; strong fairness of `BuildEnds`, which stands
  for the termination of the run queue (`Termination`, `SceneEnds`): a build's idle function
  that is called again and again ends at some call. The client's commands and `Quit` have none. A server that waits for a terminated pool stays
  `blocked`, under any fairness.
* `GitProxy`: weak fairness of `Connect` (`connect` returns), `RelayingDone` (the code after the relay), `Alarm` (the system delivers the
  signal), and of `Repeat` once the destination has closed and no write to the local side is due (`LocalMustTake`): `select` returns then, and nothing
  blocks behind it. Neither the proxy, the destination nor the local side has any: they may fall silent anywhere, and need not take what is written to them.

## Proofs

Each theorem holds for every value of the constants that satisfies the named assumptions, which TLC evaluates on the instances:

| module | assumptions | theorems |
|---|---|---|
| `RunQueueTasksProofs` | `TaskAssumption` (a finite set of tasks), `RunQueuesAssumption` (run queues are records of the right type, acyclic, with distinct priorities), `ClockAssumption`, `ForkAssumption` | types, `Scheduling`, `Ending`, `StampsConsistent`, `ShutdownStartsNothing`, `SharedWorkOnce`, `RerunPropagates`, `ImplementsPlan` |
| `SceneGraphProofs` | `NumTasksAssumption`, `GraphsAssumption` (graphs are acyclic) | types, `Collapse` |
| `SceneQueueProofs` | `TaskAssumption`, `RunQueuesAssumption`, `SceneClockAssumption` | types, `SceneScheduling`, `HandOverSound`, `DecidedOnce`, `ShutdownEndsHere`; the hand-over is a start of `RunQueueTasks` |
| `CookerServerProofs` | `BoundsAssumption` | types, `CommandTracked`, `BuildMissesOnlyFailed` |
| `FileProofs` | `PluginAssumption` (a finite set of plugins), `KindsAssumption`; `NoneAssumption` | `CacheWhole`; `LockExcludes` |
| `UnifdefProofs` | `DepthAssumption`, `OptionsAssumption` | types, `Nesting`, `LinesKept`, `CommentsWhole` |
| `GitProxyProofs` | `NegotiationAssumption`, `BufferAssumption` | types, `NegotiationSound`, `RelaySound`, `EndComesLast` |
| `AlgorithmProofs` | `LinesAssumption` (a line is what `fgets` returns: it ends with a newline and has no other); `FlashAssumption` (the partition table ends with a block, the flash with a page; a block can be read ahead); `DatesAssumption` (a string is pairs of digits and perhaps one more of seconds, taken for one of the three formats) | `WhereTheReaderIs`, `DirectivesFound`; `FlashWhole`; `DatesReadAsMeant` |

With them every safety property of BitBake that a passing run checks is proved, and every one of unifdef's state machine, its reader of lines and the proxy. In each module an
inductive invariant `IInv` (`CacheInv` and `LockInv` in `FileProofs`, `LineIInv` and `FlashIInv` in `AlgorithmProofs`, where dates need none) was checked with TLC first; its preservation is one lemma per action or group of actions, with one
step per part of the invariant that the action can disturb.

**Task executor.** `IInv == rqdata \in RunQueues /\ TypeOK /\ ChildrenInv /\ QueueInv /\ ControlInv`.
None of the safety properties is inductive alone:

* `ChildrenInv` ties `stats.active`, `build_pids` and the processes together, and keeps children among the tasks
  that run and are not complete, with distinct stamps. `ConcurrencyLimit` and `SharedStampExclusion`
  follow.
* `QueueInv` orders the three sets (complete in running in buildable), accounts for every task that runs, and
  says both directions of "buildable when the dependencies are complete". The forward direction gives
  `DependencyOrder`; the converse is what makes the sanity checks hold.
* `ControlInv` ties `RunQueue.state`, the position in the call, the failures and the outcome
  together: `NoWorkerLeft`, `FailureReported` and `ShutdownStartsNothing` follow from it.

`ContinueBuildsTheRest` and `SanityChecks` need, for a queue that runs dry, that no candidate is left although
stamps may be shared; the second also that the graph is acyclic: the tasks that are not complete would otherwise have a
minimal one, which is buildable. Both assume at least one worker. `ImplementsBuildPlan` maps `complete`, `failed`,
`build_pids` to the abstract status of a task and shows that each action is a step of `BuildPlan` or a stutter.

*Stamps.* `StampInv`, proved on top of `IInv`, says what the files are worth at every moment: no stamp is of the future, no
setscene stamp is newer than the build, a covered task has no process, and a task that has run and is alone with its stamp has one of this
build. `StampsConsistent` is preserved because a worker writes only its own file while all its dependencies are complete, so that their stamps are no newer; the
case that makes it delicate is a worker that dies between `del_stamp` and `make_stamp`, which leaves no stamp rather than an old one.

**Collapse.** `IInv` adds to the types `CarriedInv` (what a point carries or a task has collected really depends on it: `CollapseSound`
for the intermediate maps too), `PendingInv` (whatever has collected something and is not a setscene task will be visited: nothing is stranded at the
end), and, for `CollapseExact`, `SeparableInv`. "Each user of a setscene task arrives there" is a statement about the future of the
walk; `OnItsWay(t, s)` says it of the present state: every set that contains the places where `t` is now, and is closed under the
dependencies of plain tasks, contains `s`. A point that hands `t` on to all its dependencies can be put back into any such set.

**Setscene executor.** `IInv` has the types; `ConfigInv` (the collapsed graph invents no dependency); `ChildrenInv`; `QueueInv`: `runq_running`,
`runq_buildable` and `sq_revdeps2` are three views of what is decided; `StampInv` (what is covered, or was stamped by a worker, has its setscene
stamp); `ForcedInv`; and `ControlInv`. `SceneOrder` and `DecidedOnce` follow from the views. The hand-over is where the argument is: the queue runs dry when no task
is a candidate, and that *then every task is decided* is because the undecided tasks would have a first one (`SomeTaskIsFirst`), which is a candidate. There is a first one because the
collapsed graph only relates tasks that depend on each other, and the run queue has no cycle. The theorems take the graph from `CollapsedGraphs`, which
is what `CollapseHolds` shows of `SceneGraph`'s result. `HandOverStartsTasks` joins the two executors: `Tasks(B)` is `RunQueueTasks` begun in the second `B`
with the variables that the executors share, and `FilesInv` (no stamp is of the future, setscene stamps belong to setscene tasks) with `HandedOver` gives its `Init`. What is proved
of every behaviour of the one executor so holds behind every behaviour of the other; a queue that ends with a shutdown or a failed fork has no second part.

**Server.** `CookerServerProofs`' invariant adds to `TypeOK` and `OneCompletionEach`: `WorkerInv`, what
`CommandHasWorker` says of the end of a turn at *every* point, with the remark that nothing unregistered is left to be
called; and `CacheInv`. Its part `ParserSound` says of the parser, at every moment of a parse that may have failed and been continued, that the cache it owns has
exactly the recipes it has returned without those that failed; the rest, that "running" is only reached when nothing is left. `BuildMissesOnlyFailed` follows: a build
of targets starts only when neither a parse is due nor a stop was asked for, which leaves "running". That a parser only changes by `Added` and `Failed`, which keep
it sound, is a lemma each.

**Lock files.** `LockExcludesHolds`: an exclusive holder is alone, for any number of callers and inodes. "Holds" is only sure after
`stat` has found the inode that is open under the name, and being open keeps the number from being used again. `LockInv` is
`LockTypeOK` with `Exclusive` (kernel locks on one inode), `HasLock` and `IsOpen` (which steps have a lock, and a file),
`Named` (what a sure holder has open is what is named) and `Removes` (whoever unlinks has the exclusive lock of the named
inode, so that nobody else was sure of it). `Named` is not inductive without `Removes`, nor that without `Exclusive`.

**Plugin cache.** `CacheWholeHolds`: whoever reads finds what the last writer had when the reader began. The invariant describes a file without a
recursion: `Grouped` says of each plugin in a sequence of chunks that its features follow, and then the next plugin or the end; `Listed` is the set of its plugins. A
file with the magic in front of groups is `Whole`. `AtName` says that what has the name is whole, or that there is nothing; `Writes`, that what a process has written and what it is still to write are
*together* whole at every moment (so that nothing need be said of a part); `Reads`, that what a reader has entered, with what is listed in the rest of
its file, is what was there. `GroupAdded` and `GroupRead` are the two lemmas about sequences: a group more at the end, a group less in front.
`OneProcess` carries the invariant of all processes over a step of one, since the only thing that they share is the name.

**Unifdef.** `IInv` relates the stack of states to the groups of two preprocessors at *every* level, not only the top one. `SourceInv`: each level's state
says what is known of the group of the input (its branch is or is not compiled, one before it was, an `#else` has come), and a group that is dropped is inside one whose branch is
not compiled. `OutputInv`: there is a map `at` from levels to groups of the output that counts the groups kept so far, and a group that was kept is like its group of the
input, except where `#if` was rewritten. `LineInv`: what was written of the last line is what the group would have. `Nesting` and `LinesKept` follow; the proof goes through `trans_table` column by
column, so that each transition function is dealt with once for all the states that name it. `CommentsWhole` is an action property from the same invariant.

*The reader of lines.* `WhereTheReaderIs` compares two readers at the end of a line, `LineIInv` in the middle of it, where they are apart: `skipcomment` looks
at two or three characters at once, and after a `/` that may begin a comment the standard's reader waits. `Seen` is that reader one character further when it waits behind what
the parser has already judged; with it `ModeInv` says that both are in the same comment or literal. `PlaceInv` says what can be left of the line in each call (a newline is
behind the parser only when nothing is left), `PhaseInv` that `linestate` is the phase of the other reader, or that what the parser
has called dirty is just in front of it (`DirtAhead`), or that it is behind a keyword it has not yet told (`BehindKeyword`). `DirectiveInv` follows the type of the line from call to
call (`AtBegin`, `AtArgument`, `AtEnding`, `AtTail`), so that `DirectivesFound` is there when the line ends. A turn of `skipcomment` is a splice, a newline,
a slash that begins nothing, a literal or nothing that is seen (`Turn`), whichever branch took it: the invariant is preserved by these five, and each branch is one of them.

**Proxy.** `NegotiationInv` says for each place where the program blocks which proxy it talks to, what it has answered, what is left to be read (`StageInv`), that one
connection is open (`SocketInv`), what the password is (`PasswordInv`: it is erased only after it was sent, and a proxy that was sent it is asked again only
after a redirection) and how many connections were tried since the last redirection (`AskInv`: one, and one more for a challenge). `RelayInv` says where each byte is: what was read from the local side
is, in order, what the destination has and then what is in `lbuf`; `rbuf` is empty between two turns as long as nothing was torn; and the
destination's end is known before the program ends. Sequences of bytes may have any length, and so may buffers.

**Flash.** `FlashWhole` speaks of the end, `FlashIInv` of every moment: `buffer` has the bytes of the image that come after `count`, and the pipe
goes on where they end; the finished pages, and the page that is begun, have the bytes up to there; and a page is unmarked only if nothing of the image is left (once
`partition` is 2 the input has ended). That the header came whole and that there is a partition table in front of the rest is what the property takes for granted; `TableInv` follows the
reads of the table to the place where this is settled. The arithmetic of blocks and pages is in four lemmas (`NextMultiple`, `PartOfAPage`, `WholePages`, `Numbers`).

**Dates.** `DatesReadAsMeantHolds` is about all digits in every year, the ninety-nine months and hours that `posixtime` hands to `mktime` included. What it rests on is that
`localtime(mktime(tm)) = tm` exactly when `tm` is a date: `MonthTable` and `OneYear` say that each day is in one month of one year, `MkTimeNear` that
fields that are no date are carried into the year before or one of the next eight (where `localtime` finds the day) and then come back as others, `OnlyDatesComeBack`. The rest
is reading: `YearRead` for the pivot of two digits, `Pieces` for where the year is, `MeantOne` for the one time that a string
means, and `Counted` for the days by the months against the days by the leap years.

**Only model-checked.**

* Liveness, which needs fairness and `ENABLED`: `Termination`, `SceneEnds`, `CollapseEnds`, `Ends`, `ProxyEnds`.
* What recursive definitions and folds compute, which would need an induction over data that the provers cannot instantiate: `ConditionsDecided` (`UnifdefExpr`), `TablesPutIn`, `WrongBitsLocated`. (Arguments by a *set* without a first element, as for the two executors, are within reach: the theorems about well-founded relations take sets and not operators.)

## What is not modelled

In the modelled parts of BitBake: the text of events and logs, the statistics other than `active`, the environment and
file descriptors a worker is given, the pipe of a worker, errors of the file system in the server's own
`make_stamp`, the `tryaltconfigs` branch (no caller passes it), the deprecated `stampwhitelist` details (a whitelist is any set of
recipes), and `selfstamp` (`build.py:355`), a flag that no metadata of the repository sets. `Init` of the executors starts behind `prepare()`, with any graph it may hand over. The order of the
schedulers is any order. A hash check function that raises is left out, as are the exceptions of `prepare()`.

What the properties leave open although the models have it, and the hazards in `PROJECT.json` say so: the stamp of a task that is recorded as failed; stamps
of one second; forced targets with hash checks; what the collapse loses; a refused plugin; bytes after a write to the local side that took a part.

In the programs in C: command lines and their errors, the prompt for a password, the list of direct addresses, base64 and the Windows half of the
proxy; lines longer than unifdef's buffer and its debug output; the text of a device table's entry; memory that cannot be allocated. External, and
modelled from how they are used: the file system and `flock`, `mktime` and `localtime` in UTC (total, with a wide `time_t`, so that of the branch that tells -1 from
an error, `posixtm.c:210-219`, only 1969-12-31 23:59:59 is met), the scan of GStreamer's plugins, the other ends
of connections, the bound address of a SOCKS 5 reply. How `-R` and `SOCKS_RESOLVE` resolve names is left out of the properties: "both" is said to try the local resolver and
then the server (`proxy:2243-2249`), and `main` asks the local one for "local" only (`:2908`), which no run compares.

Of the C lines in the tree, nearly three quarters are arrays of bytes (boot splash images, firmware, pixbufs), and most of the rest is
generated (disassembler tables, results of `configure`): there is nothing to model in them, and the maps of these modules can only
ever cover a small share of the lines of C. What is left without a model is a decorative animation (`pong-clock`), two straight-line
programs (`tunctl`, `signGP`) and templates. BitBake's Python, which most of the modules are about, is mapped in the same way.

The other components are listed in `PROJECT.json` with the reason.

## Plan

What could be added, the most valuable first:

1. `RunQueue`: Prepare, setscene and task executor composed in one module, so that the hand-over is a step for TLC too and not only
   the theorem `HandOverStartsTasks`; a restarted build over the stamps the last one left.
2. Preparation: `circular_depchains_handler`, `calculate_task_weights` and the two schedulers' orders as recursive functions against
   reference definitions; the unneeded tasks and the renumbering, in a module only TLC uses.
3. `KnottySession` composed with `CookerServer`: the command pipe with its half-second timeout
   (`server/process.py:46-51`), the event queue, the interrupts, `CommandExit` that knotty does not end on
   (`ui/knotty.py:191-194`), `terminate`.
4. The parser pool with shutdown, reset and errors; task data's fixpoint; the caches' merge; worker pipes and event
   queues; `persist_data` and the PR service; `Fetch.download`; copy-on-write against plain copies;
   `vercmp` against a reference order.
5. Proofs: the setscene executor as an implementation of
   an abstract plan, as `ImplementsBuildPlan` is for the tasks.
