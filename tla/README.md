# A verification development for cboxdk/phpfpm

`phpfpm` is a Go library through which a program looks at and controls the
PHP-FPM masters of a host: it finds them, reads their effective configuration
with `php-fpm -tt`, scrapes their status pages, and reloads them. It has no main
loop of its own; its callers call it from any number of goroutines, and it meets
processes, pids, files and sockets that change under it. This directory holds
TLA+ models of its parts, the TLC runs that check them on small instances and
TLAPS proofs of the strongest of the results. `PROJECT.json` lists components,
runs, mutants, the source lines of each definition, findings, hazards and
theorems.

    tlc -workers 2 -config ConfigCache.cfg MCConfigCache
    tlapm ConfigCacheProofs.tla

## 1. Inventory

| Component | Source | State it keeps | Operations | Model |
|---|---|---|---|---|
| Configuration cache | `config.go` | `fpmConfigCache`, `fpmConfigEpoch` under `fpmConfigCacheLock` | `ParseConfigContext`, `InvalidateConfigCache`, `cacheKey`, `clone` | `ConfigCache` |
| Bounded execution | `run.go`, `config.go` (the same body once more), `control.go` (`Validate`) | per call: process group, pipe, `limitedWriter` | `runBounded`, `limitedWriter.Write`, cancellation | `BoundedRun` |
| Reload control | `control.go`, `start_*.go`, `zombie_*.go` | per call: watched pid and its start time, deadline | `Reload`, `ReloadMaster`, `ReloadAndWait`, `verifyMaster`, `successor`, `MasterPID` | `Reload` |
| PHP info lookup | `info.go` | `phpInfoCache`, `phpInfoInFlight` under `phpInfoMu` | `GetPHPStats` | `PHPInfo` |
| Scrape | `metrics.go`, `status.go`, `target.go` | per batch: slots, wait group, outcomes | `ScrapeAll`, `Scrape`, `ReadStatus`, `checkIsStatusFor` | `Scrape` |
| Discovery | `discover.go`, `target.go`, `metrics.go` (`ParseAddress`) | none | `Discover`, `UnstatusedPools`, `DiscoverMasters`, `masterIdentity`, `parseSocket` | `Discovery` |
| Report parser | `config.go` | none | `parseFPMConfigOutput` | `ConfigReport` |
| Path trust | `trust.go` | none | `trustedPath`, `trustedAncestors` | `PathTrust` |
| Opcache probe | `opcache.go` | path of the generated script and the last error under `opcacheScriptMu` | `GetOpcacheStatus`, `RemoveOpcacheScript` | `Opcache` |
| Worker memory | `rss.go` | a snapshot of the process table | `snapshotProcesses`, `subtreeRSS`, `enrichWorkerRSS` | `WorkerMemory` |

How they interact. `ScrapeAll` runs `scrape` for every target; that reads the
status page, calls `ParseConfigContext` (cache, and on a miss the bounded
execution of `php-fpm -tt`), measures the workers, calls `GetPHPStats` (bounded
execution of `php`) and the opcache probe, all under one context derived from
the caller's. A caller that changes a pool writes its file, calls `Validate`
(bounded execution), `ReloadAndWait`, and `InvalidateConfigCache`; discovery
serves both the caller's choice of targets and the reload's search for a
successor. The cache, the in-flight table and the opcache script are the only
state shared between calls; the process table, the pid files, the configuration
files and the pipes are shared with the host.

What is hard in it:

* a parse in flight while its result is invalidated; two spellings of a path;
  a cached pointer that escapes (cache);
* a descendant of a command that outlives it and holds its pipe, output around
  the cap, a deadline between a child's exit and the end of the wait (execution);
* pids that die, linger as zombies, are reused or re-exec between any two reads,
  a stale pid file, a successor under a new pid, a read of `/proc` that fails
  although the process lives (reload);
* callers with different deadlines coalesced onto one fork (info);
* targets that hang while others wait for a slot, results that arrive in any
  order, pools whose names differ in case only (scrape);
* a script deleted between the moment a probe is given its path and the moment
  PHP-FPM opens it, one half made when something fails, and one that cannot be
  deleted or looked at (opcache);
* a process table read link by link while processes fork, exit and are
  inherited (worker memory);
* a path whose components are checked one after the other and used afterwards
  (trust);
* one master of several that cannot be parsed, sections in any order, addresses
  that are written here and read there (discovery).

The hazards of `PROJECT.json` give each of these its line and the properties
that would catch it going wrong.

## 2. Modules

`<X>.tla` is a component, `MC<X>.tla` gives TLC the constants a `.cfg` cannot
express, `<X>Proofs.tla` holds its theorems (`ConfigCacheProofs` those of `BoundedRun`
too). Definitions placed right before an
action and saying what it does wrong (`StoreAnyway`, `CloneShares`,
`VisitUnseen`, ...) are mutations of that action, for checking that the properties notice; `Next` does
not use them.

**ConfigCache.** Every critical section is one step, and so is each stretch
between two: `Lookup` (entry and epoch read together), `Exec` or `ExecFails`
(the command, outside the lock), `Store` (kept only at the epoch that was read),
`Clone` (the copy, outside the lock). `RefuseRelative` is the early return for a
relative binary, `InvalidateConfigCache` the other critical section. A
configuration is the version of the file it was read from, and an
`*EffectiveConfig` an address in `heap`, so that sharing a pointer is visible;
`Free` plays the collector. `Edit` and `WriteConfig` are what callers and
operators do. `forgotten` is a history variable. `Version`, `Asked` and `Told`
map its state to that of **ConfigPromise**, which states what a caller is
promised without a cache in it: a question has a floor, the version its document
had when it was last invalidated, and its answer is any version from the floor to
what the document says now, the caller's own to edit. `Denotes` says which files a
pair of spellings means; the code's `cacheKey` has to agree with it.

**BoundedRun.** The caller inside `cmd.Run` (`Start`, `Reap`, `Finish`), os/exec's
two goroutines (`Cancel`, which is `cmd.Cancel` killing the group, and
`CopyChunk`/`CopyEOF`), the child and one descendant, in the group or out of it.
Output is counted in units. `Write` is `limitedWriter.Write` with its three ways
around the cap, its returned count included: `io.Copy` takes a short count for
an error. `via` tells `ParseConfigContext`, for which truncated output is an
error, from `Validate`. Its specification is `RunSpec`, so that one module of proofs
can extend it and `ConfigCache`.

**Reload.** `ReloadAndWait`, one action per read of the host: `Verify`, `Signal`,
`Anchor` (start time), then turns of the loop through `Top`, `Same`, `Confirm`,
or through `successor()` (`SuccReadFile`, `SuccVerifyFile`, `SuccList`,
`SuccScan`), `Follow` or `Nobody`, and the select (`SleepCancelled`,
`SleepOver`). `Reload` and `ReloadMaster` are the first steps of it. Between any
two the host may step: `Exit`, `Reap`, `Spawn`, `Reexec`, `Ready`. The pid file is
not part of the state: it has one reader, and whoever writes it may do so just
before any read, so what a read finds is any pid or none (`PidFile`). An identity is what `masterIdentity` can report; an untrusted
path is part of `Other`. `isZombie` is the Linux one. Every read may fail although
the process is there: the signal 0 and the stat file behind `processAlive`, the
start time (`processStartedAt` returns 0 then as for a process that is gone), the
identity (`seen`), the pid file, the listing. Histories: `up` (masters that served
during the whole turn, without those the scan could not identify), `glimpsed`
(masters that served at some moment of the search), `reborn` (the watched pid
changed hands, in this turn or before it), `missed` (which reads of the table and
of the watched pid failed in this turn). The table the call starts on is any table,
so the host rests until the first read.

**PHPInfo.** The first critical section of `GetPHPStats` has three outcomes, `Hit`,
`Join` and `Lead`; the leader goes through `Read`, `Publish` (second critical
section), `Close` and `LeadReturns`, a waiter's select is `WaitDone` and
`WaitCtx`. A result is the binary it is about and how it came out. An expired
entry is no entry (`Expire`).

**Scrape.** `ScrapeAll`'s loop (`Spawn`, `Wait`) and one goroutine per target:
`TakeSlot`, the stages of `scrape` (`StatusFails`, `StatusArrives`, `ConfigRead`,
`ConfigFails`, `PHPStats`, `Opcache`), `Record`, and the deferred `Release` and
`Done`. `Match` is the choice of the section a pool's settings are taken from;
measuring the workers and recounting them happen in `ConfigRead` and leave
nothing behind that a property tells apart. The target's context (`TimeOut`) is
derived from the caller's (`Cancel`) and covers all stages. How long the two
stages that run a command can last is BoundedRun's result: `LeaveStray` is the
descendant on the pipe. The floor of four slots is the constant `MinSlots`.
`progress` maps the goroutines to **BatchPromise**, what a caller of `ScrapeAll` is
promised without goroutines, stages or slots: each target is begun once and under
the capacity, is failed or collected from the end of its scrape on, and the one
verdict comes when all are.

**Opcache.** `opcacheScript` under its mutex is one step with three outcomes:
`Reuse` (the script is still there), `Create` (with or without the close failing
after the path was kept) and `CreateFails` (create, write or chmod; what was
created is deleted, or `left` if that fails too). A `Stat` that does not answer is
taken for a missing script (`Missing`), and `RemoveOpcacheScript` forgets the path
whether or not its delete succeeds. Outside it come `RequestFails`, `Run` (a worker opens the
file, which may be gone by now) and `Parse`. `RemoveOpcacheScript` and `Tidy`, for
anything else that cleans the directory, may come at any point. Histories:
`pulled`, per probe, and `refused`, the scripts a delete or a `Stat`
failed on.

**WorkerMemory.** A round: `List`, one `ReadLink` per process, `Status` (the page
names the workers, later), then per worker `Own` or `OwnMissing` and the walk, one
step per call of `subtreeRSSBounded`, and `Measured`. An amount of memory is the
set of processes it was read from, so that counting twice, missing and mistaking
can be told apart; `Measured` reports the larger of the walk's sum and of the
worker's own, and which that is depends on numbers the model has not got, so it is
either. A process that lives can be read: those the kernel hides from this user
are outside the model. Between any two steps the host forks, exits, gives orphans to
init and pids to new processes. The recursion's pending calls are the set
`agenda`, taken in any order: every process has one link, so the order decides
nothing but when each memory is read. Histories: `anc`, `charged`, `again`,
`reused`, `exited`.

**ConfigReport and Discovery.** `ConfigReport` is what one line, a header, a setting
or neither, does to what `parseFPMConfigOutput` keeps (`readLine`), and beside it
what a report says by position (`SectionAt`, `Says`), which reads nothing in order.
`Discovery` is the pass behind `Discover` and `UnstatusedPools`, and
`DiscoverMasters` as its shorter form (`via`): `List`; for each process, in any
order, `PassOver`, `Name` or `Parse`; for a parse, `Scan` for each turn of the
scanner's loop, on whatever line the report has next, until `Parsed` or
`ParseFails`; then `Pool` per section, again in any order. Processes change until
their turn has come (`Change`). `TargetFromDiscovered`, `statusAddress` and
`ParseAddress` take an address on to where it is dialled.

**PathTrust.** A path is its components; `Walk` is one turn of
`trustedAncestors`, from the directory of the file up to the root, `File` the rest
of `trustedPath`. Other users act between any two reads and after the last
(`Replace`, `Chmod`, `Write`), as far as owners, modes, groups and sticky bits let
them. All of them are one user with the rights of each. Modes are those of Linux,
and so is the rule of a rename: out of a sticky directory only what is theirs, and a
directory changes its parent only if they can write to it, whoever owns it.
The history `brought` records such a directory that is not theirs moved into a
sticky one. `Nodes` is what there is on the host; the proofs hold for any.
`Write` is possible until the check has refused such a file and matters only after
it has accepted one.

## 3. Runs

| Run | Module, cfg | Checks | Expected |
|---|---|---|---|
| `config_cache` | `MCConfigCache`, `ConfigCache.cfg` | `TypeOK`, `ForgottenStaysForgotten`, `AnswerNotStale`, `AnswerIsAsParsed`, `PromiseKept` | pass |
| `bounded_run` | `BoundedRun`, `BoundedRun.cfg` | `RunTypeOK`, `NoPartialConfig`, `GroupKillEndsCall` | pass |
| `bounded_run_deadline` | `BoundedRun`, `BoundedRunDeadline.cfg` | `DeadlineEndsCall` | violation |
| `bounded_run_cut` | `BoundedRun`, `BoundedRunCut.cfg` | `NoCutReport` | violation |
| `reload` | `MCReload`, `Reload.cfg` | `TypeOK`, `SuccessIsTheSame`, `NoFalseDead`, `FollowsOurs`, `CancelReturns`, `SettleReturns` | pass |
| `php_info` | `PHPInfo`, `PHPInfo.cfg` | `TypeOK`, `OneFork`, `AnswerForBinary`, `WaiterKeepsOwnDeadline`, `WaitersReleased` | pass |
| `php_info_patience` | `PHPInfo`, `PHPInfoPatience.cfg` | `NoInheritedImpatience` | violation |
| `scrape` | `MCScrape`, `Scrape.cfg` | `TypeOK`, `OneOutcomeEach`, `ErrorOnlyWhenNothing`, `InFlightBounded`, `SettingsOfItsOwn`, `BatchReturns`, `BatchKept` | pass |
| `opcache` | `MCOpcache`, `Opcache.cfg` | `TypeOK`, `ScriptAtHand`, `NoOrphans` | pass |
| `worker_memory` | `WorkerMemory`, `WorkerMemory.cfg` | `TypeOK`, `WalkIsExact`, `OnlyItsOwn`, `NothingMissed`, `RoundEnds` | pass |
| `discovery` | `MCDiscovery`, `Discovery.cfg` | `TypeOK`, `PoolsAsReported`, `ScrapedWhereServed`, `NoMasterMissed` | pass |
| `path_trust` | `MCPathTrust`, `PathTrust.cfg` | `TypeOK`, `RunsWhatItChecked` | pass |

What the passing runs show:

* `config_cache`: however a parse overlaps an invalidation, nothing older than
  the invalidation is cached again; a call that begins after one is answered
  with the files as they were then or later, under either spelling; no edit of a
  returned configuration reaches another caller. `PromiseKept` is the refinement:
  to its callers the cache is ConfigPromise.
* `bounded_run`: a report is accepted only if every unit of it was captured, and
  a killed group ends the call unless a descendant left the group.
* `reload`: success is never reported of a pid that changed hands before the last
  look at it began, if its start time was known; the watch moves only to a master
  that served the wanted configuration during that very search, whatever a stale
  pid file says; and a master that served throughout the last turn and could be
  identified is not reported dead, but for one under the very pid being watched, if
  that changed hands or could not be read, and for a turn whose listing failed.
  Cancellation ends the call whatever the host does and whichever reads fail. The
  settle window ends it once no more processes are born and the watched pid can be
  signalled and read. The second premise is needed: a turn that finds a successor
  does not look at the deadline, and two masters of one
  configuration can be followed back and forth for as long as each is given up for
  a read that failed.
* `php_info`: one fork per binary at a time, every answer about
  the binary asked for, waiters that leave at their own deadline and are released
  by every outcome of the leader.
* `scrape`: one outcome per target in the order given, an error
  only when nothing was collected, never more scrapes than slots, settings that
  do not depend on the iteration order of a map, and a batch that returns unless
  a stray process holds a command's pipe. `BatchKept` is the refinement: what
  became of a target is settled when its scrape ends, and no other goroutine
  changes it.
* `opcache`: a removal costs the probes in flight and none that begins later; the
  only scripts whose path is lost are those the file system refused to delete or to
  `Stat`, and a failure to create, write, chmod or close loses none by itself.
* `worker_memory`: the walk charges each process once, exactly those the links
  lead to within the bound, and ends although links read while pids change hands
  can run in a circle. Without such a reuse nobody is charged for what he did not
  spawn, and without an exit nothing listed is missed.
* `discovery`: parser and pass together report every pool of every master that
  could be parsed exactly once, as its own section says, found or unstatused; a
  pool that is found is dialled where its status page is served; no master is
  missed for what became of another.
* `path_trust`: what `trustedPath` accepted for root cannot be exchanged
  afterwards, although it looked at one component at a time while others were at
  work; for another user the same holds of paths that lead through directories only,
  on which nobody else owns one and whose group is not shared. Both hold unless,
  during the walk, a directory others can write to and do not own was moved into a
  sticky one (section 4).

### Bounds

* ConfigCache: two callers, two documents, one of them under two spellings, one
  rewrite per file, two invalidations (`MaxVersion`, `MaxEpoch`). A stale store
  takes one parse, one rewrite and one invalidation; the second invalidation
  makes an epoch that moved twice. Of the four addresses two may be cached and one
  in the hands of each caller; at the worst an allocation waits until the other
  caller lets go of its own, and no property here is about progress. The proofs
  need none of these.
* BoundedRun: a cap of three units and five written put output below, at, across
  and beyond the cap in chunks of every size. The proofs hold for every cap.
* Reload: two pids are a watched one and one for a successor or an unrelated
  master, and reuse frees either. Start times are only compared with the one that
  is watched, and a later holder of a pid has another (`Spawn`): two values do.
  Distinct start times for distinct holders of a pid is an assumption the code
  makes (clock ticks on Linux) and so does the model. One path is wanted under
  another spelling than the title's, a second configuration is a neighbour's, and
  a target may name no configuration at all. All targets have a pid file: one that
  cannot be read is as good as none.
* PHPInfo: two callers and two binaries. A leader that has returned may call
  again while its waiter has not woken up, so leader, waiter and newcomer all
  occur.
* Scrape: three targets on two slots, so that one always waits; pools `api`,
  `API` and `www`, one target without a name; two configurations, with the exact
  section and with one that differs in case only.
* Opcache: three probes, so that one may hold a deleted script, one its successor,
  and a third begin; four names, for the path kept, what two probes still hold, and
  one that is left behind. When all four are taken a creation has to wait until a
  script is tidied away; no property is about progress. Probes and names are
  symmetric. The proofs need neither bound.
* WorkerMemory: four pids beside init and `MaxDepth` 2 (64 in the code) put
  chains below, at and beyond the bound; two events of the host during a round
  (`MaxEvents`) are what a circle takes, an exit and a fork under its pid. The
  table before the round is any forest.
* Discovery: all reports of up to four lines (`MaxLines`) of seven kinds for one
  master: a section with a setting, interrupted by another and opened again, takes
  four. Up to two lines for the other master, among them one that is neither header
  nor setting and an address that is none. The proofs hold for reports of any
  length.
* PathTrust: at depth three there are a root, two directories of which the upper can
  be exchanged after the lower was read, and a file. The case of `/tmp`, a sticky
  directory of root's with two directories below it, takes no fourth level, as the
  root of the instance may itself be sticky. `MCNodes` has nodes of
  the sorts that the check and the other users tell apart, sound ones, theirs, sticky
  or not, open to everyone or to the group, links and gaps; all combinations of
  owner, mode and sticky bit at this depth would be beyond TLC. The proof holds for
  every depth and for any nodes.

### Fairness

Weak fairness of a goroutine's own steps stands for the Go scheduler. Time
passes (`DeadlinePasses`, `TimeOut`). Nothing is assumed of processes: a child
may neither write nor exit, a host may spawn masters forever, a binary may hang
as long as its context lets it. In `Scrape` a stage that is out of time ends,
which is what the network calls do and what `BoundedRun` shows of commands
without a stray descendant; a stage that is not out of time may last. In
`WorkerMemory` the round's own steps are weakly fair and the host's are not. In
`PHPInfo` and `Scrape` weak fairness per goroutine is enough because the number
of others that can overtake is finite or the awaited condition stays true.

## 4. Findings

Each is a run expected to end in a violation, with a quotation in `PROJECT.json`.

1. `bounded_run_deadline`: without `cmd.WaitDelay`, once the child is reaped the
   context no longer ends the call; a descendant on the pipe holds it.
2. `bounded_run_cut`: a report cut by cancellation after the child's own success
   is accepted, because the context is only consulted on an error.
3. `php_info_patience`: a waiter with time left is given the context error of the
   caller that forked.

Observations without a run of their own; the behaviour is in the models, and the
hazards point at the lines:

* A chunk that crosses the cap makes `limitedWriter.Write` return a short count
  (`config.go:283`), so `io.Copy` and `cmd.Run` fail although the process did not;
  its comment says it discards rather than erring. `Validate` then reports an
  accepted configuration as rejected, and `ParseConfigContext` a failed command
  instead of its truncation error; it accepts no output that was cut at the cap
  (`NoPartialConfig`).
* A successor that was given its predecessor's pid is excluded from the search
  (`control.go:262`) and reported as no master. `NoFalseDead` excepts it (`reborn`).
* `processStartedAt` says of its zero that the caller treats it "as "no opinion"
  rather than as a mismatch" (`start_linux.go:15-17`); `sameProcess` does so of the
  anchor only (`control.go:348`). When the start time of the living master cannot be
  read in one turn, zero is compared with the anchor (`control.go:352`), the master
  is taken for another process, the search passes over the watched pid, and after
  the window a master that served throughout is reported as dead and without a
  successor. The same becomes of one that cannot be signalled. `NoFalseDead` excepts
  both (`missed`); without the exception TLC finds it in one turn.
* A turn that finds a successor goes on without a look at the deadline
  (`control.go:208`), so a watched pid that keeps being given up for a read that
  failed can keep the call past its window. `SettleReturns` has a premise for it.
* `RemoveOpcacheScript` forgets the path of a script it could not delete
  (`opcache.go:129-130`), the deletes after a failed write or chmod are not looked at
  (`104`, `110`), and any error of `Stat` counts as a missing script (`84`), whose
  path is then overwritten. These scripts stay in the temporary directory.
* `trustedPath` accepts a directory of root's that everyone can write to if it is
  sticky, and takes one that was just moved into another sticky directory for one
  that was always there. What it had read through the directory that stood there
  before says nothing about the new one. `RunsWhatItChecked` excepts this case
  (`brought`); without the exception TLC finds it at depth three.
* With a pid file and no configuration path, any trusted master a stale file names
  passes for the successor (`control.go:233`), although the comment at
  `control.go:112` calls either of the two sufficient.
* `checkIsStatusFor` ignores case, so `API`'s page is accepted for `api` on a host
  that has both.
* The timeout of a target, which its comment says bounds the dial, runs on through
  the stages after the status page, so that a pool that answers late is reported
  without its settings.
* A snapshot is of one instant only as far as the listing goes: its links are read
  one by one after it, and memory when a worker is measured. `OnlyItsOwn` says what
  still holds.
* A context that ends during `DiscoverContext` fails the parse of every master
  left; they are skipped like broken ones, and a part of the pools is returned
  without an error.

## 5. Proofs

**ConfigCacheProofs**, for any sets of callers, spellings and addresses and any
bounds, from `NamesAssumption`, `CleanAssumption` (cleaning is idempotent, and no
configured path cleans to what the empty one does), `ObjAssumption` and
`BoundAssumption`. None of the properties is inductive: whether a store is
harmless depends on what happened since the call's lookup. `IInv` adds

* `Past`: the history does not run ahead of the files;
* `InFlight`: a call's epoch has been, its key is its document's, its floor
  is not ahead of the file, and its caller holds nothing meanwhile;
* `Timely`: what a call is about to store is its document, unedited, and, if the
  epoch has not moved, no older than the last invalidation, the fact the epoch
  comparison is there for, and in no case newer than the file;
* `Cached`: the same of every entry;
* `Private`: what a caller holds is reachable from nowhere else.

One lemma per action shows `IInv` preserved; `Invariance` combines them, and
`TypeCorrect`, `ForgottenForGood`, `NoStaleAnswer` and `AnswerUntouched` follow,
the last two as action properties. `ImplementsPromise` is the refinement
`Spec => PromiseKept`: one lemma per action says which step of ConfigPromise it is
(`Lookup` asks, an error fails, `Clone` tells, because by `IInv` what it copies
lies between the call's floor and the file) or that it is none (`Exec`, `Store`).

The second part of the module is about the command behind a parse (`BoundedRun`),
for every cap and amount of output, from `CapAssumption`. `RunIInv` adds `Conserved` (what was written is captured or in the pipe as long as
nothing was discarded), `Drained` (end of file means nobody is left to write) and
`Accepted`. `OutputBounded` and `WholeReports` follow.

**OpcacheProofs**, for any number of probes and of names, from `NamesAssumption`.
`TypeOK`, `NoOrphans` and `ScriptAtHand` are inductive together: a script is
created only when none is seen at the path kept, so that what the new path takes
the place of is nothing, or a script `Stat` would not tell of (`Forsaken`).
`TypeCorrect`, `NoneLeftBehind` and `AtHand` follow.

**PathTrustProofs**, for a file at any depth and any nodes, from `PathAssumption`. A directory that
was accepted need not be as it was; `Vouched` says that it is, or that a directory
at or above it is `Doubtful`: still to be read and to be refused, or, for a check
that is not root's, a link or owned by somebody else. An exchange keeps this true, because
it goes through a directory its author can write to: he owns it, or it is one the
check refuses, or its sticky bit lets him bring in nothing but a directory of his
own or one that counts as `brought`. When the root has been read nothing is left to be refused. `Sealed` says
that an accepted path is out of reach. `TypeCorrect` and `Unexchanged` follow.

**PHPInfoProofs**, for any number of callers and binaries, from
`PHPInfoAssumption`. Both properties rest on who holds which `phpInfoCall`. `IInv`
adds `Holding`, `Shared` (those who hold one call asked for one binary, and one of
them leads), `InTable` (until it publishes, the leader's call is the one in the
table), `Filled` (a call is filled in before it is published or closed), `Fresh` (a
call nobody holds is as new: calls are addresses that may be used again) and
`CacheRight`. `Coalesced` is its invariance; `OneForkHolds` and
`AnswerForBinaryHolds` follow.

**ScrapeProofs**, for any number of targets, slots and processors, any names and
any finite configurations, from `ScrapeAssumption`. The properties speak of the
batch that was returned; `IInv` says what is true of a goroutine at every stage.
`Counted` is the heart of it: `used` and `wg` are the cardinalities of two sets of
goroutines, so that `wg.Wait` returning means, with `Spawned`, that all are over.
`Shaped`, `Settled`, `Written` and `Answered` carry an outcome from its label to
the returned slice; `MatchOne` says that the section a pool is matched with is
unique. The five invariants follow, and `ImplementsBatch` is the refinement
`Spec => BatchKept`: `TakeSlot` begins (by `Counted` below the capacity), `Release`
ends, `Wait` returns, and everything else is invisible to the caller.

**ReloadProofs**, for any pids, start times, identities and configurations, from
`ReloadAssumption`. The verdict "dead" comes at the end of a turn during which the
host never stood still. `Anchored`, `Deposed` and `Scanned` carry through the
turn's reads what has become of each master that served since its beginning: it is
still to be scanned, it has been found, or it has the watched pid, and then only
because that pid changed hands or could not be read. For success, `Anchored` says
that a start time tells its process from every later holder of the pid, and `Confirmed` that only that one is about to be confirmed. `Glimpsed` says
that what the search has found served while it lasted. `NoFalseDeadHolds`,
`SuccessIsTheSameHolds` and `FollowsOursHolds` (an action property) follow.

**WorkerMemoryProofs**, for any set of pids, any table and any bound on depth and
events, from `PidsAssumption` and `BoundAssumption`. `Walking` says that the agenda
has the depths right and no shallower, because a process has one link, and that
what is below the worker has been visited or will be; when the agenda is empty,
an induction on the depth (`WalkComplete`) shows that all of it was. `Lineage`,
`Faithful` and `Descent` say what the links, read one after the other, are worth on
a host that goes on: everything while nobody exits, and descent while no known pid
is given out again. The library's induction theorems cannot be used (they take
an operator), so `Induction` is proved for sets from the existence of a minimum
(`WFMin`), and `Iteration` from it, by which the recursive function `Below` is
what its definition says.

**DiscoveryProofs**, for any pids, pools, keys and values and for reports of any
length, from `ReportAssumption` (no pool is called "global") and
`DiscoveryAssumption` (the three shapes of an address exclude each other, and none
is empty). The parser is a loop of `Scan` steps, so what it computes needs no
induction over sequences: `Understood` relates what has been read to what the lines
so far say by position, and `ReadLineRight` shows one more line to keep it, from
lemmas on what a line adds to `SectionAt`, `Says` and `Declared`. Around it, `IInv`
has `Reports` (the results list exactly what is due: all that was told, but of the
master at hand only the pools dealt with, each once), `Reading`, `OnceEach` (no
process has two turns, for which a pool could be reported twice) and `Standing` (a
master that has stood so far waits or has had its turn). `PoolsAsReportedHolds`,
`ScrapedWhereServedHolds`, with `WrittenAndRead` on an address written and read
back, and `NoMasterMissedHolds` follow.

In all of these `IInv` was checked by TLC on the run's instance before it was proved.

Only model-checked: every liveness property (`GroupKillEndsCall`, `CancelReturns`,
`SettleReturns`, `WaiterKeepsOwnDeadline`, `WaitersReleased`, `BatchReturns`,
`RoundEnds`), because fairness and `ENABLED` are beyond the prover; and the claims
of the three violation runs, which are false.

## 6. Not modelled, and the plan

Not modelled: `doc.go` (comments); `pssOf` and `parsePSSBytes` (`rss.go`), one more
number read from a file of `/proc`; JSON decoding of status pages and opcache
answers; `recountProcesses` and `exportableConfig`, which compute from data the
models leave out; the tests by which `masterIdentity` turns a process down, and
the pid that changes hands between them; the non-Linux stubs of `start_*` and
`zombie_*`; logging.

What is left, in order:

1. An abstract specification of `ReloadAndWait`, with the refinement.
2. `Apply`: write, `Validate`, `ReloadAndWait`, `InvalidateConfigCache`, composed
   from the modules above, with a scrape running beside it.
