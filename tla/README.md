# A TLA+ model of the SIEMBox endpoint agent

The agent (`cmd/siembox-agent`, `internal/`) is one Go process per host. It runs
scans, watches the host with osquery and Sigma rules, ships what it finds to the
SIEMBox server, and keeps its configuration, its rules and itself up to date. A
dozen goroutines share the identity in memory and on disk, a few mutexes, three
channels and a spool directory; requests fail, answers get lost, and the process
is stopped, crashes, or is replaced by its own update at any point. These modules
are about those interleavings.

- [Inventory](#inventory): the components, their state and their hazards
- [Modules](#modules): which module models what, and how
- [Runs](#runs): what TLC checks, with the bounds and the fairness
- [Proofs](#proofs): what holds for every value of the constants, and why
- [Findings](#findings): where the code and its documents disagree
- [Limits and plan](#limits-and-plan)

## Inventory

| Component | State | Operations | Interacts with | What is hard, and what makes it correct |
|---|---|---|---|---|
| Scan coordinator (`agent/scans.go`) | ids handled, per type a running flag and a queue, a backoff | `handleScanRequests`, `runScan`, `execScan`, `reportScan` | heartbeat (requests), server (scan history), each scan | goroutines per request against the agent's own schedule; a queue handed over between goroutines; reports lost; stops. One run per type, no request stranded, held twice, or run after a cancel |
| Heartbeat and config loops (`agent/agent.go`) | the config and its version | `heartbeat`, `pollConfig`, `fetchConfig`, `considerUpdate` | server; updater, scans, rules | two goroutines fetch at the same time, answers arrive out of order. The config converges |
| Self-update (`internal/update`) | request last acted on, pending marker, report (all in `identity.json`), the attempt goroutine | `Consider`, `run`, `Startup`, `CheckPending`, `Prune` | heartbeat, installers, service manager | the process is replaced by what it launched; crashes, timeouts and failed writes between any two steps. One launch per request, no downgrade, a true report that the server gets |
| Rules and YARA bundle (`syncYaraRules`, `yara.WriteSignatures`) | bundle version applied, signature file, restart signals | `fetchConfig`, `syncYaraRules`, `runDetection` | config loops, detection, YARA passes, `main` | a channel that holds one signal, two goroutines that sync, starts that rewrite the file. New rules reach the engine |
| YARA passes (`runYaraScans`, `yaraScan`) | cutoff, forced full pass, hits seen | ticks, rule updates, requested passes | coordinator, osqueryi, event channel | passes that overlap changes of files, time out, fail, queue, or change their policy. No changed file is missed |
| Event batching and spool (`batchEvents`, `flushSpool`, `transport/spool.go`) | channel, batch, spool directory | emit, batch, send, spool, list, post, remove | Sigma engine, scans, server | outages, lost answers, stops with a full channel, crashes. Nothing is lost, reordered or sent needlessly twice |
| Update downloads (`update/method.go`, `sums.go`, `assets.go`, `download.go`, `extract.go`) | the download directory, `exe`, `exe.new`, `exe.old` | detect, select, fetch, verify, extract, self-check, swap | release, OS, installers | an attempt that fails or dies at any step, two renames on Windows. A whole program of a wanted version is on disk |
| Sigma engine and osqueryd (`internal/detect`, `telemetry/osquery`) | loaded rules, the child process, its results log and the tail's place in it | `LoadRules`, `Run`, `Start`, `tailResults` | supervisor, event channel | two osqueryds over one log, half-written lines, restarts, a child that exits. Each row is evaluated once, in order |
| Performance metrics (`agent/performance.go`, `internal/metrics`) | samples not yet sent, a backoff, previous readings | sample, send, save, load | server, host counters | bounds of the buffer, refused batches, a 404, restarts; counters that start again, reused pids. Samples are accounted for, rates are what was measured |
| Package reports (`sendPackages`, `internal/packages`) | hash and time of the last accepted snapshot | hash-only, full, forced reports | coordinator, identity file, server | a server that lost its snapshot, sources that fail in part, a hash that was or was not persisted. The server's list becomes the host's |
| Enrollment, settings, identity (`enroll`, `internal/config`) | token, identity, settings, in memory and in two files | `waitForConfig`, enroll with backoff, load, save | everything | a one-time token against a save that fails; files written in place; stops in between. An agent keeps its identity |
| Vulnerability scanner, inventory (`internal/vuln`, `internal/inventory`) | none | one scan | coordinator | external programs only |
| Service program, tray (`cmd/`) | the run context | start, stop, restart | service manager | a stop waits ten seconds at most |

`PROJECT.json` lists every component with its status, and every hazard at its line.

## Modules

| Module | Models | Composition |
|---|---|---|
| `ScanService` | what the scan coordinator promises: requests wait, are begun in batches or dropped, and settle | abstract |
| `ScanCoordinator` | `scans.go` with the heartbeat that feeds it and the server's history rows | implements `ScanService` (`ServiceSpec`) |
| `SelfUpdate` | `updater.go` with the heartbeat, the poll, `Run`'s startup, `identity.json`, installers | on its own |
| `RuleSync` | `fetchConfig`, `syncYaraRules`, `runDetection`, the signature file | on its own |
| `YaraPass` | `runYaraScans` and `yaraScan` | takes from `ScanCoordinator` that passes are serial and queued |
| `Delivery` | event channel, `batchEvents`, direct sends, the spool and its replay | on its own |
| `Enrollment` | `waitForConfig`, `Load`, `enrollWithRetry`, the two files and their writes | on its own |
| `PackageSync` | `sendPackages` and the server's list | extends `Enrollment`: its hash is a field of the identity, lost, torn and restored with it |
| `PerfBuffer` | `runPerformance`, `sendMetrics`, `metrics-pending.json` | on its own |
| `UpdateInstall` | what `Updater.run` does to the host's files, from `DetectMethod` to the installer | the inside of `SelfUpdate`'s attempt |
| `Telemetry` | `Daemon.Start`, `tailResults`, `SigmaEngine.Run` and osqueryd | between `RuleSync` (who restarts the engine) and `Delivery` (the events) |
| `Collector` | `Prime`, `Sample`, `Processes` over the host's counters | the samples of `PerfBuffer` |
| `Host` | the five parts of the six modules above, for one run | a part at a time, see below |
| `ScanCoordinator_proofs`, `SelfUpdate_proofs`, `RuleSync_proofs`, `YaraPass_proofs`, `Delivery_proofs` | theorems | extend the module they prove about |
| `UpdateInstall_proofs`, `PackageSync_proofs` | the inductive invariants of two parts of `Host` | extend the part |
| `Host_proofs` | the theorems about `HostSpec`, with the invariants of its other parts | extends `Host` and the two above |
| `MC*` | constants for TLC | extend the module they check |

Conventions. Each step between two points at which another goroutine can observe
or change shared state (a lock, a request, a channel, a write) is an action;
what the code does under one lock is one action. A request and its answer are one
action where nothing can come between them that the properties tell apart, and
two where it can (a crash between an answer and the removal of a spooled file).
Variables under *Bookkeeping of the model* have no counterpart in the code: they
are bounds, or history that a property refers to. An operator marked `MUTANT of D`
is not used: it is the definition `D` with a plausible mistake, kept to show
that a property can fail, and each property of a passing run has one.

**ScanCoordinator.** A goroutine of the code is a *process*: one per request id
(`go runScan`), one per own schedule. `pc` is its place in `runScan`/`execScan`,
`todo` and `ids` the ids it has yet to report and has reported. `handled`,
`running`, `queued`, `noReport` are the fields of `scanCoordinator`; `aged` says
which handled ids have passed `handledScanTTL`. `row` and `route` are the
server's history and whether it has the route; `Recorded` is what its API
document says it does with a report. `RunEnds` is the critical section at the end
of the loop of `runScan`: it takes the whole queue, or clears `running`.

**SelfUpdate.** `mem` and `disk` are the fields of `config.Identity` that matter,
in memory and in `identity.json`; `Mutate` changes both, or only memory when the
write fails. The heartbeat and the poll fetch and apply configs independently of each
other; `asking` is the request that `considerUpdate` reads once, for `Prune` and for
`Consider`. `attempt.pc` follows `Updater.run`. `installer` is the detached
command: it may replace the program, restart the service, fail silently, or hang,
and outlive any number of processes. `method`, chosen by `Init`, is what it does with the
program on disk: an `archive` is swapped by the attempt itself, before the pending
marker; `upgrade` (`rpm -U`, and the MSI, whose `MajorUpgrade` refuses older packages)
replaces it unless it is newer; `install` (`dpkg -i`, to which the script for `.deb` falls
back, and `installer -pkg`) replaces it by any version. A version is a number, and a
development build is 0, which any target is above. `launched` and `wentBack` are
history: the request launched last, unless one was attempted since, and whether an older
config was applied over a newer one.

**RuleSync.** `pc[g]` follows `fetchConfig` and `syncYaraRules` for each goroutine
that calls them (`Run`, heartbeat, poll). `sigs` is the bundle in the signature
file (0: baseline alone, `Torn`: cut short by an error), `applied` the version recorded,
`restart` the channel. `loaded` is history: the bundle that the file had when detection
was last started.

**YaraPass.** Instants are left out: `since` is whether there is a cutoff,
`changed` the files changed after it, `during` those changed since the pass under
way started. `unread` and `excused` are history: files changed and not read since,
and those that a timeout or the start of a watch gave up on purpose.

**Delivery.** Events are numbered as the channel takes them; a payload is a set of
numbers. `pc[k]` is the goroutine that sends payloads of kind `k`: `batchEvents`,
or the scan (scans of a type are serial, by `OneRunPerType`). A request that is
begun after the context was cancelled fails without leaving the host.

**Enrollment and PackageSync.** `settings` is `agent.json` (without a `server_url`, cut
short, or with a token), `disk` and `torn` are `identity.json`, `identity` and `token`
the `State` in memory, `creds` what the HTTP client sends. The server makes one agent
of each token, so a token names its agent. `Writes` is `saveIdentityLocked`: whole, not
begun, or cut short, which `Load` then refuses. `PackageSync` adds the list of the
last accepted report (`list`, for its hash) and whether the full list went out within
the day (`recent`) to the identity, and a report's way through `sendPackages`
(`report.pc`): collected, posted (again, with the list, after `snapshot_required`),
persisted. The operator may put a new token into `agent.json` at any time (`Configure`).
`answered` and `givenUp` are history: agents the process was told of, and those
whose save failed, or whose process ended while the file had not their identity.

**PerfBuffer.** A sample is the number of its tick. `samples` and `procs` are the
two slices of `perfState`, `pending` is the file; `stored` is what the server has,
`acked` what the agent knows it has, `gone` what a rule of the code gave up (the
bound, the age, a 404, a 400, the policy, a crash, a save that failed). A tick and its
send are two actions, so that the policy and the process can change in between.

**UpdateInstall.** A file is described by what its content is: none, a part, the
current version, the one wanted, or another. `host` (operating system, owner of the
program, architecture) and `listing` (what the release has) are chosen by `Init`, every
combination. On Windows `ReplaceExecutable` is two renames, `MoveAside` and `Place`,
and the path of a running image (`inOld`: the service runs from `exe.old`) cannot be
removed.

**Telemetry.** Rows are numbered as osqueryd finds them; `log` has whole lines and
`half` the first half of the next. `offset`, `begun` and `held` are the tail's place
and its `pending` bytes. `old` is an osqueryd whose engine has returned and that still
writes: `Run` returns before `Start` has killed it. `cut` is history: rows that went
with a channel or a log at a restart.

**Collector.** The host's counters grow by one unit in a unit of time, start again, or
belong to another process; `since` is history, what happened since each reading.
`CPUPct`, `NetRate` and `ProcPct` are what a sample or snapshot taken now would report,
in units of the counters over units of time. A difference of network counters is
taken modulo `Width`, as `uint64` does.

**Host.** `Enrollment` with `PackageSync`, `PerfBuffer`, `UpdateInstall`, `Telemetry` and
`Collector` share no variable and send each other nothing, so their product has no
behaviour that the parts do not have. `focus`, chosen by `Init`, is the part that
runs; the others keep their first state, and fairness is of the part that runs.

## Runs

| Run | Question | Bounds |
|---|---|---|
| `scans` | Are runs serial, and requests neither lost, doubled, nor run once refused? Is every pending request run in the end? Is it a `ScanService`? | any two of three requests, of two types, and the YARA loop; one restart |
| `scans_once` (violation) | Does a scan id run at most once? | the same |
| `update` | Does an attempt own its report, is progress resolvable, is a launched update on disk until its outcome is known, launched once, and reported by a restart as what it was? Is a settled report kept? Where older packages are refused: is success real, and no downgrade possible? | two requests, two config versions after the first, every install method, one crash, one failed write |
| `update_resolved` | Does the server learn the outcome of each request? | the same, writes succeed |
| `update_once` (violation) | Is a request attempted at most once? | the same, writes succeed |
| `rules` | Does a new bundle always have a reload ahead, does the config converge? | two config versions after the first, one restart |
| `rules_applied` (violation) | Is the applied bundle on disk? | one config version, one restart |
| `yara` | Is no changed file missed, and each read in the end? | two files, four changes, two rule updates, three policies, one restart |
| `yara_update` (violation) | Does a rule update make the next pass full? | own schedule |
| `delivery` | Are events kept, delivered payloads settled, replays in order; do stops end and payloads arrive? | two events, one snapshot, a channel of one, one fault, one stop, one crash |
| `host` | Is an identity kept, does the package list converge? | two tokens, two packages, two changes of the host, two faults (a failed or torn write, a lost answer, a failing source, a stop, a server that lost its list) |
| | Are samples accounted for, and do they arrive? | three samples, a buffer of two and of one snapshot, one outage, two restarts, a batch that is refused, a server without the route |
| | Is the program whole wherever an attempt fails or dies? | two attempts, one crash, every operating system, owner, architecture and release |
| | Are rows evaluated once, in order, and all that were not cut? | four rows, a channel of two, two stops or failed starts of the engine, one osqueryd that exits |
| | Are rates what was measured? | three units of time, one counter that starts again or pid reused, readings that fail |
| `engine_crash` (violation) | Is an osqueryd that exits replaced? | the same rows |

Why the bounds are enough: every hazard of the list needs at most two requests,
events or configs (an old and a new one, the one that runs and the one that
queues) and one disturbance between two steps; with a batch of two and a channel
of one each limit is reached below, at and above it. In `delivery` the stop
fails requests without using up the fault, so that two payloads can be spooled
and the replay of the first still fails. In `update` three versions of the
program exist, so that an older request can come after a newer one. Two
config versions after the first are enough for a stale config to be applied over a
newer one, and to bring back the request that came before (`update_once`).
`update_resolved` lets no write fail: a report whose write failed, and with it the
request, is forgotten by a crash, and the same request may be attempted again.
Its property excepts runs in which an older config was applied over a newer one: such a config
lets the agent drop a report that the server has not got, see [Findings](#findings). In `host` three
samples over a buffer of two overflow it once and leave one restart to either side
of the overflow; ticks after the third only send, so that the end of sampling is not
the end of the loop. Two attempts are enough for a second one to meet what the
first left behind (`exe.new`, `exe.old`, a download). `Width` (100 for 2^64) only
has to exceed what the counters reach.

Fairness. Go schedules each goroutine that can take a step, and every blocking
operation of the code has a timeout or a context: weak fairness of each
goroutine. A `select` with several ready cases chooses at random, so a case that
is ready again and again is taken: strong fairness where a cancelled context or
a tick competes with other cases. Heartbeats recur, and an answer arrives now and
then: strong fairness of the answered heartbeat, none of the lost one. The
service manager restarts a stopped agent. Nothing is assumed of installers, of the
server's admins, of files or of crashes. In `Delivery` the server fails a bounded
number of times, which is what "once it answers again" means. In `Host`: the tickers
of packages, samples and the tail fire, requests end, the 404 backoff ends, the
supervisor retries and the service is started again, each weakly fair; a send that is
due competes with ticks that are not, and the policy switches the loop off and on,
so the tick that sends is strongly fair. Enrollment, osqueryd, the host, the operator and
the server's changes have none.

Every run checks for deadlock, except the two of `Host`: a part with bounded inputs
ends (the last counter, the last attempt), and a Windows host left without its program
really stops.

## Proofs

Every invariant, every action property and the refinement that the runs check is also a
theorem: TLAPS proves it for any number of requests, types, processes, files, events,
configs, rows and restarts, from the named assumptions on the constants
(`ScanConstants`, `UpdateConstants`, ...) that TLC evaluates in the runs. Each proof has
the same shape: an inductive invariant, a lemma per action or group of actions that
keeps it, and the property as a part or a consequence of it. The strengthened invariants were
given to TLC on the instances of the runs before they were proved. The types are
theorems of their own (`TypeCorrect`, `PassTypeCorrect`, `HostTypeCorrect`).

**The scan coordinator.**

- `RunsAreSerial`: `OneRunPerType` is not inductive: it needs that the running flag
  of a type is set exactly while some process executes a run of it. The invariant
  adds that relation in both directions; `RunScan` then enters only past a flag that
  is down, and `RunEnds` lowers it only as the one process leaves.
- `NothingStranded` follows from the same invariant with: a type whose queue is not
  empty is running, unless the agent stops.
- `RequestsHeldOnce`: a request is in at most one of the goroutines' hands and the
  queues. The strengthening adds that whatever is held is still in the agent's memory
  of handled ids (handled and not aged out), so that no later heartbeat hands it out
  again, and that a holder executes runs of the request's own type, so that a queue
  is taken by one process only.
- `WaitingUnstarted`, `RefusedStaysRefused` (`RowInv`): the server's row of a request in the
  agent's hands. The heartbeat's reply under way is part of it: what the reply holds and
  the agent does not remember becomes a run without another look at the server.
- `ImplementsService`: with `Active` the sets of requests being run and `Settled` the handled ones
  that neither wait nor run, each step of the coordinator is a step of `ScanService` or a
  stutter (`MapInv`: the invariants above, and that a run of the agent's own has no
  request to report).

**Self-update.**

- `ReportIsAttempts`, `ProgressResolvable` (`AttemptInv`): the heartbeat and the
  attempt write the same identity. What keeps them apart is where the pending marker can
  be (`MarkInv`): absent up to the step that writes it, the attempt's own at the launch, and
  never overdue while its attempt runs.
- `LaunchPersisted`, `LaunchesAreOnce`, `RestartsReportOutcome` (`LaunchInv`): memory and file each
  account for the request launched last (`Accounted`): it is the last request acted on, and a
  report of its progress comes with its pending marker. The file may lag behind memory by
  the writes that failed, but never to before the launch, since nothing is launched
  whose marker was not written, and with the marker the id. They hold of every install
  method, with failed writes, stale configs, and several requests for one version.
- `ReportsAreKept`: `Settled` is inductive until the server's request changes. It names all
  the places where another request can come from: the config in memory and on disk, the
  two configs in flight, and the request that `considerUpdate` has read.
- `SuccessReal`, `NoDowngrade` (`VersionInv`): what is installed is never older than what runs, an
  attempt past `CheckTarget` goes forward, and a success in memory *or on disk* is of a
  version that was reached, since the report survives the process. They are about the
  install methods that do not replace a newer program; `ArchiveInv` says that for an
  archive no installer comes late. The method never changes (`MethodStays`).

**Rules and passes.**

- `ReloadPending` (`ReloadInv`): detection runs only after Run's loops have started, so that the
  signal dropped at their start is not one it waits for.
- `NothingFallsBetween` (`PassInv`): `NoFileMissed` needs what is true while a pass reads: a file
  unread, not given up and changed before the pass started is among those that the
  pass reads, and `during` has every change since. With that, moving the cutoff to
  the start of the pass leaves exactly those files to the next one.

**Delivery.**

- `BatchedKept` (`Kept`): event by event, what was taken is with the server, in the batch, in a file, or
  lost in a crash or for want of a file. It needs `Delivered`: a payload is cleared, and its file
  removed, only with its items at the server.
- `SettledGone` (`Once`): an item is in one place, the channel, one payload or one file, or it is settled; and
  new numbers are beyond all settled ones.
- `ReplayOrder` (`InOrder`): a file that a pass has dealt with and left in the spool is with the server,
  was passed over, or was spooled after everything the pass has yet to do.

**The parts of Host.** A step of `HostSpec` is one of the part that runs, or leaves the part as
it is (`PartsStep`), so each part's invariant is proved of the part and holds of the whole.

- `ProgramStaysWhole` (`InstallInv`): what is about to be swapped in passed the self-check, and a program
  only at `exe.old` is the image of the service that runs, which nothing removes.
- `IdentityKept` (`IdentityInv`): by phase of the service, whose identity is on disk: none while it
  enrolls, and from the save on the one it works with, or none after a write that was cut
  short, when memory has it still.
- `SamplesKept` (`PerfInv`): what waits is ascending and within its bound and is in one place, memory or the
  file; and nothing is known that was not taken yet, so that the next sample is a new one.
- `RowsOnceInOrder` (`TelemetryInv`): evaluated rows come before those in the channel, and these before
  those not read, none of which was cut; the log holds the last rows made, so that the
  tail's offset tells which row is next.
- `RatesTrue` (`RateInv`): a kept reading is the counters of now less what happened since, unless they
  started again or the pid is another process's.

Only model-checked: the liveness properties (`PendingIsServed`, `OutcomeLearned`, `ConfigConverges`,
`FileIsRead`, `StopEnds`, `PayloadsArrive`, `ListConverges`, `SamplesArrive`, `RowsAreEvaluated`), since TLAPS has no
rules for liveness under fairness and cannot reason about the `ENABLED` in it. The four safety
properties that the code breaks (and the liveness one) are the violation runs. In `PerfBuffer`, what
is recent of a loaded file is stated as a suffix of it rather than by `SelectSeq`, whose
recursive definition the provers cannot open; files are in the order of time, so that the two are the same.

## Findings

1. `scans_once`: the ids handled are in memory only, so that a request whose start
   report was lost runs again after a restart; `docs/ENDPOINT_API.md` says at most
   once.
2. `update_once`: only the last update request id is remembered, and the two loops
   fetch configs without excluding each other. A config that was fetched before another one
   was applied brings the earlier request back, which is attempted a second time;
   `docs/ENDPOINT_API.md` says at most once. A second way is shorter: the write
   that records an attempt is ignored when it fails (`updater.go:222`), and a crash during the
   download has the request attempted again. What does hold is `LaunchedOnce`: a
   launched request is not attempted again before another one was.
3. `rules_applied`: every start of the agent replaces the server's YARA bundle by the
   baseline and then takes the bundle for applied. It fails without a restart as well: the
   poll and the heartbeat both download a bundle, the one with the older bundle writes the
   file last and the one with the newer bundle records its version last, and the file has an
   older bundle than the record says until a newer one is published.
4. `yara_update`: a full pass that started under the old rules settles the full pass
   that the rule update asked for.
5. `engine_crash`: nothing waits for osqueryd. When it exits on its own (a crash, or a
   start while the one before still holds the database) the engine goes on tailing a
   log that nobody writes, though `runDetection` is written to restart an engine that
   ends because "osquery crashed".

Also seen, without a run. Of updates: a stale config lets the agent drop, or replace by an
older request's, a report that the server has not got, although `docs/ENDPOINT_API.md` promises it until the
config no longer carries the request (`OutcomeLearned` excepts it, `ReportKept` starts when no
goroutine holds such a config). Where a package manager installs older packages, an installer
that comes late brings back its version: the first installer hangs past the timeout and replaces the
program without restarting it, an attempt for a lower version passes `CheckTarget` in the old process
and is launched, a crash brings up the newer version, and the second installer
replaces that (`README.md` says downgrades are refused; TLC shows it if
`NeverDowngraded` is asked of every method). A crash between an archive's swap and the pending marker
makes the new version report its own update as failed (`RestartReportsOutcome` is
about launched updates). Of deliveries: the replay of the spool
is sorted by kind before time; a payload that the server refuses for good blocks
the spool. Of scans: requests of a policy that were queued run as console requests. Of Windows: a
crash between the two renames leaves no program at the path the service starts, and
nothing puts `exe.old` back (`ProgramIsWhole` states it). Of enrollment: an answer that
was lost, or a save that failed, has used up the token, and the agent asks with it for
ever; a new token in `agent.json` is read at the next start only, and `SaveSettings`
overwrites what was edited meanwhile; an `identity.json` that was cut short loses the identity
if the process ends before the next whole write. Of packages: a source that fails for a while
removes its packages from the server's list, and a host whose last package is removed
never reports that. Of rows: what osqueryd reported and the tail had not sent on when
the engine restarts is lost, since osqueryd's database has it as reported.

## Limits and plan

Not modelled: the contents of rules, payloads, package databases and scanner output;
TLS and encodings; the tray and the packaging; clocks that go back (file names in
the spool and the cutoff of YARA passes rely on them). In `ScanCoordinator` an id
ages out of memory (48 h, `TtlOver`) only after its run has ended and no answer of that
time is under way. In `Delivery` the server never
refuses a payload for good. In `SelfUpdate` a write of `identity.json` is whole or
absent (`Enrollment` has torn ones), and a second installer fails at once while another is at
work, by the package manager's lock. In `RuleSync` a signature file that was cut short is not told
from another, and is loaded as any; `loaded` stands for the reload that the code's comments mean,
while it is the passes of osqueryi that read the file. In `ScanCoordinator` a request counts as run
from its answered start on, though a stop may cancel the scan before its first step.
In `PackageSync` a database lists one package; in
`PerfBuffer` removing the file succeeds, and the server takes or refuses a batch as a
whole; in `UpdateInstall` the pending marker's timeout is left to `SelfUpdate`; in
`Telemetry` an osqueryd that outlives its engine writes whole lines; `Collector` has one
CPU, one interface and one pid of a Linux host. The server is modelled from its API document and from how the agent uses it.

Next, in this order:

1. Proofs: that a part of one module may stand for the steps of another: an attempt of
   `UpdateInstall` for `AttemptSwap` of `SelfUpdate`; that `ScanCoordinator`'s passes are what `YaraPass`
   takes them for; the exact outcome of a restart for an archive that was not launched.
2. `yaraSeen` in `YaraPass`: hits reported once, against stops and files that change.
3. Pure definitions against references: version precedence and `CheckTarget`, the
   clamping of `effectivePerf`, the merge of package lists, the conversion of grype's
   findings.
4. The heartbeat that drives `SelfUpdate`, `RuleSync` and `ScanCoordinator` as one
   composition, as far as TLC reaches.
