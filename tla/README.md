# Verification of damru

damru drives real Android browsers: a pool hands out devices (Redroid containers, MuMu instances or attached
phones), a session gives a device the identity of a profile through root access, starts its Chrome and returns
a Playwright context over CDP. A command line and a local control panel prepare the host for it. This directory
holds TLA+ models of the parts of damru whose correctness depends on order (several tasks, several sessions on one
device, several workers over one image, commands that get lost, processes that end anywhere), the TLC configurations
that check them on small instances, and TLAPS proofs for all instances.

Paths below are relative to the repository; `pool.py:652` is `src/damru/pool.py`, line 652. `PROJECT.json` maps
every definition that models code to its lines, and lists the hazards, each at its line, with the properties that
would catch them.

## 1. Inventory

| Part | State it keeps | Operations | Interacts with |
|---|---|---|---|
| **DamruPool** (`pool.py`) | `_slots`: `DeviceSlot` with busy, healthy, consecutive_failures, restart_count, serial; `_free_event`, `_running` | `__aenter__`, `session()`, `map()`, `_acquire_slot`, `_release_slot`, `_task_watchdog`, `__aexit__` | AsyncDamru for every session; RedroidManager or MuMuManager at start, retry and recovery |
| **Health monitor** (`pool.py`) | its task; the slot it probes | `_health_loop`, `_recover_slot` | the slot table, without a lock; the managers |
| **DamruPoolSync** (`pool.py`) | a DamruPool on a loop of its own thread; per call `slot_ref`, `damru_ref`, a timer | `session()` as `_enter`, swap, user block, `_exit` | caller threads and the loop thread share the slots |
| **AsyncDamru** (`async_core.py`) | profile, warm flag, CDP and Playwright objects, background tasks, page handlers | `__aenter__` (about 30 awaits that change the device), page overrides, geo synchronisation, detach, `__aexit__` | RootOps, ChromeManager, CDPConnection; the device keeps what it changed |
| **RootOps** (`root.py`) | `_gpu_spoofed`; on the device: `renderer.config`, the driver library, backups, the marker, the memory target, `wrap.*`, properties, fonts, bind mounts, firewall rules | `apply_*`, `setup_*`, `spoof_*`, `remove_*` | adb |
| **ChromeManager** (`chrome.py`) | package; on the device: data, Preferences, command line, the process | force_stop, clear_data, patch_preferences, launch, wait_for_devtools_socket | adb |
| **CDPConnection** (`cdp.py`) | local port, forward, Playwright | setup_port_forward, connect, disconnect | adb server's forward table, shared by all sessions of the host |
| **ADB** (`adb.py`) | none | `_run`: timeout, `allow_failure`, reconnect and one repetition | every other part |
| **RedroidManager** (`docker.py`) | `_started_indices`; in docker: containers and one image | check_docker, ensure_*, start_*, restart_*, stop_*, HAL installation and commit, install_chrome, bake | docker daemon, host kernel, adb |
| **MuMuManager** (`mumu.py`) | boot profile per index, fallback indices | ensure_instance, ensure_all, restart, dynamic profile | MuMuManager.exe |
| **Proxy runtime and bridge** (`proxy_runtime.py`, `proxy_bridge.py`) | bridge processes, their configuration files and ports | ensure_proxy_bridge, the bridge's request handler | sessions of several processes |
| **Proxy geo** (`proxy.py`) | `_geo_cache` | sticky names, resolve_proxy_geo | the network, and the zone a session shows |
| **Command line** (`cli.py`, `apk_assets.py`) | none of its own; on the host: packages, daemon, binderfs, image, APK bundle, `config.py`, `.wslconfig` | install-deps, fix-wsl, install-image, install-apks, setup, check-env, wsl-kernel, ui-worker, open-url | docker, the package manager, the files of other commands |
| **Control panel** (`ui/server.py`) | jobs, probe cache, configuration backups, viewer connections | add_job, clear_finished_jobs, cached_value, quick_health, next_action, save and restore | request threads, job threads, command processes |
| **Rest** | none that outlives a call | profiles, devices, core, bypass, assets, kernel and test scripts, native libraries | |

**What is hard here.** (1) The pool's tasks interleave at every await, and the health monitor uses the slot table
with them. (2) The synchronous pool waits with timeouts on coroutines that go on when it gives up. (3) The device
remembers: a session that is cut leaves files, properties, mounts, rules, a browser, and the next session decides
from what it finds. (4) Commands are sent with `allow_failure`, so a lost answer is an empty string, which mostly
reads as "no", and a command may be carried out twice. (5) Workers are recreated from one image which any of them may
commit. (6) Sessions of one host share adb's forward table, the bridges' ports and, under WSL, one network namespace,
without a lock on any of them. (7) Page handlers run as tasks next to the caller and to pages that sites open.
(8) The panel's threads, caches and jobs overlap, and a job that times out leaves its script running. (9) Retries,
recoveries and set-up instructions have to end.

**What correctness means**, per part:

- pool: one session per slot; no slot leaks on any way out; nobody waits for a release that cannot come; dead slots
  are not handed out; a watchdog or a recovery hits nobody else's browser; every call ends;
- device: whatever happened before, a caller's Chrome has its own profile's GPU, memory, cores, settings and data,
  the originals of changed files are never lost, and the device stays usable;
- pages: every page and worker shows the overrides, and no worker is left waiting for a debugger;
- firewall: while a caller browses, UDP past the proxy is blocked and IPv6 is off;
- links: a session's CDP connection reaches its own device, its requests leave by its own upstream, and its pages
  show the zone of its exit;
- containers: what goes into service has its HAL and its Chrome, usable containers keep their data, the image stays
  clean, opening a pool ends;
- host: no probe outlives its invalidation, the configuration is what was last saved, and who follows the panel's
  advice gets a running worker.

## 2. Modules

| Module | Models | Composition |
|---|---|---|
| `SlotAllocator` | what `session()` promises its callers: ask, grant, refuse, withdraw, return | abstract |
| `PoolSlots` | the slot table, `_acquire_slot`, `_release_slot`, failure counting, health monitor, recovery | extended by the next two |
| `DamruPool` | `session()` of the asynchronous pool, watchdog, cancellation, `__aexit__` | implements `SlotAllocator` |
| `DamruPoolSync` | `session()` of the threaded pool | implements `SlotAllocator` |
| `DeviceUse` | what the pool assumes of one device | abstract |
| `DeviceSession` | `__aenter__` and `__aexit__` over several sessions of one device | implements `DeviceUse` |
| `DeviceSettings` | what every use writes anew: properties, fonts, screen, proxy, cores | opens the variables `sys` and the fonts and mounts `DeviceSession` leaves out |
| `PageOverrides` | the CDP overrides on pages and workers while the caller's block runs | the part of a session after `DeviceSession`'s connection |
| `Firewall` | IPv6 and WebRTC rules of the browsers in one network namespace | the step `_root_hardening` of a session |
| `HostLinks` | adb forwards, proxy bridges and geo zones of the sessions of one host | the connection of `DeviceSession`, for several devices |
| `Containers` | workers' containers, the image, pool start-up and recovery, over several processes | |
| `HostSetup` | the host and the commands that prepare it | state and steps used by `ControlPanel` |
| `ControlPanel` | the panel: jobs, caches, advice, configuration, over the commands of `HostSetup` | extends `HostSetup` |
| `*_proofs` | theorems about `DamruPool`, `DamruPoolSync`, `DeviceSession`, `DeviceSettings`, `Firewall`, `HostLinks`, `Containers`, `ControlPanel` | extend their component and TLAPS; `DeviceSession_proofs` extends `PageOverrides` as well and holds its theorems |
| `MC*` | instances for TLC | |

The parts meet at interfaces that are abstract on one side and detailed on the other. A `SetupOk`, `SetupFails` or
`ExitDamru` step of `DamruPool` stands for a whole run of `DeviceSession`, and `DeviceUse` is what may be relied on
there: a setup touches no browser but the one it found and its own, and the caller's browser stays while its block
runs. The recovery steps of `PoolSlots` are `restart_container`, which `Containers` models step by step, and whose
effect on the device is `Recreate` in `DeviceSession`: that a recreated container holds nothing of earlier sessions
is `ImageClean`. The step `EnsureWorker` of `HostSetup` is the `ensure_container` of `Containers`, of which it keeps
what the host decides: whether docker, binderfs and an image are there.

### 2.1 PoolSlots, DamruPool

A step is what a coroutine does between two awaits (everything runs on one asyncio loop). Of a `DeviceSlot` the
model keeps `busy`, `healthy`, `consecutive_failures` (`failures`), `restart_count` (`restarts`), and which session's
Chrome runs on the device (`live`). `waiting` is the set of tasks in `_free_event.wait()`: `Event.set` resolves all
of them, and the loop that scans again is `Acquire`. `health` is where the monitor's task is, with its slot: its test
of `busy` and the restart are separate steps, as they are separated by awaits in the code. `pc` follows `session()`:

    idle -> acquire -> setup -> user -> teardown -> done
                       setup -> cleanup -> (last attempt: failed) reinstall (auto) / refresh (mumu) -> backoff -> setup

and `Cancel` can strike at every await. `Mode` is the pool's mode; `HasTimeout` says whether a task timeout, and so
a watchdog, exists; `Cancellable` and `CleanupFails` switch the two behaviours some properties have to exclude.

### 2.2 DamruPoolSync

Each call has a thread (`thread`) and two coroutines (`enter`, `exit`) on the loop. A blocking call inside a
coroutine, the swap of the CDP connection, holds the loop (`loop`). The three constants `EnterMayTimeOut`,
`SwapMayTimeOut` and `ExitMayTimeOut` say which of the thread's waits may give up while the coroutine goes on.
`_release_slot` from a thread and the pair clear-then-wait of `_acquire_slot` are separate steps, because here they
are not protected by the loop. The timer's kill may be under way when the timer is cancelled.

### 2.3 DeviceSession

The variables are what is on the device and what the code decides from: `config` and its backup (MuMu devices), the
driver library `lib`, its backup, the marker file and what is loaded (`loaded`), the memory preload (`wrap`, `target`),
one variable each for settings written unconditionally (`sys`) and for Chrome's command line (`flags`), the browsing
`data` by session, and the running `chrome` with what it read when it was launched. Actions are the steps of
`__aenter__` in their order and of `__aexit__`; `Cut` ends a session anywhere, either into `__aexit__` (the pool's
timeout, an error) or not (cancellation, end of the process). Between sessions the device may `Restart` (files stay)
or be recreated from the image (`Recreate`). `Lost` is the set of adb exchanges whose answer or effect may be lost.
`leftover` is an auxiliary variable, read by properties only: an earlier cut left a driver file changed.

### 2.4 DeviceSettings

A use is a session or a forced profile (`force_device_profile`, `profile_apply.py`), and nothing is put back at its
end. The variables are the properties by what they decide (`props`, `release`, `sdk`, `arm`), the resetprop binary in
`/data/local/tmp`, `fonts.xml` with its saved copy and its marker, the Android settings, and for the two files behind
the number of cores how many bind mounts lie over them (`depth`) and what the mounted file says (`file`). A use runs

    resetprop -> props -> fonts -> randomize -> gather (settings, release, cores in any order) -> user

and `unmount`, `online`, `stat` are the steps of `spoof_cpu_cores`. `GoWrong(x)` lets an exchange of kind `x` go
wrong: a probe's answer is lost, a write is swallowed, an unmount fails, a mount is carried out twice by the
repetition in `ADB._run`. What went wrong in which use is remembered in `wrong`, for the properties.

### 2.5 PageOverrides

The overrides of `__aenter__` install themselves on the first page and register handlers for pages to come. They
come in three kinds by how their handlers are written: `BindFirst` binds to a page's navigations and then applies
itself, `BindLast` the other way round, `Once` is applied once. `todo` holds the handlers' tasks that have not sent
yet, `bound` what is repeated after a navigation, `on` what is in force in Chrome. A send takes effect at once and its
coroutine resumes later (`resuming`), unless an event came in the same batch (`Commit`): that is the gap between the
first send and the binding. `worker` is the worker, or another target, of a page's document. The cores override's own
session is told of it if it has auto-attach on (`listening`: set by the override's try, not by what `new_page` sends);
the session of `_arm_worker_core_override` makes every target wait and takes those of type `worker`. `plain` and
`pausing` are the message each of the two handlers sends next; a message that fails is the last of its handler
(`MayLose`).

### 2.6 Firewall

`rules` is the OUTPUT chain as a sequence, as far as the functions write it, and `v6` which parts of IPv6 are off. A
client is a browser of the namespace; every iptables or sysctl command is a step: `CheckV6`, `TurnOffV6` for
`apply_ipv6_block`; `CheckTable`, `FindUid`, `FlushRules`, `CleanFallback`, then a check and an insertion for each
rule for `apply_webrtc_block`; `RemoveDrop`, `RemoveHigh` for `remove_webrtc_block`. A lost answer of `iptables -C`
reads as "the rule is there". A step that raises is tried three times by `_root_hardening`. `robbed`, `wrong` and
`v6Failed` are read by properties only.

### 2.7 HostLinks

An automated session runs `geo -> zone -> proxy -> choose -> clear -> forward -> connect -> sync -> override -> user`,
the command open-url `put -> opened`. Before that both go through `probe -> start -> ready` if their upstream is in
`Bridged`: SOCKS or a password, which Android's setting cannot hold (`resolve_android_proxy`, `ensure_proxy_bridge`).
`forward` is adb's table, `bridge` which upstream listens on a bridge port, `setting` what a device's proxy setting
names (a bridge port, an upstream, nothing), `exit` the zone an upstream's exit has now, `dev` a device's zone.
`LeavesBy` follows a setting to the upstream that carries a request. An automated session always writes or clears the
setting (`SetProxy`, whose loss goes unnoticed); open-url writes it if it is given a proxy, and nobody resets it at the
end. A port is chosen among those nobody listens on, and forwarded some steps later (`_find_free_port`,
`setup_port_forward`). The environment may rotate an exit, end a bridge or restart adb. `portOf` is the digest of
`ensure_proxy_bridge`, which may give two upstreams one port.

### 2.8 Containers

Per worker: the container's state as docker and Android report it (`ill` is up without package service, `sigint` is
exited with code 130, `looping` is restarting), its root file system (`hal`, `used`, where Chrome and WebView come
from), whether the HAL was there when it booted (`active`) and where its task is; plus the shared `image`. `Inspect` to
`Run` are `ensure_container`, `start_container` and the commit of the HAL; `Version` to `CheckRoot` the second phase
of `_init_auto`, behind its gather and its semaphore of two; `Recover` is `_recover_slot`. `Close` ends the process
with its tasks wherever they are, and the next `Open` finds the containers. `bundle` is what `find_chrome_apk` found:
a directory of split APKs, with which `ReplaceWebView` and `InstallPackage` replace both packages, a single APK, with
which `InstallSingle` replaces Chrome only, or nothing. A session may run on any container of an open pool that is up,
also on one under recovery (`UseSlot`). `Answers` loses an answer, `Crash` stops a container; `faults` bounds both. The
HAL is looked for in the container that runs: one that crashed in between has no HAL to show, whatever its files are.
The field `marks` is auxiliary: the installations in a root file system that were broken off and have not been made
good (`hal`, `web`, and `before` if an earlier process did), and whether it was used out of service (`early`) or while
it was used not seen, or not seen to have the HAL (`unseen`).

The waits for the touch screen and for DNS never raise, and `_should_use_host_network` is always false; the branches
behind them are dead code and left out.

### 2.9 HostSetup and ControlPanel

`host` is the machine: its kernel and the one WSL boots next, packages, the docker daemon, binderfs, image, the two
places of the APK bundle, downloaded archives, the workers' containers. A process (`proc`) is one command and the
step it is at; a step is one script or one call that changes the host. Two commands run next to each other freely,
except that the package manager's lock makes the second fail. `host.user` says what its user may do: everything, which
is so in WSL; use Docker, through the socket install-deps grants (`Granted`); or use it only with sudo, in which case
every check fails that asks `docker info` (`Reaches`). On native Linux `RedroidManager` makes root of the first line of
its scripts only, so that its remounts and starts work for root alone (`RootRemount`, `CheckDocker`). `conf` is
`config.py` with its backups: a writer reads, truncates and fills it in three steps (`_write_config`), `wanted` is what
should be in it, and `meant` in a backup what should have been in it then. A command that is killed by its timeout
leaves its script running as `orphan`. `luck` bounds what goes wrong and how often settings are
saved and restored.

`ControlPanel` adds the server: `AddJob`, `RunJob`, `EndJob`, `FinishJob`, `TimeOut` and `ClearJobs` are the life of a
job; `HealthBegin`, `HealthProbes`, `HealthStore` a request for the health page with its nested `cached_value`s, which
`ClearProbes` does not reach once they have begun; `PostBackup` to `PostFill` and `Restore` the settings page, which
names the backup to restore: the newest it has seen, so any. `Follow` is a user who does what the page shows, and
`Advice` what that can be: the command of the next action; the bundled kernel, at which the output of a failed repair
hints; or, where the next action opens the Workers page (`workers`), starting or adding workers there. A list of checks
is represented by the first that fails, which is all that `next_action` looks at.

## 3. What the runs check

Every property has a mutant in `PROJECT.json`: a change of the model such as a plausible bug would make, under which
TLC finds the property violated in the same run.

| Run | Instance | Properties |
|---|---|---|
| `pool_auto` | 3 calls, 2 containers, 1 retry, cancellation, recovery, shutdown | `SlotsExclusive`, `NoStrandedWaiter`, `DeadUntilRecovered`, `ImplementsAllocator` |
| `pool_live` | 2 calls, 1 MuMu slot, watchdogs, failing cleanups, cancellation, recovery | `WatchdogKillsOwn`, `EverySessionEnds` |
| `pool_manual` | 3 calls, 2 devices, no cancellation | `UserKeepsBrowser`, `NoIdleWhileWaiting` |
| `sync_threads` | 2 threads, 1 MuMu slot, all three waits may time out | `SlotsExclusive`, `NoStrandedWaiter`, `OnlyGivingUpLosesSlots`, `TimeoutKillsOwn`, `EveryCallReturns`, `ImplementsAllocator` |
| `device_sessions` | 3 sessions, 3 profiles of which one has no memory to show, both kinds of device, three questions may be lost | `BackupPristine`, `GpuUnlessLeftover`, `MemoryProfiledOrNative`, `ChromeIsFresh`, `NoDataCarriedOver`, `EverySetupEnds`, `ImplementsDeviceUse` |
| `settings` | 3 uses, profiles of 4 and 2 cores on a device of 3, two things may go wrong | `CoresAsProfiled`, `SettingsOwn`, `DeviceUsable` |
| `pages` | first page and one more, one navigation, a send of the core override and every message to a worker may fail | `PagesComplete`, `WorkersMasked`, `EveryWorkerRuns` |
| `firewall` | 2 clients with one or two user ids, 2 sessions each, two things may go wrong | `UdpBlocked`, `IPv6Off` |
| `links` | 2 devices, 2 ports, 2 upstreams with different or equal bridge ports and one without, 2 sessions, 1 rotation, 1 thing may go wrong | `CdpReachesOwnDevice`, `OwnUpstream`, `ZoneCoherent` |
| `containers` | 2 workers, 2 openings with different APKs, no image at first, one crash or lost answer about state, HAL or Chrome | `ImageClean`, `SlotsEquipped`, `VersionsAligned`, `DataKept`, `EveryOpenEnds` |
| `panel` | 2 command processes, 2 workers, eleven starts, one thing may go wrong (two in one start) | `NoStaleCheck`, `ConfigKept`, `PageLeadsToWork` |

One run shows a disagreement between the code and its comments, and is a finding:

| Run | Property violated | What happens |
|---|---|---|
| `pool_recovery_exclusive` | `RecoveryExclusive` | a slot is handed to a session while the monitor restarts its device (`pool.py:652`) |

**Reading the weaker forms.** Where the code does not keep a property in general, the passing run checks what it does
keep, and the name or the comment says so; section 5 lists what is behind the exceptions.

- *Pool.* In the threaded pool `SlotsExclusive` holds until a thread that gave up on `_exit` and `_exit` itself have both
  released a slot, and `NoStrandedWaiter` as long as every release is made by the loop; `OnlyGivingUpLosesSlots` says
  that only a thread that gave up on `_enter` or the swap loses a slot. `NoIdleWhileWaiting` holds in manual mode only,
  since `_recover_slot` sets no event (`pool.py:695`); `UserKeepsBrowser` needs that nothing restarts devices.
- *Device.* `GpuUnlessLeftover` excuses sessions after a cut that left a driver file changed. `MemoryProfiledOrNative`
  speaks of profiles with a positive memory, which all of the catalogue are: without one an earlier target stays. `CoresAsProfiled` allows
  fewer cores after an unmount that failed or a mount made twice, but never two files that disagree; `SettingsOwn`
  excuses a write lost in this very session and answers lost about the fonts' backup; `DeviceUsable` an SDK or ABI that
  was not seen after a profile was forced.
- *Pages.* `PagesComplete` excuses a send that failed and the gap between the first send and the binding;
  `WorkersMasked` speaks of workers that are made to wait, and allows the browser's own user agent where the handler of
  the cores override was the one to let the worker run. `EveryWorkerRuns` excuses a worker of which every handler told
  lost a message, and a target that no handler takes: both wait for good.
- *Firewall.* `UdpBlocked` lists the five ways a rule can be missing; `IPv6Off` excuses commands that
  failed and a block that was cut half-way, after which every session trusts the first setting.
- *Links.* `CdpReachesOwnDevice` excuses the race for one port; `OwnUpstream` that race, two upstreams with one digest,
  a setting the device did not take, and open-url without a proxy, which leaves what an earlier session set;
  `ZoneCoherent` a device that did not take the new zone. So the race itself and the shared digest are not caught:
  the properties say that nothing else has these effects.
- *Containers.* A used container that exists but is not seen, or has the HAL but is not seen to have it, is recreated
  or committed by the code, and so is one that a session used while its slot was recovered: `ImageClean` and `DataKept`
  say that there is no other way. `DataKept` also excuses recoveries and containers that are without package service or
  stopped by a SIGINT, which the code deletes on purpose. `VersionsAligned` excuses what an earlier process broke off,
  which this one does not notice, and a Chrome from a single APK, which leaves the WebView; `SlotsEquipped` a recovery
  that has nothing to install Chrome from.
- *Panel.* `NoStaleCheck` excuses a probe that was under way when the cache was cleared; `ConfigKept` writers that
  overlapped or were killed while the file was empty; `PageLeadsToWork` the six dead ends in `DeadEnd`. An orphaned
  script that changes the host after its job has ended makes no check stale here, as nothing in the code knows of it.

### Bounds

- *Pool*: three calls and two slots are the least in which two tasks wait on one event, one slot dies while another
  serves, and the monitor works on a slot next to a session. `MaxFailures = 1` and `MaxRetries = 1` let every counter
  reach its limit and one retry happen. One slot is enough where calls take turns.
- *Device*: three sessions, so that one can find what two others left (a cut one and one that repaired only half);
  two profiles, so that a stale value differs from a right one, and a third without memory; `MaxLaunches = 3` is the code's.
- *Settings*: three uses for the same reason; `RealCores = 3` lies between the profiles' 4 and 2, so that one is
  capped and one is not; `MaxWrong = 2` lets one fault hide another.
- *Pages*: every page is handled alike, so one next to the first shows all orders of one page's tasks; one navigation
  is what a first send can be overtaken by. One override stands for those of the same kind, the sends of one try for
  one send, the sessions that re-applications add to a page for one session; one worker is followed at a time.
- *Firewall*: two clients suffice for one removing the other's rules, two sessions for finding an earlier session's
  rules, two faults for a lost answer after a failed attempt; `MaxTries = 3` is the code's.
- *Links*: two devices, two ports and two bridged upstreams are what a mix-up takes; all four port maps, the colliding
  ones too, and one upstream that needs no bridge; two sessions in all, on one device one after the other (a leftover
  setting or forward) or on two at once. Callers ask for one zone or none (`Given`).
- *Containers*: two workers share the image; two openings, so that the second finds what the first left, with the APKs
  of `Bundles`: a directory or one APK at first, a directory or nothing then; `MaxFaults = 1` crash or lost answer, as
  one already sends a used container to the commit; one recovery per slot (`MaxFailures`); `MaxTries = 3` is the code's.
  The proofs have no bound on faults. `HalModes` holds `TRUE` only: with the HAL off in one process and on in the next,
  a used container would be committed as the image, and `ImageClean` would not hold.
- *Panel*: two processes overlap in every pair of steps. The starts are a fresh Windows host with the image and the APK
  bundle beside the code, one that lacks the bundle only, a rebooted one, a working one with a setup in a terminal or
  one of two worker commands, one that starts its workers with another image beside the code and a backup of the
  settings, a Linux host where Docker was used with sudo, and Linux hosts with a partial bundle and a stray mount, with
  Docker for sudo only, and with a stray mount and a user who is not root. `luck = 1` thing goes wrong, form is saved
  or backup restored: none on the host with the partial bundle, two on the last, where a backup of the same run is
  restored. The proofs have no bound on them.
- `CHECK_DEADLOCK FALSE` stands where the bounds on openings and sessions make a stop legitimate.
- `SYMMETRY` is used in safety runs only, over values the modules compare for equality and nothing else.

### Fairness

Weak fairness of each task's own steps and nothing else: an event loop runs every ready coroutine, each await on adb,
docker or CDP has a timeout, and thread waits are bounded. In the pools the caller's block is assumed to end, as
`session()` cannot. Nothing is assumed of the environment: crashes, cancellations, restarts, the monitor, lost answers,
opening and closing a pool are not fair. In `Containers` the awaited boot either happens or times out, so `Boot` as a
whole is fair, not its success. In `PageOverrides` the coroutine that got its reply and the handlers of Chrome's
messages run; the caller and the sites do as they please. In `ControlPanel` each command process and job thread goes
on, cache entries expire, the page polls, an orphaned script ends, WSL restarts once when a new kernel waits, and the
user keeps following the page: without that user there is nothing to be led anywhere. `Firewall`, `HostLinks` and
`DeviceSettings` state safety only and need none.

## 4. What is proved

All theorems hold for every value of the constants under the named assumptions of the modules (`NumSlotsAssumption`,
`ModeAssumption`, ..., `DeviceAssumption`), which TLC evaluates in the runs. Each has an inductive invariant that adds
to the property what it needs against a step of *another* actor.

**DamruPool.** For any set of calls, number of slots, mode, limits and retries: `TypeCorrect`, `SlotsAreExclusive`,
`BusyCorrect`, `NobodyStranded`, `LimitsRespected`, `WatchdogSafe`, `DeadStaysDead`, `Refinement` (the pool implements
`SlotAllocator`), and under their conditions `ManualKeepsBrowser`, `ManualNeverIdles` and `ChromeStopped`. In `IInv`

- `HoldsByPC` ties holding a slot to the place in `session()`; exclusion alone is not inductive, because a release
  clears `busy` for whoever holds the slot;
- `WaitersAcquire` and `NoStrandedWaiter`: only a task inside `_acquire_slot` waits, so a release reaches them all, and
  a task parks only after it saw a healthy slot, which then is busy;
- `WatchdogOfUser` and `BrowserOfUser`: a watchdog exists only while its session's block runs, so what it kills is that
  session's browser or none;
- `RestartsBelowLimit` with `HealthyBelowLimits`: the monitor passed the limit before the restart it is in;
- `RetryLeft` bounds the attempt counter.

The proof goes through `SessionMoves`: seen from the slot table, every session step stays, takes a free slot, parks,
gives up or leaves. Ownership and waiters are then proved for five moves instead of fifteen actions, and the refinement
maps the same five moves to the allocator's steps. `ManualNeverIdles` needs `Mode = "manual"`: only there does every
free healthy slot come from a release, which wakes everybody; a recovery revives a slot and wakes nobody.

**DamruPoolSync.** For any threads, slots, retries and every choice of what may time out: `TypeCorrect`,
`SlotsAreExclusive`, `NobodyStranded`, `LosersGaveUp`, `TimersKillOwn`, `Refinement`. In `IInv`

- `Places` says which places of a thread, its two coroutines and its timer go together (`ThreadFollows`, `SlotByPC`,
  `ExitByPC`, `BrowserRef`, `TimerByPC`). A thread and its coroutine can both be about to release one slot, so holding
  is tied to all of them;
- `SlotsExclusive` and `BrowserOfHolder` hold until `ReleasedTwice`: then the second release has freed a slot that may
  be another thread's, and nothing about owners can be kept;
- `ParkedOnBusy` bridges the two steps of `_acquire_slot`, the scan and the wait: between them a slot is busy, unless a
  thread has released one outside the loop.

Every step of a session is one of five moves again (asks, stays, is refused, takes, returns), which exclusion, the
waiters and the refinement are proved for. Two theorems say what the timeouts cost. If no thread gives up on `_exit`,
`PunctualExitRefines` gives the allocator's full specification and exclusion without reservation. If no thread gives up
on `_enter` or the swap, `NoSlotLost` says that no slot is busy when all have left, unless one was released twice.

**DeviceSession.** For any set of profiles, any bound on sessions, both kinds of device, and any `Lost` outside
`{"backup", "wrap", "stop", "clear"}` (`HarmlessLoss`): `TypeCorrect`, `BackupsPristine`, `MarkersTruthful`,
`GpuProfiled`, `MemoryProfiled`, `ChromeFresh`, `NoDataShared`, `ConfigPutBack`, `Implements`. Each of the four excluded
losses breaks a property. `IInv` says step by step what a session has established so far (`GpuReady`, `MemoryReady`,
`ChromeAsFound`, `DataOwn`), that nothing is changed before it is backed up (`BackedUp`), that the two kinds of device
follow their own path (`PathOK`), and that without a leftover nothing is hidden from the next session (`NothingHidden`).

**PageOverrides.** For any pages, any overrides of the three kinds, any sends and messages failing, any bound on
navigations:
`PagesTypeCorrect`, `PagesAreComplete`, `BoundFirstNeverMissed`, `WorkersAreMasked`. They stand in the last section of
`DeviceSession_proofs`, which extends both modules; for that the specification of the pages is named `PagesSpec`.
`PhaseInv` says that other pages appear only when the block runs, and that every override has its handler by then;
`OverridesInv`, that an override with a handler is in force on a page, failed, was missed by a commit or still has its
task, and that one which a commit can reset is bound to the page or about to be; `ZoneInv`, that no commit takes the
time zone from a page that got it; `GapInv`, that only overrides bound after they are sent are ever missed. `WorkerOK`
says what a worker has been sent before each message of the two handlers, whichever of them runs first.

**DeviceSettings.** Whatever exchanges go wrong, for any profiles, versions and core counts: `TypeCorrect`,
`StaysUsable` from `UsableInv` (a foreign resetprop or SDK has a forced use before a lost probe behind it), `OwnSettings` from
`WrittenInv` (what each step of the gather has written), `CoresShown` from `CoresInv` (where mounts lie and that both
files agree once both are mounted). `BaseInv` orders the uses and is part of each.

**Firewall.** For any clients and numbering of user ids: `TypeCorrect`, `V6StaysOff` from `V6Inv` (if the first part
is off, the others are, or somebody is still to turn them off, or failed), and `UdpStaysBlocked` from `WebInv`, which
says at each command which rules a client has put in force, unless it was robbed. `AloneAlwaysBlocked` discharges the
exceptions: one client, no command lost, a kernel with both modules, and every session is blocked, after whatever cuts.
The lemmas `FirstCopy` and `OthersStay` say what deleting a rule leaves of a chain.

**HostLinks.** For any devices, ports, upstreams and zones: `TypeCorrect`; `LinksAreOwn`, from `PortInv` (a port held
by two sessions was raced), `SharedInv` and `LeadInv` (a forward on a session's port leads to its device);
`ZonesAgree`, from `ZoneInv`; `UpstreamsAreOwn`, from `LinkInv` (whose browser the caller is in) and `BridgeInv`: who
listens on a port has that port's digest, and what was given to a device stays in its setting to the end of the session.

**Containers.** For any workers, bounds, APKs and lost answers: `TypeCorrect`, with the bounds on recoveries and
installations in it, and `AlignedVersions`; and if the HAL is on in every process, `CleanImages`, `EquippedSlots`,
`RunningHal` and `DataIsKept`. `CleanInv` says that a container which is about to be committed has served nobody or is
one of the exceptions, and which tasks have seen the HAL; `EquipInv` that in an open pool only recoveries run, and what
has a Chrome; `AlignedInv` at which places of an installation two versions may meet; `ActiveInv` the same for a HAL
that has not booted; `KeptInv` what may be removed while a pool is opened; `OffInv` that a closed pool has no tasks. A
lemma for each action (`InspectSteps` to `DaemonSteps`) says what it may do to its container, and each invariant is
proved from these.

**ControlPanel.** For any processes and workers and from any start: `ChecksAreCurrent`, from `StaleInv` (an entry that
is behind has a job which is about to clear it), and `ConfigIsKept`, from `JobInv`, `WriterInv` and `FileInv` (the
writers on record are those that write, a lone writer has read what was wanted, and every backup holds what was meant).

**Only model-checked.** Liveness: `EverySessionEnds`, `EveryCallReturns`, `EverySetupEnds`, `EveryWorkerRuns`,
`EveryOpenEnds` and `PageLeadsToWork` rest on fairness and with it on ENABLED, which is beyond the prover.
`RecoveryExclusive` is not a theorem but what the code violates. `HostSetup` has no theorems of its own; those about
`ControlPanel` range over its state.

## 5. What is not modelled

- Contents: profile data, preferences, the values the overrides send, JavaScript, wording of commands. A profile is a
  value that names its own GPU, memory, cores and version.
- In the device: battery and sensor tasks, speech voices, certificates, a torn `cp`, a remote command that takes effect
  after the local adb was killed, two pools on one device.
- On pages: the raw websocket variant for workers (`DAMRU_EXPERIMENTAL_RAW_WORKER_CDP`), frames of other sites, errors
  of the page itself.
- In the containers: host networking (dead code), DNS and NAT repair, kernel checks, baking.
- On the host: the read-only preflight checks, the viewer with its screen frames and taps, captures, the list of adb
  devices, the states of one proxied connection, static files.
- `DamruPool.map` (a gather over `session()`), `stats`, `DamruPoolSync.__exit__` during sessions.
- `mumu.py`: it drives an external manager one instance at a time and keeps little state; `DamruPool` has its restart
  and refresh as steps with outcomes.
- `devices.py`, `core.py`, `bypass.py`, `webview_native_patch.py`, `benchmark.py`, `netfix.py`, native code, the
  Playwright patch, kernel and test scripts: tables, lookups, printing or code without state of its own; see the notes
  in `PROJECT.json`.

### Known disagreements

What the models show the code does, and the exceptions in the properties stand for:

| Where | What happens |
|---|---|
| `pool.py:1092` | a thread gives up on `_enter`, whose coroutine then takes a slot for good |
| `pool.py:1164` | the thread and `_exit` both release; the second release frees another thread's slot |
| `pool.py:1048` | the swap closes the asynchronous browser object and means to keep Chrome alive; `cdp.py:119`–`122` says that this sends a close command to Chrome |
| `root.py:2217` | a lost answer to "is there a backup" makes the patched library the original |
| `root.py:2140` | the marker is there before the library is loaded; after a cut the next session skips the reload |
| `root.py:1167` | the DNS rule is inserted before the DROP rule, each at the head of the chain, so the DROP rule is met first, although DNS is to be allowed first (`root.py:1098`–`1099`); on a kernel without xt_owner the DNS rule raises before the port rules are reached (`root.py:1106`) |
| `async_core.py:205` | a forced profile changes the release from which the next use decides what suits the device |
| `async_core.py:659` | a session whose connection failed leaves its forward behind |
| `proxy_runtime.py:127` | two upstreams with one digest share a bridge, and with it one upstream |
| `cli.py:2487` | open-url without a proxy leaves the setting of an earlier session, and browses through its proxy |
| `async_core.py:414` | a proxy setting the device did not take goes unnoticed: the session browses through an earlier one's proxy, or directly |
| `proxy.py:318` | a proxy whose scheme neither the bridge nor Android takes resolves to nothing: an automated session clears the setting and browses directly (not modelled: every member of `Upstream` can be given to the device) |
| `async_core.py:2126` | `_arm_worker_core_override` makes every target wait and takes those of type `worker` only; another one runs if the cores override listens on the page and it is a service or shared worker, else it waits for good |
| `async_core.py:2168` | the first message to a waiting worker that fails is the handler's last; where the other handler was not told or fails as well the worker waits for good |
| `docker.py:978` | an inspection without an answer reads as "no container", and the running one is removed; `docker.py:1146` means never to delete containers |
| `docker.py:735` | the probes for the HAL have no answer from a container that does not run: one that crashes before them and is restarted gets the HAL again, is committed with what sessions left in it, and removed (`docker.py:966`) |
| `docker.py:962` | a session let onto a slot under recovery (`pool.py:652`) may run in the container that is then committed |
| `docker.py:2214` | a single APK replaces Chrome and leaves the WebView |
| `docker.py:2196` | an installation that ends between WebView and Chrome leaves two versions; the next opening sees a Chrome and keeps both |
| `pool.py:683` | a recovery with nothing to install puts a slot without Chrome back into service, if the image has none |
| `pool.py:302` | the opening keeps any Chrome that is installed; the docstring of `_init_auto` says that another version is replaced |
| `ui/server.py:341` | a queued job counts as finished; once cleared, a second one can start and meet the package manager's lock |
| `ui/server.py:453` | a host kernel without modules is only told to repair Docker (`NoModules`) |
| `cli.py:1698` | native Docker that works with sudo only fails install-deps, whose message asks for a new login; the page repairs Docker for ever, since `ui/server.py:454` names fix-wsl, which grants nothing, where the row of the check itself names install-deps (`ui/server.py:538`) (`NoAccess`) |
| `docker.py:220` | on native Linux `sudo` stands before a script of many lines and reaches the first: `_ensure_binderfs` and `_start_docker_cmd` do nothing as root unless Damru is root, and `_auto_install_docker` ends in a syntax error at its third step (`docker.py:623`), though docker.py:487 means to install and start Docker there (`StrayMount`) |
| `docker.py:699` | a tar with an image of another name is loaded and then passed over: install-image finds it again and fails for ever, while a worker command pulls the base image (`UselessTar`) |
| `ui/server.py:146`, `cli.py:2118` | the server does not know a bundle that a command has just unpacked (`HiddenBundle`), and the settings form posts the old value back |
| `cli.py:1920` | a download that ends early gets its final name without a length check (`UselessTar`, `CutZip`) |
| `cli.py:1057` | writers of `config.py` overwrite each other; one that is killed between truncating and filling leaves it empty; two backups within a second share a name |
| `cli.py:454` | a repair restarts docker and with it stops the workers; the repair before it flushes the rules of workers on the host network (`cli.py:442`) |
| `cli.py:3265` | two add commands choose the same index |
| `docker.py:518` | docker gets 30 seconds to start from a script that may take longer, and is then installed again |

## 6. Next steps

`MuMuInstances` (`ensure_instance` with its chain of resource profiles, restart, shutdown, `ensure_all`) is the largest
part without a module. After it: type correctness of `HostSetup` and `ControlPanel`, and pure functions
(sticky proxy names, locale by country, CPU ranges, version comparison) against reference definitions over bounded
inputs.

## 7. Running

In this directory, with the community modules on the path:

    tlc -config pool_auto.cfg MCDamruPool.tla
    tlc -config pool_live.cfg MCDamruPool.tla
    tlc -config pool_manual.cfg MCDamruPool.tla
    tlc -config pool_recovery_exclusive.cfg MCDamruPool.tla
    tlc -config sync_threads.cfg MCDamruPoolSync.tla
    tlc -config device_sessions.cfg MCDeviceSession.tla
    tlc -config settings.cfg MCDeviceSettings.tla
    tlc -config pages.cfg MCPageOverrides.tla
    tlc -config firewall.cfg MCFirewall.tla
    tlc -config links.cfg MCHostLinks.tla
    tlc -config containers.cfg MCContainers.tla
    tlc -config panel.cfg MCControlPanel.tla

    tlapm DamruPool_proofs.tla
    tlapm DamruPoolSync_proofs.tla
    tlapm DeviceSession_proofs.tla
    tlapm DeviceSettings_proofs.tla
    tlapm Firewall_proofs.tla
    tlapm HostLinks_proofs.tla
    tlapm Containers_proofs.tla
    tlapm ControlPanel_proofs.tla
