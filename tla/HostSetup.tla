------------------------------ MODULE HostSetup ------------------------------
(***************************************************************************)
(* The host under Damru and the commands of `python -m damru` that prepare *)
(* it (cli.py, docker.py, apk_assets.py): install-deps, fix-wsl,           *)
(* install-image, install-apks, check-env, setup, wsl-kernel install and   *)
(* the worker commands.  Each runs in a process of its own, step by step,  *)
(* on one host; nothing keeps two of them apart.  The module has no        *)
(* specification: ControlPanel, whose jobs are these processes, adds the   *)
(* server that starts them.                                                *)
(***************************************************************************)
EXTENDS Naturals, FiniteSets, FiniteSetsExt

CONSTANTS Procs,     \* the command processes that can run at one time
          Workers,   \* NUM_DEVICES: workers have the numbers 0 .. Workers - 1
          Starts     \* where a user may start from: a host, the command that
                     \* already runs, if any, the backups of the settings,
                     \* and a bound on what may go wrong or interfere

VARIABLES host,    \* the host: kernel, packages, daemon, mounts, files, containers
          proc,    \* the command each process runs and where it is
          conf,    \* damru/config.py: the file, its backups, who is writing it
          orphan,  \* the shell script that outlived the command that started it
          luck     \* how much may still go wrong

hostVars == <<host, proc, conf, orphan, luck>>

Index == 0 .. Workers - 1

HostType ==
  [os: {"windows", "linux"},               \* Windows means WSL2
   user: {"root", "granted", "sudo"},      \* who runs Damru: see Reaches
   kernel: {"able", "bare"},               \* has binderfs and Docker's modules, or not
   boot: {"able", "bare"},                 \* the kernel the next WSL start boots
   pkgs: {"none", "engine", "all"},        \* nothing, Docker only, every package
   docker: BOOLEAN,
   binder: {"none", "empty", "populated"}, \* /dev/binderfs
   py: BOOLEAN,                            \* Python packages and patched Playwright
   image: BOOLEAN,                         \* REDROID_IMAGE is loaded
   tar: {"none", "cut", "other", "whole"}, \* damru-redroid-latest.tar
   zip: {"none", "cut", "whole"},          \* the archive of the APK bundle
   near: {"none", "partial", "whole"},     \* ./chrome-apks
   far: {"none", "partial", "whole"},      \* /home/damru/chrome-apks
   workers: [Index -> {"none", "stopped", "up"}]]

\* The settings: those of the settings form, CHROME_APK, and the user's own
\* (proxies and the like), which no form shows.
Text == [form: {"first", "saved", "setup", "absent"},
         apk: {"none", "far", "absent"},
         own: {"own", "absent"}]
Torn == [form |-> "absent", apk |-> "absent", own |-> "absent"]

ASSUME HostSetupAssumption ==
  /\ Workers \in Nat \ {0}
  /\ Procs # {} /\ "post" \notin Procs
  /\ Starts \subseteq [host : HostType, runs : STRING, kept : SUBSET Text, luck : Nat]
  /\ \A start \in Starts : start.host.os = "windows" => start.host.user = "root"

\* A process: apk is the CHROME_APK it imported when it started, text what it
\* read of the file, set what it is about to write into it.
NoProc == [cmd |-> "none", pc |-> "idle", todo |-> {}, apk |-> "none", text |-> Torn,
           set |-> [apk |-> "none"]]

\* The steps whose work a shell script or docker does, not the command itself.
ScriptSteps == {"packages", "runtime", "load"}

Unlucky == luck > 0 /\ luck' = luck - 1
To(p, pc) == proc' = [proc EXCEPT ![p].pc = pc]

\* A command that has installed everything ends; setup goes on to check the host.
Done(p) == IF proc[p].cmd = "setup" THEN "envcheck" ELSE "ok"

-----------------------------------------------------------------------------
(* What the scripts do to the host.                                         *)

\* Root, and so whatever runs in WSL, can do everything.  Another user reaches
\* Docker without sudo only when granted its socket.
Root(h) == h.user = "root"
Reaches(h) == h.docker /\ h.user # "sudo"

\* install-deps gives the user the socket; the group it adds the user to counts
\* only from the next login on.
Granted(h) == [h EXCEPT !.user = IF @ = "sudo" /\ h.docker THEN "granted" ELSE @]

\* docker starts through systemd, service, or by hand; without its netfilter
\* modules it starts in the fallback without bridge, which is enough to run.
StartDocker(h) == [h EXCEPT !.docker = @ \/ h.pkgs # "none"]

\* A restart kills the containers; on-failure:3 does not bring them back.
Stopped(ws) == [i \in Index |-> IF ws[i] = "up" THEN "stopped" ELSE ws[i]]
RestartDocker(h) ==
  IF h.docker THEN [h EXCEPT !.docker = FALSE, !.workers = Stopped(@)] ELSE h

MountBinder(h) ==
  IF h.binder = "none" /\ h.kernel = "able" THEN [h EXCEPT !.binder = "populated"] ELSE h

\* A mount without binder-control is taken away first.
Remount(h) ==
  IF h.binder = "populated" THEN h ELSE MountBinder([h EXCEPT !.binder = "none"])

\* The command line remounts only as root; RedroidManager puts sudo before its
\* script, which makes root of the first line alone.
RootRemount(h) == IF Root(h) THEN Remount(h) ELSE h

\* A daemon is restarted if the script sees it running.
Repaired(h, sees) == MountBinder(StartDocker(IF sees THEN RestartDocker(h) ELSE h))

\* linux-modules-extra, where the distribution has it, completes the kernel.
Installed(h) ==
  {[h EXCEPT !.pkgs = "all", !.kernel = k] :
     k \in {h.kernel} \union (IF h.os = "linux" THEN {"able"} ELSE {})}

\* The file may hold an image of another name.
Loaded(h) == IF Reaches(h) /\ h.tar = "whole" THEN [h EXCEPT !.image = TRUE] ELSE h

Effects(step, h) ==
  CASE step = "packages" -> Installed(h)
    [] step = "runtime"  -> {Repaired(h, sees) : sees \in BOOLEAN}
                              \union {Granted(Repaired(h, FALSE))}
    [] step = "load"     -> {Loaded(h)}
    [] OTHER             -> {h}

-----------------------------------------------------------------------------
(* The APK bundle: where it is looked for and whether it is complete.       *)

\* The bundle CHROME_APK names comes first, then the working directory, and
\* /home/damru last.
BundleRoot(h, apk) ==
  CASE apk = "far" /\ h.far # "none" -> h.far
    [] h.near # "none"               -> h.near
    [] OTHER                         -> h.far

ValidBundle(root) == root = "whole"

ChromeApksAvailable(h, apk) == ValidBundle(BundleRoot(h, apk))

-----------------------------------------------------------------------------
(* damru/config.py.  A writer reads the file, truncates it and fills it;    *)
(* writers do not exclude each other.  conf.wanted is what the file should  *)
(* hold by the writes that are complete; a backup has the text that was     *)
(* copied and what the file should have held then.  When writers            *)
(* overlapped, what they left is taken for wanted once the last has ended.  *)

Copies(texts) == {[text |-> t, meant |-> t] : t \in texts}

BeginWrite(c, w) ==
  [c EXCEPT !.writers = @ \union {w}, !.clash = @ \/ c.writers # {}]

EndWrite(c, w) ==
  LET left == c.writers \ {w}
      forgive == c.clash /\ left = {}
  IN  [c EXCEPT !.writers = left,
                !.wanted = IF forgive THEN c.file ELSE @,
                !.backups = IF forgive THEN Copies({b.text : b \in @}) ELSE @,
                !.clash = @ /\ left # {}]

Truncate(c) == [c EXCEPT !.file = Torn]

\* The text read before is written back with the updates in it.
Update(text, updates) ==
  [k \in DOMAIN text |-> IF k \in DOMAIN updates THEN updates[k] ELSE text[k]]

Fill(c, w, text, updates) ==
  EndWrite([c EXCEPT !.file = Update(text, updates), !.wanted = Update(@, updates)], w)

\* A writer that dies: if it had truncated the file, that is what is left.
Abort(c, w) ==
  IF w \in c.writers
  THEN EndWrite([c EXCEPT !.clash = @ \/ c.file = Torn], w)
  ELSE c

\* setup has read the values it writes back when it started, and counts as a
\* writer from then on.
ConfigRead(p) ==
  /\ proc[p].pc = "confread"
  /\ conf' = IF p \in conf.writers THEN conf ELSE BeginWrite(conf, p)
  /\ proc' = [proc EXCEPT ![p].pc = "truncate", ![p].text = conf.file]
  /\ UNCHANGED <<host, orphan, luck>>

ConfigTruncate(p) ==
  /\ proc[p].pc = "truncate"
  /\ conf' = Truncate(conf)
  /\ To(p, "fill")
  /\ UNCHANGED <<host, orphan, luck>>

\* setup goes on with the packages, or with --skip-deps to the check.
ConfigFill(p) ==
  /\ proc[p].pc = "fill"
  /\ conf' = Fill(conf, p, proc[p].text, proc[p].set)
  /\ \E next \in IF "form" \in DOMAIN proc[p].set THEN {"packages", "envcheck"} ELSE {Done(p)} :
        proc' = [proc EXCEPT ![p].pc = next, ![p].text = Torn]
  /\ UNCHANGED <<host, orphan, luck>>

-----------------------------------------------------------------------------
(* install-deps                                                             *)

AptBusy(p) == orphan = "packages" \/ \E q \in Procs \ {p} : proc[q].pc = "packages"

\* A failed apt ends the command only if a package is really missing.
Packages(p) ==
  /\ proc[p].pc = "packages"
  /\ \/ /\ ~AptBusy(p)
        /\ \E h \in Installed(host) : host' = h
        /\ To(p, "runtime") /\ UNCHANGED luck
     \/ /\ (AptBusy(p) /\ UNCHANGED luck) \/ Unlucky
        /\ To(p, IF host.pkgs = "all" THEN "verify" ELSE "failed")
        /\ UNCHANGED host
  /\ UNCHANGED <<conf, orphan>>

\* The rest of the script: Docker is restarted or started, binderfs mounted,
\* and the user granted the socket, if that works.  fix-wsl does the same with
\* sudo around all of it, remounts as well, and grants nothing.
Runtime(p) ==
  /\ proc[p].pc = "runtime"
  /\ \/ /\ proc[p].cmd = "fix-wsl"
        /\ host' = RootRemount(Repaired(host, TRUE)) /\ UNCHANGED luck
     \/ /\ proc[p].cmd # "fix-wsl"
        /\ LET h == Repaired(host, Reaches(host)) IN
           \/ host' = Granted(h) /\ UNCHANGED luck
           \/ host' = h /\ h # Granted(h) /\ Unlucky
  /\ To(p, "verify")
  /\ UNCHANGED <<conf, orphan>>

\* What is checked after the script, as the user: Docker that works only with
\* sudo has failed.  A conflict with another distribution, or a bridge without
\* internet, is bad luck.
Verify(p) ==
  /\ proc[p].pc = "verify"
  /\ \/ /\ Reaches(host) /\ host.binder = "populated"
        /\ To(p, IF proc[p].cmd = "fix-wsl" THEN "ok" ELSE "pip")
        /\ UNCHANGED luck
     \/ /\ \/ ~(Reaches(host) /\ host.binder = "populated") /\ UNCHANGED luck
           \/ host.os = "windows" /\ Unlucky
        /\ To(p, "failed")
  /\ UNCHANGED <<host, conf, orphan>>

\* The Python packages and the Playwright patch; then the assets: a local
\* image, or the APK bundle if there is neither image nor bundle.
Pip(p) ==
  /\ proc[p].pc = "pip"
  /\ \/ /\ host' = [host EXCEPT !.py = TRUE]
        /\ To(p, CASE Reaches(host) /\ host.image -> Done(p)
                   [] host.tar # "none"            -> "imagecheck"
                   [] OTHER                        -> "apkcheck")
        /\ UNCHANGED luck
     \/ Unlucky /\ To(p, "failed") /\ UNCHANGED host
  /\ UNCHANGED <<conf, orphan>>

-----------------------------------------------------------------------------
(* install-image and install-apks.  _download_file renames a complete .part *)
(* and does not compare lengths: a connection that ends early leaves a cut  *)
(* file under the final name, which is found and used from then on.         *)

ImageCheck(p) ==
  /\ proc[p].pc = "imagecheck"
  /\ To(p, CASE ~Reaches(host)                    -> "failed"
             [] Reaches(host) /\ host.tar # "none" -> "load"
             [] OTHER                              -> "tarload")
  /\ UNCHANGED <<host, conf, orphan, luck>>

DownloadTar(p) ==
  /\ proc[p].pc = "tarload"
  /\ \/ host' = [host EXCEPT !.tar = "whole"] /\ To(p, "load") /\ UNCHANGED luck
     \/ host' = [host EXCEPT !.tar = "cut"] /\ To(p, "load") /\ Unlucky
     \/ UNCHANGED host /\ To(p, "failed") /\ Unlucky
  /\ UNCHANGED <<conf, orphan>>

\* The checksum is only advisory; docker load fails on a cut file, and a file
\* with another image leaves this one missing.
LoadImage(p) ==
  /\ proc[p].pc = "load"
  /\ host' = Loaded(host)
  /\ To(p, IF Reaches(host) /\ host.tar # "cut" /\ host'.image THEN Done(p) ELSE "failed")
  /\ UNCHANGED <<conf, orphan, luck>>

\* The archive is looked for in the usual places, whole or not.
ZipFound == host.zip # "none"

ApkCheck(p) ==
  /\ proc[p].pc = "apkcheck"
  /\ To(p, CASE ChromeApksAvailable(host, proc[p].apk) -> Done(p)
             [] ~ChromeApksAvailable(host, proc[p].apk) /\ ZipFound -> "unpack"
             [] OTHER -> "zipload")
  /\ UNCHANGED <<host, conf, orphan, luck>>

\* It fails when the mirror fails too.
DownloadZip(p) ==
  /\ proc[p].pc = "zipload"
  /\ \/ host' = [host EXCEPT !.zip = "whole"] /\ To(p, "unpack") /\ UNCHANGED luck
     \/ host' = [host EXCEPT !.zip = "cut"] /\ To(p, "unpack") /\ Unlucky
     \/ UNCHANGED host /\ To(p, "failed") /\ Unlucky
  /\ UNCHANGED <<conf, orphan>>

Output == IF host.os = "windows" THEN "near" ELSE "far"

\* While the archive is being unpacked the bundle is incomplete.
Unpack(p) ==
  /\ proc[p].pc = "unpack"
  /\ IF host.zip = "whole"
     THEN host' = [host EXCEPT ![Output] = "partial"] /\ To(p, "unpacked")
     ELSE UNCHANGED host /\ To(p, "failed")
  /\ UNCHANGED <<conf, orphan, luck>>

\* /home/damru is not searched by default, so CHROME_APK is made to name it.
Unpacked(p) ==
  /\ proc[p].pc = "unpacked"
  /\ host' = [host EXCEPT ![Output] = "whole"]
  /\ proc' = [proc EXCEPT ![p].pc = IF Output = "far" THEN "confread" ELSE Done(p),
                          ![p].set = [apk |-> "far"]]
  /\ UNCHANGED <<conf, orphan, luck>>

-----------------------------------------------------------------------------
(* check-env and wsl-kernel install                                         *)

\* check-env mounts binderfs and patches Playwright on its way.
CheckEnv(p) ==
  /\ proc[p].pc = "envcheck"
  /\ host' = RootRemount(host)
  /\ To(p, IF /\ host'.pkgs = "all" /\ host'.py /\ Reaches(host') /\ host'.binder = "populated"
              /\ host'.image \/ ChromeApksAvailable(host', proc[p].apk)
           THEN "ok" ELSE "failed")
  /\ UNCHANGED <<conf, orphan, luck>>

\* The bundled kernel is written into .wslconfig; WSL boots it when it next
\* starts.
InstallKernel(p) ==
  /\ proc[p].pc = "kernel"
  /\ IF host.os = "windows"
     THEN host' = [host EXCEPT !.boot = "able"] /\ To(p, "ok")
     ELSE UNCHANGED host /\ To(p, "failed")
  /\ UNCHANGED <<conf, orphan, luck>>

-----------------------------------------------------------------------------
(* The worker commands: RedroidManager.check_docker, then the containers.   *)

\* check_docker remounts, starts the daemon and gives it half a minute; if it
\* is not there, or not in time, it installs Docker.
CheckDocker(p) ==
  /\ proc[p].pc = "docker"
  /\ host' = IF Root(host) THEN StartDocker(Remount(host)) ELSE host
  /\ \/ Reaches(host') /\ To(p, "list") /\ UNCHANGED luck
     \/ ~Reaches(host') /\ To(p, "engine") /\ UNCHANGED luck
     \/ ~host.docker /\ Reaches(host') /\ Unlucky /\ To(p, "engine")
  /\ UNCHANGED <<conf, orphan>>

\* The package starts the daemon.  The step after it is a compound command,
\* which sudo does not take: on native Linux the installation fails there.
InstallEngine(p) ==
  /\ proc[p].pc = "engine"
  /\ \/ /\ ~AptBusy(p)
        /\ host' = StartDocker([host EXCEPT !.pkgs = IF @ = "none" THEN "engine" ELSE @])
        /\ To(p, IF host.os = "windows" THEN "list" ELSE "failed") /\ UNCHANGED luck
     \/ /\ (AptBusy(p) /\ UNCHANGED luck) \/ Unlucky
        /\ To(p, "failed") /\ UNCHANGED host
  /\ UNCHANGED <<conf, orphan>>

\* More than one worker needs a populated binderfs.
MultiSupported(h, todo) == (\E i \in todo : i > 0) => h.binder = "populated"

InState(s) == {i \in Index : host.workers[i] = s}

\* The workers a command is about, from the containers it finds.  add takes a
\* stopped host-network worker again before a free number; the numbers end at
\* Workers, where it has nothing left to do.
Chosen(p) ==
  CASE proc[p].cmd = "start-workers"  -> {Index}
    [] proc[p].cmd = "resume-workers" -> {IF InState("none") = Index THEN Index ELSE InState("stopped")}
    [] proc[p].cmd = "add-worker"     ->
         IF InState("up") = Index THEN {{}}
         ELSE {{i} : i \in InState("stopped")} \union
              (IF InState("none") = {} THEN {} ELSE {{Min(InState("none"))}})
    [] OTHER                          -> {proc[p].todo}

List(p) ==
  /\ proc[p].pc = "list"
  /\ \E todo \in Chosen(p) :
       proc' = [proc EXCEPT ![p].todo = todo,
                  ![p].pc = IF MultiSupported(RootRemount(host), todo) THEN "workers" ELSE "failed"]
  /\ host' = IF Workers = 1 THEN host ELSE RootRemount(host)
  /\ UNCHANGED <<conf, orphan, luck>>

\* ensure_container, the next worker: the image is loaded from the tar, which
\* fails on a cut file; if there is no file, or it had another image, the base
\* image is pulled in its place.
NeedsPull(h) == Reaches(h) /\ ~h.image /\ h.tar \in {"none", "other"}

WithImage(h) ==
  IF NeedsPull(h)
  THEN {[h EXCEPT !.image = TRUE]} \union (IF luck > 0 THEN {h} ELSE {})
  ELSE {Loaded(h)}

Boots(h) == Reaches(h) /\ h.image /\ h.binder = "populated" /\ h.pkgs = "all"

EnsureWorker(p) ==
  /\ proc[p].pc = "workers"
  /\ IF proc[p].todo = {}
     THEN To(p, "ok") /\ UNCHANGED <<host, luck>>
     ELSE LET i == Min(proc[p].todo) IN
          \E h \in WithImage(host) :
             /\ luck' = IF NeedsPull(h) THEN luck - 1 ELSE luck
             /\ IF Boots(h)
                THEN /\ host' = [h EXCEPT !.workers[i] = "up"]
                     /\ proc' = [proc EXCEPT ![p].todo = @ \ {i}]
                ELSE host' = h /\ To(p, "failed")
  /\ UNCHANGED <<conf, orphan>>

\* pause and stop-all keep the containers, delete, delete-all and restart
\* remove them, running or not; a docker that does not answer is ignored.
Removed(ws, ids) == [i \in Index |-> IF i \in ids THEN "none" ELSE ws[i]]

StopWorkers(p) ==
  /\ proc[p].pc = "stop"
  /\ LET kept == proc[p].cmd \in {"stop-worker", "stop-workers"} IN
       /\ host' = IF ~Reaches(host) THEN host
                  ELSE [host EXCEPT !.workers =
                          IF kept THEN [i \in Index |-> IF i \in proc[p].todo THEN Stopped(@)[i] ELSE @[i]]
                          ELSE Removed(@, proc[p].todo)]
       /\ To(p, IF proc[p].cmd = "restart-worker" THEN "workers" ELSE "ok")
  /\ UNCHANGED <<conf, orphan, luck>>

-----------------------------------------------------------------------------
(* The commands                                                             *)

\* Where each command begins.
First(cmd) ==
  CASE cmd = "install-deps"       -> "packages"
    [] cmd = "fix-wsl"            -> "runtime"
    [] cmd = "install-image"      -> "imagecheck"
    [] cmd = "install-apks"       -> "apkcheck"
    [] cmd = "check-env"          -> "envcheck"
    [] cmd = "setup"              -> "confread"
    [] cmd = "wsl-kernel-install" -> "kernel"
    [] cmd \in {"start-workers", "resume-workers", "add-worker", "resume-worker"} -> "docker"
    [] OTHER                      -> "stop"

\* The workers a command names: one, or all there are.
Named(cmd) ==
  IF cmd \in {"resume-worker", "stop-worker", "delete-worker", "restart-worker"}
  THEN {{i} : i \in Index} ELSE {Index}

\* The process of a command, which imports the configuration.
Process(cmd, todo) ==
  [NoProc EXCEPT !.cmd = cmd, !.pc = First(cmd), !.todo = todo, !.apk = conf.file.apk,
     !.set = [form |-> "setup", apk |-> conf.file.apk]]

Ended(p) == proc[p].pc \in {"ok", "failed"}

Step(p) ==
  \/ Packages(p) \/ Runtime(p) \/ Verify(p) \/ Pip(p)
  \/ ImageCheck(p) \/ DownloadTar(p) \/ LoadImage(p)
  \/ ApkCheck(p) \/ DownloadZip(p) \/ Unpack(p) \/ Unpacked(p)
  \/ ConfigRead(p) \/ ConfigTruncate(p) \/ ConfigFill(p)
  \/ CheckEnv(p) \/ InstallKernel(p)
  \/ CheckDocker(p) \/ InstallEngine(p) \/ List(p) \/ EnsureWorker(p) \/ StopWorkers(p)

\* A script that outlived its command comes to its end.
OrphanEnds ==
  /\ orphan # "none"
  /\ \E h \in Effects(orphan, host) : host' = h
  /\ orphan' = "none"
  /\ UNCHANGED <<proc, conf, luck>>

\* WSL is shut down: it starts again with the kernel .wslconfig names, without
\* daemon, mount and running workers; the scripts in it end with it.
WslShutdown ==
  /\ host.os = "windows"
  /\ IF host.boot # host.kernel THEN UNCHANGED luck ELSE Unlucky
  /\ host' = [host EXCEPT !.kernel = host.boot, !.docker = FALSE, !.binder = "none",
                          !.workers = Stopped(@)]
  /\ orphan' = "none"
  /\ proc' = [p \in Procs |->
                IF proc[p].pc \in ScriptSteps THEN [proc[p] EXCEPT !.pc = "failed"] ELSE proc[p]]
  /\ UNCHANGED conf

HostInit ==
  LET text == [form |-> "first", apk |-> "none", own |-> "own"] IN
  \E start \in Starts : \E todo \in Named(start.runs) :
    LET p == CHOOSE q \in Procs : TRUE IN
    /\ host = start.host
    /\ luck = start.luck
    /\ conf = [file |-> text, wanted |-> text, backups |-> Copies(start.kept),
               writers |-> IF start.runs = "setup" THEN {p} ELSE {}, clash |-> FALSE]
    /\ proc = [q \in Procs |-> IF start.runs # "none" /\ q = p
                 THEN [NoProc EXCEPT !.cmd = start.runs, !.pc = First(start.runs), !.todo = todo,
                                     !.set = [form |-> "setup", apk |-> "none"]]
                 ELSE NoProc]
    /\ orphan = "none"
=============================================================================
