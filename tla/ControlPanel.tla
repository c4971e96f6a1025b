---------------------------- MODULE ControlPanel ----------------------------
(***************************************************************************)
(* The local control panel (ui/server.py): a threaded HTTP server that     *)
(* runs the commands of HostSetup as jobs, caches what it probes of the    *)
(* host, tells the user what to do next, and writes damru/config.py.       *)
(*                                                                         *)
(* The user follows the "next action" of the page until a worker runs.     *)
(* Jobs are threads and processes of their own; nothing stops a second one *)
(* while the first runs.  The cache is cleared when a job that changes the *)
(* host is added and when it has ended, under a lock that the probes which *)
(* fill it do not take.                                                    *)
(***************************************************************************)
EXTENDS HostSetup

VARIABLES job,      \* the job each process belongs to
          cache,    \* the cached probes
          health,   \* the request thread that builds the health of the host
          post,     \* the request thread that saves the settings
          ui        \* the settings module of the server, what the page shows

vars == <<hostVars, job, cache, health, post, ui>>
panelVars == <<job, cache, health, post, ui>>

None == "none"

\* PROBE_INVALIDATING_ACTIONS: every command here but the check.
Invalidating(cmd) == cmd \notin {"check-env", "setup"}

\* An entry, or a probe under way, is behind once a job that changes the host
\* has ended after it was made; clearing the cache settles that for the entries,
\* which go, and leaves the probes under way alone.
Keys == {"commands", "health"}

\* The checks are those of commands, host, apks and image, in the order in which
\* next_action looks at them; a list of checks stands for the first that fails.
NoEntry == [kept |-> FALSE, fails |-> None, behind |-> FALSE]
NoCache == [k \in Keys |-> NoEntry]
NoJob == [status |-> "free", cmd |-> None, todo |-> {}, listed |-> FALSE]
NoHealth == [pc |-> "idle", fresh |-> FALSE, fails |-> None, behind |-> FALSE]

-----------------------------------------------------------------------------
(* Probes and the cache                                                     *)

\* A mutant: Docker is looked at before the packages.
DaemonFirst(fails) ==
  CASE fails \in {"commands", "host"} -> "fix-wsl"
    [] fails = "apks"                 -> "install-apks"
    [] fails = "image"                -> "install-image"
    [] OTHER                          -> "workers"

\* The first failing check names the next action; Python, internet and viewer
\* do not count.
NextAction(fails) ==
  CASE fails = "commands" -> "install-deps"
    [] fails = "host"     -> "fix-wsl"
    [] fails = "apks"     -> "install-apks"
    [] fails = "image"    -> "install-image"
    [] OTHER              -> "workers"

\* clear_probe_cache: the entries go, the probes under way do not know.
ClearProbes ==
  /\ cache' = NoCache
  /\ health' = [health EXCEPT !.behind = FALSE]

Outdate ==
  /\ cache' = [k \in Keys |-> [cache[k] EXCEPT !.behind = cache[k].kept]]
  /\ health' = [health EXCEPT !.behind = health.pc # "idle"]

\* An entry lives for its ttl.
Expire(k) ==
  /\ cache[k].kept
  /\ cache' = [cache EXCEPT ![k] = NoEntry]
  /\ UNCHANGED <<hostVars, job, health, post, ui>>

\* The packages are asked for in one script.
CommandStatuses == IF host.pkgs = "all" THEN None ELSE "commands"

\* GET /api/health: cached_value serves the entry or lets the builder run.  The
\* packages come from a cached_value of their own, with a longer ttl: from its
\* entry, or freshly probed and still to be stored.
HealthBegin ==
  /\ health.pc = "idle"
  /\ LET entry == cache["commands"] IN
     IF cache["health"].kept
     THEN /\ ui' = [ui EXCEPT !.view = NextAction(cache["health"].fails)]
          /\ UNCHANGED health
     ELSE /\ health' = IF entry.kept
                       THEN [pc |-> "probes", fresh |-> FALSE, fails |-> entry.fails,
                             behind |-> entry.behind]
                       ELSE [pc |-> "probes", fresh |-> TRUE, behind |-> FALSE,
                             fails |-> CommandStatuses]
          /\ UNCHANGED ui
  /\ UNCHANGED <<hostVars, job, cache, post>>

\* A fresh probe of the packages is stored.  Then Docker, the mount (not its
\* nodes) and the APK bundle, found by the settings module of this process, are
\* probed at the same time, and the image if Docker has answered.
HealthProbes ==
  /\ health.pc = "probes"
  /\ cache' = IF health.fresh
              THEN [cache EXCEPT !["commands"] =
                      [kept |-> TRUE, fails |-> health.fails, behind |-> health.behind]]
              ELSE cache
  /\ LET up == Reaches(host) /\ host.binder # "none"
         apks == ChromeApksAvailable(host, ui.apk)
     IN  health' = [health EXCEPT !.pc = "store", !.fresh = FALSE,
           !.fails = CASE @ # None                            -> @
                       [] @ = None /\ ~up                     -> "host"
                       [] @ = None /\ up /\ ~apks             -> "apks"
                       [] @ = None /\ up /\ apks /\ ~host.image -> "image"
                       [] OTHER                               -> None]
  /\ UNCHANGED <<hostVars, job, post, ui>>

HealthStore ==
  /\ health.pc = "store"
  /\ cache' = [cache EXCEPT !["health"] = [kept |-> TRUE, fails |-> health.fails, behind |-> health.behind]]
  /\ ui' = [ui EXCEPT !.view = NextAction(health.fails)]
  /\ health' = NoHealth
  /\ UNCHANGED <<hostVars, job, post>>

-----------------------------------------------------------------------------
(* Jobs                                                                     *)

FirstFree(p) ==
  /\ job[p].status = "free"
  /\ p = CHOOSE q \in Procs : job[q].status = "free"

\* POST /api/jobs/run: the job is listed as queued, and its thread is started.
AddJob(p, cmd) ==
  /\ FirstFree(p)
  /\ \E todo \in Named(cmd) :
       job' = [job EXCEPT ![p] = [status |-> "queued", cmd |-> cmd, todo |-> todo, listed |-> TRUE]]
  /\ IF Invalidating(cmd) THEN ClearProbes ELSE UNCHANGED <<cache, health>>

\* The thread starts the command.
RunJob(p) ==
  /\ job[p].status = "queued"
  /\ job' = [job EXCEPT ![p].status = "running"]
  /\ proc' = [proc EXCEPT ![p] = Process(job[p].cmd, job[p].todo)]
  /\ UNCHANGED <<host, conf, orphan, luck, cache, health, post, ui>>

\* The command has returned, and the job shows success or failure.
EndJob(p) ==
  /\ job[p].status = "running" /\ Ended(p)
  /\ job' = [job EXCEPT ![p].status = "ended"]
  /\ IF Invalidating(job[p].cmd) THEN Outdate ELSE UNCHANGED <<cache, health>>
  /\ ui' = [ui EXCEPT !.hint = \/ @
                                  \/ /\ job[p].cmd = "fix-wsl" /\ proc[p].pc = "failed"
                                     /\ host.os = "windows"]
  /\ UNCHANGED <<hostVars, post>>

\* A mutant: the cache is only cleared when the job is added.
FinishUncleared(p) ==
  /\ job[p].status = "ended"
  /\ job' = [job EXCEPT ![p] = NoJob]
  /\ proc' = [proc EXCEPT ![p] = NoProc]
  /\ UNCHANGED <<host, conf, orphan, luck, cache, health, post, ui>>

\* The finally clause: the cache is cleared again.
FinishJob(p) ==
  /\ job[p].status = "ended"
  /\ IF Invalidating(job[p].cmd) THEN ClearProbes ELSE UNCHANGED <<cache, health>>
  /\ job' = [job EXCEPT ![p] = NoJob]
  /\ proc' = [proc EXCEPT ![p] = NoProc]
  /\ UNCHANGED <<host, conf, orphan, luck, post, ui>>

\* COMMAND_TIMEOUTS: the command is killed; a script it had started goes on
\* without it.
TimeOut(p) ==
  /\ job[p].status = "running" /\ ~Ended(p) /\ Unlucky
  /\ To(p, "failed")
  /\ orphan' = IF orphan = "none" /\ proc[p].pc \in ScriptSteps THEN proc[p].pc ELSE orphan
  /\ conf' = Abort(conf, p)
  /\ UNCHANGED <<host, job, cache, health, post, ui>>

\* POST /api/jobs/clear also takes the jobs that are still queued off the list.
ClearJobs ==
  /\ \E p \in Procs : job[p].status = "queued" /\ job[p].listed
  /\ Unlucky
  /\ job' = [p \in Procs |->
               IF job[p].status = "queued" THEN [job[p] EXCEPT !.listed = FALSE] ELSE job[p]]
  /\ UNCHANGED <<host, proc, conf, orphan, cache, health, post, ui>>

-----------------------------------------------------------------------------
(* The users                                                                *)

Working == \E i \in Index : host.workers[i] = "up"

\* What the page tells to do.  After a failed repair on Windows its output says
\* to install the bundled kernel as well; "workers" opens the Workers page,
\* which has a button to start workers and one to add one.
Advice ==
  CASE ui.view = "fix-wsl" /\ ui.hint /\ host.boot = "bare" -> {"wsl-kernel-install"}
    [] ui.view = "workers"                                 -> {"resume-workers", "add-worker"}
    [] OTHER                                               -> {ui.view}

\* The user follows the page as long as it lists no active job.
Follow(p) ==
  /\ ui.view # None /\ ~Working
  /\ \A q \in Procs : job[q].status \in {"queued", "running"} => ~job[q].listed
  /\ \E cmd \in Advice : AddJob(p, cmd)
  /\ UNCHANGED <<hostVars, post, ui>>

\* POST /api/config: the file is copied, then rewritten.  The form holds the
\* settings of the server's module, CHROME_APK among them.
PostBackup ==
  /\ post = "idle" /\ Unlucky
  /\ conf' = [BeginWrite(conf, "post") EXCEPT
                !.backups = @ \union {[text |-> conf.file, meant |-> conf.wanted]}]
  /\ post' = "read"
  /\ UNCHANGED <<host, proc, orphan, job, cache, health, ui>>

\* A mutant: the file is opened for writing before it is read.
PostReadLate ==
  /\ post = "read"
  /\ post' = "truncate"
  /\ ui' = [ui EXCEPT !.text = Torn]
  /\ UNCHANGED <<hostVars, job, cache, health>>

PostRead ==
  /\ post = "read"
  /\ post' = "truncate"
  /\ ui' = [ui EXCEPT !.text = conf.file]
  /\ UNCHANGED <<hostVars, job, cache, health>>

PostTruncate ==
  /\ post = "truncate"
  /\ conf' = Truncate(conf)
  /\ post' = "fill"
  /\ UNCHANGED <<host, proc, orphan, luck, job, cache, health, ui>>

\* Filled, and the module reloaded; a name the file lacks keeps its old value.
Reloaded(text) == IF text.apk = "absent" THEN ui.apk ELSE text.apk

PostFill ==
  /\ post = "fill"
  /\ conf' = Fill(conf, "post", ui.text, [form |-> "saved", apk |-> ui.apk])
  /\ ui' = [ui EXCEPT !.apk = Reloaded(conf'.file), !.text = Torn]
  /\ post' = "idle"
  /\ UNCHANGED <<host, proc, orphan, luck, job, cache, health>>

\* POST /api/config/restore: the backup the page names, the newest it has seen,
\* or without a name the newest there is, is copied back, and the module
\* reloaded.  Any backup may be the newest that a page has seen.  Restores are
\* bounded with what may go wrong.
Restore ==
  /\ Unlucky
  /\ \E b \in conf.backups :
       /\ conf' = [conf EXCEPT !.file = b.text, !.wanted = b.meant,
                     !.clash = @ \/ conf.writers # {}]
       /\ ui' = [ui EXCEPT !.apk = Reloaded(b.text)]
  /\ UNCHANGED <<host, proc, orphan, job, cache, health, post>>

-----------------------------------------------------------------------------
Panel ==
  \/ \E k \in Keys : Expire(k)
  \/ HealthBegin \/ HealthProbes \/ HealthStore
  \/ \E p \in Procs : RunJob(p) \/ EndJob(p) \/ FinishJob(p) \/ TimeOut(p)
                      \/ Follow(p)
  \/ ClearJobs
  \/ PostBackup \/ PostRead \/ PostTruncate \/ PostFill \/ Restore

Commands ==
  /\ \/ \E p \in Procs : Step(p)
     \/ OrphanEnds
     \/ WslShutdown
  /\ UNCHANGED panelVars

Init ==
  /\ HostInit
  /\ job = [p \in Procs |-> [NoJob EXCEPT !.status = IF proc[p] = NoProc THEN "free" ELSE "running",
                                         !.cmd = proc[p].cmd]]
  /\ cache = NoCache
  /\ health = NoHealth
  /\ post = "idle"
  /\ ui = [view |-> None, hint |-> FALSE, apk |-> conf.file.apk, text |-> Torn]

Next == Panel \/ Commands

\* Threads, processes and orphaned scripts run on; entries expire; the page
\* polls; the user keeps following it, and restarts WSL when a kernel waits.
Fairness ==
  /\ \A p \in Procs : WF_vars(\/ Step(p) /\ UNCHANGED panelVars
                              \/ RunJob(p) \/ EndJob(p) \/ FinishJob(p))
  /\ WF_vars(\E p \in Procs : Follow(p))
  /\ \A k \in Keys : WF_vars(Expire(k))
  /\ WF_vars(HealthBegin \/ HealthProbes \/ HealthStore)
  /\ WF_vars(\/ OrphanEnds /\ UNCHANGED panelVars
             \/ host.boot # host.kernel /\ WslShutdown /\ UNCHANGED panelVars)

Spec == Init /\ [][Next]_vars /\ Fairness

-----------------------------------------------------------------------------
(* Properties                                                               *)

\* A check that is served from the cache was not made before a job ended,
\* unless the job is about to clear the cache or the check was being made when
\* it was cleared (add_job, _run_job, cached_value).
NoStaleCheck ==
  \A k \in Keys : cache[k].behind =>
     \E p \in Procs : job[p].status = "ended"

\* When nobody is writing the configuration it holds, setting by setting, what
\* was last saved or restored - unless writers overlapped or one was killed
\* between truncating the file and filling it (_write_config, the backup and
\* restore of the settings page).
ConfigKept == conf.writers = {} => conf.file = conf.wanted

\* The dead ends of the setup: an image file that is cut short or holds another
\* image, or an archive cut short, is found and used again for ever; a host
\* kernel without modules whose packages are there is only told to repair
\* Docker, and so is a user who reaches Docker only with sudo; a mount without
\* devices counts as mounted, and only root takes it away; and an incomplete
\* bundle in the working directory hides the complete one from a server that
\* does not know CHROME_APK yet.
UselessTar == host.tar \in {"cut", "other"} /\ ~host.image
CutZip == host.zip = "cut"
NoModules == host.os = "linux" /\ host.kernel = "bare" /\ host.pkgs = "all"
NoAccess == host.user = "sudo" /\ host.pkgs = "all"
StrayMount == ~Root(host) /\ host.binder = "empty"
HiddenBundle == host.near = "partial" /\ host.os = "linux" /\ ui.apk # "far"
DeadEnd == UselessTar \/ CutZip \/ NoModules \/ NoAccess \/ StrayMount \/ HiddenBundle

\* A user who follows the page comes to a running worker, whatever goes wrong a
\* finite number of times on the way - jobs that fail, time out or overlap,
\* WSL shut down, checks that are out of date - or ends in one of the dead
\* ends above (next_action and the commands it names).
PageLeadsToWork == <>Working \/ <>[]DeadEnd
=============================================================================
