----------------------------- MODULE Containers -----------------------------
(***************************************************************************)
(* RedroidManager and the opening of an auto-mode pool: the containers of  *)
(* the workers, the one image they are created from, and the tasks that    *)
(* inspect, start, equip and recreate them, over several processes that    *)
(* open a pool one after another and find what the last one left.          *)
(*                                                                         *)
(* A step is what a task does between two awaits that change a container   *)
(* or the image.  The waits for the touch screen and for DNS only log when *)
(* they time out, so they are no steps; _should_use_host_network is always *)
(* false, and the branches under it are left out.                          *)
(***************************************************************************)
EXTENDS Naturals, FiniteSets

CONSTANTS
    Worker,        \* the container indices
    None,          \* no such image
    Bundles,       \* what find_chrome_apk may find in each process
    HalModes,      \* whether a process has the sensor HAL switched on
    Images,        \* what the registry or the image archive may hold
    Lost,          \* the docker and adb questions whose answer may be lost
    MaxFaults,     \* bound on the crashes and lost answers
    MaxFailures,   \* config.MAX_SLOT_FAILURES
    MaxOpens       \* bound on the pools that are opened

Question == {"state", "image", "hal", "chrome"}

(* A directory of split APKs, one APK of Chrome alone, or nothing.         *)
Bundle == {"split", "single", "nothing"}

(* Of the base image, of the directory, of the single APK.                 *)
ChromeVersion == {"base", "split", "single", "none"}
WebVersion    == {"base", "split"}

(* What the properties remember of a root file system: installations that  *)
(* were broken off in it and not made good since ("hal", "web", and        *)
(* "before" if another process broke it off), a session that ran on it     *)
(* while its slot was not in service ("early"), and that it was used and   *)
(* not seen, or not seen to have the HAL ("unseen").                       *)
Mark == {"hal", "web", "before", "early", "unseen"}

(* A root file system: the HAL's files, the traces of sessions, the two    *)
(* packages, and its marks.                                                *)
Rootfs == [hal : BOOLEAN, used : BOOLEAN, chrome : ChromeVersion,
           web : WebVersion, marks : SUBSET Mark]

Raw   == [hal |-> FALSE, used |-> FALSE, chrome |-> "none", web |-> "base", marks |-> {}]
Old   == [Raw EXCEPT !.chrome = "base"]
Baked == [Old EXCEPT !.hal = TRUE]

ASSUME ContainersAssumption ==
    /\ Bundles \in [1..MaxOpens -> SUBSET Bundle]
    /\ HalModes \subseteq BOOLEAN /\ HalModes # {}
    /\ Images \subseteq {Raw, Old, Baked} /\ None \notin Rootfs
    /\ Lost \subseteq Question
    /\ MaxFaults \in Nat /\ MaxFailures \in Nat /\ MaxOpens \in Nat

VARIABLES
    pool,      \* "closed", "opening", "open" or "failed"
    opens,     \* the pools opened so far
    halOn,     \* the HAL is switched on in this process
    bundle,    \* what this process has to install Chrome from
    faults,    \* the crashes and lost answers so far
    image,     \* REDROID_IMAGE, or None
    state,     \* each container's state; "ill" is up without package service
    fs,        \* its root file system
    active,    \* it was booted with the HAL's files in place
    pc,        \* where each worker's task is
    fresh,     \* the task is inside start_container
    tries,     \* the failed attempts of installing Chrome
    restarts   \* DeviceSlot.restart_count

poolVars == <<pool, opens, halOn, bundle>>
contVars == <<state, fs, active>>
taskData == <<fresh, tries, restarts>>
vars == <<poolVars, image, contVars, pc, taskData, faults>>

States == {"none", "up", "ill", "down", "sigint", "looping"}

InstallPC == {"webview", "package", "single"}
TaskPC    == {"inspect", "boot", "hal", "install", "commit", "remove",
              "image", "pull", "run", "version", "root"} \cup InstallPC

MaxTries == 3

TypeOK ==
    /\ pool \in {"closed", "opening", "open", "failed"}
    /\ opens \in 0..MaxOpens /\ halOn \in BOOLEAN /\ bundle \in Bundle
    /\ faults \in 0..MaxFaults
    /\ image \in Rootfs \cup {None}
    /\ state \in [Worker -> States]
    /\ fs \in [Worker -> Rootfs]
    /\ active \in [Worker -> BOOLEAN]
    /\ pc \in [Worker -> {"off", "ensured", "slot", "dead"} \cup TaskPC]
    /\ fresh \in [Worker -> BOOLEAN]
    /\ tries \in [Worker -> 0..MaxTries - 1]
    /\ restarts \in [Worker -> 0..MaxFailures]

Init ==
    /\ pool = "closed" /\ opens = 0 /\ faults = 0
    /\ halOn \in HalModes /\ bundle = "nothing"
    /\ image = None
    /\ state = [w \in Worker |-> "none"]
    /\ fs = [w \in Worker |-> Raw]
    /\ active = [w \in Worker |-> FALSE]
    /\ pc = [w \in Worker |-> "off"]
    /\ fresh = [w \in Worker |-> FALSE]
    /\ tries = [w \in Worker |-> 0]
    /\ restarts = [w \in Worker |-> 0]

(* A question is answered truthfully, or its answer is lost: then it is    *)
(* the empty string, which reads as no.                                    *)
Answers(q, truth, answer) ==
    \/ answer = truth /\ UNCHANGED faults
    \/ /\ truth /\ ~answer /\ q \in Lost
       /\ faults < MaxFaults /\ faults' = faults + 1

Goto(w, l) == pc' = [pc EXCEPT ![w] = l]

Marked(rootfs, what) == [rootfs EXCEPT !.marks = @ \cup what]

(* The container runs and takes commands; Android answers as well.         *)
Runs(w) == state[w] \in {"up", "ill"}

(* docker rm -f.                                                           *)
RemoveContainer(w) ==
    /\ state' = [state EXCEPT ![w] = "none"]
    /\ fs' = [fs EXCEPT ![w] = Raw]
    /\ active' = [active EXCEPT ![w] = FALSE]

(* The same, its failure ignored.  A container that stays may have the HAL *)
(* and not have booted with it.                                            *)
Discard(w) ==
    \/ RemoveContainer(w)
    \/ /\ fs' = [fs EXCEPT ![w] = Marked(@, IF @.hal /\ ~active[w] THEN {"hal"} ELSE {})]
       /\ UNCHANGED <<state, active>>

(* docker start, or the daemon's restart policy.  The HAL starts with the  *)
(* container.                                                              *)
Boots(w) ==
    /\ state' = [state EXCEPT ![w] = "up"]
    /\ active' = [active EXCEPT ![w] = fs[w].hal]
    /\ fs' = [fs EXCEPT ![w].marks = @ \ {"hal"}]

(* docker run.                                                             *)
Created(w, s) ==
    /\ image # None
    /\ state' = [state EXCEPT ![w] = s]
    /\ fs' = [fs EXCEPT ![w] = image]
    /\ active' = [active EXCEPT ![w] = image.hal]

(* The task raises.  A pool that is opening fails with the first task that *)
(* raises, while the other tasks of the gather go on; a recovery leaves    *)
(* its slot dead.                                                          *)
Raise(w) ==
    /\ Goto(w, IF pool = "open" THEN "dead" ELSE "off")
    /\ pool' = IF pool = "open" THEN "open" ELSE "failed"
    /\ fresh' = [fresh EXCEPT ![w] = FALSE]
    /\ tries' = [tries EXCEPT ![w] = 0]
    /\ UNCHANGED <<opens, halOn, bundle, restarts>>

(* The same while the container is ensured: start_container removes it.    *)
RaiseEnsuring(w) ==
    /\ Raise(w)
    /\ IF fresh[w] THEN Discard(w) ELSE UNCHANGED contVars

-----------------------------------------------------------------------------
(* A process opens a pool.                                                 *)

(* What an earlier process broke off is remembered as such.                *)
Open ==
    /\ pool = "closed" /\ opens < MaxOpens
    /\ pool' = "opening" /\ opens' = opens + 1
    /\ halOn' \in HalModes /\ bundle' \in Bundles[opens']
    /\ pc' = [w \in Worker |-> "inspect"]
    /\ fs' = [w \in Worker |->
                 IF "web" \in fs[w].marks
                 THEN [fs[w] EXCEPT !.marks = (@ \ {"web"}) \cup {"before"}]
                 ELSE fs[w]]
    /\ UNCHANGED <<image, state, active, taskData, faults>>

(* The container was used and goes unseen.                                 *)
Unseen(w) == IF fs[w].used THEN {"unseen"} ELSE {}

(* Mutant: a container that was stopped is removed.                        *)
InspectRemovingStopped(w) ==
    /\ pc[w] = "inspect"
    /\ IF Runs(w)
       THEN Goto(w, "boot") /\ UNCHANGED <<contVars, fresh>>
       ELSE /\ RemoveContainer(w) /\ Goto(w, "image")
            /\ fresh' = [fresh EXCEPT ![w] = TRUE]
    /\ UNCHANGED <<poolVars, image, tries, restarts, faults>>

(* ensure_container: a running container is used as it is, a stopped one   *)
(* is started, one stopped by a SIGINT is removed; any other state, an     *)
(* unknown one included, leads to start_container.                         *)
Inspect(w) ==
    /\ pc[w] = "inspect"
    /\ \E known \in BOOLEAN :
          /\ Answers("state", state[w] \notin {"none", "looping"}, known)
          /\ \/ /\ ~known
                /\ Goto(w, "image")
                /\ fs' = [fs EXCEPT ![w] = Marked(@, Unseen(w))]
                /\ UNCHANGED <<state, active>>
             \/ /\ known /\ Runs(w)
                /\ Goto(w, "boot")
                /\ UNCHANGED contVars
             \/ /\ known /\ state[w] = "down"
                /\ Goto(w, "boot")
                /\ Boots(w) \/ UNCHANGED contVars
             \/ /\ known /\ state[w] = "sigint"
                /\ Goto(w, "image")
                /\ Discard(w)
    /\ fresh' = [fresh EXCEPT ![w] = pc'[w] = "image"]
    /\ UNCHANGED <<poolVars, image, tries, restarts>>

(* The boot is awaited, then the package service.  In an old container the *)
(* lack of the latter leads to restart_container.                          *)
Boot(w) ==
    /\ pc[w] = "boot"
    /\ \/ /\ state[w] = "up"
          /\ Goto(w, "hal")
          /\ UNCHANGED <<poolVars, contVars, taskData>>
       \/ /\ state[w] = "ill" /\ ~fresh[w]
          /\ Discard(w)
          /\ Goto(w, "image")
          /\ fresh' = [fresh EXCEPT ![w] = TRUE]
          /\ UNCHANGED <<poolVars, tries, restarts>>
       \/ RaiseEnsuring(w)
    /\ UNCHANGED <<image, faults>>

(* The first step of an installation of Chrome.                            *)
Installation == IF bundle = "single" THEN "single" ELSE "webview"

Equipped(w) ==
    IF pool # "open" THEN "ensured"
    ELSE IF bundle = "nothing" THEN "slot" ELSE Installation

(* Mutant: the HAL is installed anew in every container that is reused.    *)
ProbeReinstalling(w) ==
    /\ pc[w] = "hal"
    /\ Goto(w, IF halOn /\ ~(fresh[w] /\ fs[w].hal) THEN "install" ELSE Equipped(w))
    /\ UNCHANGED <<poolVars, image, contVars, taskData, faults>>

(* _ensure_sensor_hal: nothing to do if the HAL is off or its files are    *)
(* seen, which they are not in a container that does not run.  A recovery  *)
(* goes on to install Chrome from what there is.                           *)
Probe(w) ==
    /\ pc[w] = "hal"
    /\ \E present \in BOOLEAN :
          /\ Answers("hal", fs[w].hal /\ Runs(w), present)
          /\ \/ /\ halOn /\ ~present
                /\ Goto(w, "install")
                /\ fs' = [fs EXCEPT ![w] = Marked(@, IF @.hal THEN Unseen(w) ELSE {})]
                /\ UNCHANGED fresh
             \/ /\ ~halOn \/ present
                /\ Goto(w, Equipped(w))
                /\ fresh' = [fresh EXCEPT ![w] = FALSE]
                /\ UNCHANGED fs
    /\ UNCHANGED <<poolVars, image, state, active, tries, restarts>>

(* The HAL's files are copied; the container is still the one that booted  *)
(* without them.  An error may come before or after they are all there.    *)
Install(w) ==
    /\ pc[w] = "install"
    /\ \/ /\ Runs(w)
          /\ fs' = [fs EXCEPT ![w].hal = TRUE]
          /\ Goto(w, "commit")
          /\ UNCHANGED <<poolVars, state, active, taskData>>
       \/ RaiseEnsuring(w)
       \/ /\ Runs(w) /\ ~fresh[w] /\ Raise(w)
          /\ fs' = [fs EXCEPT ![w] = Marked([@ EXCEPT !.hal = TRUE], {"hal"})]
          /\ UNCHANGED <<state, active>>
    /\ UNCHANGED <<image, faults>>

(* Mutant: the container is recreated from the image as it was.            *)
CommitSkipped(w) ==
    /\ pc[w] = "commit"
    /\ Goto(w, "remove")
    /\ UNCHANGED <<poolVars, image, contVars, taskData, faults>>

(* docker commit: the whole container becomes the image of all workers.    *)
(* One that times out may still have made it.                              *)
Commit(w) ==
    /\ pc[w] = "commit"
    /\ \/ /\ image' = fs[w]
          /\ Goto(w, "remove")
          /\ UNCHANGED <<poolVars, contVars, taskData>>
       \/ /\ image' \in {image, fs[w]}
          /\ fresh[w] /\ RaiseEnsuring(w)
       \/ /\ image' \in {image, fs[w]}
          /\ ~fresh[w] /\ Raise(w)
          /\ fs' = [fs EXCEPT ![w] = Marked(@, {"hal"})]
          /\ UNCHANGED <<state, active>>
    /\ UNCHANGED faults

Remove(w) ==
    /\ pc[w] = "remove"
    /\ Discard(w)
    /\ Goto(w, "image")
    /\ fresh' = [fresh EXCEPT ![w] = TRUE]
    /\ UNCHANGED <<poolVars, image, tries, restarts, faults>>

-----------------------------------------------------------------------------
(* start_container.                                                        *)

EnsureImage(w) ==
    /\ pc[w] = "image"
    /\ \E present \in BOOLEAN :
          /\ Answers("image", image # None, present)
          /\ Goto(w, IF present THEN "run" ELSE "pull")
    /\ UNCHANGED <<poolVars, image, contVars, taskData>>

(* The tar file is loaded, or the base image is pulled and tagged, over    *)
(* what is by now tagged so.                                               *)
Pull(w) ==
    /\ pc[w] = "pull"
    /\ \/ /\ image' \in Images
          /\ Goto(w, "run")
          /\ UNCHANGED <<poolVars, taskData>>
       \/ /\ image' \in Images \cup {image}
          /\ Raise(w)
    /\ UNCHANGED <<contVars, faults>>

(* docker rm -f, docker run, which fails if the old container is still     *)
(* there.  If it fails or times out, nothing removes what it created.      *)
Run(w) ==
    /\ pc[w] = "run"
    /\ \/ /\ Created(w, "up")
          /\ Goto(w, "boot")
          /\ UNCHANGED <<poolVars, taskData>>
       \/ /\ Raise(w)
          /\ \/ RemoveContainer(w) \/ UNCHANGED contVars
             \/ Created(w, "up") \/ Created(w, "down")
    /\ UNCHANGED <<image, faults>>

-----------------------------------------------------------------------------
(* _init_auto: all containers first, then the slots.                       *)

AllEnsured ==
    /\ pool = "opening" /\ \A w \in Worker : pc[w] = "ensured"
    /\ pc' = [w \in Worker |-> "version"]
    /\ UNCHANGED <<poolVars, image, contVars, taskData, faults>>

(* Mutant: a worker without Chrome is left without it.                     *)
VersionUnheeded(w) ==
    /\ pc[w] = "version"
    /\ Goto(w, "root")
    /\ UNCHANGED <<poolVars, image, contVars, taskData, faults>>

(* The code keeps whatever version is installed; two workers at a time     *)
(* install one.                                                            *)
Version(w) ==
    /\ pc[w] = "version"
    /\ \E installed \in BOOLEAN :
          /\ Answers("chrome", fs[w].chrome # "none" /\ state[w] = "up", installed)
          /\ \/ /\ installed
                /\ Goto(w, "root")
                /\ UNCHANGED <<poolVars, taskData>>
             \/ /\ ~installed /\ bundle # "nothing"
                /\ Cardinality({v \in Worker : pc[v] \in InstallPC}) < 2
                /\ Goto(w, Installation)
                /\ UNCHANGED <<poolVars, taskData>>
             \/ /\ ~installed /\ bundle = "nothing"
                /\ Raise(w)
    /\ UNCHANGED <<image, contVars>>

(* An installation fails: a pool that opens tries three times in all.      *)
InstallFails(w) ==
    IF pool # "open" /\ tries[w] < MaxTries - 1
    THEN /\ tries' = [tries EXCEPT ![w] = @ + 1]
         /\ Goto(w, Installation)
         /\ UNCHANGED <<poolVars, fresh, restarts>>
    ELSE Raise(w)

Installed(w) ==
    /\ Goto(w, IF pool = "open" THEN "slot" ELSE "root")
    /\ tries' = [tries EXCEPT ![w] = 0]
    /\ UNCHANGED <<poolVars, fresh, restarts>>

(* install_chrome with a directory: the system WebView is replaced and the *)
(* container restarted.                                                    *)
ReplaceWebView(w) ==
    /\ pc[w] = "webview"
    /\ \/ /\ state[w] = "up"
          /\ active' = [active EXCEPT ![w] = fs[w].hal]
          /\ fs' = [fs EXCEPT ![w].web = "split", ![w].marks = @ \ {"hal"}]
          /\ Goto(w, "package")
          /\ UNCHANGED <<poolVars, taskData>>
       \/ /\ InstallFails(w)
          /\ \/ /\ state[w] = "up"
                /\ fs' = [fs EXCEPT ![w] = Marked([@ EXCEPT !.web = "split"], {"web"})]
             \/ UNCHANGED fs
          /\ UNCHANGED active
    /\ UNCHANGED <<image, state, faults>>

(* Mutant: Chrome's packages are only installed where there is no Chrome.  *)
InstallPackageOnce(w) ==
    /\ pc[w] = "package"
    /\ fs' = [fs EXCEPT ![w].chrome = IF @ = "none" THEN "split" ELSE @,
                        ![w].marks = @ \ {"web", "before"}]
    /\ Installed(w)
    /\ UNCHANGED <<image, state, active, faults>>

(* Then Chrome's packages are installed, and the versions compared.        *)
InstallPackage(w) ==
    /\ pc[w] = "package"
    /\ \/ /\ state[w] = "up"
          /\ fs' = [fs EXCEPT ![w].chrome = "split", ![w].marks = @ \ {"web", "before"}]
          /\ Installed(w)
       \/ /\ InstallFails(w)
          /\ \E version \in {fs[w].chrome, "split"} :
                fs' = [fs EXCEPT ![w] = Marked([@ EXCEPT !.chrome = version], {"web"})]
    /\ UNCHANGED <<image, state, active, faults>>

(* install_chrome with a single APK: Chrome and nothing else.              *)
InstallSingle(w) ==
    /\ pc[w] = "single"
    /\ \/ /\ state[w] = "up"
          /\ fs' = [fs EXCEPT ![w].chrome = "single"]
          /\ Installed(w) \/ InstallFails(w)
       \/ InstallFails(w) /\ UNCHANGED fs
    /\ UNCHANGED <<image, state, active, faults>>

CheckRoot(w) ==
    /\ pc[w] = "root"
    /\ \/ /\ Runs(w)
          /\ Goto(w, "slot")
          /\ UNCHANGED <<poolVars, taskData>>
       \/ Raise(w)
    /\ UNCHANGED <<image, contVars, faults>>

Opened ==
    /\ pool = "opening" /\ \A w \in Worker : pc[w] = "slot"
    /\ pool' = "open"
    /\ UNCHANGED <<opens, halOn, bundle, image, contVars, pc, taskData, faults>>

-----------------------------------------------------------------------------
(* The open pool, and the world around it.                                 *)

(* A session runs on the container.  A slot can be acquired while it is    *)
(* recovered, and is held when the recovery has failed.                    *)
UseSlot(w) ==
    /\ pool = "open" /\ state[w] = "up"
    /\ fs' = [fs EXCEPT ![w] = Marked([@ EXCEPT !.used = TRUE],
                                      IF pc[w] = "slot" THEN {} ELSE {"early"})]
    /\ UNCHANGED <<poolVars, image, state, active, pc, taskData, faults>>

(* _recover_slot, one slot at a time: restart_container, up to the limit.  *)
Recover(w) ==
    /\ pool = "open" /\ pc[w] = "slot"
    /\ \A v \in Worker : pc[v] \in {"slot", "dead"}
    /\ \/ /\ restarts[w] < MaxFailures
          /\ restarts' = [restarts EXCEPT ![w] = @ + 1]
          /\ Discard(w)
          /\ Goto(w, "image")
          /\ fresh' = [fresh EXCEPT ![w] = TRUE]
       \/ /\ restarts[w] = MaxFailures
          /\ Goto(w, "dead")
          /\ UNCHANGED <<contVars, fresh, restarts>>
    /\ UNCHANGED <<poolVars, image, tries, faults>>

(* A container stops, by itself, with the machine or by a SIGINT, or loses *)
(* its package service; the daemon restarts one that crashed.              *)
Crash(w) ==
    /\ state[w] = "up"
    /\ faults < MaxFaults /\ faults' = faults + 1
    /\ \E s \in {"down", "sigint", "looping", "ill"} : state' = [state EXCEPT ![w] = s]
    /\ UNCHANGED <<poolVars, image, fs, active, pc, taskData>>

DaemonRestarts(w) ==
    /\ state[w] = "looping"
    /\ Boots(w)
    /\ UNCHANGED <<poolVars, image, pc, taskData, faults>>

(* The pool is closed, or the process ends wherever its tasks are.  The    *)
(* containers stay.                                                        *)
Close ==
    /\ pool # "closed"
    /\ pool' = "closed"
    /\ pc' = [w \in Worker |-> "off"]
    /\ fs' = [w \in Worker |->
                 CASE pc[w] \in {"commit", "remove"} -> Marked(fs[w], {"hal"})
                   [] pc[w] = "package" -> Marked(fs[w], {"web"})
                   [] OTHER -> fs[w]]
    /\ fresh' = [w \in Worker |-> FALSE]
    /\ tries' = [w \in Worker |-> 0]
    /\ restarts' = [w \in Worker |-> 0]
    /\ UNCHANGED <<opens, halOn, bundle, image, state, active, faults>>

TaskStep(w) ==
    \/ Inspect(w) \/ Boot(w) \/ Probe(w) \/ Install(w) \/ Commit(w) \/ Remove(w)
    \/ EnsureImage(w) \/ Pull(w) \/ Run(w)
    \/ Version(w) \/ ReplaceWebView(w) \/ InstallPackage(w) \/ InstallSingle(w)
    \/ CheckRoot(w)

Next ==
    \/ Open \/ AllEnsured \/ Opened \/ Close
    \/ \E w \in Worker : TaskStep(w) \/ UseSlot(w) \/ Recover(w)
                         \/ Crash(w) \/ DaemonRestarts(w)

(* Every command has a timeout, so the tasks and the gather go on.         *)
Fairness ==
    /\ \A w \in Worker : WF_vars(TaskStep(w))
    /\ WF_vars(AllEnsured) /\ WF_vars(Opened)

Spec == Init /\ [][Next]_vars /\ Fairness

-----------------------------------------------------------------------------
(* Properties.                                                             *)

InService(w) == pool = "open" /\ pc[w] = "slot"

(* The image, from which containers are recreated because they are         *)
(* believed clean (DeviceSession's Recreate), holds traces of a session    *)
(* only if a used container was not seen to exist or to have the HAL, or a *)
(* session had been let onto a slot that was out of service.               *)
ImageClean == image # None /\ image.used => image.marks \cap {"unseen", "early"} # {}

(* A slot in service has the HAL and a Chrome, whatever state an earlier   *)
(* process, a crash or another worker's commit left behind; a recovery     *)
(* that has nothing to install Chrome from does without.                   *)
SlotsEquipped ==
    \A w \in Worker : InService(w) =>
        /\ fs[w].hal
        /\ fs[w].chrome # "none" \/ (bundle = "nothing" /\ restarts[w] > 0)

(* It was booted with the HAL it has, unless the installation of the HAL   *)
(* was broken off in this very container.                                  *)
HalActive ==
    \A w \in Worker : InService(w) => active[w] \/ "hal" \in fs[w].marks

(* Its Chrome and WebView are of one version, unless Chrome came from a    *)
(* single APK or an earlier process broke an installation off: whatever    *)
(* fails in this process is made good before the slot is in service.       *)
VersionsAligned ==
    \A w \in Worker : InService(w) =>
        fs[w].chrome \in {fs[w].web, "single", "none"} \/ "before" \in fs[w].marks

KeepsData ==
    \A w \in Worker : fs[w].used /\ ~fs'[w].used =>
          \/ pool = "open" /\ (Recover(w) \/ pc[w] \in TaskPC)
          \/ state[w] \in {"ill", "sigint"}
          \/ fs[w].marks \cap {"unseen", "early"} # {}

(* What sessions left in a container is deleted by nothing but a recovery, *)
(* unless the container is found without package service or stopped by a   *)
(* SIGINT, was not seen to exist or to have the HAL, or was used out of    *)
(* service: one that runs or was stopped is used again.                    *)
DataKept == [][KeepsData]_vars

(* A pool that is being opened is open or has failed at last: reinstalling *)
(* and recreating come to an end.                                          *)
EveryOpenEnds == pool = "opening" ~> pool # "opening"
=============================================================================
