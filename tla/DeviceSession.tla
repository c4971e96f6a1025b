---------------------------- MODULE DeviceSession ----------------------------
(***************************************************************************)
(* AsyncDamru.__aenter__ and __aexit__ against the state of one Android    *)
(* device, for sessions that use the device one after another (what the    *)
(* pool's slots guarantee).                                                *)
(*                                                                         *)
(* A step is the work between two awaits that change the device.  A        *)
(* session may be cut at any of them: by the pool's timeout, an error,     *)
(* cancellation or the end of the process.  Settings every session writes  *)
(* unconditionally (properties, screen, proxy, cores) are one variable.    *)
(***************************************************************************)
EXTENDS Naturals

CONSTANTS
    Profile,       \* device profiles; a profile also names its GPU and memory
    NoMemory,      \* the profiles without a positive memory (none in the catalogue)
    Orig,          \* what the device has of itself
    None,          \* no such file
    NativeGpu,     \* the profile whose GPU the device has, or Orig
    HasConfigs,    \* which devices: with (MuMu), without (Redroid) renderer.config
    Lost,          \* the adb exchanges whose answer or effect may be lost
    MaxSessions    \* bound on the sessions

Exchange == {"backup", "marker", "library", "config", "wrap", "stop", "clear"}

ASSUME DeviceAssumption ==
    /\ MaxSessions \in Nat
    /\ HasConfigs \subseteq BOOLEAN
    /\ Lost \subseteq Exchange
    /\ NoMemory \subseteq Profile
    /\ Orig \notin Profile /\ None \notin Profile \cup {Orig}
    /\ NativeGpu \in Profile \cup {Orig}

VARIABLES
    hasConfig,     \* the device has /system/etc/mumu-configs/renderer.config
    config,        \* the profile entered in renderer.config, Orig for none
    configBackup,  \* damru_renderer_orig.config
    lib,           \* vulkan.pastel.so; None on a device with renderer.config
    libBackup,     \* damru_vk_pastel_orig.so
    marker,        \* the profile named in damru_gpu_binary_spoof.json
    loaded,        \* the library SurfaceFlinger and zygote have loaded
    wrap,          \* wrap.<package> preloads libfakemem.so
    target,        \* the memory target file, None if absent
    sys,           \* the session whose properties, screen, proxy, cores are set
    prefs,         \* Chrome's Preferences exist
    flags,         \* the session that wrote Chrome's command line
    data,          \* the sessions whose browsing data is on the device
    chrome,        \* the running Chrome and what it was launched with
    sess,          \* the number of the session, 0 before the first
    prof,          \* its profile
    warm,          \* warm_start
    spoofed,       \* RootOps._gpu_spoofed
    skipped,       \* the GPU spoof was given up with a warning
    tries,         \* launch attempts that found no DevTools socket
    pc,            \* the next step of the session
    leftover       \* an earlier cut left a driver file changed (for the properties)

gpuVars  == <<hasConfig, config, configBackup, lib, libBackup, marker, loaded>>
envVars  == <<wrap, target, sys>>
appVars  == <<prefs, flags, data, chrome>>
sessVars == <<sess, prof, warm, spoofed, skipped, tries>>
vars     == <<hasConfig, config, configBackup, lib, libBackup, marker, loaded,
              wrap, target, sys, prefs, flags, data, chrome,
              sess, prof, warm, spoofed, skipped, tries, pc, leftover>>

Sessions == 1..MaxSessions

MaxLaunches == 3

ConfigPC  == {"cfgBackup", "cfgWrite", "cfgFlag"}
LibraryPC == {"marker", "libBackup", "patch", "mark", "reload"}
SetupPC   == {"detect", "system", "preload", "target", "probe", "gpu"}
             \cup ConfigPC \cup LibraryPC
             \cup {"adb", "write", "launch", "socket", "connect", "overrides"}

Off == [owner |-> 0, gpu |-> Orig, mem |-> Orig, sys |-> 0, flags |-> 0]

File == Profile \cup {Orig, None}

Browser == [owner : Sessions, gpu : Profile \cup {Orig}, mem : Profile \cup {Orig},
            sys : Sessions, flags : Sessions]

DriverTypeOK ==
    /\ config \in Profile \cup {Orig} /\ configBackup \in File
    /\ lib \in File /\ libBackup \in File /\ loaded \in File
    /\ marker \in Profile \cup {None} /\ target \in Profile \cup {None}

FlagTypeOK ==
    /\ hasConfig \in HasConfigs /\ hasConfig = (lib = None)
    /\ wrap \in BOOLEAN /\ prefs \in BOOLEAN
    /\ warm \in BOOLEAN /\ spoofed \in BOOLEAN /\ skipped \in BOOLEAN
    /\ leftover \in BOOLEAN

SessionTypeOK ==
    /\ sess \in 0..MaxSessions /\ sys \in 0..MaxSessions /\ flags \in 0..MaxSessions
    /\ prof \in Profile
    /\ tries \in 0..MaxLaunches - 1
    /\ pc \in {"idle", "user", "exit", "restore"} \cup SetupPC

ChromeTypeOK == data \subseteq Sessions /\ chrome \in Browser \cup {Off}

TypeOK == DriverTypeOK /\ FlagTypeOK /\ SessionTypeOK /\ ChromeTypeOK

Init ==
    /\ hasConfig \in HasConfigs
    /\ config = Orig /\ configBackup = None
    /\ lib = (IF hasConfig THEN None ELSE Orig) /\ loaded = lib
    /\ libBackup = None /\ marker = None
    /\ wrap = FALSE /\ target = None /\ sys = 0
    /\ prefs = FALSE /\ flags = 0 /\ data = {} /\ chrome = Off
    /\ sess = 0 /\ prof \in Profile
    /\ warm = FALSE /\ spoofed = FALSE /\ skipped = FALSE /\ tries = 0
    /\ pc = "idle" /\ leftover = FALSE

(* What a yes-or-no question asked with allow_failure may be answered: a   *)
(* lost answer is the empty string, which reads as no.                     *)
Answers(x, truth) == IF x \in Lost THEN {truth, FALSE} ELSE {truth}

-----------------------------------------------------------------------------
(* Phases 1 and 2: a new AsyncDamru on the device; the system settings.    *)

Begin ==
    /\ pc = "idle" /\ sess < MaxSessions
    /\ sess' = sess + 1
    /\ prof' \in Profile
    /\ spoofed' = FALSE /\ skipped' = FALSE /\ tries' = 0
    /\ pc' = "detect"
    /\ UNCHANGED <<gpuVars, envVars, appVars, warm, leftover>>

(* Warm if Chrome has Preferences, unless a cold start is forced or the    *)
(* answer is lost.                                                         *)
Detect ==
    /\ pc = "detect"
    /\ warm' \in {prefs, FALSE}
    /\ pc' = "system"
    /\ UNCHANGED <<gpuVars, envVars, appVars, sess, prof, spoofed, skipped, tries, leftover>>

ApplySystem ==
    /\ pc = "system"
    /\ sys' = sess
    /\ pc' = "preload"
    /\ UNCHANGED <<gpuVars, wrap, target, appVars, sessVars, leftover>>

(* _memory_spoof: the preload is set up unless it is active; a failure is  *)
(* only logged.  It leaves the property as it was, unless the answer to    *)
(* setprop or getprop was what failed.                                     *)
SetupPreload ==
    /\ pc = "preload"
    /\ \E active \in Answers("wrap", wrap) :
          \/ /\ active
             /\ pc' = "target"
             /\ UNCHANGED wrap
          \/ /\ ~active
             /\ \/ pc' = "target" /\ wrap' = TRUE
                \/ pc' = "probe" /\ wrap' \in (IF "wrap" \in Lost THEN {wrap, TRUE} ELSE {wrap})
    /\ UNCHANGED <<gpuVars, target, sys, appVars, sessVars, leftover>>

(* Mutant: the target is written once per device.                         *)
ApplyTargetOnce ==
    /\ pc = "target"
    /\ target' = IF target = None /\ prof \notin NoMemory THEN prof ELSE target
    /\ pc' = "probe"
    /\ UNCHANGED <<gpuVars, wrap, sys, appVars, sessVars, leftover>>

(* The memory of the profile becomes the target, if it is positive.        *)
ApplyTarget ==
    /\ pc = "target"
    /\ target' = IF prof \in NoMemory THEN target ELSE prof
    /\ pc' = "probe"
    /\ UNCHANGED <<gpuVars, wrap, sys, appVars, sessVars, leftover>>

(* The memory preload only affects a fresh Chrome: warm becomes cold, if   *)
(* the profile has a memory to show.                                       *)
ColdIfPreloaded ==
    /\ pc = "probe"
    /\ \E active \in Answers("wrap", wrap) : warm' = (warm /\ (active => prof \in NoMemory))
    /\ pc' = "gpu"
    /\ UNCHANGED <<gpuVars, envVars, appVars, sess, prof, spoofed, skipped, tries, leftover>>

-----------------------------------------------------------------------------
(* Phase 3: the GPU, through renderer.config or by patching the library.   *)

ChooseGpu ==
    /\ pc = "gpu"
    /\ \E patched \in Answers("library", lib = prof), found \in Answers("config", hasConfig) :
          pc' = IF warm /\ patched THEN "adb" ELSE IF found THEN "cfgBackup" ELSE "marker"
    /\ UNCHANGED <<gpuVars, envVars, appVars, sessVars, leftover>>

(* apply_gpu_spoof: gives up if it does not see the file; one backup, ever. *)
BackupConfig ==
    /\ pc = "cfgBackup"
    /\ \E seen \in Answers("config", TRUE), found \in Answers("backup", configBackup # None) :
          /\ configBackup' = IF found \/ ~seen THEN configBackup ELSE config
          /\ skipped' = ~seen
          /\ pc' = IF seen THEN "cfgWrite" ELSE "adb"
    /\ UNCHANGED <<hasConfig, config, lib, libBackup, marker, loaded, envVars, appVars,
                   sess, prof, warm, spoofed, tries, leftover>>

(* A profile the device matches natively needs no entry.                   *)
WriteConfig ==
    /\ pc = "cfgWrite"
    /\ IF prof = NativeGpu
       THEN /\ spoofed' = TRUE /\ pc' = "adb"
            /\ UNCHANGED config
       ELSE /\ config' = prof /\ pc' = "cfgFlag"
            /\ UNCHANGED spoofed
    /\ UNCHANGED <<hasConfig, configBackup, lib, libBackup, marker, loaded,
                   envVars, appVars, sess, prof, warm, skipped, tries, leftover>>

FlagConfig ==
    /\ pc = "cfgFlag"
    /\ spoofed' = TRUE
    /\ leftover' = FALSE
    /\ pc' = "adb"
    /\ UNCHANGED <<gpuVars, envVars, appVars, sess, prof, warm, skipped, tries>>

(* An exception of apply_gpu_spoof falls back to the binary patch.         *)
ConfigFails ==
    /\ pc \in ConfigPC
    /\ leftover' = (leftover \/ config # Orig)
    /\ pc' = "marker"
    /\ UNCHANGED <<gpuVars, envVars, appVars, sessVars>>

(* Mutant: a marker of any profile counts.                                 *)
AnyMarker(m) == m # None

MarkerMatches(m) == m = prof

(* apply_gpu_binary_spoof: nothing to do if the marker names the profile;  *)
(* without the library the spoof is given up.                              *)
ReadMarker ==
    /\ pc = "marker"
    /\ \E present \in Answers("library", lib # None),
          matches \in Answers("marker", MarkerMatches(marker)) :
          /\ skipped' = ~present
          /\ pc' = IF present /\ ~matches THEN "libBackup" ELSE "adb"
    /\ UNCHANGED <<gpuVars, envVars, appVars, sess, prof, warm, spoofed, tries, leftover>>

(* Mutant: the backup is taken anew for every patch.                       *)
BackupLibAlways ==
    /\ pc = "libBackup"
    /\ libBackup' = lib
    /\ pc' = "patch"
    /\ UNCHANGED <<hasConfig, config, configBackup, lib, marker, loaded,
                   envVars, appVars, sessVars, leftover>>

BackupLib ==
    /\ pc = "libBackup"
    /\ \E found \in Answers("backup", libBackup # None) :
          libBackup' = IF found THEN libBackup ELSE lib
    /\ pc' = "patch"
    /\ UNCHANGED <<hasConfig, config, configBackup, lib, marker, loaded,
                   envVars, appVars, sessVars, leftover>>

(* _binary_patch_so patches what it pulls from the backup.  In a library   *)
(* that is patched already it finds nothing to replace.                    *)
Patch ==
    /\ pc = "patch"
    /\ IF libBackup = Orig
       THEN lib' = prof /\ pc' = "mark" /\ UNCHANGED skipped
       ELSE skipped' = TRUE /\ pc' = "adb" /\ UNCHANGED lib
    /\ UNCHANGED <<hasConfig, config, configBackup, libBackup, marker, loaded,
                   envVars, appVars, sess, prof, warm, spoofed, tries, leftover>>

Mark ==
    /\ pc = "mark"
    /\ marker' = prof
    /\ pc' = "reload"
    /\ UNCHANGED <<hasConfig, config, configBackup, lib, libBackup, loaded,
                   envVars, appVars, sessVars, leftover>>

(* SurfaceFlinger restarts, and with it zygote and every app.              *)
Reload ==
    /\ pc = "reload"
    /\ loaded' = lib
    /\ chrome' = Off
    /\ leftover' = FALSE
    /\ pc' = "adb"
    /\ UNCHANGED <<hasConfig, config, configBackup, lib, libBackup, marker,
                   envVars, prefs, flags, data, sessVars>>

-----------------------------------------------------------------------------
(* Phase 4: Chrome is prepared, launched and connected to.                 *)

(* force_stop takes effect unless the command is lost.                     *)
StopChrome ==
    \E done \in Answers("stop", TRUE) : chrome' = IF done THEN Off ELSE chrome

(* Mutant: Chrome runs on through the cleanup.                             *)
PrepStopSkipped ==
    /\ pc = "adb"
    /\ pc' = "write"
    /\ UNCHANGED <<gpuVars, envVars, appVars, sessVars, leftover>>

(* _wait_adb_ready, then _chrome_prep begins.                              *)
PrepStop ==
    /\ pc = "adb"
    /\ StopChrome
    /\ pc' = "write"
    /\ UNCHANGED <<gpuVars, envVars, prefs, flags, data, sessVars, leftover>>

(* Mutant: a warm start cleans nothing.                                    *)
PrepWriteKeepingData ==
    /\ pc = "write"
    /\ data' = IF warm THEN data ELSE {chrome.owner} \ {0}
    /\ prefs' = TRUE /\ flags' = sess
    /\ pc' = "launch"
    /\ UNCHANGED <<gpuVars, envVars, chrome, sessVars, leftover>>

(* targeted_cleanup or pm clear, then the command line and Preferences.  A *)
(* Chrome that still runs writes its data again.                           *)
PrepWrite ==
    /\ pc = "write"
    /\ \E cleared \in Answers("clear", TRUE) :
          data' = IF warm \/ cleared THEN {chrome.owner} \ {0} ELSE data
    /\ prefs' = TRUE /\ flags' = sess
    /\ pc' = "launch"
    /\ UNCHANGED <<gpuVars, envVars, chrome, sessVars, leftover>>

(* What a Chrome that starts now finds on the device.                      *)
Renderer ==
    IF ~hasConfig THEN loaded ELSE IF config = Orig THEN NativeGpu ELSE config

Memory == IF wrap /\ target # None THEN target ELSE Orig

(* am start brings a Chrome that runs to the front and starts none.        *)
Launch ==
    /\ pc = "launch"
    /\ chrome' = IF chrome # Off THEN chrome
                 ELSE [owner |-> sess, gpu |-> Renderer, mem |-> Memory,
                       sys |-> sys, flags |-> flags]
    /\ data' = data \cup {chrome'.owner}
    /\ pc' = "socket"
    /\ UNCHANGED <<gpuVars, envVars, prefs, flags, sessVars, leftover>>

(* Mutant: the launches are not counted.                                   *)
AwaitSocketForever ==
    /\ pc = "socket"
    /\ \/ pc' = "connect" /\ UNCHANGED chrome
       \/ pc' = "launch" /\ StopChrome
    /\ UNCHANGED <<gpuVars, envVars, prefs, flags, data, sessVars, leftover>>

(* The DevTools socket appears; or it does not, and Chrome is stopped and  *)
(* launched again, up to the third attempt, after which the connection is  *)
(* tried anyway.  Chrome may have died by then.                            *)
AwaitSocket ==
    /\ pc = "socket"
    /\ \/ /\ pc' = "connect"
          /\ UNCHANGED <<chrome, tries>>
       \/ /\ tries < MaxLaunches - 1
          /\ tries' = tries + 1
          /\ StopChrome
          /\ pc' = "launch"
       \/ /\ tries = MaxLaunches - 1
          /\ chrome' = Off
          /\ pc' = "connect"
          /\ UNCHANGED tries
    /\ UNCHANGED <<gpuVars, envVars, prefs, flags, data,
                   sess, prof, warm, spoofed, skipped, leftover>>

(* remove_gpu_spoof: only what this session spoofed; an error is logged,   *)
(* before or after the original was put back.                              *)
RemoveGpuSpoof ==
    \/ /\ spoofed /\ configBackup # None
       /\ config' = configBackup /\ configBackup' = None
       /\ spoofed' = FALSE /\ leftover' = FALSE
    \/ /\ spoofed /\ configBackup # None
       /\ config' \in {config, configBackup} /\ UNCHANGED <<configBackup, spoofed>>
       /\ leftover' = (leftover \/ config' # Orig)
    \/ /\ ~(spoofed /\ configBackup # None)
       /\ spoofed' = FALSE
       /\ UNCHANGED <<config, configBackup, leftover>>

(* Mutant: a Chrome that never answered is handed to the caller.           *)
ConnectAnyway ==
    /\ pc = "connect"
    /\ pc' = "overrides"
    /\ UNCHANGED <<gpuVars, envVars, appVars, sessVars, leftover>>

(* Root hardening (each part is skipped after three failures), the port    *)
(* forward and connect_over_cdp.  If that fails the GPU spoof is removed   *)
(* and the error raised: the pool's handler calls __aexit__, nobody else.  *)
Connect ==
    /\ pc = "connect"
    /\ \/ /\ chrome # Off
          /\ pc' = "overrides"
          /\ UNCHANGED <<config, configBackup, spoofed, leftover>>
       \/ /\ RemoveGpuSpoof
          /\ pc' \in {"exit", "idle"}
    /\ UNCHANGED <<hasConfig, lib, libBackup, marker, loaded, envVars, appVars,
                   sess, prof, warm, skipped, tries>>

(* Phase 5: the geo sync and the CDP overrides.                            *)
Override ==
    /\ pc = "overrides"
    /\ pc' = "user"
    /\ UNCHANGED <<gpuVars, envVars, appVars, sessVars, leftover>>

-----------------------------------------------------------------------------
(* The caller's block, and __aexit__.                                      *)

UserEnds ==
    /\ pc = "user"
    /\ pc' = "exit"
    /\ UNCHANGED <<gpuVars, envVars, appVars, sessVars, leftover>>

(* The background tasks end, CDP is detached, Chrome is stopped unless it  *)
(* is to be kept.                                                          *)
ExitStop ==
    /\ pc = "exit"
    /\ \/ StopChrome
       \/ UNCHANGED chrome
    /\ pc' = "restore"
    /\ UNCHANGED <<gpuVars, envVars, prefs, flags, data, sessVars, leftover>>

ExitRestore ==
    /\ pc = "restore"
    /\ RemoveGpuSpoof
    /\ pc' = "idle"
    /\ UNCHANGED <<hasConfig, lib, libBackup, marker, loaded, envVars, appVars,
                   sess, prof, warm, skipped, tries>>

(* The session is cut: its setup by an error or the pool's timeout, after  *)
(* which __aexit__ is called; or anything by cancellation or the end of    *)
(* the process.  Recorded: a driver file is changed and nothing says so.   *)
Cut ==
    /\ \/ pc \in SetupPC /\ pc' \in {"exit", "idle"}
       \/ pc \in {"user", "exit", "restore"} /\ pc' = "idle"
    /\ leftover' = \/ leftover
                   \/ config # Orig
                   \/ pc \in {"mark", "reload"}
    /\ UNCHANGED <<gpuVars, envVars, appVars, sessVars>>

(* The container or the instance restarts between sessions; files stay.    *)
Restart ==
    /\ pc = "idle"
    /\ chrome' = Off /\ wrap' = FALSE /\ sys' = 0 /\ loaded' = lib
    /\ UNCHANGED <<hasConfig, config, configBackup, lib, libBackup, marker,
                   target, prefs, flags, data, sessVars, pc, leftover>>

(* The pool's recovery removes a Redroid container and creates it again    *)
(* from its image, with nothing of the old one.                            *)
Recreate ==
    /\ pc = "idle" /\ ~hasConfig
    /\ lib' = Orig /\ libBackup' = None /\ marker' = None /\ loaded' = Orig
    /\ wrap' = FALSE /\ target' = None /\ sys' = 0
    /\ prefs' = FALSE /\ flags' = 0 /\ data' = {} /\ chrome' = Off
    /\ leftover' = FALSE
    /\ UNCHANGED <<hasConfig, config, configBackup, sessVars, pc>>

Step ==
    \/ Detect \/ ApplySystem \/ SetupPreload \/ ApplyTarget \/ ColdIfPreloaded
    \/ ChooseGpu \/ BackupConfig \/ WriteConfig \/ FlagConfig \/ ConfigFails
    \/ ReadMarker \/ BackupLib \/ Patch \/ Mark \/ Reload
    \/ PrepStop \/ PrepWrite \/ Launch \/ AwaitSocket \/ Connect \/ Override
    \/ ExitStop \/ ExitRestore

Next == Begin \/ Step \/ UserEnds \/ Cut \/ Restart \/ Recreate

(* Every await of the setup and of __aexit__ has a timeout of its own; the *)
(* caller's block and new sessions are the caller's.                       *)
Spec == Init /\ [][Next]_vars /\ WF_vars(Step)

-----------------------------------------------------------------------------
(* Properties.                                                             *)

(* A backup, where there is one, is the original: what a session patches   *)
(* from and restores to never carries an earlier session's spoof.          *)
BackupPristine ==
    libBackup \in {None, Orig} /\ configBackup \in {None, Orig}

(* The Chrome the caller gets shows the GPU of its profile, unless the log *)
(* says the spoof was given up.                                            *)
GpuAsProfiled == pc = "user" /\ ~skipped => chrome.gpu = prof

(* The same, as long as no earlier session was cut with a driver file      *)
(* changed that no later one has rewritten.                                *)
GpuUnlessLeftover == leftover \/ GpuAsProfiled

(* The marker is believed across sessions and restarts: outside the patch  *)
(* itself it names the library on disk and the one that is loaded.         *)
MarkerTruthful ==
    pc \notin {"mark", "reload"} /\ ~leftover /\ marker # None =>
        lib = marker /\ loaded = marker

(* The memory Chrome reports is its profile's or, as the log says when the *)
(* preload cannot be set up, the device's; never an earlier profile's.     *)
(* Where the profile has none to show, an earlier session's target stays.  *)
MemoryProfiledOrNative ==
    pc = "user" /\ prof \notin NoMemory => chrome.mem \in {prof, Orig}

(* The caller's Chrome was launched by its own session, after that session *)
(* wrote the settings and the command line it read.                        *)
ChromeIsFresh ==
    pc = "user" => chrome.owner = sess /\ chrome.sys = sess /\ chrome.flags = sess

(* No earlier session's browsing data is there for the caller's Chrome,    *)
(* although a warm start keeps its directory and an earlier Chrome may     *)
(* have been left running.                                                 *)
NoDataCarriedOver == pc = "user" => data = {sess}

(* Between sessions renderer.config is the original, unless a cut or a     *)
(* failing cleanup left it changed.                                        *)
ConfigRestored == pc = "idle" /\ ~leftover => config = Orig

(* What the proofs need besides: the steps of a session up to a point.     *)
DriverPC == {"adb", "write", "launch", "socket", "connect", "overrides", "user"}
ChromePC == {"socket", "connect", "overrides", "user"}

(* Nothing is changed before it is backed up.                              *)
BackedUp ==
    /\ libBackup = None => lib \in {Orig, None}
    /\ configBackup = None => config = Orig
    /\ pc \in {"patch", "mark", "reload"} => libBackup # None
    /\ pc \in {"cfgWrite", "cfgFlag"} => configBackup # None

(* Where the paths of the two kinds of device lead.                        *)
PathOK ==
    /\ pc \in ConfigPC \/ config # Orig \/ configBackup # None => hasConfig
    /\ lib = None => marker = None
    /\ lib = None <=> loaded = None
    /\ pc \in {"libBackup", "patch", "mark", "reload"} => lib # None
    /\ pc \in {"mark", "reload"} => lib = prof
    /\ pc = "reload" => marker = prof
    /\ pc = "cfgFlag" => config = prof

(* Without a leftover, the library on disk is the loaded one, and an entry *)
(* in renderer.config is the work of this session, which will remove it.   *)
NothingHidden ==
    ~leftover =>
        /\ pc \notin {"mark", "reload"} => loaded = lib
        /\ config # Orig => \/ pc = "cfgFlag"
                            \/ spoofed /\ pc \in {"exit", "restore"} \cup DriverPC

(* Once the GPU is dealt with, what a new Chrome will find is the profile. *)
GpuReady == pc \in DriverPC /\ ~leftover /\ ~skipped => Renderer = prof

MemoryReady ==
    pc \in {"probe", "gpu"} \cup ConfigPC \cup LibraryPC \cup DriverPC =>
        prof \in NoMemory \/ Memory \in {prof, Orig}

(* From the launch on nothing Chrome has read changes.                     *)
ChromeAsFound ==
    /\ pc \in (SetupPC \ {"detect", "system"}) \cup {"user"} => sys = sess
    /\ pc \in {"launch"} \cup ChromePC => flags = sess
    /\ pc \in {"write", "launch"} => chrome = Off
    /\ pc \in ChromePC /\ chrome # Off =>
          chrome = [owner |-> sess, gpu |-> Renderer, mem |-> Memory,
                    sys |-> sys, flags |-> flags]
    /\ pc \in {"overrides", "user"} => chrome # Off

DataOwn ==
    /\ pc \in {"launch"} \cup ChromePC => data \subseteq {sess}
    /\ pc \in ChromePC => data = {sess}

(* A session that has begun has a number.                                  *)
Numbered == pc # "idle" => sess # 0

(* The inductive invariant.                                                *)
IInv ==
    /\ TypeOK
    /\ BackupPristine
    /\ BackedUp
    /\ PathOK
    /\ MarkerTruthful
    /\ NothingHidden
    /\ GpuReady
    /\ MemoryReady
    /\ ChromeAsFound
    /\ DataOwn
    /\ Numbered

(* The losses the code withstands: none of those that are answered wrongly *)
(* once and believed for good.                                             *)
HarmlessLoss == Lost \cap {"backup", "wrap", "stop", "clear"} = {}

(* A setup ends with a browser or with the device given back.              *)
EverySetupEnds == pc = "detect" ~> pc \in {"user", "idle"}

(* The device implements the view the pool has of it.                      *)
Use ==
    CASE pc = "idle" -> "free"
      [] pc \in SetupPC -> "setup"
      [] pc = "user" -> "using"
      [] OTHER -> "closing"

View == INSTANCE DeviceUse WITH use <- Use, user <- sess, browser <- chrome.owner

(* What DamruPool assumes of __aenter__ and __aexit__: a setup touches no  *)
(* browser but the one it found and its own, a caller's browser is its own *)
(* and stays while its block runs.                                         *)
ImplementsDeviceUse == View!Safety
=============================================================================
