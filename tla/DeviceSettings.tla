--------------------------- MODULE DeviceSettings ---------------------------
(***************************************************************************)
(* The settings every use of a device writes anew: properties, fonts,      *)
(* screen, proxy and the files behind the number of cores.  A use is a     *)
(* session (AsyncDamru.__aenter__) or a forced profile                     *)
(* (force_device_profile); uses of one device follow one another.  Nothing *)
(* is put back at the end of a use, so each must overwrite what it finds,  *)
(* over an adb connection that loses answers, swallows errors and may      *)
(* carry a command out twice (ADB._run repeats it after a transport        *)
(* error).  What DeviceSession models as one variable is opened here.      *)
(***************************************************************************)
EXTENDS Naturals, FiniteSets

CONSTANTS
    Profile,       \* device profiles
    Cores,         \* Profile -> the cores it claims (hardware_concurrency)
    Version,       \* Profile -> its Android version, which stands for the SDK too
    Proxy,         \* the proxies a use may ask for
    None,          \* no proxy, no file, no profile
    RealCores,     \* the cores the device has
    RealVersion,   \* the Android version it runs
    Lost,          \* the exchanges that may go wrong, see Exchange
    MaxWrong,      \* bound on the exchanges that go wrong
    MaxUses        \* bound on the uses

(* The probes whose answer may be lost ("binary", "sdk", "marker",         *)
(* "backup"), the writes that may be lost ("settings"), the unmount that   *)
(* may fail, the mount that may be carried out twice, and a cut inside the *)
(* installation of the fonts.                                              *)
Exchange == {"binary", "sdk", "marker", "backup", "settings", "unmount", "mount", "cut"}

(* A fonts.xml: the use that wrote it, and whether another was its source. *)
FontsFile == [by : Nat, stacked : BOOLEAN]

ASSUME SettingsAssumption ==
    /\ Cores \in [Profile -> Nat \ {0}] /\ Version \in [Profile -> Nat]
    /\ RealCores \in Nat \ {0} /\ RealVersion \in Nat
    /\ Lost \subseteq Exchange
    /\ MaxUses \in Nat /\ MaxWrong \in Nat
    /\ None \notin Profile \cup Proxy \cup FontsFile

Key == {"http_proxy", "screen"}    \* global_http_proxy_* go with the first
Path == {"online", "stat"}    \* /sys/devices/system/cpu/online, /proc/stat

VARIABLES
    props,     \* the profile whose product properties are set, None: the device's
    release,   \* ro.build.version.release and ro.system.build.version.release
    sdk,       \* ro.build.version.sdk
    arm,       \* ro.product.cpu.abi names the ABI of a phone
    binary,    \* /data/local/tmp/resetprop: "none", "native" or "foreign"
    marker,    \* the extra fonts are marked as installed
    backup,    \* the saved fonts.xml
    fonts,     \* fonts.xml: the use that wrote it, and what it was made from
    setting,   \* the Android settings, by key
    depth,     \* how many bind mounts lie over a path
    file,      \* the number of cores in the file that is mounted there
    use,       \* the number of the use, 0 before the first
    kind,      \* "session" or "force"
    prof,      \* its profile
    proxy,     \* the proxy it asks for
    todo,      \* what it runs concurrently and has not finished
    pc,        \* its next step
    wrong,     \* what went wrong in each use (for the properties)
    forced,    \* the uses that were forced profiles (for the properties)
    booted     \* the use during or after which the device last restarted

propVars == <<props, release, sdk, arm, binary>>
fontVars == <<marker, backup, fonts>>
cpuVars  == <<depth, file>>
useVars  == <<use, kind, prof, proxy, forced, booted>>
vars     == <<props, release, sdk, arm, binary, marker, backup, fonts, setting,
              depth, file, use, kind, prof, proxy, forced, booted, todo, pc, wrong>>

Uses == 1..MaxUses

Original == [by |-> 0, stacked |-> FALSE]

SetupPC == {"resetprop", "props", "fonts", "randomize", "gather", "unmount",
            "online", "stat", "arch"}

TypeOK ==
    /\ props \in Profile \cup {None} /\ release \in Nat /\ sdk \in Nat
    /\ arm \in BOOLEAN /\ binary \in {"none", "native", "foreign"}
    /\ marker \in BOOLEAN
    /\ fonts \in FontsFile /\ backup \in FontsFile \cup {None}
    /\ setting \in [Key -> Profile \cup Proxy \cup {None}]
    /\ depth \in [Path -> Nat] /\ file \in [Path -> Nat]
    /\ use \in 0..MaxUses /\ kind \in {"session", "force"}
    /\ prof \in Profile /\ proxy \in Proxy \cup {None}
    /\ todo \subseteq {"release", "settings", "cpu"}
    /\ pc \in SetupPC \cup {"idle", "user"}
    /\ wrong \in [Uses -> SUBSET Exchange] /\ forced \subseteq Uses
    /\ booted \in 0..MaxUses

Init ==
    /\ props = None /\ release = RealVersion /\ sdk = RealVersion
    /\ arm = FALSE /\ binary = "none"
    /\ marker = FALSE /\ backup = None /\ fonts = Original
    /\ setting = [k \in Key |-> None]
    /\ depth = [p \in Path |-> 0] /\ file = [p \in Path |-> 0]
    /\ use = 0 /\ kind = "session" /\ prof \in Profile /\ proxy = None
    /\ todo = {} /\ pc = "idle"
    /\ wrong = [u \in Uses |-> {}] /\ forced = {} /\ booted = 0

(* The exchanges xs of this use go wrong, the others as they should.       *)
GoWrong(xs) ==
    /\ xs \subseteq Lost
    /\ wrong' = [wrong EXCEPT ![use] = @ \cup xs]
    /\ xs # {} => Cardinality({y \in Uses \X Exchange : y[2] \in wrong'[y[1]]}) <= MaxWrong

Right == GoWrong({})

(* A command that raises ends the use: __aenter__ propagates it.           *)
GiveUp == pc' = "idle" /\ todo' = {}

-----------------------------------------------------------------------------
(* A use begins; resetprop and the product properties.                     *)

(* A forced profile without a proxy of its own takes the one that is set.  *)
Current == IF setting["http_proxy"] \in Proxy THEN setting["http_proxy"] ELSE None

Begin ==
    /\ pc = "idle" /\ use < MaxUses
    /\ use' = use + 1
    /\ kind' \in {"session", "force"} /\ prof' \in Profile
    /\ \E p \in Proxy \cup {None} :
         proxy' = IF kind' = "force" /\ p = None THEN Current ELSE p
    /\ forced' = IF kind' = "force" THEN forced \cup {use'} ELSE forced
    /\ pc' = "resetprop"
    /\ UNCHANGED <<propVars, fontVars, setting, cpuVars, todo, wrong, booted>>

(* The binary that is pushed is chosen by ro.product.cpu.abi.              *)
PushResetprop == binary' = IF arm THEN "foreign" ELSE "native"

EnsureResetpropUnprobed ==
    /\ pc = "resetprop"
    /\ PushResetprop
    /\ pc' = "props"
    /\ UNCHANGED <<props, release, sdk, arm, fontVars, setting, cpuVars, useVars,
                   todo, wrong>>

(* It is pushed unless the device says that it is there.                   *)
EnsureResetprop ==
    /\ pc = "resetprop"
    /\ \/ binary # "none" /\ Right /\ UNCHANGED binary
       \/ binary = "none" /\ Right /\ PushResetprop
       \/ binary # "none" /\ GoWrong({"binary"}) /\ PushResetprop
    /\ pc' = "props"
    /\ UNCHANGED <<props, release, sdk, arm, fontVars, setting, cpuVars, useVars, todo>>

(* real_android is what an earlier use may have set; the SDK, if it can be *)
(* read, is the device's own.                                              *)
VersionMatch(sdkKnown) ==
    /\ sdkKnown => RealVersion = Version[prof]
    /\ release = Version[prof]

(* A binary for another ABI does not run: the script of the properties     *)
(* fails, and with it the use.                                             *)
PropsFail ==
    /\ pc = "props" /\ binary = "foreign"
    /\ GiveUp
    /\ UNCHANGED <<propVars, fontVars, setting, cpuVars, useVars, wrong>>

(* apply_device_props and, for a session whose profile has the device's    *)
(* version, the version properties.                                        *)
ApplyProps ==
    /\ pc = "props" /\ binary = "native" /\ kind = "session"
    /\ props' = prof
    /\ \E known \in BOOLEAN :
         /\ IF known THEN Right ELSE GoWrong({"sdk"})
         /\ sdk' = IF VersionMatch(known) THEN Version[prof] ELSE sdk
         /\ release' = IF VersionMatch(known) THEN Version[prof] ELSE release
    /\ pc' = "fonts"
    /\ UNCHANGED <<arm, binary, fontVars, setting, cpuVars, useVars, todo>>

(* A forced profile leaves the SDK alone and goes on with what it gathers. *)
ForceProps ==
    /\ pc = "props" /\ binary = "native" /\ kind = "force"
    /\ props' = prof
    /\ todo' = {"release", "settings", "cpu"}
    /\ pc' = "gather"
    /\ UNCHANGED <<release, sdk, arm, binary, fontVars, setting, cpuVars, useVars, wrong>>

ApplyVersionRelease ==
    /\ pc = "gather" /\ "release" \in todo
    /\ release' = Version[prof]
    /\ todo' = todo \ {"release"}
    /\ UNCHANGED <<props, sdk, arm, binary, fontVars, setting, cpuVars, useVars, pc, wrong>>

-----------------------------------------------------------------------------
(* Fonts (sessions only).                                                  *)

(* The font files are installed once, and fonts.xml saved before.          *)
InstallFonts ==
    /\ pc = "fonts"
    /\ \/ marker /\ Right /\ UNCHANGED <<marker, backup>>
       \/ /\ \E saved \in {backup # None, FALSE} :
               /\ backup' = IF saved THEN backup ELSE fonts
               /\ GoWrong((IF marker THEN {"marker"} ELSE {})
                    \cup (IF saved = (backup # None) THEN {} ELSE {"backup"}))
          /\ marker' = TRUE
       \/ ~marker /\ Right /\ UNCHANGED <<marker, backup>>  \* no download
    /\ pc' = "randomize"
    /\ UNCHANGED <<propVars, fonts, setting, cpuVars, useVars, todo>>

(* A cut between the copy of fonts.xml and the marker.                     *)
InstallFontsCut ==
    /\ pc = "fonts" /\ ~marker
    /\ backup' = IF backup = None THEN fonts ELSE backup
    /\ GoWrong({"cut"}) /\ GiveUp
    /\ UNCHANGED <<propVars, marker, fonts, setting, cpuVars, useVars>>

(* fonts.xml is made anew from the backup, unless that seems missing.      *)
RandomizeFonts ==
    /\ pc = "randomize"
    /\ \/ /\ backup # None /\ Right
          /\ fonts' = [by |-> use, stacked |-> backup.by # 0]
       \/ backup = None /\ Right /\ UNCHANGED fonts
       \/ backup # None /\ GoWrong({"backup"}) /\ UNCHANGED fonts
    /\ todo' = {"settings"}
    /\ pc' = "gather"
    /\ UNCHANGED <<propVars, marker, backup, setting, cpuVars, useVars>>

-----------------------------------------------------------------------------
(* Screen and proxy: every command with allow_failure.                     *)

WantedWithoutClear ==
    [k \in IF proxy = None THEN {"screen"} ELSE Key |->
        IF k = "screen" THEN prof ELSE proxy]

(* The settings a use writes and their values; a forced profile without a  *)
(* proxy leaves the proxy settings as they are.                            *)
Wanted ==
    [k \in IF kind = "force" /\ proxy = None THEN {"screen"} ELSE Key |->
        IF k = "screen" THEN prof ELSE proxy]

(* Any of the writes may be lost.                                          *)
ApplySettings ==
    /\ pc = "gather" /\ "settings" \in todo
    /\ \E done \in SUBSET DOMAIN Wanted :
         /\ setting' = [k \in Key |-> IF k \in done THEN Wanted[k] ELSE setting[k]]
         /\ IF done = DOMAIN Wanted THEN Right ELSE GoWrong({"settings"})
    /\ todo' = todo \ {"settings"}
    /\ UNCHANGED <<propVars, fontVars, cpuVars, useVars, pc>>

(* A session goes on with the cores.                                       *)
SpoofAfterSettings ==
    /\ pc = "gather" /\ kind = "session" /\ todo = {}
    /\ pc' = "unmount" /\ todo' = {"cpu"}
    /\ UNCHANGED <<propVars, fontVars, setting, cpuVars, useVars, wrong>>

-----------------------------------------------------------------------------
(* The number of cores.                                                    *)

(* What a reader of the path sees.  The file is written in place, so a     *)
(* mount that stayed shows what was written last.                          *)
Visible(p) == IF depth[p] > 0 THEN file[p] ELSE RealCores

Least(m, n) == IF m < n THEN m ELSE n

SpoofCores ==
    /\ pc = "gather" /\ kind = "force" /\ "cpu" \in todo
    /\ pc' = "unmount"
    /\ UNCHANGED <<propVars, fontVars, setting, cpuVars, useVars, todo, wrong>>

(* Each path is unmounted once, errors ignored.                            *)
Unmount ==
    /\ pc = "unmount"
    /\ \E gone \in SUBSET Path :
         /\ \A p \in Path : depth[p] = 0 => p \in gone
         /\ depth' = [p \in Path |-> IF p \in gone /\ depth[p] > 0
                                     THEN depth[p] - 1 ELSE depth[p]]
         /\ IF gone = Path THEN Right ELSE GoWrong({"unmount"})
    /\ pc' = "online"
    /\ UNCHANGED <<propVars, fontVars, setting, file, useVars, todo>>

(* A bind mount, which ADB._run may carry out twice.                       *)
Mount(p) ==
    \/ depth' = [depth EXCEPT ![p] = @ + 1] /\ Right
    \/ depth' = [depth EXCEPT ![p] = @ + 2] /\ GoWrong({"mount"})

MountOnlineUncapped ==
    /\ pc = "online"
    /\ file' = [file EXCEPT !["online"] = Cores[prof]]
    /\ Mount("online")
    /\ pc' = "stat"
    /\ UNCHANGED <<propVars, fontVars, setting, useVars, todo>>

(* The target is capped at the cores the device shows, then mounted.       *)
MountOnline ==
    /\ pc = "online"
    /\ file' = [file EXCEPT !["online"] = Least(Cores[prof], Visible("online"))]
    /\ Mount("online")
    /\ pc' = "stat"
    /\ UNCHANGED <<propVars, fontVars, setting, useVars, todo>>

(* The lines of that many cores are copied out of /proc/stat.  With an     *)
(* earlier mount still over it, the file that is read is the one just      *)
(* truncated: grep finds nothing, and its exit status ends the use.        *)
MountStat ==
    /\ pc = "stat"
    /\ IF depth["stat"] > 0
       THEN /\ file' = [file EXCEPT !["stat"] = 0]
            /\ GiveUp
            /\ UNCHANGED <<depth, wrong>>
       ELSE /\ file' = [file EXCEPT !["stat"] = Least(file["online"], RealCores)]
            /\ Mount("stat")
            /\ todo' = todo \ {"cpu"}
            /\ pc' = IF kind = "session" THEN "user" ELSE "gather"
    /\ UNCHANGED <<propVars, fontVars, setting, useVars>>

-----------------------------------------------------------------------------
(* The end of a forced profile, cuts and restarts.                         *)

(* The ABI properties come last, when packages and resetprop are in place; *)
(* errors are swallowed.                                                   *)
ApplyRuntimeArch ==
    /\ pc = "gather" /\ kind = "force" /\ todo = {}
    /\ arm' \in {arm, TRUE}
    /\ pc' = "idle"
    /\ UNCHANGED <<props, release, sdk, binary, fontVars, setting, cpuVars, useVars,
                   todo, wrong>>

(* An error, a timeout or the end of a session; nothing is put back.       *)
Cut ==
    /\ pc # "idle"
    /\ GiveUp
    /\ UNCHANGED <<propVars, fontVars, setting, cpuVars, useVars, wrong>>

(* A restart brings the device's own properties and unmounts everything;   *)
(* /data, /system and the settings stay.  A use that was under way was cut *)
(* by it before.                                                           *)
Restart ==
    /\ pc = "idle"
    /\ props' = None /\ release' = RealVersion /\ sdk' = RealVersion /\ arm' = FALSE
    /\ depth' = [p \in Path |-> 0]
    /\ booted' = use
    /\ UNCHANGED <<binary, fontVars, setting, file, use, kind, prof, proxy, forced,
                   todo, pc, wrong>>

PropsStep == EnsureResetprop \/ PropsFail \/ ApplyProps \/ ForceProps
             \/ ApplyVersionRelease
FontStep  == InstallFonts \/ InstallFontsCut \/ RandomizeFonts
CoreStep  == SpoofAfterSettings \/ SpoofCores \/ Unmount \/ MountOnline \/ MountStat

Next ==
    \/ Begin
    \/ PropsStep
    \/ FontStep
    \/ ApplySettings
    \/ CoreStep
    \/ ApplyRuntimeArch
    \/ Cut
    \/ Restart

Spec == Init /\ [][Next]_vars

-----------------------------------------------------------------------------
(* Properties.                                                             *)

InUser == pc = "user"

(* An unmount that failed or a mount made twice since the last restart.    *)
Stuck == \E u \in Uses : u > booted /\ wrong[u] \cap {"unmount", "mount"} # {}

(* The caller's Chrome counts the profile's cores (at most the device's)   *)
(* whatever earlier uses mounted; after an unmount that failed, or a mount *)
(* that was repeated, the count may stay lower until a restart, but        *)
(* sysconf and /proc/stat still agree.                                     *)
CoresAsProfiled ==
    InUser =>
        /\ Visible("online") = Visible("stat")
        /\ Visible("online") \in 1..Least(Cores[prof], RealCores)
        /\ ~Stuck => Visible("online") = Least(Cores[prof], RealCores)

(* The answer about the backup was lost when the marker was not seen       *)
(* either: its answer was lost too, or a cut kept it from being set.       *)
FontsSpoilt ==
    \E u \in Uses : /\ "backup" \in wrong[u]
                   /\ \/ "marker" \in wrong[u]
                      \/ \E v \in Uses : v < u /\ "cut" \in wrong[v]

(* The caller's Chrome sees only its own session's settings: its screen    *)
(* and proxy unless that write was lost in this very session, and fonts    *)
(* made by no earlier session unless the answer about the backup was lost. *)
SettingsOwn ==
    InUser =>
        /\ "settings" \notin wrong[use] =>
               /\ setting["screen"] = prof
               /\ setting["http_proxy"] = proxy
        /\ "backup" \notin wrong[use] => fonts.by \in {use, 0}
        /\ fonts.stacked => FontsSpoilt

(* What can stop Chrome or every later use from starting is never set: an  *)
(* SDK that is not the device's (unless the device's own could not be read *)
(* after a profile was forced on it), and a resetprop for another ABI      *)
(* (unless the probe for it was lost after that).                          *)
DeviceUsable ==
    /\ sdk # RealVersion =>
           \E u \in Uses : u > booted /\ "sdk" \in wrong[u] /\ \E f \in forced : f < u
    /\ binary = "foreign" =>
           \E u \in Uses : "binary" \in wrong[u] /\ \E f \in forced : f < u
=============================================================================
