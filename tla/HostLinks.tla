----------------------------- MODULE HostLinks -----------------------------
(***************************************************************************)
(* What the sessions of one host share although each has a device of its   *)
(* own: the adb port forwards that lead a CDP connection to its device     *)
(* (cdp.CDPConnection), the proxy bridges an Android proxy setting points  *)
(* to (proxy_runtime.ensure_proxy_bridge, proxy_bridge), and the exits of  *)
(* the proxies, whose time zone a session must show                        *)
(* (AsyncDamru._sync_geo_from_browser_proxy).                              *)
(*                                                                         *)
(* A device is used either by an automated session (AsyncDamru, as the     *)
(* pools and the command stealth-open-url run it) or by the command        *)
(* open-url, one at a time.  Every adb command and every probe of a port   *)
(* is a step; the sessions of different devices interleave freely.         *)
(***************************************************************************)
EXTENDS Naturals, FiniteSets

CONSTANTS
    Device, Port, Upstream, BridgePort, Zone,
    Bridged,        \* the upstreams Android cannot be given: SOCKS, or a password
    Default,        \* the zone of a profile whose lookup failed
    Given,          \* the zones callers ask for
    PortMaps,       \* the ways the digests of the upstreams may give bridge ports
    None,
    MaxSessions,    \* bound on the sessions
    MaxRotations,   \* bound on how often the exits of the proxies change
    MaxWrong        \* bound on what goes wrong

ASSUME HostLinksAssumption ==
    /\ Default \in Zone /\ Given \subseteq Zone
    /\ Bridged \subseteq Upstream
    /\ PortMaps \subseteq [Bridged -> BridgePort]
    /\ BridgePort \cap Upstream = {}
    /\ None \notin Device \cup Port \cup Upstream \cup BridgePort \cup Zone
    /\ {MaxSessions, MaxRotations, MaxWrong} \subseteq Nat

VARIABLES
    portOf,     \* the bridge port of each upstream that needs a bridge
    exit,       \* the zone of each upstream's exit
    forward,    \* adb's forwards: the device a local port leads to
    bridge,     \* the upstream of the bridge that listens on a port
    setting,    \* a device's proxy setting: a bridge port, an upstream, or None
    dev,        \* a device's zone
    use,        \* a device's session
    sessions, rotations, wrong

shared == <<portOf, exit, forward, bridge, setting, dev>>
counters == <<sessions, rotations, wrong>>
vars == <<shared, use, counters>>

(* A session: open tells the command open-url from an automated session,   *)
(* up is the proxy given, port CDPConnection._local_port (or the port just *)
(* chosen), link the device whose browser the connection reached, asked    *)
(* the zone the caller gave, prof the profile's, found what the lookup     *)
(* through the browser returned, page the zone set over the pages (None:   *)
(* they show the device's).  For the properties: raced, that another       *)
(* session chose its port too while nobody listened there; lostZone and    *)
(* lostProxy, that the device may not have taken a zone or the proxy.      *)
Use == [pc : {"idle", "probe", "start", "ready", "geo", "zone", "proxy",
              "choose", "clear", "forward", "connect", "sync", "override",
              "reapply", "user", "detached", "put", "opened"},
        open : BOOLEAN,
        up : Upstream \cup {None}, port : Port \cup {None},
        link : Device \cup {None}, again : BOOLEAN,
        asked : Zone \cup {None}, prof : Zone,
        found : Zone \cup {None}, page : Zone \cup {None},
        raced : BOOLEAN, lostZone : BOOLEAN, lostProxy : BOOLEAN]

Idle == [pc |-> "idle", open |-> FALSE, up |-> None, port |-> None, link |-> None,
         again |-> FALSE, asked |-> None, prof |-> Default, found |-> None, page |-> None,
         raced |-> FALSE, lostZone |-> FALSE, lostProxy |-> FALSE]

TypeOK ==
    /\ portOf \in PortMaps /\ exit \in [Upstream -> Zone]
    /\ forward \in [Port -> Device \cup {None}]
    /\ bridge \in [BridgePort -> Bridged \cup {None}]
    /\ setting \in [Device -> BridgePort \cup Upstream \cup {None}]
    /\ dev \in [Device -> Zone] /\ use \in [Device -> Use]
    /\ sessions \in 0..MaxSessions
    /\ rotations \in 0..MaxRotations /\ wrong \in 0..MaxWrong

Init ==
    /\ portOf \in PortMaps
    /\ exit = [u \in Upstream |-> Default]
    /\ forward = [p \in Port |-> None] /\ bridge = [b \in BridgePort |-> None]
    /\ setting = [d \in Device |-> None] /\ dev = [d \in Device |-> Default]
    /\ use = [d \in Device |-> Idle]
    /\ sessions = 0 /\ rotations = 0 /\ wrong = 0

At(d, pc) == use[d].pc = pc
Go(d, pc) == use' = [use EXCEPT ![d].pc = pc]
GoesWrong == wrong < MaxWrong /\ wrong' = wrong + 1
Keep == UNCHANGED <<portOf, exit, sessions, rotations>>

-----------------------------------------------------------------------------
(* The world around the sessions.                                          *)

(* A rotating proxy moves to another exit.                                 *)
Rotate(u) ==
    /\ rotations < MaxRotations /\ rotations' = rotations + 1
    /\ \E z \in Zone \ {exit[u]} : exit' = [exit EXCEPT ![u] = z]
    /\ UNCHANGED <<portOf, forward, bridge, setting, dev, use, sessions, wrong>>

(* The bridges' processes end, with the WSL distribution for instance.     *)
BridgeDies(b) ==
    /\ bridge[b] # None /\ GoesWrong
    /\ bridge' = [bridge EXCEPT ![b] = None]
    /\ UNCHANGED <<portOf, exit, forward, setting, dev, use, sessions, rotations>>

(* The adb server restarts: its forwards and the connections are gone.     *)
AdbRestarts ==
    /\ GoesWrong
    /\ forward' = [p \in Port |-> None]
    /\ use' = [d \in Device |-> [use[d] EXCEPT !.link = None]]
    /\ UNCHANGED <<portOf, exit, bridge, setting, dev, sessions, rotations>>

-----------------------------------------------------------------------------
(* The proxy of a session: resolve_android_proxy and ensure_proxy_bridge,  *)
(* which AsyncDamru.__aenter__ and open-url both call before anything else.*)

BridgeOf(u) == portOf[u]

(* What the device is given for an upstream.                               *)
Address(u) == IF u \in Bridged THEN BridgeOf(u) ELSE u

Begin(d) ==
    /\ At(d, "idle") /\ sessions < MaxSessions
    /\ sessions' = sessions + 1
    /\ \E u \in Upstream \cup {None}, z \in Given \cup {None} :
           use' = [use EXCEPT ![d] = [Idle EXCEPT !.up = u, !.asked = z,
                       !.pc = IF u \in Bridged THEN "probe" ELSE "geo"]]
    /\ UNCHANGED <<shared, rotations, wrong>>

(* open-url given no proxy leaves the setting of the device as it is.      *)
BeginOpen(d) ==
    /\ At(d, "idle") /\ sessions < MaxSessions
    /\ sessions' = sessions + 1
    /\ \E u \in Upstream \cup {None} :
           use' = [use EXCEPT ![d] = [Idle EXCEPT !.open = TRUE, !.up = u,
                       !.pc = CASE u = None -> "opened"
                                [] u \in Bridged -> "probe"
                                [] OTHER -> "put"]]
    /\ UNCHANGED <<shared, rotations, wrong>>

Resolved(d) == IF use[d].open THEN "put" ELSE "geo"

(* _bridge_alive: someone listens on the port; whose bridge it is, is not  *)
(* asked.                                                                  *)
ProbeBridge(d) ==
    /\ At(d, "probe")
    /\ Go(d, IF bridge[BridgeOf(use[d].up)] # None THEN Resolved(d) ELSE "start")
    /\ UNCHANGED <<shared, counters>>

(* A second bridge on the port fails to bind and ends, unnoticed.          *)
StartBridge(d) ==
    /\ At(d, "start")
    /\ LET b == BridgeOf(use[d].up) IN
       bridge' = IF bridge[b] = None THEN [bridge EXCEPT ![b] = use[d].up] ELSE bridge
    /\ Go(d, "ready")
    /\ UNCHANGED <<forward, setting, dev, wrong>> /\ Keep

(* Five seconds of probing; a bridge that is not there ends the session.   *)
AwaitBridge(d) ==
    /\ At(d, "ready")
    /\ IF bridge[BridgeOf(use[d].up)] # None
       THEN Go(d, Resolved(d))
       ELSE use' = [use EXCEPT ![d] = Idle]
    /\ UNCHANGED <<shared, counters>>

-----------------------------------------------------------------------------
(* An automated session: AsyncDamru.__aenter__.                            *)

(* resolve_proxy_geo: the exit's zone by one of three services, asked      *)
(* three times, or the default.                                            *)
StartupZone(d) ==
    IF use[d].asked # None THEN {use[d].asked}
    ELSE IF use[d].up # None THEN {exit[use[d].up], Default}
    ELSE {Default}

Geo(d) ==
    /\ At(d, "geo")
    /\ \E z \in StartupZone(d) :
           use' = [use EXCEPT ![d].prof = z, ![d].pc = "zone"]
    /\ UNCHANGED <<shared, counters>>

(* apply_timezone.                                                         *)
ApplyZone(d) ==
    /\ At(d, "zone")
    /\ dev' = [dev EXCEPT ![d] = use[d].prof]
    /\ Go(d, "proxy")
    /\ UNCHANGED <<forward, bridge, setting, wrong>> /\ Keep

(* Nothing is cleared where no proxy is given.                             *)
SetGivenProxy(d) ==
    /\ At(d, "proxy")
    /\ setting' = IF use[d].up = None THEN setting
                  ELSE [setting EXCEPT ![d] = Address(use[d].up)]
    /\ Go(d, "choose")
    /\ UNCHANGED <<forward, bridge, dev, wrong>> /\ Keep

(* _set_proxy: every session writes the setting, or clears what an earlier *)
(* one left; that the device did not take it is not noticed.               *)
SetProxy(d) ==
    /\ At(d, "proxy")
    /\ \/ /\ setting' = [setting EXCEPT ![d] = Address(use[d].up)]
          /\ Go(d, "choose") /\ UNCHANGED wrong
       \/ /\ GoesWrong /\ UNCHANGED setting
          /\ use' = [use EXCEPT ![d].lostProxy = TRUE, ![d].pc = "choose"]
    /\ UNCHANGED <<forward, bridge, dev>> /\ Keep

(* find_free_port: a port nobody listens on; the socket that tried it is   *)
(* closed again before adb listens there, so two sessions may choose one.  *)
Choose(d, p) ==
    LET Clash(o) == forward[p] = None /\ use[o].port = p
    IN  use' = [e \in Device |->
            IF e = d
            THEN [use[d] EXCEPT !.port = p, !.pc = "clear",
                                !.raced = @ \/ \E o \in Device \ {d} : Clash(o)]
            ELSE [use[e] EXCEPT !.raced = @ \/ Clash(e)]]

ChooseAnyPort(d) ==
    /\ At(d, "choose")
    /\ \E p \in Port : Choose(d, p)
    /\ UNCHANGED <<shared, counters>>

ChoosePort(d) ==
    /\ At(d, "choose")
    /\ \E p \in Port : forward[p] = None /\ Choose(d, p)
    /\ UNCHANGED <<shared, counters>>

(* adb forward --remove acts on the port, whatever device it leads to, and *)
(* its failure is ignored.                                                 *)
Removed(p) ==
    \/ forward' = [forward EXCEPT ![p] = None] /\ UNCHANGED wrong
    \/ GoesWrong /\ UNCHANGED forward

ClearPort(d) ==
    /\ At(d, "clear")
    /\ Removed(use[d].port)
    /\ Go(d, "forward")
    /\ UNCHANGED <<bridge, setting, dev>> /\ Keep

(* adb forward replaces what the port led to.                              *)
Forward(d) ==
    /\ At(d, "forward")
    /\ forward' = [forward EXCEPT ![use[d].port] = d]
    /\ Go(d, "connect")
    /\ UNCHANGED <<bridge, setting, dev, wrong>> /\ Keep

(* _try_connect: to whatever device the port leads now.                    *)
Connect(d) ==
    /\ At(d, "connect") /\ forward[use[d].port] # None
    /\ use' = [use EXCEPT ![d].link = forward[use[d].port],
                          ![d].pc = IF use[d].again THEN "reapply" ELSE "sync"]
    /\ UNCHANGED <<shared, counters>>

(* Where a request from a device leaves: BridgeHandler.handle sends it to  *)
(* the upstream of the bridge that listens on the port of the setting;     *)
(* None: by no proxy at all.  No bridge there: nothing leaves.             *)
LeavesBy(d) ==
    IF setting[d] \in BridgePort THEN {bridge[setting[d]]} \ {None} ELSE {setting[d]}

(* The lookup runs in the browser the connection reached, through that     *)
(* device's proxy; with none it finds the zone of the host, any zone.  The *)
(* zone is of no use to a session that was asked for one.                  *)
BrowserLookup(d) ==
    {None} \cup
    IF use[d].up = None \/ use[d].asked # None \/ use[d].link = None THEN {}
    ELSE UNION {IF u = None THEN Zone ELSE {exit[u]} : u \in LeavesBy(use[d].link)}

(* The profile takes the zone first; if the device then fails to, the      *)
(* pages are given the new zone all the same.                              *)
SyncProfileOnly(d) ==
    /\ At(d, "sync")
    /\ \E z \in BrowserLookup(d) :
        LET new == z # None IN
        use' = [use EXCEPT ![d].pc = "override", ![d].found = z,
                           ![d].prof = IF new THEN z ELSE @]
    /\ UNCHANGED <<shared, counters>>

SyncGeo(d) ==
    /\ At(d, "sync")
    /\ \E z \in BrowserLookup(d) :
        LET new == z # None /\ z # use[d].prof
            Synced(lost) == use' = [use EXCEPT ![d].pc = "override", ![d].found = z,
                                        ![d].prof = IF new THEN z ELSE @,
                                        ![d].lostZone = lost]
        IN  \/ /\ dev' = IF new THEN [dev EXCEPT ![d] = z] ELSE dev
               /\ Synced(FALSE) /\ UNCHANGED wrong
            \/ new /\ GoesWrong /\ Synced(TRUE) /\ UNCHANGED dev
    /\ UNCHANGED <<forward, bridge, setting>> /\ Keep

(* _apply_timezone_override ignores the errors of the pages.               *)
Override(d) ==
    /\ use[d].pc \in {"override", "reapply"}
    /\ \/ use' = [use EXCEPT ![d].page = use[d].prof, ![d].pc = "user"] /\ UNCHANGED wrong
       \/ GoesWrong /\ Go(d, "user")
    /\ UNCHANGED shared /\ UNCHANGED <<sessions, rotations>>

(* reconnect_cdp by itself sets nothing over the pages again; only         *)
(* stealth-open-url does.                                                  *)
NoReapply(d) ==
    /\ At(d, "reapply") /\ Go(d, "user")
    /\ UNCHANGED <<shared, counters>>

(* disconnect_cdp: what the connection had set over the pages ends with it.*)
Detach(d) ==
    /\ At(d, "user")
    /\ Removed(use[d].port)
    /\ use' = [use EXCEPT ![d].pc = "detached", ![d].port = None, ![d].link = None,
                          ![d].page = None]
    /\ UNCHANGED <<bridge, setting, dev>> /\ Keep

(* reconnect_cdp makes a new connection object, which chooses a new port.  *)
Reattach(d) ==
    /\ At(d, "detached")
    /\ use' = [use EXCEPT ![d].pc = "choose", ![d].again = TRUE]
    /\ UNCHANGED <<shared, counters>>

(* DamruPoolSync leaves the asynchronous connection for a synchronous one  *)
(* on the same port, and sets again what it has a payload for: not the     *)
(* zone.                                                                   *)
Swap(d) ==
    /\ At(d, "user") /\ forward[use[d].port] # None
    /\ use' = [use EXCEPT ![d].link = forward[use[d].port], ![d].page = None]
    /\ UNCHANGED <<shared, counters>>

(* CDPConnection.disconnect and the end of the session.                    *)
End(d) ==
    /\ use[d].pc \in {"user", "detached"}
    /\ IF use[d].port = None THEN UNCHANGED <<forward, wrong>> ELSE Removed(use[d].port)
    /\ use' = [use EXCEPT ![d] = Idle]
    /\ UNCHANGED <<bridge, setting, dev>> /\ Keep

(* A set-up that raises or is cut does not remove its forward.             *)
Abandon(d) ==
    /\ use[d].pc \notin {"idle", "user", "detached"} /\ GoesWrong
    /\ use' = [use EXCEPT ![d] = Idle]
    /\ UNCHANGED shared /\ UNCHANGED <<sessions, rotations>>

-----------------------------------------------------------------------------
(* The command open-url: _open_url and _apply_android_proxy, which raises  *)
(* where the device does not take the setting.                             *)

PutProxy(d) ==
    /\ At(d, "put")
    /\ setting' = [setting EXCEPT ![d] = Address(use[d].up)]
    /\ Go(d, "opened")
    /\ UNCHANGED <<forward, bridge, dev, wrong>> /\ Keep

Close(d) ==
    /\ At(d, "opened")
    /\ use' = [use EXCEPT ![d] = Idle]
    /\ UNCHANGED <<shared, counters>>

-----------------------------------------------------------------------------

Attach(d) == ChoosePort(d) \/ ClearPort(d) \/ Forward(d) \/ Connect(d)

Resolve(d) == ProbeBridge(d) \/ StartBridge(d) \/ AwaitBridge(d)

Automated(d) ==
    \/ Begin(d) \/ Geo(d) \/ ApplyZone(d) \/ SetProxy(d) \/ Attach(d)
    \/ SyncGeo(d) \/ Override(d) \/ NoReapply(d)
    \/ Detach(d) \/ Reattach(d) \/ Swap(d) \/ End(d) \/ Abandon(d)

Opened(d) == BeginOpen(d) \/ PutProxy(d) \/ Close(d)

Next ==
    \/ \E u \in Upstream : Rotate(u)
    \/ \E b \in BridgePort : BridgeDies(b)
    \/ AdbRestarts
    \/ \E d \in Device : Resolve(d) \/ Automated(d) \/ Opened(d)

Spec == Init /\ [][Next]_vars

-----------------------------------------------------------------------------
(* Properties.                                                             *)

(* A session's commands reach the browser of its own device, unless        *)
(* another session chose the same port while adb did not listen there.     *)
(* Forwards that failed set-ups left behind, lost removals, restarts of    *)
(* adb and the ends of other sessions never mislead it.                    *)
CdpReachesOwnDevice ==
    \A d \in Device : use[d].link \in {d, None} \/ use[d].raced

(* Whose pages a session's caller browses: over the connection those of    *)
(* the browser it reached, without one those of the device.                *)
Browses(d) ==
    CASE use[d].pc = "user" -> {use[d].link} \ {None}
      [] use[d].pc \in {"detached", "opened"} -> {d}
      [] OTHER -> {}

(* What a caller browses leaves by the proxy he gave, and directly if he   *)
(* gave none: whatever earlier sessions left in the device's setting,      *)
(* whichever sessions of other devices start bridges, while bridges die    *)
(* and the connection is swapped, given up and made again.  Unless two     *)
(* upstreams have one bridge port, the connection's port was chosen twice, *)
(* the device did not take the setting, or open-url was given no proxy.    *)
OwnUpstream ==
    \A d \in Device :
        LET s == use[d] IN
        ~s.raced /\ ~s.lostProxy /\ ~(s.open /\ s.up = None) =>
            \A e \in Browses(d) : \A u \in LeavesBy(e) :
                u = s.up \/ ({u, s.up} \subseteq Bridged /\ portOf[u] = portOf[s.up])

(* A caller's pages show the zone they should: the one asked for, else the *)
(* one the browser's own exit had when it was looked up, and both over the *)
(* connection and from the device once the connection is given up; unless  *)
(* the device failed to take the new zone.                                 *)
ZoneCoherent ==
    \A d \in Device :
        LET s == use[d]
            due == IF s.asked # None THEN s.asked
                   ELSE IF s.found # None THEN s.found ELSE s.prof
        IN  s.pc \in {"user", "detached"} =>
                /\ s.page \in {due, None}
                /\ dev[d] = due \/ s.lostZone
=============================================================================
