------------------------------ MODULE DamruPool ------------------------------
(***************************************************************************)
(* DamruPool.session(): asyncio tasks that take a slot of the pool, set up *)
(* a browser on its device with retries, run the caller's code and give    *)
(* the slot back, next to the health monitor of PoolSlots and the pool's   *)
(* own __aexit__.                                                          *)
(*                                                                         *)
(* AsyncDamru.__aenter__ and __aexit__ are one awaited call each: what     *)
(* matters here is whether they end well and what they leave on the        *)
(* device.  A session runs once; Session bounds how many there are.        *)
(***************************************************************************)
EXTENDS PoolSlots

CONSTANTS
    MaxRetries,    \* config.MAX_SESSION_RETRIES
    HasTimeout,    \* a task_timeout is in force
    Cancellable,   \* the caller may cancel a task inside session()
    CleanupFails   \* damru.__aexit__ may raise or exceed its 60 seconds

ASSUME MaxRetriesAssumption == MaxRetries \in Nat
ASSUME PoolFlagsAssumption ==
    HasTimeout \in BOOLEAN /\ Cancellable \in BOOLEAN /\ CleanupFails \in BOOLEAN

VARIABLES
    pc,        \* where each session is
    slot,      \* the slot it holds, 0 for none
    attempt,   \* its setup attempt, counted from 0
    noChrome,  \* the last setup failed with "No Chrome browser found"
    watchdog   \* its watchdog task and the slot whose browser it would end

sessionVars == <<pc, slot, attempt, noChrome, watchdog>>
vars == <<pool, busy, healthy, failures, restarts, waiting, health, live,
          pc, slot, attempt, noChrome, watchdog>>

(* The awaits at which a session owns a slot.                              *)
HoldPC == {"setup", "cleanup", "reinstall", "refresh", "backoff", "user", "teardown"}
EndPC  == {"done", "failed", "dead", "cancelled"}

WatchdogState ==
    [pc : {"none"}, slot : {0}] \cup [pc : {"armed", "killing"}, slot : Slot]

NoWatchdog == [pc |-> "none", slot |-> 0]

TypeOK ==
    /\ SlotsTypeOK
    /\ pc \in [Session -> {"idle", "acquire"} \cup HoldPC \cup EndPC]
    /\ slot \in [Session -> Slot \cup {0}]
    /\ attempt \in [Session -> 0..MaxRetries]
    /\ noChrome \in [Session -> BOOLEAN]
    /\ watchdog \in [Session -> WatchdogState]

Init ==
    /\ SlotsInit
    /\ pc = [x \in Session |-> "idle"]
    /\ slot = [x \in Session |-> 0]
    /\ attempt = [x \in Session |-> 0]
    /\ noChrome = [x \in Session |-> FALSE]
    /\ watchdog = [x \in Session |-> NoWatchdog]

-----------------------------------------------------------------------------
Goto(x, l) == pc' = [pc EXCEPT ![x] = l]

(* async with pool.session(): a new task reaches _acquire_slot.            *)
Call(x) ==
    /\ pc[x] = "idle"
    /\ Goto(x, "acquire")
    /\ UNCHANGED <<slotVars, slot, attempt, noChrome, watchdog>>

(* One pass of the loop in _acquire_slot by a task that is not parked.     *)
Acquire(x) ==
    /\ pc[x] = "acquire" /\ x \notin waiting
    /\ \/ \E s \in Slot :
            /\ Take(s)
            /\ slot' = [slot EXCEPT ![x] = s]
            /\ Goto(x, "setup")
            /\ UNCHANGED waiting
       \/ /\ Park(x)
          /\ UNCHANGED <<busy, slot, pc>>
       \/ /\ AllDead
          /\ Goto(x, "dead")
          /\ UNCHANGED <<busy, slot, waiting>>
    /\ UNCHANGED <<pool, healthy, failures, restarts, health, live,
                   attempt, noChrome, watchdog>>

(* damru.__aenter__() returned a context: the caller's block starts, under *)
(* a watchdog if there is a timeout.                                       *)
SetupOk(x) ==
    LET s == slot[x] IN
    /\ pc[x] = "setup"
    /\ live' = [live EXCEPT ![s] = x]
    /\ CountSuccess(s)
    /\ watchdog' = [watchdog EXCEPT ![x] = IF HasTimeout THEN [pc |-> "armed", slot |-> s]
                                                         ELSE NoWatchdog]
    /\ Goto(x, "user")
    /\ UNCHANGED <<pool, busy, restarts, waiting, health,
                   slot, attempt, noChrome>>

(* damru.__aenter__() raised or exceeded the session timeout.  Chrome of   *)
(* an earlier session may not have been stopped yet, or this session's own *)
(* may be running already.  The handler awaits damru.__aexit__.            *)
SetupFails(x) ==
    /\ pc[x] = "setup"
    /\ \E b \in {live[slot[x]], Nobody, x} : live' = [live EXCEPT ![slot[x]] = b]
    /\ \E e \in BOOLEAN : noChrome' = [noChrome EXCEPT ![x] = e]
    /\ Goto(x, "cleanup")
    /\ UNCHANGED <<pool, busy, healthy, failures, restarts, waiting, health,
                   slot, attempt, watchdog>>

(* damru.__aexit__ stops Chrome on the device, or fails and is abandoned   *)
(* before or after it did.                                                 *)
ExitDamru(s) ==
    \/ live' = [live EXCEPT ![s] = Nobody]
    \/ CleanupFails /\ UNCHANGED live

(* Mutant: the outermost finally is missing.                               *)
LeaveHolding(x, l) ==
    /\ slot' = [slot EXCEPT ![x] = 0]
    /\ Goto(x, l)
    /\ UNCHANGED <<busy, waiting>>

(* The session leaves session(): the outermost finally returns the slot.   *)
Leave(x, l) ==
    /\ Release(slot[x])
    /\ slot' = [slot EXCEPT ![x] = 0]
    /\ Goto(x, l)

(* Mutant: one attempt too many before the failure is raised.              *)
LastAttemptLate(x) == attempt[x] > MaxRetries

LastAttempt(x) == attempt[x] = MaxRetries

(* The handler of a failed setup goes on after the cleanup: reinstall      *)
(* Chrome if it was missing and another attempt is left; after the last    *)
(* attempt count the failure, raise and release; otherwise back off,       *)
(* refreshing the endpoint of a MuMu slot first.                           *)
CleanupDone(x) ==
    LET s == slot[x] IN
    /\ pc[x] = "cleanup"
    /\ ExitDamru(s)
    /\ \/ /\ LastAttempt(x)
          /\ CountFailure(s)
          /\ Leave(x, "failed")
       \/ /\ ~LastAttempt(x)
          /\ Goto(x, IF Mode = "auto" /\ HasApk /\ noChrome[x] THEN "reinstall"
                     ELSE IF Mode = "mumu" THEN "refresh" ELSE "backoff")
          /\ UNCHANGED <<busy, healthy, failures, waiting, slot>>
    /\ UNCHANGED <<pool, restarts, health, attempt, noChrome, watchdog>>

(* install_chrome ended, well or not; it replaces the package.             *)
ReinstallDone(x) ==
    /\ pc[x] = "reinstall"
    /\ \/ UNCHANGED live
       \/ live' = [live EXCEPT ![slot[x]] = Nobody]
    /\ Goto(x, "backoff")
    /\ UNCHANGED <<pool, busy, healthy, failures, restarts, waiting, health,
                   slot, attempt, noChrome, watchdog>>

(* _refresh_mumu_slot ended: a reconnect, or a full ensure_instance that   *)
(* may restart the instance.                                               *)
RefreshDone(x) ==
    /\ pc[x] = "refresh"
    /\ \/ UNCHANGED live
       \/ live' = [live EXCEPT ![slot[x]] = Nobody]
    /\ Goto(x, "backoff")
    /\ UNCHANGED <<pool, busy, healthy, failures, restarts, waiting, health,
                   slot, attempt, noChrome, watchdog>>

BackoffDone(x) ==
    /\ pc[x] = "backoff"
    /\ attempt' = [attempt EXCEPT ![x] = @ + 1]
    /\ Goto(x, "setup")
    /\ UNCHANGED <<slotVars, slot, noChrome, watchdog>>

(* _task_watchdog: the timeout fires, force_stop is sent, and the Chrome   *)
(* that runs on the slot's device ends, whoever's it is.                   *)
WatchdogFires(x) ==
    /\ watchdog[x].pc = "armed"
    /\ watchdog' = [watchdog EXCEPT ![x] = [pc |-> "killing", slot |-> @.slot]]
    /\ UNCHANGED <<slotVars, pc, slot, attempt, noChrome>>

WatchdogKills(x) ==
    /\ watchdog[x].pc = "killing"
    /\ watchdog' = [watchdog EXCEPT ![x] = NoWatchdog]
    /\ live' = [live EXCEPT ![watchdog[x].slot] = Nobody]
    /\ UNCHANGED <<pool, busy, healthy, failures, restarts, waiting, health,
                   pc, slot, attempt, noChrome>>

(* Mutant: the inner finally does not cancel the watchdog.                 *)
UserExitKeepsWatchdog(x) ==
    /\ pc[x] = "user"
    /\ Goto(x, "teardown")
    /\ UNCHANGED <<slotVars, slot, attempt, noChrome, watchdog>>

(* Mutant: the slot is released before Chrome is stopped.                  *)
UserExitReleasesFirst(x) ==
    /\ pc[x] = "user"
    /\ Release(slot[x])
    /\ watchdog' = [watchdog EXCEPT ![x] = NoWatchdog]
    /\ Goto(x, "teardown")
    /\ UNCHANGED <<pool, healthy, failures, restarts, health, live,
                   slot, attempt, noChrome>>

(* The caller's block ends (returns, raises or is cancelled): the inner    *)
(* finally cancels the watchdog and awaits it, then awaits __aexit__.  A   *)
(* kill that was under way may still have reached the device.              *)
UserExit(x) ==
    /\ pc[x] = "user"
    /\ \/ UNCHANGED live
       \/ watchdog[x].pc = "killing" /\ live' = [live EXCEPT ![slot[x]] = Nobody]
    /\ watchdog' = [watchdog EXCEPT ![x] = NoWatchdog]
    /\ Goto(x, "teardown")
    /\ UNCHANGED <<pool, busy, healthy, failures, restarts, waiting, health,
                   slot, attempt, noChrome>>

TeardownDone(x) ==
    /\ pc[x] = "teardown"
    /\ ExitDamru(slot[x])
    /\ Leave(x, "done")
    /\ UNCHANGED <<pool, healthy, failures, restarts, health,
                   attempt, noChrome, watchdog>>

(* Task.cancel() while the session awaits: CancelledError is no Exception, *)
(* so no handler in session() sees it and only the finally clauses run.    *)
(* In the setup loop that means the slot is released and __aexit__ is not  *)
(* called.  In the caller's block it is UserExit.                          *)
Cancel(x) ==
    /\ Cancellable
    /\ \/ /\ pc[x] = "acquire"
          /\ waiting' = waiting \ {x}
          /\ Goto(x, "cancelled")
          /\ UNCHANGED <<busy, slot, live>>
       \/ /\ pc[x] \in HoldPC \ {"user"}
          /\ Leave(x, "cancelled")
          /\ \/ UNCHANGED live
             \/ /\ pc[x] = "setup"
                /\ \E b \in {Nobody, x} : live' = [live EXCEPT ![slot[x]] = b]
             \/ /\ pc[x] \in {"cleanup", "teardown", "reinstall", "refresh"}
                /\ live' = [live EXCEPT ![slot[x]] = Nobody]
    /\ UNCHANGED <<pool, healthy, failures, restarts, health,
                   attempt, noChrome, watchdog>>

-----------------------------------------------------------------------------
(* Steps the event loop takes by itself once what they await has ended.    *)
SessionStep(x) ==
    \/ Acquire(x)
    \/ SetupOk(x)
    \/ SetupFails(x)
    \/ CleanupDone(x)
    \/ ReinstallDone(x)
    \/ RefreshDone(x)
    \/ BackoffDone(x)
    \/ UserExit(x)
    \/ TeardownDone(x)

Watchdog(x) == WatchdogFires(x) \/ WatchdogKills(x)

Finished == pool = "closed" /\ \A x \in Session : pc[x] \in EndPC

Next ==
    \/ \E x \in Session :
          \/ Call(x)
          \/ SessionStep(x)
          \/ Watchdog(x)
          \/ Cancel(x)
    \/ (HealthStep \/ Close) /\ UNCHANGED sessionVars
    \/ Finished /\ UNCHANGED vars

(* Every await in session() but the caller's block and the wait for a slot *)
(* has a timeout of its own (wait_for, sleep, the subprocess timeouts), so *)
(* a session that is not parked eventually takes its next step; that the   *)
(* caller's block ends is what the caller owes the pool.  The health task  *)
(* is assumed nothing of.                                                  *)
Fairness == \A x \in Session : WF_vars(SessionStep(x))

Spec == Init /\ [][Next]_vars /\ Fairness

-----------------------------------------------------------------------------
(* Properties.                                                             *)

(* Two sessions never hold the same slot: each call of session() has its   *)
(* device to itself from _acquire_slot to _release_slot, through retries,  *)
(* cancellation and recovery.                                              *)
SlotExclusive ==
    \A x, y \in Session : slot[x] = slot[y] /\ slot[x] # 0 => x = y

(* The busy flag of a slot is set exactly while a session holds it: no way *)
(* out of session() loses a slot, and none frees a slot another holds.     *)
BusyIffHeld ==
    \A s \in Slot : busy[s] <=> \E x \in Session : slot[x] = s

(* A slot belongs to one session and its busy flag says so: nothing is     *)
(* shared, leaked or freed under its holder by any interleaving of         *)
(* sessions, recoveries and cancellations.                                 *)
SlotsExclusive == SlotExclusive /\ BusyIffHeld

(* A parked session can count on a wake-up: some slot is held, and its     *)
(* release resolves every waiter.  Were every slot idle or dead, nothing   *)
(* would ever set the event again.                                         *)
NoStrandedWaiter == waiting # {} => \E s \in Slot : busy[s]

(* A slot in service is below the failure limit, and outside a recovery    *)
(* below the restart limit: the two counters and the healthy flag are      *)
(* written by different tasks.                                             *)
HealthyBelowLimits ==
    \A s \in Slot : healthy[s] =>
        /\ failures[s] < MaxFailures
        /\ restarts[s] <= MaxFailures

(* A dead slot comes back into service only by the recovery of that very   *)
(* slot (one that was under way when it died), never through a session.    *)
DeadUntilRecovered ==
    [][\A s \in Slot : ~healthy[s] /\ healthy'[s] =>
          health.pc \in {"restart", "install"} /\ health.slot = s]_vars

(* The watchdog of a session ends no browser but that session's own.       *)
WatchdogKillsOwn ==
    [][\A x \in Session, s \in Slot :
          Watchdog(x) /\ live'[s] # live[s] => live[s] = x]_vars

(* While the caller's block runs, its browser is the one on the device,    *)
(* unless the watchdog of the same session has ended it.  Checked where no *)
(* task_timeout is set, and so no watchdog exists.                         *)
UserKeepsBrowser ==
    \A x \in Session : pc[x] = "user" /\ ~HasTimeout => live[slot[x]] = x

(* A session that has ended has no browser left on a device.               *)
ChromeStoppedOnExit ==
    \A s \in Slot : live[s] # Nobody => pc[live[s]] \notin EndPC

(* The health monitor works on a slot no session uses.                     *)
RecoveryExclusive ==
    health.pc \in {"restart", "install"} => ~busy[health.slot]

(* A session does not wait while a healthy slot is free.                   *)
NoIdleWhileWaiting == waiting # {} => \A s \in Slot : ~Free(s)

(* What the safety proofs need besides the properties themselves.          *)
HoldsByPC == \A x \in Session : slot[x] # 0 <=> pc[x] \in HoldPC

RetryLeft ==
    \A x \in Session : pc[x] \in {"reinstall", "refresh", "backoff"} =>
        attempt[x] < MaxRetries

WaitersAcquire == \A x \in waiting : pc[x] = "acquire"

WatchdogOfUser ==
    \A x \in Session : watchdog[x].pc # "none" =>
        pc[x] = "user" /\ watchdog[x].slot = slot[x]

BrowserOfUser ==
    \A x \in Session : pc[x] = "user" => live[slot[x]] \in {x, Nobody}

RestartsBelowLimit ==
    health.pc \in {"restart", "install"} => restarts[health.slot] <= MaxFailures

(* The inductive invariant: types, who holds what, and who may count on a  *)
(* wake-up.  Each conjunct is there because a step of another task could   *)
(* break one of the properties without it.                                 *)
IInv ==
    /\ TypeOK
    /\ RetryLeft
    /\ HoldsByPC
    /\ SlotExclusive
    /\ BusyIffHeld
    /\ WaitersAcquire
    /\ NoStrandedWaiter
    /\ WatchdogOfUser
    /\ BrowserOfUser
    /\ RestartsBelowLimit
    /\ HealthyBelowLimits

(* Every call of session() ends: it gets a slot or learns that there is    *)
(* none, and it returns.                                                   *)
EverySessionEnds ==
    \A x \in Session : pc[x] = "acquire" ~> pc[x] \in EndPC

(* The pool implements the abstract allocator: the holder of a slot is its *)
(* owner, a healthy slot is alive, and every end of a session is "over".   *)
Request ==
    [x \in Session |-> CASE pc[x] = "idle"    -> "none"
                         [] pc[x] = "acquire" -> "pending"
                         [] pc[x] \in HoldPC  -> "granted"
                         [] OTHER             -> "over"]

Owner ==
    [s \in Slot |-> IF \E x \in Session : slot[x] = s
                    THEN CHOOSE x \in Session : slot[x] = s ELSE Nobody]

Closed == pool = "closed"

Alloc == INSTANCE SlotAllocator
         WITH request <- Request, owner <- Owner, alive <- healthy, closed <- Closed

(* Every step of the pool is a step of the allocator or leaves it as it    *)
(* is: no slot is granted twice or while dead, nobody is turned away while *)
(* a slot is in service.                                                   *)
ImplementsAllocator == Alloc!Safety
=============================================================================
