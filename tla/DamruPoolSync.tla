---------------------------- MODULE DamruPoolSync ----------------------------
(***************************************************************************)
(* DamruPoolSync.session(): caller threads that drive the coroutines       *)
(* _enter and _exit on the event loop of a background thread and wait for  *)
(* them with timeouts.  A wait that times out does not stop the coroutine  *)
(* it waited for.                                                          *)
(*                                                                         *)
(* A step of the loop thread is a stretch of code between two awaits, a    *)
(* step of a caller thread one between two blocking waits.  The only place *)
(* where a stretch of the loop thread can be cut in two by a caller thread *)
(* to any effect is _acquire_slot, between the scan and Event.clear().     *)
(* The pool stays open: with-blocks of DamruPoolSync are left after those  *)
(* of its sessions.                                                        *)
(***************************************************************************)
EXTENDS PoolSlots

CONSTANTS
    MaxRetries,       \* config.MAX_SESSION_RETRIES
    HasTimeout,       \* a task_timeout is in force
    CleanupFails,     \* damru.__aexit__ may raise or exceed its 60 seconds
    EnterMayTimeOut,  \* fut.result(timeout=max_enter_time) may give up
    SwapMayTimeOut,   \* swap_fut.result(timeout=15) may give up
    ExitMayTimeOut    \* exit_fut.result(timeout=_cleanup_timeout + 10) may

ASSUME MaxRetriesAssumption == MaxRetries \in Nat
ASSUME SyncFlagsAssumption ==
    /\ HasTimeout \in BOOLEAN /\ CleanupFails \in BOOLEAN
    /\ EnterMayTimeOut \in BOOLEAN /\ SwapMayTimeOut \in BOOLEAN
    /\ ExitMayTimeOut \in BOOLEAN

VARIABLES
    thread,    \* where the caller's thread is
    enter,     \* where the coroutine _enter is
    attempt,   \* its setup attempt, counted from 0
    exit,      \* the coroutine _exit: "none", "running" or "done"
    slotRef,   \* slot_ref[0], 0 for None
    damruRef,  \* the slot whose device damru_ref[0] drives, 0 for None
    timer,     \* the task timeout: "none", "armed", or "killing" once fired
    loop,      \* the session that holds the loop thread between two awaits
    byThread   \* history: how often a thread released one slot, "never", "once" or, after
               \* the release by _exit, "twice"

threadVars == <<thread, enter, attempt, exit, slotRef, damruRef, timer, loop, byThread>>
vars == <<pool, busy, healthy, failures, restarts, waiting, health, live,
          thread, enter, attempt, exit, slotRef, damruRef, timer, loop, byThread>>

ThreadPC == {"idle", "enter", "swap", "connect", "user", "exit", "giveUp", "release"}
ThreadEnd == {"done", "failed", "timedOut"}
EnterPC == {"none", "acquire", "park", "setup", "cleanup", "refresh", "backoff"}
EnterEnd == {"entered", "raised"}

TypeOK ==
    /\ SlotsTypeOK
    /\ thread \in [Session -> ThreadPC \cup ThreadEnd]
    /\ enter \in [Session -> EnterPC \cup EnterEnd]
    /\ attempt \in [Session -> 0..MaxRetries]
    /\ exit \in [Session -> {"none", "running", "done"}]
    /\ slotRef \in [Session -> Slot \cup {0}]
    /\ damruRef \in [Session -> Slot \cup {0}]
    /\ timer \in [Session -> {"none", "armed", "killing"}]
    /\ loop \in Session \cup {Nobody}
    /\ byThread \in {"never", "once", "twice"}

Init ==
    /\ SlotsInit
    /\ thread = [x \in Session |-> "idle"]
    /\ enter = [x \in Session |-> "none"]
    /\ attempt = [x \in Session |-> 0]
    /\ exit = [x \in Session |-> "none"]
    /\ slotRef = [x \in Session |-> 0]
    /\ damruRef = [x \in Session |-> 0]
    /\ timer = [x \in Session |-> "none"]
    /\ loop = Nobody
    /\ byThread = "never"

-----------------------------------------------------------------------------
ThreadTo(x, l) == thread' = [thread EXCEPT ![x] = l]
EnterTo(x, l)  == enter' = [enter EXCEPT ![x] = l]

(* session() is called on a thread of its own: _enter is handed to the     *)
(* loop and the thread blocks on its future.                               *)
Call(x) ==
    /\ thread[x] = "idle"
    /\ ThreadTo(x, "enter")
    /\ EnterTo(x, "acquire")
    /\ UNCHANGED <<slotVars, attempt, exit, slotRef, damruRef, timer, loop, byThread>>

(* The loop thread is between two stretches, or in the one of x.           *)
LoopFree == loop = Nobody

(* _acquire_slot: the scan takes a slot, finds every slot dead, or finds   *)
(* none free and goes on to park.                                          *)
Scan(x) ==
    /\ LoopFree
    /\ enter[x] = "acquire" /\ x \notin waiting
    /\ \/ \E s \in Slot :
            /\ Take(s)
            /\ slotRef' = [slotRef EXCEPT ![x] = s]
            /\ EnterTo(x, "setup")
            /\ UNCHANGED loop
       \/ /\ \A s \in Slot : ~Free(s)
          /\ AnyHealthy
          /\ EnterTo(x, "park")
          /\ loop' = x
          /\ UNCHANGED <<busy, slotRef>>
       \/ /\ AllDead
          /\ EnterTo(x, "raised")
          /\ UNCHANGED <<busy, slotRef, loop>>
    /\ UNCHANGED <<pool, healthy, failures, restarts, waiting, health, live,
                   thread, attempt, exit, damruRef, timer, byThread>>

(* ... and parks: clear the event and wait on it, whatever a thread has    *)
(* done since the scan.                                                    *)
ClearAndWait(x) ==
    /\ enter[x] = "park" /\ loop = x
    /\ waiting' = waiting \cup {x}
    /\ EnterTo(x, "acquire")
    /\ loop' = Nobody
    /\ UNCHANGED <<pool, busy, healthy, failures, restarts, health, live,
                   thread, attempt, exit, slotRef, damruRef, timer, byThread>>

(* damru.__aenter__() returned and _enter is done.                         *)
SetupOk(x) ==
    LET s == slotRef[x] IN
    /\ LoopFree
    /\ enter[x] = "setup"
    /\ live' = [live EXCEPT ![s] = x]
    /\ CountSuccess(s)
    /\ damruRef' = [damruRef EXCEPT ![x] = s]
    /\ EnterTo(x, "entered")
    /\ UNCHANGED <<pool, busy, restarts, waiting, health,
                   thread, attempt, exit, slotRef, timer, loop, byThread>>

(* It raised or exceeded the session timeout; __aexit__ is awaited.        *)
SetupFails(x) ==
    LET s == slotRef[x] IN
    /\ LoopFree
    /\ enter[x] = "setup"
    /\ \E b \in {live[s], Nobody, x} : live' = [live EXCEPT ![s] = b]
    /\ EnterTo(x, "cleanup")
    /\ UNCHANGED <<pool, busy, healthy, failures, restarts, waiting, health,
                   thread, attempt, exit, slotRef, damruRef, timer, loop, byThread>>

(* damru.__aexit__ stops Chrome on the device, or fails and is abandoned   *)
(* before or after it did.                                                 *)
ExitDamru(s) ==
    \/ live' = [live EXCEPT ![s] = Nobody]
    \/ CleanupFails /\ UNCHANGED live

(* Mutant: the last failed attempt raises without releasing the slot.      *)
GiveSlotUpSilently(x) ==
    /\ slotRef' = [slotRef EXCEPT ![x] = 0]
    /\ UNCHANGED <<busy, waiting>>

(* _enter returns its slot after the last failed attempt.                  *)
GiveSlotUp(x) ==
    /\ Release(slotRef[x])
    /\ slotRef' = [slotRef EXCEPT ![x] = 0]

(* Mutant: one attempt too many before the failure is raised.              *)
LastAttemptLate(x) == attempt[x] > MaxRetries

LastAttempt(x) == attempt[x] = MaxRetries

(* The handler of a failed setup goes on after the cleanup.                *)
CleanupDone(x) ==
    LET s == slotRef[x] IN
    /\ LoopFree
    /\ enter[x] = "cleanup"
    /\ ExitDamru(s)
    /\ \/ /\ LastAttempt(x)
          /\ CountFailure(s)
          /\ GiveSlotUp(x)
          /\ EnterTo(x, "raised")
       \/ /\ ~LastAttempt(x)
          /\ EnterTo(x, IF Mode = "mumu" THEN "refresh" ELSE "backoff")
          /\ UNCHANGED <<busy, healthy, failures, waiting, slotRef>>
    /\ UNCHANGED <<pool, restarts, health, thread, attempt, exit, damruRef, timer, loop, byThread>>

(* _refresh_mumu_slot ended; it may have restarted the instance.           *)
RefreshDone(x) ==
    /\ LoopFree
    /\ enter[x] = "refresh"
    /\ \/ UNCHANGED live
       \/ live' = [live EXCEPT ![slotRef[x]] = Nobody]
    /\ EnterTo(x, "backoff")
    /\ UNCHANGED <<pool, busy, healthy, failures, restarts, waiting, health,
                   thread, attempt, exit, slotRef, damruRef, timer, loop, byThread>>

BackoffDone(x) ==
    /\ LoopFree
    /\ enter[x] = "backoff"
    /\ attempt' = [attempt EXCEPT ![x] = @ + 1]
    /\ EnterTo(x, "setup")
    /\ UNCHANGED <<slotVars, thread, exit, slotRef, damruRef, timer, loop, byThread>>

-----------------------------------------------------------------------------
(* The caller's thread.                                                    *)

(* fut.result() returns, raises what _enter raised, or gives up.  The      *)
(* coroutine of a thread that gave up runs on.                             *)
EnterReturns(x) ==
    /\ thread[x] = "enter"
    /\ \/ enter[x] = "entered" /\ ThreadTo(x, "swap")
       \/ enter[x] = "raised" /\ ThreadTo(x, "failed")
    /\ UNCHANGED <<slotVars, enter, attempt, exit, slotRef, damruRef, timer, loop, byThread>>

(* Mutant: fut.result() without a timeout.                                 *)
EnterNeverTimesOut(x) ==
    FALSE /\ UNCHANGED vars

EnterTimesOut(x) ==
    /\ EnterMayTimeOut
    /\ thread[x] = "enter" /\ enter[x] \notin EnterEnd
    /\ ThreadTo(x, "timedOut")
    /\ UNCHANGED <<slotVars, enter, attempt, exit, slotRef, damruRef, timer, loop, byThread>>

(* _swap_to_sync drops the async CDP client and leaves Chrome alone.  If   *)
(* the thread gives up on it, session() ends by the timeout's exception.   *)
SwapReturns(x) ==
    /\ thread[x] = "swap"
    /\ ThreadTo(x, "connect")
    /\ UNCHANGED <<slotVars, enter, attempt, exit, slotRef, damruRef, timer, loop, byThread>>

SwapTimesOut(x) ==
    /\ SwapMayTimeOut
    /\ thread[x] = "swap"
    /\ ThreadTo(x, "timedOut")
    /\ UNCHANGED <<slotVars, enter, attempt, exit, slotRef, damruRef, timer, loop, byThread>>

(* Mutant: a failed sync connect raises without _exit.                     *)
ConnectWithoutExit(x) ==
    /\ thread[x] = "connect"
    /\ \/ /\ ThreadTo(x, "user")
          /\ timer' = [timer EXCEPT ![x] = IF HasTimeout THEN "armed" ELSE "none"]
       \/ /\ ThreadTo(x, "failed")
          /\ UNCHANGED timer
    /\ UNCHANGED <<slotVars, enter, attempt, exit, slotRef, damruRef, loop, byThread>>

(* The sync CDP client connects and the caller's block starts under a      *)
(* timer, or it does not and _exit is handed to the loop.                  *)
Connect(x) ==
    /\ thread[x] = "connect"
    /\ \/ /\ ThreadTo(x, "user")
          /\ timer' = [timer EXCEPT ![x] = IF HasTimeout THEN "armed" ELSE "none"]
          /\ UNCHANGED exit
       \/ /\ ThreadTo(x, "giveUp")
          /\ exit' = [exit EXCEPT ![x] = "running"]
          /\ UNCHANGED timer
    /\ UNCHANGED <<slotVars, enter, attempt, slotRef, damruRef, loop, byThread>>

(* The timer fires: its thread hands _kill_chrome to the loop.             *)
TimerFires(x) ==
    /\ timer[x] = "armed"
    /\ timer' = [timer EXCEPT ![x] = "killing"]
    /\ UNCHANGED <<slotVars, thread, enter, attempt, exit, slotRef, damruRef, loop, byThread>>

(* _kill_chrome: force_stop reaches the device of damru_ref[0].            *)
KillChrome(x) ==
    /\ LoopFree
    /\ timer[x] = "killing"
    /\ timer' = [timer EXCEPT ![x] = "none"]
    /\ live' = [live EXCEPT ![damruRef[x]] = Nobody]
    /\ UNCHANGED <<pool, busy, healthy, failures, restarts, waiting, health,
                   thread, enter, attempt, exit, slotRef, damruRef, loop, byThread>>

(* Mutant: the timer is not cancelled.                                     *)
UserExitKeepsTimer(x) ==
    /\ thread[x] = "user"
    /\ exit' = [exit EXCEPT ![x] = "running"]
    /\ ThreadTo(x, "exit")
    /\ UNCHANGED <<slotVars, enter, attempt, slotRef, damruRef, timer, loop, byThread>>

(* The caller's block ends: timer.cancel() stops a timer that has not      *)
(* fired, the sync client is closed and _exit is handed to the loop.       *)
UserExit(x) ==
    /\ thread[x] = "user"
    /\ timer' = [timer EXCEPT ![x] = IF @ = "armed" THEN "none" ELSE @]
    /\ exit' = [exit EXCEPT ![x] = "running"]
    /\ ThreadTo(x, "exit")
    /\ UNCHANGED <<slotVars, enter, attempt, slotRef, damruRef, loop, byThread>>

(* A release by way of slot_ref, if it still names a slot.                 *)
ReleaseRef(x) ==
    IF slotRef[x] # 0 THEN Release(slotRef[x]) ELSE UNCHANGED <<busy, waiting>>

(* _exit: stop Chrome and release the slot of slot_ref, which it keeps.    *)
ExitDone(x) ==
    /\ LoopFree
    /\ exit[x] = "running"
    /\ ExitDamru(damruRef[x])
    /\ ReleaseRef(x)
    /\ exit' = [exit EXCEPT ![x] = "done"]
    /\ UNCHANGED <<pool, healthy, failures, restarts, health,
                   thread, enter, attempt, slotRef, damruRef, timer, loop, byThread>>

ExitReturns(x) ==
    /\ exit[x] = "done"
    /\ \/ thread[x] = "exit" /\ ThreadTo(x, "done")
       \/ thread[x] = "giveUp" /\ ThreadTo(x, "failed")
    /\ UNCHANGED <<slotVars, enter, attempt, exit, slotRef, damruRef, timer, loop, byThread>>

(* exit_fut.result() gives up: after a block the thread goes on to release *)
(* the slot itself, after a failed connect it does not.                    *)
ExitTimesOut(x) ==
    /\ ExitMayTimeOut
    /\ exit[x] = "running"
    /\ \/ thread[x] = "exit" /\ ThreadTo(x, "release")
       \/ thread[x] = "giveUp" /\ ThreadTo(x, "failed")
    /\ UNCHANGED <<slotVars, enter, attempt, exit, slotRef, damruRef, timer, loop, byThread>>

(* "Always release slot even if async cleanup failed/timed out": on the    *)
(* caller's thread, next to whatever the loop thread is doing.             *)
ThreadReleases(x) ==
    /\ thread[x] = "release"
    /\ ReleaseRef(x)
    /\ byThread' = IF slotRef[x] = 0 THEN byThread
                   ELSE IF exit[x] = "done" THEN "twice"
                   ELSE IF byThread = "never" THEN "once" ELSE byThread
    /\ slotRef' = [slotRef EXCEPT ![x] = 0]
    /\ ThreadTo(x, "done")
    /\ UNCHANGED <<pool, healthy, failures, restarts, health, live,
                   enter, attempt, exit, damruRef, timer, loop>>

-----------------------------------------------------------------------------
LoopStep(x) ==
    \/ Scan(x)
    \/ ClearAndWait(x)
    \/ SetupOk(x)
    \/ SetupFails(x)
    \/ CleanupDone(x)
    \/ RefreshDone(x)
    \/ BackoffDone(x)
    \/ ExitDone(x)

ThreadStep(x) ==
    \/ EnterReturns(x)
    \/ EnterTimesOut(x)
    \/ SwapReturns(x)
    \/ SwapTimesOut(x)
    \/ Connect(x)
    \/ UserExit(x)
    \/ ExitReturns(x)
    \/ ExitTimesOut(x)
    \/ ThreadReleases(x)

Watchdog(x) == TimerFires(x) \/ KillChrome(x)

Finished == \A x \in Session : thread[x] \in ThreadEnd

Next ==
    \/ \E x \in Session : Call(x) \/ LoopStep(x) \/ ThreadStep(x) \/ Watchdog(x)
    \/ LoopFree /\ HealthStep /\ UNCHANGED threadVars
    \/ Finished /\ UNCHANGED vars

(* Coroutines and threads run; every wait of a thread has a timeout, and   *)
(* the caller's block ends.                                                *)
Fairness == \A x \in Session : WF_vars(LoopStep(x)) /\ WF_vars(ThreadStep(x))

Spec == Init /\ [][Next]_vars /\ Fairness

-----------------------------------------------------------------------------
(* A session holds the slot of slot_ref until _exit, or its thread, has    *)
(* released it.                                                            *)
Holds(x) == slotRef[x] # 0 /\ exit[x] # "done"

ReleasedTwice == byThread = "twice"

(* Two threads never hold the same slot, and a slot is marked busy exactly *)
(* while a session holds it, up to the day on which a thread that gave up  *)
(* on _exit and _exit itself have both released one.                       *)
SlotExclusive ==
    ReleasedTwice \/ \A x, y \in Session : Holds(x) /\ Holds(y) /\ slotRef[x] = slotRef[y] => x = y

BusyIffHeld ==
    ReleasedTwice \/ \A s \in Slot : busy[s] <=> \E x \in Session : Holds(x) /\ slotRef[x] = s

SlotsExclusive == SlotExclusive /\ BusyIffHeld

(* What loses a slot is a thread that gave up on _enter or on the swap:    *)
(* every other way through session(), a failed connect and a cleanup that  *)
(* times out included, leaves somebody to release it.                      *)
OnlyGivingUpLosesSlots ==
    \A x \in Session : Holds(x) /\ thread[x] # "timedOut" =>
        \/ thread[x] \notin ThreadEnd
        \/ exit[x] = "running"

(* Whoever waits for a slot can count on a release to come, as long as all *)
(* releases are made by the loop: one made by a thread can fall between    *)
(* the scan of _acquire_slot and its wait.                                 *)
NoStrandedWaiter ==
    byThread = "never" => (waiting # {} => \E s \in Slot : busy[s])

(* A timer fires only while its session's block runs, and the stop of      *)
(* Chrome it sends hits another session's browser only when it is carried  *)
(* out after that block has ended.                                         *)
TimeoutKillsOwn ==
    /\ [](\A x \in Session : timer[x] = "armed" => thread[x] = "user")
    /\ [][\A x \in Session, s \in Slot :
            Watchdog(x) /\ live'[s] # live[s] =>
                live[s] = x \/ thread[x] # "user" \/ ReleasedTwice]_vars

(* No thread blocks forever in session(), whatever the loop thread does    *)
(* with its coroutines.                                                    *)
EveryCallReturns ==
    \A x \in Session : thread[x] = "enter" ~> thread[x] \in ThreadEnd

(* The threads use the slots as the abstract allocator allows, until one   *)
(* is released twice.                                                      *)
Request ==
    [x \in Session |-> CASE enter[x] = "none"               -> "none"
                         [] enter[x] \in {"acquire", "park"} -> "pending"
                         [] Holds(x)                        -> "granted"
                         [] OTHER                           -> "over"]

Owner ==
    [s \in Slot |-> IF \E x \in Session : Holds(x) /\ slotRef[x] = s
                    THEN CHOOSE x \in Session : Holds(x) /\ slotRef[x] = s ELSE Nobody]

Alloc == INSTANCE SlotAllocator
         WITH request <- Request, owner <- Owner, alive <- healthy, closed <- FALSE

ImplementsAllocator ==
    Alloc!Init /\ [][ReleasedTwice' \/ [Alloc!Next]_(Alloc!vars)]_vars
=============================================================================
