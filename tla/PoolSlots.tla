------------------------------ MODULE PoolSlots ------------------------------
(***************************************************************************)
(* The slot table of damru/pool.py: the list of DeviceSlot records that    *)
(* DamruPool and DamruPoolSync share, the operations that take and return  *)
(* a slot, and the background health monitor that probes idle slots and    *)
(* restarts the device behind one that does not answer.                    *)
(*                                                                         *)
(* Everything here runs on one asyncio event loop.  A coroutine runs       *)
(* without interruption from one await to the next, so an action below is  *)
(* such a stretch of code.                                                 *)
(***************************************************************************)
EXTENDS Integers, FiniteSets

CONSTANTS
    Session,      \* the calls of session(), each one a task (or a thread)
    NumSlots,     \* how many device slots the pool was opened with
    Mode,         \* "manual" | "auto" | "mumu"
    MaxFailures,  \* config.MAX_SLOT_FAILURES
    HealthOn,     \* config.HEALTH_CHECK_INTERVAL > 0
    HasApk,       \* a Chrome APK directory is known for the slots
    Nobody        \* not a session: no browser is running

ASSUME NumSlotsAssumption == NumSlots \in Nat \ {0}
ASSUME ModeAssumption == Mode \in {"manual", "auto", "mumu"}
ASSUME MaxFailuresAssumption == MaxFailures \in Nat \ {0}
ASSUME FlagsAssumption == HealthOn \in BOOLEAN /\ HasApk \in BOOLEAN
ASSUME NobodyAssumption == Nobody \notin Session

Slot == 1..NumSlots

VARIABLES
    pool,      \* "open", "closing" (inside __aexit__) or "closed" (_slots cleared)
    busy,      \* DeviceSlot.busy
    healthy,   \* DeviceSlot.healthy
    failures,  \* DeviceSlot.consecutive_failures
    restarts,  \* DeviceSlot.restart_count
    waiting,   \* the sessions parked in _free_event.wait()
    health,    \* the health task: where it is and the slot it looks at
    live       \* the session whose Chrome runs on the slot's device

slotVars == <<pool, busy, healthy, failures, restarts, waiting, health, live>>

HealthState ==
    [pc : {"off", "sleep"}, slot : {0}]
        \cup [pc : {"probe", "restart", "install"}, slot : Slot]

HealthOff    == [pc |-> "off", slot |-> 0]
HealthAsleep == [pc |-> "sleep", slot |-> 0]

SlotsTypeOK ==
    /\ pool \in {"open", "closing", "closed"}
    /\ busy \in [Slot -> BOOLEAN]
    /\ healthy \in [Slot -> BOOLEAN]
    /\ failures \in [Slot -> Nat]
    /\ restarts \in [Slot -> Nat]
    /\ waiting \in SUBSET Session
    /\ health \in HealthState
    /\ live \in [Slot -> Session \cup {Nobody}]

(* The pool as __aenter__ leaves it: every slot free and healthy.  The     *)
(* devices may still run a browser of an earlier process; no session of    *)
(* this one is affected by it, so the devices start empty.                 *)
SlotsInit ==
    /\ pool = "open"
    /\ busy = [s \in Slot |-> FALSE]
    /\ healthy = [s \in Slot |-> TRUE]
    /\ failures = [s \in Slot |-> 0]
    /\ restarts = [s \in Slot |-> 0]
    /\ waiting = {}
    /\ health = IF HealthOn THEN HealthAsleep ELSE HealthOff
    /\ live = [s \in Slot |-> Nobody]

-----------------------------------------------------------------------------
(* _acquire_slot and _release_slot.                                        *)

(* Mutant: the scan does not test healthy.                                 *)
FreeIgnoringHealth(s) == pool # "closed" /\ ~busy[s]

(* A slot the scan of _acquire_slot stops at.  __aexit__ empties _slots.   *)
Free(s) == pool # "closed" /\ ~busy[s] /\ healthy[s]

AnyHealthy == pool # "closed" /\ \E s \in Slot : healthy[s]

(* The scan takes the first free healthy slot, in list order.              *)
Take(s) ==
    /\ Free(s)
    /\ \A r \in Slot : r < s => ~Free(r)
    /\ busy' = [busy EXCEPT ![s] = TRUE]

(* No slot is free but one is healthy: clear the event and wait on it,     *)
(* with no await between the scan and the wait.                            *)
Park(x) ==
    /\ \A s \in Slot : ~Free(s)
    /\ AnyHealthy
    /\ waiting' = waiting \cup {x}

AllDead == \A s \in Slot : ~Free(s) /\ ~AnyHealthy

(* Mutant: the slot is freed and the event is not set.                     *)
ReleaseSilently(s) ==
    /\ busy' = [busy EXCEPT ![s] = FALSE]
    /\ UNCHANGED waiting

(* _release_slot: free the slot; Event.set() resolves the future of every  *)
(* parked session, each of which will scan again.                          *)
Release(s) ==
    /\ busy' = [busy EXCEPT ![s] = FALSE]
    /\ waiting' = {}

(* A session gives up on the slot's device for good: one more consecutive  *)
(* failure, and the slot is dead at the limit.                             *)
CountFailure(s) ==
    /\ failures' = [failures EXCEPT ![s] = @ + 1]
    /\ healthy' = [healthy EXCEPT ![s] = @ /\ failures[s] + 1 < MaxFailures]

(* Mutant: a good setup also puts the slot back into service.              *)
CountSuccessRevives(s) ==
    /\ failures' = [failures EXCEPT ![s] = 0]
    /\ healthy' = [healthy EXCEPT ![s] = TRUE]

(* A setup on the slot's device worked.                                    *)
CountSuccess(s) ==
    /\ failures' = [failures EXCEPT ![s] = 0]
    /\ UNCHANGED healthy

-----------------------------------------------------------------------------
(* _health_loop and _recover_slot.                                         *)

(* The loop goes on to the next slot at or after i that is idle and        *)
(* healthy, in list order, or back to sleep; h is the value of healthy     *)
(* when it looks.                                                          *)
Advance(i, h) ==
    LET todo == {s \in Slot : s >= i /\ ~busy[s] /\ h[s]}
    IN  \/ /\ todo = {}
           /\ health' = HealthAsleep
        \/ \E s \in todo :
              /\ \A r \in todo : s <= r
              /\ health' = [pc |-> "probe", slot |-> s]

HealthWake ==
    /\ health.pc = "sleep"
    /\ pool = "open"
    /\ Advance(1, healthy)
    /\ UNCHANGED <<pool, busy, healthy, failures, restarts, waiting, live>>

(* "echo ok" came back, or did not but the slot was acquired meanwhile.    *)
ProbePassed ==
    /\ health.pc = "probe"
    /\ Advance(health.slot + 1, healthy)
    /\ UNCHANGED <<pool, busy, healthy, failures, restarts, waiting, live>>

(* The probe failed and the slot is still idle: _recover_slot runs up to   *)
(* its first await.  A manual slot is declared dead, and so is one that    *)
(* was restarted MaxFailures times; any other is restarted.                *)
ProbeFailed ==
    LET s == health.slot IN
    /\ health.pc = "probe"
    /\ ~busy[s]
    /\ \/ /\ Mode = "manual"
          /\ healthy' = [healthy EXCEPT ![s] = FALSE]
          /\ Advance(s + 1, healthy')
          /\ UNCHANGED restarts
       \/ /\ Mode # "manual"
          /\ restarts' = [restarts EXCEPT ![s] = @ + 1]
          /\ \/ /\ restarts[s] + 1 > MaxFailures
                /\ healthy' = [healthy EXCEPT ![s] = FALSE]
                /\ Advance(s + 1, healthy')
             \/ /\ restarts[s] + 1 <= MaxFailures
                /\ health' = [health EXCEPT !.pc = "restart"]
                /\ UNCHANGED healthy
    /\ UNCHANGED <<pool, busy, failures, waiting, live>>

(* The end of a recovery that worked: the slot is healthy again.           *)
RecoverySucceeds(s) ==
    /\ healthy' = [healthy EXCEPT ![s] = TRUE]
    /\ failures' = [failures EXCEPT ![s] = 0]
    /\ Advance(s + 1, healthy')

(* The device came back from its restart, which ended any browser on it.   *)
(* In auto mode Chrome is then installed again if an APK is known.         *)
RestartDone ==
    LET s == health.slot IN
    /\ health.pc = "restart"
    /\ live' = [live EXCEPT ![s] = Nobody]
    /\ \/ /\ Mode = "auto" /\ HasApk
          /\ health' = [health EXCEPT !.pc = "install"]
          /\ UNCHANGED <<healthy, failures>>
       \/ /\ ~(Mode = "auto" /\ HasApk)
          /\ RecoverySucceeds(s)
    /\ UNCHANGED <<pool, busy, restarts, waiting>>

(* install_chrome replaces the package, which ends a running Chrome.       *)
InstallDone ==
    LET s == health.slot IN
    /\ health.pc = "install"
    /\ live' = [live EXCEPT ![s] = Nobody]
    /\ RecoverySucceeds(s)
    /\ UNCHANGED <<pool, busy, restarts, waiting>>

(* Any step of the recovery raised; the device may or may not be down.     *)
RecoveryFails ==
    LET s == health.slot IN
    /\ health.pc \in {"restart", "install"}
    /\ healthy' = [healthy EXCEPT ![s] = FALSE]
    /\ \/ UNCHANGED live
       \/ live' = [live EXCEPT ![s] = Nobody]
    /\ Advance(s + 1, healthy')
    /\ UNCHANGED <<pool, busy, failures, restarts, waiting>>

(* DamruPool.__aexit__ up to its first await: _running is cleared and the  *)
(* health task cancelled wherever it is.                                   *)
CloseBegin ==
    /\ pool = "open"
    /\ pool' = "closing"
    /\ health' = HealthOff
    /\ UNCHANGED <<busy, healthy, failures, restarts, waiting, live>>

(* The rest of __aexit__: the ADB endpoints are disconnected and _slots is *)
(* cleared.  Sessions may still hold their DeviceSlot records.             *)
CloseEnd ==
    /\ pool = "closing"
    /\ pool' = "closed"
    /\ UNCHANGED <<busy, healthy, failures, restarts, waiting, health, live>>

HealthStep ==
    \/ HealthWake
    \/ ProbePassed
    \/ ProbeFailed
    \/ RestartDone
    \/ InstallDone
    \/ RecoveryFails

Close == CloseBegin \/ CloseEnd
=============================================================================
