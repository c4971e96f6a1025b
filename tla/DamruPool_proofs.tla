--------------------------- MODULE DamruPool_proofs ---------------------------
(***************************************************************************)
(* Proofs about DamruPool for any number of sessions, slots and retries,   *)
(* in every mode.  First the types, then the inductive invariant of the    *)
(* module part by part, then the properties that follow from it.           *)
(***************************************************************************)
EXTENDS DamruPool, TLAPS

USE NumSlotsAssumption, ModeAssumption, MaxFailuresAssumption,
    FlagsAssumption, NobodyAssumption, MaxRetriesAssumption, PoolFlagsAssumption

-----------------------------------------------------------------------------
(* The health task moves to a slot of the pool or to sleep.                *)
LEMMA AdvanceType ==
    ASSUME NEW i \in Int, NEW h, Advance(i, h)
    PROVE  health' \in HealthState
  BY DEF Advance, HealthState, HealthAsleep

(* A session that leaves has no slot afterwards.                           *)
LEMMA LeaveType ==
    ASSUME TypeOK, NEW x \in Session, NEW l \in HoldPC \cup EndPC, Leave(x, l)
    PROVE  /\ busy' \in [Slot -> BOOLEAN]
           /\ waiting' \in SUBSET Session
           /\ slot' \in [Session -> Slot \cup {0}]
           /\ pc' \in [Session -> {"idle", "acquire"} \cup HoldPC \cup EndPC]
  BY DEF Leave, Release, Goto, TypeOK, SlotsTypeOK

(* What the browser table may become when one slot is overwritten.         *)
LEMMA LiveType ==
    ASSUME TypeOK, NEW s, NEW b \in Session \cup {Nobody},
           live' = live \/ live' = [live EXCEPT ![s] = b]
    PROVE  live' \in [Slot -> Session \cup {Nobody}]
  BY DEF TypeOK, SlotsTypeOK

LEMMA TypeInit == Init => TypeOK
  BY DEF Init, SlotsInit, TypeOK, SlotsTypeOK, HealthState, HealthAsleep, HealthOff,
         NoWatchdog, WatchdogState

LEMMA TypeHealth ==
    ASSUME TypeOK, HealthStep \/ Close, UNCHANGED sessionVars
    PROVE  TypeOK'
<1> USE DEF TypeOK, SlotsTypeOK, sessionVars, Slot
<1>1. CASE HealthWake
  BY <1>1, AdvanceType DEF HealthWake
<1>2. CASE ProbePassed
  <2>1. health.slot + 1 \in Int
    BY <1>2 DEF ProbePassed, HealthState
  <2> QED BY <1>2, <2>1, AdvanceType DEF ProbePassed
<1>3. CASE ProbeFailed
  <2>1. health.slot \in Slot /\ health.slot + 1 \in Int
    BY <1>3 DEF ProbeFailed, HealthState
  <2>2. healthy' \in [Slot -> BOOLEAN]
    BY <1>3 DEF ProbeFailed
  <2>4. restarts' \in [Slot -> Nat]
    BY <1>3, <2>1 DEF ProbeFailed
  <2>3. health' \in HealthState
    BY <1>3, <2>1, AdvanceType DEF ProbeFailed, HealthState
  <2> QED BY <1>3, <2>2, <2>3, <2>4 DEF ProbeFailed
<1>4. CASE RestartDone
  <2>1. health.slot \in Slot /\ health.slot + 1 \in Int
    BY <1>4 DEF RestartDone, HealthState
  <2>2. health' \in HealthState
    BY <1>4, <2>1, AdvanceType DEF RestartDone, RecoverySucceeds, HealthState
  <2>3. healthy' \in [Slot -> BOOLEAN] /\ failures' \in [Slot -> Nat]
    <3>1. CASE UNCHANGED <<healthy, failures>>
      BY <3>1
    <3>2. CASE RecoverySucceeds(health.slot)
      BY <3>2 DEF RecoverySucceeds
    <3> QED BY <1>4, <3>1, <3>2 DEF RestartDone
  <2>4. live' \in [Slot -> Session \cup {Nobody}]
    BY <1>4 DEF RestartDone
  <2> QED BY <1>4, <2>2, <2>3, <2>4 DEF RestartDone
<1>5. CASE InstallDone
  <2>1. health.slot \in Slot /\ health.slot + 1 \in Int
    BY <1>5 DEF InstallDone, HealthState
  <2>2. health' \in HealthState
    BY <1>5, <2>1, AdvanceType DEF InstallDone, RecoverySucceeds
  <2> QED BY <1>5, <2>1, <2>2 DEF InstallDone, RecoverySucceeds
<1>6. CASE RecoveryFails
  <2>1. health.slot \in Slot /\ health.slot + 1 \in Int
    BY <1>6 DEF RecoveryFails, HealthState
  <2>2. health' \in HealthState
    BY <1>6, <2>1, AdvanceType DEF RecoveryFails
  <2> QED BY <1>6, <2>1, <2>2 DEF RecoveryFails
<1>7. CASE Close
  BY <1>7 DEF Close, CloseBegin, CloseEnd, HealthState, HealthOff
<1> QED BY <1>1, <1>2, <1>3, <1>4, <1>5, <1>6, <1>7 DEF HealthStep

(* A session at an await of session() has a slot of the pool.              *)
LEMMA HolderHasSlot ==
    ASSUME TypeOK, HoldsByPC, NEW x \in Session, pc[x] \in HoldPC
    PROVE  slot[x] \in Slot
  BY DEF TypeOK, HoldsByPC

LEMMA TypeSession ==
    ASSUME TypeOK, RetryLeft, HoldsByPC, NEW x \in Session,
           Call(x) \/ SessionStep(x) \/ Watchdog(x) \/ Cancel(x)
    PROVE  TypeOK'
<1> DEFINE PC == {"idle", "acquire"} \cup HoldPC \cup EndPC
<1>0. ASSUME NEW l \in PC, Goto(x, l)
      PROVE  pc' \in [Session -> PC]
  BY <1>0 DEF Goto, TypeOK
<1>1. CASE Call(x)
  BY <1>0, <1>1 DEF Call, TypeOK, SlotsTypeOK, slotVars
<1>2. CASE Acquire(x)
  <2>1. CASE \E s \in Slot : Take(s) /\ slot' = [slot EXCEPT ![x] = s]
                             /\ Goto(x, "setup") /\ UNCHANGED waiting
    BY <1>0, <1>2, <2>1 DEF Acquire, Take, HoldPC, TypeOK, SlotsTypeOK
  <2>2. CASE Park(x) /\ UNCHANGED <<busy, slot, pc>>
    BY <1>2, <2>2 DEF Acquire, Park, TypeOK, SlotsTypeOK
  <2>3. CASE Goto(x, "dead") /\ UNCHANGED <<busy, slot, waiting>>
    BY <1>0, <1>2, <2>3 DEF Acquire, EndPC, TypeOK, SlotsTypeOK
  <2> QED BY <1>2, <2>1, <2>2, <2>3 DEF Acquire
<1>3. CASE SetupOk(x)
  <2>1. slot[x] \in Slot
    BY <1>3, HolderHasSlot DEF SetupOk, HoldPC
  <2>2. watchdog' \in [Session -> WatchdogState]
    <3>1. watchdog' = [watchdog EXCEPT ![x] = [pc |-> "armed", slot |-> slot[x]]]
          \/ watchdog' = [watchdog EXCEPT ![x] = NoWatchdog]
      BY <1>3 DEF SetupOk
    <3> QED BY <2>1, <3>1 DEF WatchdogState, NoWatchdog, TypeOK
  <2>3. failures' \in [Slot -> Nat] /\ live' \in [Slot -> Session \cup {Nobody}]
    BY <1>3 DEF SetupOk, CountSuccess, TypeOK, SlotsTypeOK
  <2> QED BY <1>0, <1>3, <2>2, <2>3
          DEF SetupOk, CountSuccess, HoldPC, TypeOK, SlotsTypeOK
<1>4. CASE SetupFails(x)
  <2>1. live' \in [Slot -> Session \cup {Nobody}]
    <3>1. slot[x] \in Slot
      BY <1>4, HolderHasSlot DEF SetupFails, HoldPC
    <3>2. PICK b \in {live[slot[x]], Nobody, x} : live' = [live EXCEPT ![slot[x]] = b]
      BY <1>4 DEF SetupFails
    <3>3. b \in Session \cup {Nobody}
      BY <3>1, <3>2 DEF TypeOK, SlotsTypeOK
    <3> QED BY <3>2, <3>3 DEF TypeOK, SlotsTypeOK
  <2>2. noChrome' \in [Session -> BOOLEAN]
    BY <1>4 DEF SetupFails, TypeOK
  <2> QED BY <1>0, <1>4, <2>1, <2>2 DEF SetupFails, HoldPC, TypeOK, SlotsTypeOK
<1>5. CASE CleanupDone(x)
  <2>1. live' \in [Slot -> Session \cup {Nobody}]
    BY <1>5 DEF CleanupDone, ExitDamru, TypeOK, SlotsTypeOK
  <2>2. CASE CountFailure(slot[x]) /\ Leave(x, "failed")
    <3>1. slot[x] \in Slot
      BY <1>5, HolderHasSlot DEF CleanupDone, HoldPC
    <3>2. failures' \in [Slot -> Nat]
      BY <2>2, <3>1 DEF CountFailure, TypeOK, SlotsTypeOK
    <3>3. healthy' \in [Slot -> BOOLEAN]
      BY <2>2, <3>1, ZenonT(30) DEF CountFailure, TypeOK, SlotsTypeOK
    <3> QED BY <1>5, <2>1, <2>2, <3>2, <3>3, LeaveType
            DEF CleanupDone, EndPC, TypeOK, SlotsTypeOK
  <2>3. CASE UNCHANGED <<busy, healthy, failures, waiting, slot>>
    <3>1. pc' \in [Session -> PC]
      BY <1>0, <1>5, <2>3 DEF CleanupDone, HoldPC, EndPC, Leave
    <3> QED BY <1>5, <2>1, <2>3, <3>1 DEF CleanupDone, TypeOK, SlotsTypeOK
  <2> QED BY <1>5, <2>2, <2>3 DEF CleanupDone
<1>6. CASE ReinstallDone(x)
  BY <1>0, <1>6 DEF ReinstallDone, HoldPC, TypeOK, SlotsTypeOK
<1>7. CASE RefreshDone(x)
  BY <1>0, <1>7 DEF RefreshDone, HoldPC, TypeOK, SlotsTypeOK
<1>8. CASE BackoffDone(x)
  <2>1. attempt[x] \in 0..MaxRetries /\ attempt[x] + 1 \in 0..MaxRetries
    BY <1>8 DEF BackoffDone, RetryLeft, TypeOK
  <2>2. attempt' \in [Session -> 0..MaxRetries]
    BY <1>8, <2>1 DEF BackoffDone, TypeOK
  <2> QED BY <1>0, <1>8, <2>2 DEF BackoffDone, HoldPC, TypeOK, SlotsTypeOK, slotVars
<1>9. CASE WatchdogFires(x) \/ WatchdogKills(x)
  <2>1. watchdog[x] \in WatchdogState
    BY DEF TypeOK
  <2>2. CASE WatchdogFires(x)
    <3>1. watchdog' = [watchdog EXCEPT ![x] = [pc |-> "killing", slot |-> watchdog[x].slot]]
      BY <2>1, <2>2 DEF WatchdogFires, WatchdogState, TypeOK
    <3>2. watchdog[x].slot \in Slot
      BY <2>1, <2>2 DEF WatchdogFires, WatchdogState
    <3>3. watchdog' \in [Session -> WatchdogState]
      BY <3>1, <3>2 DEF WatchdogState, TypeOK
    <3> QED BY <2>2, <3>3 DEF WatchdogFires, TypeOK, SlotsTypeOK, slotVars
  <2>3. CASE WatchdogKills(x)
    <3>1. watchdog' \in [Session -> WatchdogState]
      BY <2>3 DEF WatchdogKills, WatchdogState, NoWatchdog, TypeOK
    <3>2. live' \in [Slot -> Session \cup {Nobody}]
      BY <2>3 DEF WatchdogKills, TypeOK, SlotsTypeOK
    <3> QED BY <2>3, <3>1, <3>2 DEF WatchdogKills, TypeOK, SlotsTypeOK
  <2> QED BY <1>9, <2>2, <2>3
<1>10. CASE UserExit(x)
  BY <1>0, <1>10 DEF UserExit, HoldPC, WatchdogState, NoWatchdog, TypeOK, SlotsTypeOK
<1>11. CASE TeardownDone(x)
  BY <1>11, LeaveType DEF TeardownDone, ExitDamru, EndPC, TypeOK, SlotsTypeOK
<1>12. CASE Cancel(x)
  <2>1. CASE pc[x] = "acquire"
    BY <1>0, <1>12, <2>1 DEF Cancel, EndPC, HoldPC, TypeOK, SlotsTypeOK
  <2>2. CASE pc[x] # "acquire"
    <3>1. Leave(x, "cancelled")
      BY <1>12, <2>2 DEF Cancel
    <3>2. live' \in [Slot -> Session \cup {Nobody}]
      BY <1>12, <2>2 DEF Cancel, TypeOK, SlotsTypeOK
    <3> QED BY <1>12, <3>1, <3>2, LeaveType DEF Cancel, EndPC, TypeOK, SlotsTypeOK
  <2> QED BY <2>1, <2>2
<1> QED BY <1>1, <1>2, <1>3, <1>4, <1>5, <1>6, <1>7, <1>8, <1>9, <1>10, <1>11, <1>12
        DEF SessionStep, Watchdog
-----------------------------------------------------------------------------
(* How a step of a session acts on the slots.  Every action of DamruPool   *)
(* that a session takes is one of five moves, and the facts about who      *)
(* holds, waits or may be woken are proved per move.                       *)

(* The session goes on and its claim on a slot stays as it was.            *)
Stays(x) ==
    /\ UNCHANGED <<busy, waiting, slot>>
    /\ \/ UNCHANGED pc
       \/ pc[x] = "idle" /\ Goto(x, "acquire")
       \/ pc[x] \in HoldPC /\ \E l \in HoldPC : Goto(x, l)

(* It takes a free slot.                                                   *)
Takes(x, s) ==
    /\ pc[x] = "acquire" /\ x \notin waiting
    /\ Take(s)
    /\ slot' = [slot EXCEPT ![x] = s]
    /\ Goto(x, "setup")
    /\ UNCHANGED <<waiting, healthy>>

(* It parks on the event.                                                  *)
Parks(x) ==
    /\ pc[x] = "acquire"
    /\ Park(x)
    /\ UNCHANGED <<busy, slot, pc>>

(* It ends without ever having had a slot.                                 *)
GivesUp(x) ==
    /\ pc[x] = "acquire"
    /\ waiting' = waiting \ {x}
    /\ \E l \in EndPC : Goto(x, l)
    /\ UNCHANGED <<busy, slot>>

(* It returns its slot.                                                    *)
Leaves(x) == pc[x] \in HoldPC /\ \E l \in EndPC : Leave(x, l)

Moves(x) == Stays(x) \/ (\E s \in Slot : Takes(x, s)) \/ Parks(x) \/ GivesUp(x) \/ Leaves(x)

LEMMA SessionMoves ==
    ASSUME TypeOK, NEW x \in Session,
           Call(x) \/ SessionStep(x) \/ Watchdog(x) \/ Cancel(x)
    PROVE  Moves(x)
<1>1. CASE Call(x)
  BY <1>1 DEF Call, Moves, Stays, slotVars
<1>2. CASE Acquire(x)
  <2>1. CASE \E s \in Slot : Take(s) /\ slot' = [slot EXCEPT ![x] = s]
                             /\ Goto(x, "setup") /\ UNCHANGED waiting
    BY <1>2, <2>1 DEF Acquire, Moves, Takes
  <2>2. CASE Park(x) /\ UNCHANGED <<busy, slot, pc>>
    BY <1>2, <2>2 DEF Acquire, Moves, Parks
  <2>3. CASE Goto(x, "dead") /\ UNCHANGED <<busy, slot, waiting>>
    <3>1. waiting' = waiting \ {x}
      BY <1>2, <2>3 DEF Acquire, TypeOK, SlotsTypeOK
    <3> QED BY <1>2, <2>3, <3>1 DEF Acquire, Moves, GivesUp, EndPC
  <2> QED BY <1>2, <2>1, <2>2, <2>3 DEF Acquire
<1>3. CASE SetupOk(x)
  BY <1>3 DEF SetupOk, Moves, Stays, HoldPC
<1>4. CASE SetupFails(x)
  BY <1>4 DEF SetupFails, Moves, Stays, HoldPC
<1>5. CASE CleanupDone(x)
  <2>1. CASE Leave(x, "failed")
    BY <1>5, <2>1 DEF CleanupDone, Moves, Leaves, HoldPC, EndPC
  <2>2. CASE UNCHANGED <<busy, waiting, slot>>
    BY <1>5, <2>2 DEF CleanupDone, Moves, Stays, Leaves, HoldPC, EndPC
  <2> QED BY <1>5, <2>1, <2>2 DEF CleanupDone
<1>6. CASE ReinstallDone(x) \/ RefreshDone(x) \/ BackoffDone(x)
  BY <1>6 DEF ReinstallDone, RefreshDone, BackoffDone, Moves, Stays, HoldPC, slotVars
<1>7. CASE WatchdogFires(x) \/ WatchdogKills(x)
  BY <1>7 DEF WatchdogFires, WatchdogKills, Moves, Stays, slotVars
<1>8. CASE UserExit(x)
  BY <1>8 DEF UserExit, Moves, Stays, HoldPC
<1>9. CASE TeardownDone(x)
  BY <1>9 DEF TeardownDone, Moves, Leaves, HoldPC, EndPC
<1>10. CASE Cancel(x)
  BY <1>10 DEF Cancel, Moves, GivesUp, Leaves, EndPC
<1> QED BY <1>1, <1>2, <1>3, <1>4, <1>5, <1>6, <1>7, <1>8, <1>9, <1>10
        DEF SessionStep, Watchdog

-----------------------------------------------------------------------------
(* Who holds what.                                                         *)
Ownership == HoldsByPC /\ SlotExclusive /\ BusyIffHeld

LEMMA OwnershipStep ==
    ASSUME TypeOK, TypeOK', Ownership, NEW x \in Session, Moves(x)
    PROVE  Ownership'
<1> USE DEF Ownership, TypeOK, SlotsTypeOK
<1>1. CASE Stays(x)
  <2>1. HoldsByPC'
    BY <1>1 DEF Stays, Goto, HoldsByPC, HoldPC
  <2> QED BY <1>1, <2>1 DEF Stays, SlotExclusive, BusyIffHeld
<1>2. CASE \E s \in Slot : Takes(x, s)
  <2>1. PICK s \in Slot : Takes(x, s)
    BY <1>2
  <2>2. slot[x] = 0 /\ s # 0 /\ slot'[x] = s
    <3>1. pc[x] \notin HoldPC
      BY <2>1 DEF Takes, HoldPC
    <3>2. slot[x] = 0
      BY <3>1 DEF HoldsByPC
    <3> QED BY <2>1, <3>2 DEF Takes, Slot
  <2>3. \A y \in Session \ {x} : slot'[y] = slot[y] /\ slot[y] # s
    <3>1. ~busy[s]
      BY <2>1 DEF Takes, Take, Free
    <3> QED BY <2>1, <3>1 DEF Takes, BusyIffHeld
  <2>4. HoldsByPC'
    BY <2>1, <2>2, <2>3 DEF Takes, Goto, HoldsByPC, HoldPC
  <2>5. SlotExclusive'
    BY <2>2, <2>3 DEF SlotExclusive
  <2>6. BusyIffHeld'
    <3>1. busy' = [busy EXCEPT ![s] = TRUE]
      BY <2>1 DEF Takes, Take
    <3>2. busy'[s] /\ \A r \in Slot \ {s} : busy'[r] = busy[r]
      BY <3>1
    <3>3. ASSUME NEW r \in Slot \ {s}
          PROVE  busy'[r] <=> \E y \in Session : slot'[y] = r
      <4>1. busy[r] <=> \E y \in Session : slot[y] = r
        BY DEF BusyIffHeld
      <4>2. r # 0
        BY DEF Slot
      <4> QED BY <2>2, <2>3, <3>2, <4>1, <4>2
    <3> QED BY <2>2, <3>2, <3>3 DEF BusyIffHeld
  <2> QED BY <2>4, <2>5, <2>6
<1>3. CASE Parks(x)
  BY <1>3 DEF Parks, HoldsByPC, SlotExclusive, BusyIffHeld
<1>4. CASE GivesUp(x)
  <2>1. HoldsByPC'
    BY <1>4 DEF GivesUp, Goto, HoldsByPC, HoldPC, EndPC
  <2> QED BY <1>4, <2>1 DEF GivesUp, SlotExclusive, BusyIffHeld
<1>5. CASE Leaves(x)
  <2>1. PICK l \in EndPC : Leave(x, l)
    BY <1>5 DEF Leaves
  <2>2. slot[x] \in Slot /\ slot'[x] = 0
    BY <1>5, <2>1, HolderHasSlot DEF Leaves, Leave
  <2>3. \A y \in Session \ {x} : slot'[y] = slot[y] /\ slot[y] # slot[x]
    BY <2>1, <2>2 DEF Leave, SlotExclusive, Slot
  <2>4. HoldsByPC'
    BY <2>1, <2>2, <2>3 DEF Leave, Goto, HoldsByPC, HoldPC, EndPC
  <2>5. SlotExclusive'
    BY <2>2, <2>3 DEF SlotExclusive
  <2>6. BusyIffHeld'
    <3>1. busy' = [busy EXCEPT ![slot[x]] = FALSE]
      BY <2>1 DEF Leave, Release
    <3>2. ~busy'[slot[x]] /\ \A r \in Slot \ {slot[x]} : busy'[r] = busy[r]
      BY <2>2, <3>1
    <3>3. \A r \in Slot : r # 0
      BY DEF Slot
    <3> QED BY <2>2, <2>3, <3>2, <3>3 DEF BusyIffHeld
  <2> QED BY <2>4, <2>5, <2>6
<1> QED BY <1>1, <1>2, <1>3, <1>4, <1>5 DEF Moves

-----------------------------------------------------------------------------
(* Who waits, and why it will be woken.                                    *)
Waiters == WaitersAcquire /\ NoStrandedWaiter

LEMMA WaitersStep ==
    ASSUME TypeOK, TypeOK', Waiters, NEW x \in Session, Moves(x)
    PROVE  Waiters'
<1> USE DEF Waiters, WaitersAcquire, NoStrandedWaiter, TypeOK, SlotsTypeOK
<1>1. CASE Stays(x)
  BY <1>1 DEF Stays, Goto, HoldPC
<1>2. CASE \E s \in Slot : Takes(x, s)
  BY <1>2 DEF Takes, Take, Goto
<1>3. CASE Parks(x)
  BY <1>3 DEF Parks, Park, AnyHealthy, Free
<1>4. CASE GivesUp(x)
  BY <1>4 DEF GivesUp, Goto
<1>5. CASE Leaves(x)
  BY <1>5 DEF Leaves, Leave, Release
<1> QED BY <1>1, <1>2, <1>3, <1>4, <1>5 DEF Moves
-----------------------------------------------------------------------------
(* What a step of a session leaves alone: the other sessions, and every    *)
(* device but that of its own slot.                                        *)
OnlyOwnDevice(x) ==
    \/ UNCHANGED live
    \/ pc[x] \in HoldPC /\ \E b : live' = [live EXCEPT ![slot[x]] = b]

Others(x) == \A y \in Session \ {x} :
    pc'[y] = pc[y] /\ slot'[y] = slot[y] /\ attempt'[y] = attempt[y]
        /\ watchdog'[y] = watchdog[y]

LEMMA SessionFrame ==
    ASSUME TypeOK, WatchdogOfUser, NEW x \in Session,
           Call(x) \/ SessionStep(x) \/ Watchdog(x) \/ Cancel(x)
    PROVE  OnlyOwnDevice(x) /\ Others(x)
<1> USE DEF OnlyOwnDevice, Others, TypeOK, Goto, slotVars
<1>1. CASE Call(x)
  BY <1>1 DEF Call
<1>2. CASE Acquire(x)
  BY <1>2 DEF Acquire
<1>3. CASE SetupOk(x)
  BY <1>3 DEF SetupOk, HoldPC
<1>4. CASE SetupFails(x)
  BY <1>4 DEF SetupFails, HoldPC
<1>5. CASE CleanupDone(x)
  BY <1>5 DEF CleanupDone, ExitDamru, Leave, HoldPC
<1>6. CASE ReinstallDone(x) \/ RefreshDone(x) \/ BackoffDone(x)
  BY <1>6 DEF ReinstallDone, RefreshDone, BackoffDone, HoldPC
<1>7. CASE WatchdogFires(x)
  BY <1>7 DEF WatchdogFires
<1>8. CASE WatchdogKills(x)
  BY <1>8 DEF WatchdogKills, WatchdogOfUser, HoldPC
<1>9. CASE UserExit(x)
  BY <1>9 DEF UserExit, HoldPC
<1>10. CASE TeardownDone(x)
  BY <1>10 DEF TeardownDone, ExitDamru, Leave, HoldPC
<1>11. CASE Cancel(x)
  BY <1>11 DEF Cancel, Leave, HoldPC
<1> QED BY <1>1, <1>2, <1>3, <1>4, <1>5, <1>6, <1>7, <1>8, <1>9, <1>10, <1>11
        DEF SessionStep, Watchdog

(* Only a session that just left its last failed setup has no retry left.  *)
LEMMA RetryStep ==
    ASSUME TypeOK, RetryLeft, WatchdogOfUser, NEW x \in Session,
           Call(x) \/ SessionStep(x) \/ Watchdog(x) \/ Cancel(x)
    PROVE  RetryLeft'
<1> SUFFICES ASSUME pc'[x] \in {"reinstall", "refresh", "backoff"}
             PROVE  attempt'[x] < MaxRetries
  BY SessionFrame DEF RetryLeft, Others
<1> USE DEF TypeOK, RetryLeft, Goto, slotVars
<1>1. CASE Call(x)
  BY <1>1 DEF Call
<1>2. CASE Acquire(x)
  BY <1>2 DEF Acquire
<1>3. CASE SetupOk(x) \/ SetupFails(x) \/ BackoffDone(x) \/ UserExit(x)
  BY <1>3 DEF SetupOk, SetupFails, BackoffDone, UserExit
<1>4. CASE CleanupDone(x)
  <2>1. ~LastAttempt(x) /\ UNCHANGED attempt
    BY <1>4 DEF CleanupDone, Leave
  <2>2. attempt[x] \in 0..MaxRetries
    OBVIOUS
  <2> QED BY <2>1, <2>2 DEF LastAttempt
<1>5. CASE ReinstallDone(x) \/ RefreshDone(x)
  BY <1>5 DEF ReinstallDone, RefreshDone
<1>6. CASE WatchdogFires(x) \/ WatchdogKills(x)
  BY <1>6 DEF WatchdogFires, WatchdogKills
<1>7. CASE TeardownDone(x)
  BY <1>7 DEF TeardownDone, Leave
<1>8. CASE Cancel(x)
  BY <1>8 DEF Cancel, Leave
<1> QED BY <1>1, <1>2, <1>3, <1>4, <1>5, <1>6, <1>7, <1>8 DEF SessionStep, Watchdog

(* A watchdog belongs to a session in the caller's block, and the browser  *)
(* on that session's device is its own or none.                            *)
Browsers == WatchdogOfUser /\ BrowserOfUser

LEMMA BrowsersStep ==
    ASSUME TypeOK, Ownership, Browsers, NEW x \in Session,
           Call(x) \/ SessionStep(x) \/ Watchdog(x) \/ Cancel(x)
    PROVE  Browsers'
<1> USE DEF Browsers
<1>1. ASSUME NEW y \in Session \ {x}
      PROVE  /\ watchdog'[y].pc # "none" => pc'[y] = "user" /\ watchdog'[y].slot = slot'[y]
             /\ pc'[y] = "user" => live'[slot'[y]] \in {y, Nobody}
  <2>1. Others(x) /\ OnlyOwnDevice(x)
    BY SessionFrame
  <2>2. ASSUME pc[y] = "user"
        PROVE  live'[slot[y]] = live[slot[y]]
    <3>1. slot[y] \in Slot
      BY <2>2, HolderHasSlot DEF Ownership, HoldPC
    <3>2. CASE UNCHANGED live
      BY <3>2
    <3>3. CASE pc[x] \in HoldPC /\ \E b : live' = [live EXCEPT ![slot[x]] = b]
      <4>1. slot[x] # slot[y]
        BY <3>1, <3>3, HolderHasSlot DEF Ownership, SlotExclusive, Slot
      <4> QED BY <3>1, <3>3, <4>1 DEF TypeOK, SlotsTypeOK
    <3> QED BY <2>1, <3>2, <3>3 DEF OnlyOwnDevice
  <2> QED BY <2>1, <2>2 DEF Others, WatchdogOfUser, BrowserOfUser
<1>2. /\ watchdog'[x].pc # "none" => pc'[x] = "user" /\ watchdog'[x].slot = slot'[x]
      /\ pc'[x] = "user" => live'[slot'[x]] \in {x, Nobody}
  <2>0. pc[x] # "user" => watchdog[x].pc = "none"
    BY DEF WatchdogOfUser
  <2> USE DEF TypeOK, SlotsTypeOK, Goto, slotVars
  <2>1. CASE Call(x)
    BY <2>0, <2>1 DEF Call
  <2>2. CASE Acquire(x)
    BY <2>0, <2>2 DEF Acquire
  <2>3. CASE SetupOk(x)
    <3>1. slot[x] \in Slot
      BY <2>3, HolderHasSlot DEF SetupOk, HoldPC, Ownership
    <3>2. live'[slot[x]] = x /\ pc'[x] = "user" /\ slot' = slot
      BY <2>3, <3>1 DEF SetupOk
    <3>3. watchdog'[x] = [pc |-> "armed", slot |-> slot[x]] \/ watchdog'[x] = NoWatchdog
      BY <2>3 DEF SetupOk
    <3> QED BY <3>2, <3>3 DEF NoWatchdog
  <2>4. CASE SetupFails(x) \/ ReinstallDone(x) \/ RefreshDone(x) \/ BackoffDone(x)
    BY <2>0, <2>4 DEF SetupFails, ReinstallDone, RefreshDone, BackoffDone
  <2>5. CASE CleanupDone(x)
    BY <2>0, <2>5 DEF CleanupDone, Leave
  <2>6. CASE WatchdogFires(x)
    <3>1. pc[x] = "user" /\ watchdog[x].slot = slot[x]
      BY <2>6 DEF WatchdogFires, WatchdogOfUser
    <3> QED BY <2>6, <3>1 DEF WatchdogFires, BrowserOfUser
  <2>7. CASE WatchdogKills(x)
    <3>1. pc[x] = "user" /\ watchdog[x].slot = slot[x]
      BY <2>7 DEF WatchdogKills, WatchdogOfUser
    <3>2. slot[x] \in Slot
      BY <3>1, HolderHasSlot DEF HoldPC, Ownership
    <3> QED BY <2>7, <3>1, <3>2 DEF WatchdogKills, NoWatchdog
  <2>8. CASE UserExit(x)
    BY <2>8 DEF UserExit, NoWatchdog
  <2>9. CASE TeardownDone(x)
    BY <2>0, <2>9 DEF TeardownDone, Leave
  <2>10. CASE Cancel(x)
    BY <2>0, <2>10 DEF Cancel, Leave
  <2> QED BY <2>1, <2>2, <2>3, <2>4, <2>5, <2>6, <2>7, <2>8, <2>9, <2>10
          DEF SessionStep, Watchdog
<1> QED BY <1>1, <1>2 DEF WatchdogOfUser, BrowserOfUser
-----------------------------------------------------------------------------
(* The two counters of a slot against its healthy flag.                    *)
Limits == RestartsBelowLimit /\ HealthyBelowLimits

LEMMA LimitsSession ==
    ASSUME TypeOK, TypeOK', Ownership, Limits, NEW x \in Session,
           Call(x) \/ SessionStep(x) \/ Watchdog(x) \/ Cancel(x)
    PROVE  Limits'
<1>1. UNCHANGED <<restarts, health>>
  BY DEF Call, SessionStep, Watchdog, Cancel, Acquire, SetupOk, SetupFails, CleanupDone,
         ReinstallDone, RefreshDone, BackoffDone, WatchdogFires, WatchdogKills, UserExit,
         TeardownDone, slotVars
<1>2. \/ UNCHANGED <<healthy, failures>>
      \/ pc[x] \in HoldPC /\ CountSuccess(slot[x])
      \/ pc[x] \in HoldPC /\ CountFailure(slot[x])
  BY DEF Call, SessionStep, Watchdog, Cancel, Acquire, SetupOk, SetupFails, CleanupDone,
         ReinstallDone, RefreshDone, BackoffDone, WatchdogFires, WatchdogKills, UserExit,
         TeardownDone, slotVars, HoldPC
<1>3. ASSUME NEW s \in Slot, healthy'[s]
      PROVE  healthy[s] /\ failures'[s] < MaxFailures
  <2> USE DEF TypeOK, SlotsTypeOK
  <2>1. CASE UNCHANGED <<healthy, failures>>
    BY <1>3, <2>1 DEF Limits, HealthyBelowLimits
  <2>2. CASE CountSuccess(slot[x])
    BY <1>3, <2>2 DEF CountSuccess, Limits, HealthyBelowLimits
  <2>3. CASE CountFailure(slot[x])
    <3>1. CASE s = slot[x]
      BY <1>3, <2>3, <3>1 DEF CountFailure
    <3>2. CASE s # slot[x]
      BY <1>3, <2>3, <3>2 DEF CountFailure, Limits, HealthyBelowLimits
    <3> QED BY <3>1, <3>2
  <2> QED BY <1>2, <2>1, <2>2, <2>3
<1> QED BY <1>1, <1>3 DEF Limits, RestartsBelowLimit, HealthyBelowLimits

(* Wherever the health task goes next, it is not in a recovery.            *)
LEMMA AdvanceIdle ==
    ASSUME NEW i, NEW h, Advance(i, h)
    PROVE  health'.pc \notin {"restart", "install"}
  BY DEF Advance, HealthAsleep

LEMMA LimitsHealth ==
    ASSUME TypeOK, Limits, HealthStep \/ Close
    PROVE  Limits'
<1> USE DEF Limits, RestartsBelowLimit, HealthyBelowLimits, TypeOK, SlotsTypeOK
<1>1. CASE HealthWake \/ ProbePassed
  BY <1>1, AdvanceIdle DEF HealthWake, ProbePassed
<1>2. CASE ProbeFailed
  <2>1. health.slot \in Slot /\ UNCHANGED failures
    BY <1>2 DEF ProbeFailed, HealthState
  <2>2. CASE Mode = "manual"
    BY <1>2, <2>1, <2>2, AdvanceIdle DEF ProbeFailed
  <2>3. CASE Mode # "manual" /\ restarts[health.slot] + 1 > MaxFailures
    BY <1>2, <2>1, <2>3, AdvanceIdle DEF ProbeFailed
  <2>4. CASE Mode # "manual" /\ restarts[health.slot] + 1 <= MaxFailures
    <3>1. /\ health' = [health EXCEPT !.pc = "restart"]
          /\ UNCHANGED healthy
          /\ restarts' = [restarts EXCEPT ![health.slot] = @ + 1]
      BY <1>2, <2>1, <2>4 DEF ProbeFailed
    <3>2. health'.slot = health.slot
      BY <1>2, <3>1 DEF ProbeFailed, HealthState
    <3> QED BY <2>1, <2>4, <3>1, <3>2
  <2>5. restarts[health.slot] + 1 \in Int
    BY <2>1
  <2> QED BY <2>2, <2>3, <2>4, <2>5
<1>3. CASE RestartDone \/ InstallDone
  <2>1. health.slot \in Slot /\ health.pc \in {"restart", "install"} /\ UNCHANGED restarts
    BY <1>3 DEF RestartDone, InstallDone, HealthState
  <2>2. CASE RecoverySucceeds(health.slot)
    BY <2>1, <2>2, AdvanceIdle DEF RecoverySucceeds
  <2>3. CASE health' = [health EXCEPT !.pc = "install"] /\ UNCHANGED <<healthy, failures>>
    <3>1. health'.slot = health.slot
      BY <2>1, <2>3 DEF HealthState
    <3> QED BY <2>1, <2>3, <3>1
  <2> QED BY <1>3, <2>2, <2>3 DEF RestartDone, InstallDone
<1>4. CASE RecoveryFails
  BY <1>4, AdvanceIdle DEF RecoveryFails, HealthState
<1>5. CASE Close
  BY <1>5 DEF Close, CloseBegin, CloseEnd, HealthOff
<1> QED BY <1>1, <1>2, <1>3, <1>4, <1>5 DEF HealthStep

-----------------------------------------------------------------------------
(* The health task and the end of the pool change neither who holds a slot *)
(* nor who waits; a recovery ends browsers and starts none.                *)
LEMMA HealthFrame ==
    ASSUME HealthStep \/ Close
    PROVE  /\ UNCHANGED <<busy, waiting>>
           /\ \/ UNCHANGED live
              \/ live' = [live EXCEPT ![health.slot] = Nobody]
  BY DEF HealthStep, HealthWake, ProbePassed, ProbeFailed, RestartDone, InstallDone,
         RecoveryFails, Close, CloseBegin, CloseEnd

LEMMA HealthKeepsOwners ==
    ASSUME TypeOK, RetryLeft, Ownership, Waiters, Browsers,
           HealthStep \/ Close, UNCHANGED sessionVars
    PROVE  RetryLeft' /\ Ownership' /\ Waiters' /\ Browsers'
<1>1. UNCHANGED <<busy, waiting, pc, slot, attempt, watchdog>>
  BY HealthFrame DEF sessionVars
<1>2. \A s \in Slot : live'[s] = live[s] \/ live'[s] = Nobody
  BY HealthFrame DEF TypeOK, SlotsTypeOK
<1>3. Browsers'
  <2>1. WatchdogOfUser'
    BY <1>1 DEF Browsers, WatchdogOfUser
  <2>2. ASSUME NEW x \in Session, pc[x] = "user"
        PROVE  live'[slot[x]] \in {x, Nobody}
    <3>1. slot[x] \in Slot
      BY <2>2, HolderHasSlot DEF HoldPC, Ownership
    <3> QED BY <1>2, <2>2, <3>1 DEF Browsers, BrowserOfUser
  <2> QED BY <1>1, <2>1, <2>2 DEF Browsers, BrowserOfUser
<1>4. RetryLeft' /\ Ownership' /\ Waiters'
  BY <1>1 DEF RetryLeft, Ownership, HoldsByPC, SlotExclusive, BusyIffHeld,
              Waiters, WaitersAcquire, NoStrandedWaiter
<1> QED BY <1>3, <1>4

-----------------------------------------------------------------------------
(* The inductive invariant.                                                *)
LEMMA InvParts ==
    IInv <=> TypeOK /\ RetryLeft /\ Ownership /\ Waiters /\ Browsers /\ Limits
  BY DEF IInv, Ownership, Waiters, Browsers, Limits

LEMMA InvInit == Init => IInv
<1> SUFFICES ASSUME Init PROVE IInv
  OBVIOUS
<1>1. TypeOK
  BY TypeInit
<1>2. RetryLeft /\ HoldsByPC /\ SlotExclusive
  BY DEF Init, RetryLeft, HoldsByPC, SlotExclusive, HoldPC
<1>3. BusyIffHeld
  BY DEF Init, SlotsInit, BusyIffHeld, Slot
<1>4. WaitersAcquire /\ NoStrandedWaiter
  BY DEF Init, SlotsInit, WaitersAcquire, NoStrandedWaiter
<1>5. WatchdogOfUser /\ BrowserOfUser
  BY DEF Init, WatchdogOfUser, BrowserOfUser, NoWatchdog
<1>6. RestartsBelowLimit /\ HealthyBelowLimits
  BY DEF Init, SlotsInit, RestartsBelowLimit, HealthyBelowLimits, HealthAsleep, HealthOff
<1> QED BY <1>1, <1>2, <1>3, <1>4, <1>5, <1>6 DEF IInv

LEMMA InvStep == IInv /\ [Next]_vars => IInv'
<1> SUFFICES ASSUME IInv, [Next]_vars PROVE IInv'
  OBVIOUS
<1>0. TypeOK /\ RetryLeft /\ Ownership /\ Waiters /\ Browsers /\ Limits
  BY InvParts
<1>1. ASSUME NEW x \in Session, Call(x) \/ SessionStep(x) \/ Watchdog(x) \/ Cancel(x)
      PROVE  IInv'
  <2>1. TypeOK'
    BY <1>0, <1>1, TypeSession DEF Ownership
  <2>2. Moves(x)
    BY <1>0, <1>1, SessionMoves
  <2>3. Ownership' /\ Waiters'
    BY <1>0, <2>1, <2>2, OwnershipStep, WaitersStep
  <2>4. RetryLeft' /\ Browsers'
    BY <1>0, <1>1, RetryStep, BrowsersStep DEF Browsers
  <2>5. Limits'
    BY <1>0, <1>1, <2>1, LimitsSession
  <2> QED BY <2>1, <2>3, <2>4, <2>5
          DEF IInv, Ownership, Waiters, Browsers, Limits
<1>2. CASE (HealthStep \/ Close) /\ UNCHANGED sessionVars
  <2>1. TypeOK'
    BY <1>0, <1>2, TypeHealth
  <2>2. RetryLeft' /\ Ownership' /\ Waiters' /\ Browsers'
    BY <1>0, <1>2, HealthKeepsOwners
  <2>3. Limits'
    BY <1>0, <1>2, LimitsHealth
  <2> QED BY <2>1, <2>2, <2>3 DEF IInv, Ownership, Waiters, Browsers, Limits
<1>3. CASE UNCHANGED vars
  BY <1>3 DEF vars, IInv, TypeOK, SlotsTypeOK, RetryLeft, HoldsByPC, SlotExclusive,
              BusyIffHeld, WaitersAcquire, NoStrandedWaiter, WatchdogOfUser,
              BrowserOfUser, RestartsBelowLimit, HealthyBelowLimits
<1> QED BY <1>1, <1>2, <1>3 DEF Next

(* The inductive invariant holds in every reachable state.                 *)
THEOREM Invariance == Spec => []IInv
  BY InvInit, InvStep, PTL DEF Spec

(* Every variable keeps its type: no counter leaves its range, no session  *)
(* holds a slot the pool does not have.                                    *)
THEOREM TypeCorrect == Spec => []TypeOK
<1>1. IInv => TypeOK
  BY DEF IInv
<1> QED BY <1>1, Invariance, PTL

(* No slot is ever held by two sessions at once.                           *)
THEOREM Exclusion == Spec => []SlotExclusive
<1>1. IInv => SlotExclusive
  BY DEF IInv
<1> QED BY <1>1, Invariance, PTL

(* The busy flags say exactly which slots are held: none leaks, none is    *)
(* freed under its holder.                                                 *)
THEOREM BusyCorrect == Spec => []BusyIffHeld
<1>1. IInv => BusyIffHeld
  BY DEF IInv
<1> QED BY <1>1, Invariance, PTL

(* A slot has one session at most, and its busy flag says whether it has   *)
(* one.                                                                    *)
THEOREM SlotsAreExclusive == Spec => []SlotsExclusive
<1>1. IInv => SlotsExclusive
  BY DEF IInv, SlotsExclusive
<1> QED BY <1>1, Invariance, PTL

(* A parked session can count on a release to come.                        *)
THEOREM NobodyStranded == Spec => []NoStrandedWaiter
<1>1. IInv => NoStrandedWaiter
  BY DEF IInv
<1> QED BY <1>1, Invariance, PTL

(* A slot in service is below both limits.                                 *)
THEOREM LimitsRespected == Spec => []HealthyBelowLimits
<1>1. IInv => HealthyBelowLimits
  BY DEF IInv
<1> QED BY <1>1, Invariance, PTL
-----------------------------------------------------------------------------
(* The watchdog of a session never ends the browser of another one, though *)
(* it acts on the device and not on a browser it could name.               *)
THEOREM WatchdogSafe == Spec => WatchdogKillsOwn
<1> DEFINE Own == \A x \in Session, s \in Slot :
                     Watchdog(x) /\ live'[s] # live[s] => live[s] = x
<1>1. ASSUME IInv PROVE [Own]_vars
  <2> SUFFICES ASSUME NEW x \in Session, NEW s \in Slot, Watchdog(x), live'[s] # live[s]
               PROVE  live[s] = x
    OBVIOUS
  <2>1. WatchdogKills(x)
    BY DEF Watchdog, WatchdogFires, slotVars
  <2>2. pc[x] = "user" /\ watchdog[x].slot = slot[x]
    BY <1>1, <2>1 DEF WatchdogKills, IInv, WatchdogOfUser
  <2>3. s = slot[x] /\ live'[s] = Nobody
    BY <1>1, <2>1, <2>2 DEF WatchdogKills, IInv, TypeOK, SlotsTypeOK
  <2> QED BY <1>1, <2>2, <2>3 DEF IInv, BrowserOfUser
<1>2. Spec => [][Own]_vars
  BY <1>1, Invariance, PTL
<1> QED BY <1>2 DEF WatchdogKillsOwn

(* Whatever a session does, a slot that is out of service stays out.       *)
LEMMA SessionsReviveNone ==
    ASSUME NEW x \in Session, Call(x) \/ SessionStep(x) \/ Watchdog(x) \/ Cancel(x),
           TypeOK, NEW s \in Slot, healthy'[s]
    PROVE  healthy[s]
<1>1. \/ UNCHANGED healthy
      \/ CountSuccess(slot[x])
      \/ CountFailure(slot[x])
  BY DEF Call, SessionStep, Watchdog, Cancel, Acquire, SetupOk, SetupFails,
         CleanupDone, ReinstallDone, RefreshDone, BackoffDone, WatchdogFires,
         WatchdogKills, UserExit, TeardownDone, slotVars
<1>2. CASE CountFailure(slot[x])
  <2>1. healthy'[s] = healthy[s] \/ healthy'[s] = (healthy[s] /\ failures[s] + 1 < MaxFailures)
    BY <1>2 DEF CountFailure, TypeOK, SlotsTypeOK
  <2> QED BY <2>1, ZenonT(30)
<1> QED BY <1>1, <1>2 DEF CountSuccess

(* No session brings a dead slot back into service.                        *)
THEOREM DeadStaysDead == Spec => DeadUntilRecovered
<1> DEFINE Revive == \A s \in Slot : ~healthy[s] /\ healthy'[s] =>
                        health.pc \in {"restart", "install"} /\ health.slot = s
<1>1. ASSUME IInv, [Next]_vars PROVE [Revive]_vars
  <2> SUFFICES ASSUME NEW s \in Slot, ~healthy[s], healthy'[s], Next
               PROVE  health.pc \in {"restart", "install"} /\ health.slot = s
    BY <1>1
  <2> USE <1>1 DEF IInv, TypeOK, SlotsTypeOK
  <2>1. ASSUME NEW x \in Session, Call(x) \/ SessionStep(x) \/ Watchdog(x) \/ Cancel(x)
        PROVE  FALSE
    BY <2>1, SessionsReviveNone
  <2>2. CASE HealthStep \/ Close
    <3>1. UNCHANGED healthy \/ (\E r : healthy' = [healthy EXCEPT ![r] = FALSE])
          \/ (health.pc \in {"restart", "install"} /\ healthy' = [healthy EXCEPT ![health.slot] = TRUE])
      BY <2>2 DEF HealthStep, HealthWake, ProbePassed, ProbeFailed, RestartDone,
                  InstallDone, RecoveryFails, RecoverySucceeds, Close, CloseBegin, CloseEnd
    <3> QED BY <3>1
  <2>3. CASE UNCHANGED vars
    BY <2>3 DEF vars
  <2> QED BY <2>1, <2>2, <2>3 DEF Next
<1>2. Spec => [][Revive]_vars
  BY <1>1, Invariance, PTL DEF Spec
<1> QED BY <1>2 DEF DeadUntilRecovered
-----------------------------------------------------------------------------
(* Without a watchdog and with manual slots, whose device the pool never   *)
(* restarts, a session keeps its browser for as long as its block runs.    *)
Undisturbed ==
    /\ health.pc \notin {"restart", "install"}
    /\ ~HasTimeout => \A x \in Session : watchdog[x].pc = "none"
    /\ UserKeepsBrowser

THEOREM ManualKeepsBrowser ==
    ASSUME Mode = "manual"
    PROVE  Spec => []UserKeepsBrowser
<1>1. Init => Undisturbed
  BY DEF Init, SlotsInit, Undisturbed, UserKeepsBrowser, HealthAsleep, HealthOff, NoWatchdog
<1>2. ASSUME IInv, Undisturbed, [Next]_vars
      PROVE  Undisturbed'
  <2>0. TypeOK /\ Ownership /\ WatchdogOfUser
    BY <1>2, InvParts DEF Browsers
  <2>1. ASSUME NEW x \in Session, Call(x) \/ SessionStep(x) \/ Watchdog(x) \/ Cancel(x)
        PROVE  Undisturbed'
    <3>1. UNCHANGED health
      BY <2>1 DEF Call, SessionStep, Watchdog, Cancel, Acquire, SetupOk, SetupFails,
             CleanupDone, ReinstallDone, RefreshDone, BackoffDone, WatchdogFires,
             WatchdogKills, UserExit, TeardownDone, slotVars
    <3>2. Others(x) /\ OnlyOwnDevice(x)
      BY <2>0, <2>1, SessionFrame
    <3>3. ASSUME ~HasTimeout PROVE watchdog'[x].pc = "none"
      <4>1. watchdog[x].pc = "none" /\ watchdog \in [Session -> WatchdogState]
        BY <1>2, <2>0, <3>3 DEF Undisturbed, TypeOK
      <4>2. UNCHANGED watchdog \/ watchdog' = [watchdog EXCEPT ![x] = NoWatchdog]
        BY <2>1, <3>3, <4>1 DEF Call, SessionStep, Watchdog, Cancel, Acquire, SetupOk,
               SetupFails, CleanupDone, ReinstallDone, RefreshDone, BackoffDone,
               WatchdogFires, WatchdogKills, UserExit, TeardownDone, slotVars
      <4> QED BY <4>1, <4>2 DEF NoWatchdog
    <3>4. ASSUME NEW y \in Session, pc'[y] = "user", ~HasTimeout
          PROVE  live'[slot'[y]] = y
      <4>1. CASE y = x /\ SetupOk(x)
        <5>1. slot[x] \in Slot
          BY <2>0, <4>1, HolderHasSlot DEF SetupOk, HoldPC, Ownership
        <5> QED BY <2>0, <4>1, <5>1 DEF SetupOk, TypeOK, SlotsTypeOK
      <4>2. CASE y = x /\ ~SetupOk(x)
        <5>1. watchdog[x].pc = "none"
          BY <1>2, <3>4 DEF Undisturbed
        <5>2. pc[x] = "user" /\ UNCHANGED <<slot, live>>
          BY <2>0, <2>1, <3>4, <4>2, <5>1
             DEF Call, SessionStep, Watchdog, Cancel, Acquire, SetupFails, CleanupDone,
                 ReinstallDone, RefreshDone, BackoffDone, WatchdogFires, WatchdogKills,
                 UserExit, TeardownDone, Leave, Goto, slotVars, TypeOK
        <5> QED BY <1>2, <3>4, <4>2, <5>2 DEF Undisturbed, UserKeepsBrowser
      <4>3. CASE y # x
        <5>1. pc[y] = "user" /\ slot'[y] = slot[y] /\ live[slot[y]] = y
          BY <1>2, <3>2, <3>4, <4>3 DEF Others, Undisturbed, UserKeepsBrowser
        <5>2. slot[y] \in Slot
          BY <2>0, <5>1, HolderHasSlot DEF HoldPC, Ownership
        <5>3. slot[x] # slot[y]
          BY <2>0, <4>3, <5>2 DEF Ownership, SlotExclusive, Slot
        <5> QED BY <2>0, <3>2, <5>1, <5>2, <5>3 DEF OnlyOwnDevice, TypeOK, SlotsTypeOK
      <4> QED BY <4>1, <4>2, <4>3
    <3> QED BY <1>2, <3>1, <3>2, <3>3, <3>4 DEF Others, Undisturbed, UserKeepsBrowser
  <2>2. CASE (HealthStep \/ Close) /\ UNCHANGED sessionVars
    <3>1. health'.pc \notin {"restart", "install"} /\ UNCHANGED live
      BY <1>2, <2>2, AdvanceIdle
         DEF Undisturbed, HealthStep, HealthWake, ProbePassed, ProbeFailed, RestartDone,
             InstallDone, RecoveryFails, Close, CloseBegin, CloseEnd, HealthOff
    <3> QED BY <1>2, <2>2, <3>1 DEF Undisturbed, UserKeepsBrowser, sessionVars
  <2>3. CASE UNCHANGED vars
    BY <1>2, <2>3 DEF vars, Undisturbed, UserKeepsBrowser
  <2> QED BY <1>2, <2>1, <2>2, <2>3 DEF Next
<1>3. Undisturbed => UserKeepsBrowser
  BY DEF Undisturbed
<1> QED BY <1>1, <1>2, <1>3, Invariance, PTL DEF Spec

(* In manual mode a dead slot stays dead, so a slot becomes free only by a *)
(* release, which wakes everybody: a session never waits while a healthy   *)
(* slot is free.                                                           *)
NothingRevives == health.pc \notin {"restart", "install"} /\ NoIdleWhileWaiting

THEOREM ManualNeverIdles ==
    ASSUME Mode = "manual"
    PROVE  Spec => []NoIdleWhileWaiting
<1>1. Init => NothingRevives
  BY DEF Init, SlotsInit, NothingRevives, NoIdleWhileWaiting, HealthAsleep, HealthOff
<1>2. ASSUME IInv, NothingRevives, [Next]_vars
      PROVE  NothingRevives'
  <2>0. TypeOK
    BY <1>2 DEF IInv
  <2>1. ASSUME NEW x \in Session, Call(x) \/ SessionStep(x) \/ Watchdog(x) \/ Cancel(x)
        PROVE  NothingRevives'
    <3>1. UNCHANGED <<health, pool>>
      BY <2>1 DEF Call, SessionStep, Watchdog, Cancel, Acquire, SetupOk, SetupFails,
             CleanupDone, ReinstallDone, RefreshDone, BackoffDone, WatchdogFires,
             WatchdogKills, UserExit, TeardownDone, slotVars
    <3>2. \A s \in Slot : healthy'[s] => healthy[s]
      BY <2>0, <2>1, SessionsReviveNone
    <3>3. Moves(x)
      BY <2>0, <2>1, SessionMoves
    <3>4. NoIdleWhileWaiting'
      <4>1. CASE UNCHANGED busy /\ waiting' \subseteq waiting
        BY <1>2, <3>1, <3>2, <4>1 DEF NothingRevives, NoIdleWhileWaiting, Free
      <4>2. CASE \E s \in Slot : Takes(x, s)
        BY <1>2, <2>0, <3>1, <4>2
           DEF Takes, Take, NothingRevives, NoIdleWhileWaiting, Free, TypeOK, SlotsTypeOK
      <4>3. CASE Parks(x)
        BY <3>1, <3>2, <4>3 DEF Parks, Park, NoIdleWhileWaiting, Free
      <4>4. CASE Leaves(x)
        BY <4>4 DEF Leaves, Leave, Release, NoIdleWhileWaiting
      <4> QED BY <3>3, <4>1, <4>2, <4>3, <4>4 DEF Moves, Stays, GivesUp
    <3> QED BY <1>2, <3>1, <3>4 DEF NothingRevives
  <2>2. CASE (HealthStep \/ Close) /\ UNCHANGED sessionVars
    <3>1. health'.pc \notin {"restart", "install"}
      BY <1>2, <2>2, AdvanceIdle
         DEF NothingRevives, HealthStep, HealthWake, ProbePassed, ProbeFailed, RestartDone,
             InstallDone, RecoveryFails, Close, CloseBegin, CloseEnd, HealthOff
    <3>2. /\ UNCHANGED <<busy, waiting>>
          /\ UNCHANGED pool \/ pool' = "closed" \/ pool = "open"
          /\ UNCHANGED healthy \/ healthy' = [healthy EXCEPT ![health.slot] = FALSE]
      BY <1>2, <2>2
         DEF NothingRevives, HealthStep, HealthWake, ProbePassed, ProbeFailed, RestartDone,
             InstallDone, RecoveryFails, Close, CloseBegin, CloseEnd
    <3> QED BY <1>2, <2>0, <3>1, <3>2
            DEF NothingRevives, NoIdleWhileWaiting, Free, TypeOK, SlotsTypeOK
  <2>3. CASE UNCHANGED vars
    BY <1>2, <2>3 DEF vars, NothingRevives, NoIdleWhileWaiting, Free
  <2> QED BY <1>2, <2>1, <2>2, <2>3 DEF Next
<1>3. NothingRevives => NoIdleWhileWaiting
  BY DEF NothingRevives
<1> QED BY <1>1, <1>2, <1>3, Invariance, PTL DEF Spec

(* If no task is cancelled inside session() and damru.__aexit__ never      *)
(* fails, a browser outlives no session: it runs on the slot its session   *)
(* holds.                                                                  *)
BrowserHeld == \A s \in Slot : live[s] # Nobody => slot[live[s]] = s

THEOREM ChromeStopped ==
    ASSUME ~Cancellable, ~CleanupFails
    PROVE  Spec => []ChromeStoppedOnExit
<1>1. Init => BrowserHeld
  BY DEF Init, SlotsInit, BrowserHeld
<1>2. ASSUME IInv, BrowserHeld, [Next]_vars
      PROVE  BrowserHeld'
  <2>0. TypeOK /\ Ownership /\ WatchdogOfUser
    BY <1>2, InvParts DEF Browsers
  <2>1. ASSUME NEW x \in Session, Call(x) \/ SessionStep(x) \/ Watchdog(x) \/ Cancel(x)
        PROVE  BrowserHeld'
    <3>0. ~Cancel(x)
      BY DEF Cancel
    <3>1. Others(x) /\ OnlyOwnDevice(x)
      BY <2>0, <2>1, SessionFrame
    <3>2. SUFFICES ASSUME NEW s \in Slot, live'[s] # Nobody
                   PROVE  slot'[live'[s]] = s
      BY DEF BrowserHeld
    <3>3. CASE slot'[x] = slot[x] /\ slot[x] # s
      <4>1. live'[s] = live[s] /\ live[s] \in Session
        BY <2>0, <3>1, <3>2, <3>3 DEF OnlyOwnDevice, TypeOK, SlotsTypeOK
      <4> QED BY <1>2, <3>1, <3>2, <3>3, <4>1 DEF BrowserHeld, Others
    <3>4. CASE slot'[x] = slot[x] /\ slot[x] = s
      <4>1. live[s] \in {x, Nobody}
        BY <1>2, <2>0, <3>4 DEF BrowserHeld, Ownership, SlotExclusive, TypeOK, SlotsTypeOK, Slot
      <4>2. UNCHANGED live \/ \E b \in {live[s], Nobody, x} : live' = [live EXCEPT ![s] = b]
        BY <2>0, <2>1, <3>0, <3>4
           DEF Call, SessionStep, Watchdog, Acquire, SetupOk, SetupFails, CleanupDone,
               ExitDamru, ReinstallDone, RefreshDone, BackoffDone, WatchdogFires,
               WatchdogKills, WatchdogOfUser, UserExit, TeardownDone, slotVars
      <4>3. live'[s] \in {x, Nobody}
        BY <2>0, <4>1, <4>2 DEF TypeOK, SlotsTypeOK
      <4> QED BY <3>2, <3>4, <4>3
    <3>5. CASE \E r \in Slot : Takes(x, r)
      <4>1. UNCHANGED live /\ pc[x] \notin HoldPC
        BY <2>0, <2>1, <3>0, <3>5 DEF Takes, HoldPC, Call, SessionStep, Watchdog, Acquire, SetupOk,
               SetupFails, CleanupDone, ReinstallDone, RefreshDone, BackoffDone,
               WatchdogFires, UserExit, TeardownDone, slotVars, WatchdogKills, WatchdogOfUser
      <4>2. live[s] \in Session /\ slot[live[s]] = s /\ slot[x] = 0
        BY <1>2, <2>0, <3>2, <4>1 DEF BrowserHeld, TypeOK, SlotsTypeOK, Ownership, HoldsByPC
      <4>3. live[s] # x
        BY <4>2 DEF Slot
      <4> QED BY <3>1, <4>1, <4>2, <4>3 DEF Others
    <3>6. CASE Leaves(x)
      <4>1. live' = [live EXCEPT ![slot[x]] = Nobody]
        BY <2>0, <2>1, <3>0, <3>6
           DEF Leaves, Leave, HoldPC, EndPC, Goto, TypeOK, Call, SessionStep, Watchdog,
               Acquire, SetupOk, SetupFails, CleanupDone, ExitDamru, ReinstallDone,
               RefreshDone, BackoffDone, WatchdogFires, WatchdogKills, UserExit,
               TeardownDone, slotVars
      <4>2. slot[x] # s /\ live'[s] = live[s] /\ live[s] \in Session /\ slot[live[s]] = s
        BY <1>2, <2>0, <3>2, <4>1 DEF BrowserHeld, TypeOK, SlotsTypeOK
      <4> QED BY <3>1, <4>2 DEF Others
    <3> QED BY <2>0, <2>1, <3>3, <3>4, <3>5, <3>6, SessionMoves
            DEF Moves, Stays, Parks, GivesUp
  <2>2. CASE (HealthStep \/ Close) /\ UNCHANGED sessionVars
    BY <1>2, <2>0, <2>2, HealthFrame DEF BrowserHeld, sessionVars, TypeOK, SlotsTypeOK
  <2>3. CASE UNCHANGED vars
    BY <1>2, <2>3 DEF vars, BrowserHeld
  <2> QED BY <1>2, <2>1, <2>2, <2>3 DEF Next
<1>3. IInv /\ BrowserHeld => ChromeStoppedOnExit
  <2> SUFFICES ASSUME IInv, BrowserHeld, NEW s \in Slot, live[s] # Nobody
               PROVE  pc[live[s]] \notin EndPC
    BY DEF ChromeStoppedOnExit
  <2>1. live[s] \in Session /\ slot[live[s]] # 0
    BY DEF IInv, TypeOK, SlotsTypeOK, BrowserHeld, Slot
  <2>2. pc[live[s]] \in HoldPC
    BY <2>1 DEF IInv, HoldsByPC
  <2> QED BY <2>2 DEF HoldPC, EndPC
<1> QED BY <1>1, <1>2, <1>3, Invariance, PTL DEF Spec
-----------------------------------------------------------------------------
(* The pool implements SlotAllocator.                                      *)

(* The owner of a slot, where there is one, is the session that holds it.  *)
LEMMA OwnerIsHolder ==
    ASSUME SlotExclusive, NEW s \in Slot, NEW x \in Session, slot[x] = s
    PROVE  Owner[s] = x
  BY DEF SlotExclusive, Owner, Slot

LEMMA OwnerIsFunction == Owner = [s \in Slot |-> Owner[s]]
  BY DEF Owner

LEMMA NoOwnerIfFree ==
    ASSUME NEW s \in Slot, \A x \in Session : slot[x] # s
    PROVE  Owner[s] = Nobody
  BY DEF Owner

(* A session that goes on changes nothing the allocator sees, or asks.     *)
LEMMA StaysMaps ==
    ASSUME TypeOK, NEW x \in Session, Stays(x), UNCHANGED <<healthy, pool>>
    PROVE  [Alloc!Next]_Alloc!vars
<1>1. UNCHANGED <<Owner, Closed>>
  BY DEF Stays, Owner, Closed
<1>2. CASE UNCHANGED pc
  BY <1>1, <1>2 DEF Request, Alloc!vars
<1>3. CASE pc[x] = "idle" /\ Goto(x, "acquire")
  <2>1. Request[x] = "none"
    BY <1>3 DEF Request, HoldPC
  <2>2. Request' = [Request EXCEPT ![x] = "pending"]
    BY <1>3 DEF Request, Goto, HoldPC, TypeOK
  <2> QED BY <1>1, <2>1, <2>2 DEF Alloc!Next, Alloc!Ask
<1>4. CASE pc[x] \in HoldPC /\ \E l \in HoldPC : Goto(x, l)
  <2>1. UNCHANGED Request
    BY <1>4 DEF Request, Goto, HoldPC, TypeOK
  <2> QED BY <1>1, <2>1 DEF Alloc!vars
<1> QED BY <1>2, <1>3, <1>4 DEF Stays

LEMMA TakesMaps ==
    ASSUME TypeOK, Ownership, NEW x \in Session, NEW s \in Slot, Takes(x, s),
           Ownership', UNCHANGED pool
    PROVE  Alloc!Next
<1>1. Request[x] = "pending" /\ ~Closed /\ healthy[s] /\ ~busy[s]
  BY DEF Takes, Take, Free, Request, HoldPC, Closed
<1>2. Owner[s] = Nobody
  BY <1>1, NoOwnerIfFree DEF Ownership, BusyIffHeld
<1>3. Request' = [Request EXCEPT ![x] = "granted"]
  BY DEF Takes, Goto, Request, HoldPC, TypeOK
<1>4. Owner' = [Owner EXCEPT ![s] = x]
  <2>1. Owner'[s] = x
    <3>1. slot'[x] = s
      BY DEF Takes, TypeOK
    <3> QED BY <3>1 DEF Ownership, SlotExclusive, Owner, Slot
  <2>2. ASSUME NEW r \in Slot, r # s PROVE Owner'[r] = Owner[r]
    <3>1. slot[x] = 0 /\ r # 0
      BY DEF Takes, Ownership, HoldsByPC, HoldPC, Slot
    <3>2. \A y \in Session : slot'[y] = r <=> slot[y] = r
      BY <2>2, <3>1 DEF Takes, TypeOK
    <3> QED BY <3>2 DEF Owner
  <2>3. Owner' = [r \in Slot |-> Owner'[r]]
    BY DEF Owner
  <2>4. Owner = [r \in Slot |-> Owner[r]]
    BY OwnerIsFunction
  <2> QED BY <2>1, <2>2, <2>3, <2>4
<1>5. UNCHANGED <<healthy, Closed>>
  BY DEF Takes, Closed
<1> QED BY <1>1, <1>2, <1>3, <1>4, <1>5 DEF Alloc!Next, Alloc!Grant

LEMMA GivesUpMaps ==
    ASSUME TypeOK, NEW x \in Session, GivesUp(x), UNCHANGED <<healthy, pool>>
    PROVE  Alloc!Next
<1>1. Request[x] = "pending" /\ UNCHANGED <<Owner, healthy, Closed>>
  BY DEF GivesUp, Request, HoldPC, Owner, Closed
<1>2. Request' = [Request EXCEPT ![x] = "over"]
  BY DEF GivesUp, Goto, Request, EndPC, HoldPC, TypeOK
<1> QED BY <1>1, <1>2 DEF Alloc!Next, Alloc!Withdraw

LEMMA LeavesMaps ==
    ASSUME TypeOK, Ownership, NEW x \in Session, Leaves(x), UNCHANGED pool,
           UNCHANGED healthy \/ CountFailure(slot[x])
    PROVE  Alloc!Next
<1>0. slot[x] \in Slot
  BY HolderHasSlot DEF Leaves, Ownership
<1>1. Request[x] = "granted" /\ Owner[slot[x]] = x /\ UNCHANGED Closed
  BY <1>0, OwnerIsHolder DEF Leaves, Request, Ownership, Closed, HoldPC
<1>2. Request' = [Request EXCEPT ![x] = "over"]
  BY DEF Leaves, Leave, Goto, Request, EndPC, HoldPC, TypeOK
<1>3. Owner' = [Owner EXCEPT ![slot[x]] = Nobody]
  <2>1. \A y \in Session : slot'[y] = IF y = x THEN 0 ELSE slot[y]
    BY DEF Leaves, Leave, TypeOK
  <2>2. Owner'[slot[x]] = Nobody
    BY <1>0, <2>1 DEF Owner, Ownership, SlotExclusive, Slot
  <2>3. ASSUME NEW r \in Slot, r # slot[x] PROVE Owner'[r] = Owner[r]
    <3>1. \A y \in Session : slot'[y] = r <=> slot[y] = r
      BY <2>1, <2>3 DEF Slot
    <3> QED BY <3>1 DEF Owner
  <2>4. Owner' = [r \in Slot |-> Owner'[r]]
    BY DEF Owner
  <2>5. Owner = [r \in Slot |-> Owner[r]]
    BY OwnerIsFunction
  <2> QED BY <1>0, <2>2, <2>3, <2>4, <2>5
<1>4. \E b \in {healthy[slot[x]], FALSE} : healthy' = [healthy EXCEPT ![slot[x]] = b]
  <2>1. CASE UNCHANGED healthy
    BY <2>1 DEF TypeOK, SlotsTypeOK
  <2>2. CASE CountFailure(slot[x])
    <3>1. CASE failures[slot[x]] + 1 < MaxFailures
      BY <2>2, <3>1 DEF CountFailure, TypeOK, SlotsTypeOK
    <3>2. CASE ~(failures[slot[x]] + 1 < MaxFailures)
      BY <2>2, <3>2 DEF CountFailure
    <3> QED BY <3>1, <3>2
  <2> QED BY <2>1, <2>2
<1> QED BY <1>0, <1>1, <1>2, <1>3, <1>4 DEF Alloc!Next, Alloc!Return

(* The health task moves one slot in or out of service, __aexit__ closes.  *)
LEMMA HealthMaps ==
    ASSUME TypeOK, HealthStep \/ Close, UNCHANGED sessionVars
    PROVE  [Alloc!Next]_Alloc!vars
<1>1. UNCHANGED <<Request, Owner>>
  BY DEF sessionVars, Request, Owner
<1>2. CASE HealthStep
  <2>1. UNCHANGED Closed
    BY <1>2 DEF HealthStep, HealthWake, ProbePassed, ProbeFailed, RestartDone,
                InstallDone, RecoveryFails, RecoverySucceeds, Closed
  <2>2. UNCHANGED healthy \/ \E b \in BOOLEAN : /\ health.slot \in Slot
                                             /\ healthy' = [healthy EXCEPT ![health.slot] = b]
    BY <1>2 DEF HealthStep, HealthWake, ProbePassed, ProbeFailed, RestartDone, TypeOK,
                InstallDone, RecoveryFails, RecoverySucceeds, SlotsTypeOK, HealthState
  <2>3. UNCHANGED healthy \/ \E s \in Slot : healthy' = [healthy EXCEPT ![s] = ~@]
    <3>1. CASE UNCHANGED healthy
      BY <3>1
    <3>2. CASE \E b \in BOOLEAN : health.slot \in Slot /\ healthy' = [healthy EXCEPT ![health.slot] = b]
      <4>1. PICK b \in BOOLEAN : health.slot \in Slot /\ healthy' = [healthy EXCEPT ![health.slot] = b]
        BY <3>2
      <4>2. CASE b = healthy[health.slot]
        BY <4>1, <4>2 DEF TypeOK, SlotsTypeOK
      <4>3. CASE b # healthy[health.slot]
        <5>1. b = ~healthy[health.slot]
          BY <4>1, <4>3 DEF TypeOK, SlotsTypeOK
        <5> QED BY <4>1, <5>1
      <4> QED BY <4>2, <4>3
    <3> QED BY <2>2, <3>1, <3>2
  <2> QED BY <1>1, <2>1, <2>3 DEF Alloc!Next, Alloc!Change, Alloc!vars
<1>3. CASE Close
  BY <1>1, <1>3 DEF Close, CloseBegin, CloseEnd, Closed, Alloc!Next, Alloc!CloseDown, Alloc!vars
<1> QED BY <1>2, <1>3
LEMMA SessionMaps ==
    ASSUME TypeOK, TypeOK', Ownership, Ownership', NEW x \in Session,
           Call(x) \/ SessionStep(x) \/ Watchdog(x) \/ Cancel(x)
    PROVE  [Alloc!Next]_Alloc!vars
<1>1. UNCHANGED pool
  BY DEF Call, SessionStep, Watchdog, Cancel, Acquire, SetupOk, SetupFails, CleanupDone,
         ReinstallDone, RefreshDone, BackoffDone, WatchdogFires, WatchdogKills, UserExit,
         TeardownDone, slotVars
<1>2. \/ UNCHANGED healthy
      \/ Leaves(x) /\ CountFailure(slot[x])
  BY DEF Call, SessionStep, Watchdog, Cancel, Acquire, SetupOk, CountSuccess, SetupFails,
         CleanupDone, ReinstallDone, RefreshDone, BackoffDone, WatchdogFires, WatchdogKills,
         UserExit, TeardownDone, slotVars, Leaves, HoldPC, EndPC
<1>3. CASE Leaves(x)
  BY <1>1, <1>2, <1>3, LeavesMaps
<1>4. CASE ~Leaves(x) /\ Stays(x)
  BY <1>1, <1>2, <1>4, StaysMaps
<1>5. CASE ~Leaves(x) /\ \E s \in Slot : Takes(x, s)
  BY <1>1, <1>5, TakesMaps
<1>6. CASE ~Leaves(x) /\ Parks(x)
  BY <1>1, <1>2, <1>6 DEF Parks, Request, Owner, Closed, Alloc!vars
<1>7. CASE ~Leaves(x) /\ GivesUp(x)
  BY <1>1, <1>2, <1>7, GivesUpMaps
<1> QED BY <1>3, <1>4, <1>5, <1>6, <1>7, SessionMoves DEF Moves

(* DamruPool implements SlotAllocator: through retries, cancellation,      *)
(* recovery and shutdown every step of the pool is one that the allocator  *)
(* allows, so a slot is granted to one session at a time, only while it is *)
(* in service, and is returned by the session it was granted to.           *)
THEOREM Refinement == Spec => ImplementsAllocator
<1>1. Init => Alloc!Init
  <2> SUFFICES ASSUME Init PROVE Alloc!Init
    OBVIOUS
  <2>1. Request = [x \in Session |-> "none"]
    <3>1. \A x \in Session : Request[x] = "none"
      BY DEF Init, Request, HoldPC
    <3> QED BY <3>1 DEF Request
  <2>2. Owner = [s \in Slot |-> Nobody]
    BY DEF Init, Owner, Slot
  <2>3. healthy = [s \in Slot |-> TRUE] /\ Closed = FALSE
    BY DEF Init, SlotsInit, Closed
  <2> QED BY <2>1, <2>2, <2>3 DEF Alloc!Init
<1>2. ASSUME IInv, IInv', [Next]_vars
      PROVE  [Alloc!Next]_Alloc!vars
  <2>0. TypeOK /\ TypeOK' /\ Ownership /\ Ownership'
    BY <1>2 DEF IInv, Ownership
  <2>1. CASE \E x \in Session : Call(x) \/ SessionStep(x) \/ Watchdog(x) \/ Cancel(x)
    BY <2>0, <2>1, SessionMaps
  <2>2. CASE (HealthStep \/ Close) /\ UNCHANGED sessionVars
    BY <2>0, <2>2, HealthMaps
  <2>3. CASE UNCHANGED vars
    BY <2>3 DEF vars, Request, Owner, Closed, Alloc!vars
  <2> QED BY <1>2, <2>1, <2>2, <2>3 DEF Next
<1> QED BY <1>1, <1>2, Invariance, PTL DEF Spec, ImplementsAllocator, Alloc!Safety
===============================================================================
