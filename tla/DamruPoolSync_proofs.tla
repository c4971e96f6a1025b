------------------------- MODULE DamruPoolSync_proofs -------------------------
(***************************************************************************)
(* Proofs about DamruPoolSync for any number of threads, slots and retries *)
(* and every choice of what may time out: the places of a thread, of its   *)
(* coroutines and of its timer that go together, then who holds a slot,    *)
(* who waits for one and whose browser runs on it, then the refinement.    *)
(***************************************************************************)
EXTENDS DamruPoolSync, TLAPS

USE NumSlotsAssumption, ModeAssumption, MaxFailuresAssumption,
    FlagsAssumption, NobodyAssumption, MaxRetriesAssumption, SyncFlagsAssumption

(* A step of one session: of its thread, its coroutines or its timer.      *)
StepOf(x) == Call(x) \/ LoopStep(x) \/ ThreadStep(x) \/ Watchdog(x)

(* The awaits of an attempt to set the slot's device up, and the places of *)
(* a thread before and after it asked for _exit.                           *)
AttemptPC == {"setup", "cleanup", "refresh", "backoff"}
InsidePC  == {"swap", "connect", "user"}
LeavingPC == {"exit", "giveUp", "release", "done"}

-----------------------------------------------------------------------------
(* The inductive invariant.                                                *)

(* A thread is past fut.result() only when _enter has ended.               *)
ThreadFollows ==
    \A x \in Session :
        /\ thread[x] = "idle" <=> enter[x] = "none"
        /\ thread[x] \in InsidePC \cup LeavingPC => enter[x] = "entered"
        /\ thread[x] = "failed" => enter[x] \in EnterEnd

(* slot_ref names a slot from the scan on, until _enter raises or a thread *)
(* has released it.                                                        *)
SlotByPC ==
    \A x \in Session :
        /\ enter[x] \in AttemptPC => slotRef[x] # 0
        /\ enter[x] = "entered" /\ thread[x] # "done" => slotRef[x] # 0
        /\ slotRef[x] # 0 => enter[x] \in AttemptPC \cup {"entered"}

(* _exit is asked for by every thread that leaves after _enter succeeded,  *)
(* but the ones that gave up; a thread that is done knows the slot back.   *)
ExitByPC ==
    \A x \in Session :
        /\ exit[x] # "none" => enter[x] = "entered" /\ thread[x] \in LeavingPC \cup {"failed"}
        /\ thread[x] \in LeavingPC => exit[x] # "none"
        /\ thread[x] = "failed" /\ enter[x] = "entered" => exit[x] # "none"
        /\ thread[x] = "done" /\ slotRef[x] # 0 => exit[x] = "done"

(* damru_ref and slot_ref are about one device.                            *)
BrowserRef ==
    \A x \in Session : enter[x] = "entered" =>
        damruRef[x] # 0 /\ slotRef[x] \in {damruRef[x], 0}

TimerByPC ==
    \A x \in Session :
        /\ timer[x] = "armed" => thread[x] = "user"
        /\ timer[x] = "killing" => enter[x] = "entered"

RetryLeft ==
    \A x \in Session : enter[x] \in {"refresh", "backoff"} => attempt[x] < MaxRetries

PoolOpen == pool = "open"

Places ==
    ThreadFollows /\ SlotByPC /\ ExitByPC /\ BrowserRef /\ TimerByPC /\ RetryLeft /\ PoolOpen

(* The browser on the device of a session that has entered is that         *)
(* session's or none.                                                      *)
BrowserOfHolder ==
    ReleasedTwice \/ \A x \in Session :
        enter[x] = "entered" /\ Holds(x) => live[slotRef[x]] \in {x, Nobody}

(* Between a scan that found no free slot and the wait after it, a slot is *)
(* busy, unless a thread has released one.                                 *)
ParkedOnBusy == byThread = "never" /\ loop # Nobody => \E s \in Slot : busy[s]

Waiters == ParkedOnBusy /\ NoStrandedWaiter

IInv == TypeOK /\ Places /\ SlotsExclusive /\ BrowserOfHolder /\ Waiters

-----------------------------------------------------------------------------
(* Types.                                                                  *)
LEMMA AdvanceType ==
    ASSUME NEW i \in Int, NEW h, Advance(i, h)
    PROVE  health' \in HealthState
  BY DEF Advance, HealthState, HealthAsleep

LEMMA TypeInit == Init => TypeOK
  BY DEF Init, SlotsInit, TypeOK, SlotsTypeOK, HealthState, HealthAsleep, HealthOff,
         ThreadPC, EnterPC

LEMMA TypeHealth ==
    ASSUME TypeOK, HealthStep, UNCHANGED threadVars
    PROVE  TypeOK'
<1> USE DEF TypeOK, SlotsTypeOK, threadVars, Slot
<1>0. health.pc \notin {"off", "sleep"} => health.slot \in Slot /\ health.slot + 1 \in Int
  BY DEF HealthState
<1>1. CASE HealthWake \/ ProbePassed
  BY <1>0, <1>1, AdvanceType DEF HealthWake, ProbePassed
<1>2. CASE ProbeFailed
  <2>0. health.slot \in Slot
    BY <1>0, <1>2 DEF ProbeFailed
  <2>1. healthy' \in [Slot -> BOOLEAN]
    BY <1>2 DEF ProbeFailed
  <2>3. restarts' \in [Slot -> Nat]
    <3>1. \/ UNCHANGED restarts
          \/ restarts' = [restarts EXCEPT ![health.slot] = restarts[health.slot] + 1]
      BY <1>2, <2>0 DEF ProbeFailed
    <3>2. restarts \in [Slot -> Nat] /\ restarts[health.slot] + 1 \in Nat
      BY <2>0
    <3> HIDE DEF TypeOK, SlotsTypeOK, threadVars, Slot
    <3> QED BY <2>0, <3>1, <3>2
  <2>2. health' \in HealthState
    BY <1>0, <1>2, AdvanceType DEF ProbeFailed, HealthState
  <2> QED BY <1>2, <2>1, <2>2, <2>3 DEF ProbeFailed
<1>3. CASE RestartDone \/ InstallDone
  <2>1. CASE RecoverySucceeds(health.slot)
    BY <1>0, <1>3, <2>1, AdvanceType DEF RestartDone, InstallDone, RecoverySucceeds
  <2>2. CASE RestartDone /\ health' = [health EXCEPT !.pc = "install"]
             /\ UNCHANGED <<healthy, failures>>
    BY <1>0, <1>3, <2>2 DEF RestartDone, HealthState
  <2> QED BY <1>3, <2>1, <2>2 DEF RestartDone, InstallDone
<1>4. CASE RecoveryFails
  BY <1>0, <1>4, AdvanceType DEF RecoveryFails
<1> QED BY <1>1, <1>2, <1>3, <1>4 DEF HealthStep

LEMMA AttemptHasSlot ==
    ASSUME TypeOK, SlotByPC, NEW x \in Session, enter[x] \in AttemptPC
    PROVE  slotRef[x] \in Slot
  BY DEF TypeOK, SlotByPC

LEMMA EnteredHasBrowser ==
    ASSUME TypeOK, BrowserRef, NEW x \in Session, enter[x] = "entered"
    PROVE  damruRef[x] \in Slot
  BY DEF TypeOK, BrowserRef

(* Where the coroutine _enter may go, and where the thread.                *)
LEMMA EnterToType ==
    ASSUME TypeOK, NEW x \in Session, NEW l \in EnterPC \cup EnterEnd, EnterTo(x, l)
    PROVE  enter' \in [Session -> EnterPC \cup EnterEnd]
  BY DEF EnterTo, TypeOK

LEMMA ThreadToType ==
    ASSUME TypeOK, NEW x \in Session, NEW l \in ThreadPC \cup ThreadEnd, ThreadTo(x, l)
    PROVE  thread' \in [Session -> ThreadPC \cup ThreadEnd]
  BY DEF ThreadTo, TypeOK

(* What a release or another browser does to the tables of the slots.      *)
LEMMA ReleaseType ==
    ASSUME TypeOK, NEW s, Release(s) \/ UNCHANGED <<busy, waiting>>
    PROVE  busy' \in [Slot -> BOOLEAN] /\ waiting' \in SUBSET Session
  BY DEF Release, TypeOK, SlotsTypeOK

LEMMA LiveType ==
    ASSUME TypeOK, NEW s, NEW b \in Session \cup {Nobody},
           live' = live \/ live' = [live EXCEPT ![s] = b]
    PROVE  live' \in [Slot -> Session \cup {Nobody}]
  BY DEF TypeOK, SlotsTypeOK

LEMMA TypeEnter ==
    ASSUME TypeOK, Places, NEW x \in Session,
           Call(x) \/ Scan(x) \/ ClearAndWait(x) \/ SetupOk(x) \/ SetupFails(x)
             \/ CleanupDone(x) \/ RefreshDone(x) \/ BackoffDone(x)
    PROVE  TypeOK'
<1> USE DEF EnterPC, EnterEnd, ThreadPC
<1>1. CASE Call(x)
  <2>1. enter' \in [Session -> EnterPC \cup EnterEnd]
    BY <1>1, EnterToType DEF Call
  <2>2. thread' \in [Session -> ThreadPC \cup ThreadEnd]
    BY <1>1, ThreadToType DEF Call
  <2> QED BY <1>1, <2>1, <2>2 DEF Call, TypeOK, SlotsTypeOK, slotVars
<1>2. CASE Scan(x)
  <2>1. enter' \in [Session -> EnterPC \cup EnterEnd]
    BY <1>2, EnterToType DEF Scan
  <2>2. busy' \in [Slot -> BOOLEAN]
    BY <1>2 DEF Scan, Take, TypeOK, SlotsTypeOK
  <2>3. slotRef' \in [Session -> Slot \cup {0}]
    BY <1>2 DEF Scan, TypeOK
  <2>4. loop' \in Session \cup {Nobody}
    BY <1>2 DEF Scan, TypeOK
  <2> QED BY <1>2, <2>1, <2>2, <2>3, <2>4 DEF Scan, TypeOK, SlotsTypeOK
<1>3. CASE ClearAndWait(x)
  BY <1>3, EnterToType DEF ClearAndWait, TypeOK, SlotsTypeOK
<1>4. CASE SetupOk(x)
  <2>1. slotRef[x] \in Slot
    BY <1>4, AttemptHasSlot DEF SetupOk, AttemptPC, Places
  <2>2. live' \in [Slot -> Session \cup {Nobody}]
    BY <1>4, LiveType DEF SetupOk
  <2>3. failures' \in [Slot -> Nat] /\ UNCHANGED healthy
    BY <1>4 DEF SetupOk, CountSuccess, TypeOK, SlotsTypeOK
  <2>4. damruRef' \in [Session -> Slot \cup {0}]
    BY <1>4, <2>1 DEF SetupOk, TypeOK
  <2>5. enter' \in [Session -> EnterPC \cup EnterEnd]
    BY <1>4, EnterToType DEF SetupOk
  <2> QED BY <1>4, <2>2, <2>3, <2>4, <2>5 DEF SetupOk, TypeOK, SlotsTypeOK
<1>5. CASE SetupFails(x)
  <2>1. slotRef[x] \in Slot
    BY <1>5, AttemptHasSlot DEF SetupFails, AttemptPC, Places
  <2>2. PICK b \in {live[slotRef[x]], Nobody, x} : live' = [live EXCEPT ![slotRef[x]] = b]
    BY <1>5 DEF SetupFails
  <2>3. live' \in [Slot -> Session \cup {Nobody}]
    BY <2>1, <2>2 DEF TypeOK, SlotsTypeOK
  <2>4. enter' \in [Session -> EnterPC \cup EnterEnd]
    BY <1>5, EnterToType DEF SetupFails
  <2> QED BY <1>5, <2>3, <2>4 DEF SetupFails, TypeOK, SlotsTypeOK
<1>6. CASE CleanupDone(x)
  <2>1. slotRef[x] \in Slot
    BY <1>6, AttemptHasSlot DEF CleanupDone, AttemptPC, Places
  <2>2. live' \in [Slot -> Session \cup {Nobody}]
    BY <1>6, LiveType DEF CleanupDone, ExitDamru
  <2>3. enter' \in [Session -> EnterPC \cup EnterEnd]
    BY <1>6, EnterToType DEF CleanupDone
  <2>4. busy' \in [Slot -> BOOLEAN] /\ waiting' \in SUBSET Session
    BY <1>6, ReleaseType DEF CleanupDone, GiveSlotUp
  <2>5. slotRef' \in [Session -> Slot \cup {0}]
    BY <1>6 DEF CleanupDone, GiveSlotUp, TypeOK
  <2>6. failures' \in [Slot -> Nat]
    <3>1. failures' = failures
          \/ failures' = [failures EXCEPT ![slotRef[x]] = failures[slotRef[x]] + 1]
      BY <1>6 DEF CleanupDone, CountFailure
    <3> QED BY <2>1, <3>1 DEF TypeOK, SlotsTypeOK
  <2>7. healthy' \in [Slot -> BOOLEAN]
    <3>1. healthy' = healthy
          \/ healthy' = [healthy EXCEPT ![slotRef[x]] =
                            healthy[slotRef[x]] /\ failures[slotRef[x]] + 1 < MaxFailures]
      BY <1>6 DEF CleanupDone, CountFailure
    <3> QED BY <2>1, <3>1, ZenonT(30) DEF TypeOK, SlotsTypeOK
  <2> QED BY <1>6, <2>2, <2>3, <2>4, <2>5, <2>6, <2>7 DEF CleanupDone, TypeOK, SlotsTypeOK
<1>7. CASE RefreshDone(x)
  <2>1. live' \in [Slot -> Session \cup {Nobody}]
    BY <1>7, LiveType DEF RefreshDone
  <2>2. enter' \in [Session -> EnterPC \cup EnterEnd]
    BY <1>7, EnterToType DEF RefreshDone
  <2> QED BY <1>7, <2>1, <2>2 DEF RefreshDone, TypeOK, SlotsTypeOK
<1>8. CASE BackoffDone(x)
  <2>1. attempt[x] \in 0..MaxRetries /\ attempt[x] + 1 \in 0..MaxRetries
    BY <1>8 DEF BackoffDone, Places, RetryLeft, TypeOK
  <2>2. attempt' \in [Session -> 0..MaxRetries]
    BY <1>8, <2>1 DEF BackoffDone, TypeOK
  <2>3. enter' \in [Session -> EnterPC \cup EnterEnd]
    BY <1>8, EnterToType DEF BackoffDone
  <2> QED BY <1>8, <2>2, <2>3 DEF BackoffDone, TypeOK, SlotsTypeOK, slotVars
<1> QED BY <1>1, <1>2, <1>3, <1>4, <1>5, <1>6, <1>7, <1>8

LEMMA TypeThread ==
    ASSUME TypeOK, NEW x \in Session,
           ExitDone(x) \/ ThreadStep(x) \/ Watchdog(x)
    PROVE  TypeOK'
<1> USE DEF ThreadPC, ThreadEnd
<1>1. CASE ExitDone(x)
  <2>1. busy' \in [Slot -> BOOLEAN] /\ waiting' \in SUBSET Session
    BY <1>1, ReleaseType DEF ExitDone, ReleaseRef
  <2>2. live' \in [Slot -> Session \cup {Nobody}]
    BY <1>1, LiveType DEF ExitDone, ExitDamru
  <2> QED BY <1>1, <2>1, <2>2 DEF ExitDone, TypeOK, SlotsTypeOK
<1>2. CASE EnterReturns(x) \/ EnterTimesOut(x) \/ SwapReturns(x) \/ SwapTimesOut(x)
           \/ ExitReturns(x) \/ ExitTimesOut(x)
  <2>1. thread' \in [Session -> ThreadPC \cup ThreadEnd]
    BY <1>2, ThreadToType DEF EnterReturns, EnterTimesOut, SwapReturns, SwapTimesOut,
                              ExitReturns, ExitTimesOut
  <2> QED BY <1>2, <2>1 DEF EnterReturns, EnterTimesOut, SwapReturns, SwapTimesOut,
                            ExitReturns, ExitTimesOut, TypeOK, SlotsTypeOK, slotVars
<1>3. CASE Connect(x) \/ UserExit(x)
  <2>1. thread' \in [Session -> ThreadPC \cup ThreadEnd]
    BY <1>3, ThreadToType DEF Connect, UserExit
  <2>2. exit' \in [Session -> {"none", "running", "done"}]
        /\ timer' \in [Session -> {"none", "armed", "killing"}]
    BY <1>3 DEF Connect, UserExit, TypeOK
  <2> QED BY <1>3, <2>1, <2>2 DEF Connect, UserExit, TypeOK, SlotsTypeOK, slotVars
<1>4. CASE ThreadReleases(x)
  <2>1. thread' \in [Session -> ThreadPC \cup ThreadEnd]
    BY <1>4, ThreadToType DEF ThreadReleases
  <2>2. busy' \in [Slot -> BOOLEAN] /\ waiting' \in SUBSET Session
    BY <1>4, ReleaseType DEF ThreadReleases, ReleaseRef
  <2>3. byThread' \in {"never", "once", "twice"} /\ slotRef' \in [Session -> Slot \cup {0}]
    BY <1>4 DEF ThreadReleases, TypeOK
  <2> QED BY <1>4, <2>1, <2>2, <2>3 DEF ThreadReleases, TypeOK, SlotsTypeOK
<1>5. CASE Watchdog(x)
  <2>1. live' \in [Slot -> Session \cup {Nobody}]
    BY <1>5, LiveType DEF Watchdog, TimerFires, KillChrome, slotVars
  <2> QED BY <1>5, <2>1 DEF Watchdog, TimerFires, KillChrome, TypeOK, SlotsTypeOK, slotVars
<1> QED BY <1>1, <1>2, <1>3, <1>4, <1>5 DEF ThreadStep

LEMMA TypeStep ==
    ASSUME TypeOK, Places, NEW x \in Session, StepOf(x)
    PROVE  TypeOK'
  BY TypeEnter, TypeThread DEF StepOf, LoopStep

-----------------------------------------------------------------------------
(* A step of a session leaves the places of the others alone, the pool     *)
(* open, and every device but its own.                                     *)
OthersKeep(x) == \A y \in Session \ {x} :
    /\ thread'[y] = thread[y] /\ enter'[y] = enter[y] /\ attempt'[y] = attempt[y]
    /\ exit'[y] = exit[y] /\ timer'[y] = timer[y]
    /\ slotRef'[y] = slotRef[y] /\ damruRef'[y] = damruRef[y]

OnlyOwnDevice(x) ==
    \/ UNCHANGED live
    \/ \E b \in {live[slotRef[x]], x, Nobody} :
          enter[x] \in AttemptPC /\ live' = [live EXCEPT ![slotRef[x]] = b]
    \/ enter[x] = "entered" /\ live' = [live EXCEPT ![damruRef[x]] = Nobody]

LEMMA SessionFrame ==
    ASSUME TypeOK, Places, NEW x \in Session, StepOf(x)
    PROVE  OthersKeep(x) /\ OnlyOwnDevice(x) /\ UNCHANGED <<pool, restarts, health>>
<1> USE DEF OthersKeep, OnlyOwnDevice, TypeOK, SlotsTypeOK, EnterTo, ThreadTo, slotVars, AttemptPC
<1>1. CASE Call(x)
  BY <1>1 DEF Call
<1>2. CASE Scan(x) \/ ClearAndWait(x)
  BY <1>2 DEF Scan, ClearAndWait
<1>3. CASE SetupOk(x)
  BY <1>3 DEF SetupOk
<1>4. CASE SetupFails(x)
  BY <1>4 DEF SetupFails
<1>5. CASE CleanupDone(x)
  BY <1>5 DEF CleanupDone, ExitDamru, GiveSlotUp
<1>6. CASE RefreshDone(x) \/ BackoffDone(x)
  BY <1>6 DEF RefreshDone, BackoffDone
<1>7. CASE ExitDone(x)
  BY <1>7 DEF ExitDone, ExitDamru, Places, ExitByPC
<1>8. CASE EnterReturns(x) \/ EnterTimesOut(x) \/ SwapReturns(x) \/ SwapTimesOut(x)
           \/ ExitReturns(x) \/ ExitTimesOut(x)
  BY <1>8 DEF EnterReturns, EnterTimesOut, SwapReturns, SwapTimesOut, ExitReturns, ExitTimesOut
<1>9. CASE Connect(x) \/ UserExit(x)
  BY <1>9 DEF Connect, UserExit
<1>10. CASE ThreadReleases(x)
  BY <1>10 DEF ThreadReleases
<1>11. CASE Watchdog(x)
  BY <1>11 DEF Watchdog, TimerFires, KillChrome, Places, TimerByPC
<1> QED BY <1>1, <1>2, <1>3, <1>4, <1>5, <1>6, <1>7, <1>8, <1>9, <1>10, <1>11
        DEF StepOf, LoopStep, ThreadStep

(* What Places says of one session.                                        *)
PlaceOf(x) ==
    /\ thread[x] = "idle" <=> enter[x] = "none"
    /\ thread[x] \in InsidePC \cup LeavingPC => enter[x] = "entered"
    /\ thread[x] = "failed" => enter[x] \in EnterEnd
    /\ enter[x] \in AttemptPC => slotRef[x] # 0
    /\ enter[x] = "entered" /\ thread[x] # "done" => slotRef[x] # 0
    /\ slotRef[x] # 0 => enter[x] \in AttemptPC \cup {"entered"}
    /\ exit[x] # "none" => enter[x] = "entered" /\ thread[x] \in LeavingPC \cup {"failed"}
    /\ thread[x] \in LeavingPC => exit[x] # "none"
    /\ thread[x] = "failed" /\ enter[x] = "entered" => exit[x] # "none"
    /\ thread[x] = "done" /\ slotRef[x] # 0 => exit[x] = "done"
    /\ enter[x] = "entered" => damruRef[x] # 0 /\ slotRef[x] \in {damruRef[x], 0}
    /\ timer[x] = "armed" => thread[x] = "user"
    /\ timer[x] = "killing" => enter[x] = "entered"
    /\ enter[x] \in {"refresh", "backoff"} => attempt[x] < MaxRetries

LEMMA PlacesParts == Places <=> (\A x \in Session : PlaceOf(x)) /\ PoolOpen
  BY DEF Places, PlaceOf, ThreadFollows, SlotByPC, ExitByPC, BrowserRef, TimerByPC, RetryLeft

LEMMA PlaceEnter ==
    ASSUME TypeOK, NEW x \in Session, PlaceOf(x),
           Call(x) \/ Scan(x) \/ ClearAndWait(x) \/ SetupOk(x) \/ SetupFails(x)
             \/ CleanupDone(x) \/ RefreshDone(x) \/ BackoffDone(x)
    PROVE  PlaceOf(x)'
<1> USE DEF PlaceOf, TypeOK, EnterTo, ThreadTo, AttemptPC, InsidePC, LeavingPC, EnterEnd
<1>1. CASE Call(x)
  BY <1>1 DEF Call
<1>2. CASE Scan(x)
  BY <1>2 DEF Scan, Slot
<1>3. CASE ClearAndWait(x)
  BY <1>3 DEF ClearAndWait
<1>4. CASE SetupOk(x)
  BY <1>4 DEF SetupOk
<1>5. CASE SetupFails(x)
  BY <1>5 DEF SetupFails
<1>6. CASE CleanupDone(x)
  BY <1>6 DEF CleanupDone, GiveSlotUp, LastAttempt
<1>7. CASE RefreshDone(x) \/ BackoffDone(x)
  BY <1>7 DEF RefreshDone, BackoffDone
<1> QED BY <1>1, <1>2, <1>3, <1>4, <1>5, <1>6, <1>7

LEMMA PlaceThread ==
    ASSUME TypeOK, NEW x \in Session, PlaceOf(x),
           ExitDone(x) \/ ThreadStep(x) \/ Watchdog(x)
    PROVE  PlaceOf(x)'
<1> USE DEF PlaceOf, TypeOK, ThreadTo, AttemptPC, InsidePC, LeavingPC, EnterEnd
<1>1. CASE ExitDone(x)
  BY <1>1 DEF ExitDone
<1>2. CASE EnterReturns(x) \/ EnterTimesOut(x)
  BY <1>2 DEF EnterReturns, EnterTimesOut
<1>3. CASE SwapReturns(x) \/ SwapTimesOut(x)
  BY <1>3 DEF SwapReturns, SwapTimesOut
<1>4. CASE Connect(x)
  BY <1>4 DEF Connect
<1>5. CASE UserExit(x)
  BY <1>5 DEF UserExit
<1>6. CASE ExitReturns(x) \/ ExitTimesOut(x)
  BY <1>6 DEF ExitReturns, ExitTimesOut
<1>7. CASE ThreadReleases(x)
  BY <1>7 DEF ThreadReleases
<1>8. CASE Watchdog(x)
  BY <1>8 DEF Watchdog, TimerFires, KillChrome
<1> QED BY <1>1, <1>2, <1>3, <1>4, <1>5, <1>6, <1>7, <1>8 DEF ThreadStep

LEMMA PlacesStep ==
    ASSUME TypeOK, Places, NEW x \in Session, StepOf(x)
    PROVE  Places'
<1>1. PlaceOf(x)'
  BY PlacesParts, PlaceEnter, PlaceThread DEF StepOf, LoopStep
<1>2. ASSUME NEW y \in Session \ {x} PROVE PlaceOf(y)'
  BY PlacesParts, SessionFrame DEF OthersKeep, PlaceOf
<1>3. PoolOpen'
  BY SessionFrame DEF Places, PoolOpen
<1>4. Places' <=> (\A y \in Session : PlaceOf(y)') /\ PoolOpen'
  BY DEF Places, PlaceOf, ThreadFollows, SlotByPC, ExitByPC, BrowserRef, TimerByPC, RetryLeft
<1> QED BY <1>1, <1>2, <1>3, <1>4

-----------------------------------------------------------------------------
(* How a step of a session acts on the slots.  Seen from the slots' table  *)
(* a session asks, stays as it is, is turned away, takes a slot or returns *)
(* it; the step that a thread and _exit both release is the last one the   *)
(* properties speak of.                                                    *)
Asking(x) == enter[x] \in {"acquire", "park"}

ClaimsKept ==
    /\ UNCHANGED busy
    /\ \A y \in Session : /\ Holds(y)' <=> Holds(y)
                          /\ Holds(y) => slotRef'[y] = slotRef[y]

Asks(x) ==
    /\ enter[x] = "none" /\ EnterTo(x, "acquire")
    /\ ClaimsKept /\ UNCHANGED healthy

Stays(x) ==
    /\ \A y \in Session : /\ Asking(y)' <=> Asking(y)
                          /\ enter'[y] = "none" <=> enter[y] = "none"
    /\ ClaimsKept /\ UNCHANGED healthy

IsRefused(x) ==
    /\ enter[x] = "acquire" /\ EnterTo(x, "raised")
    /\ AllDead
    /\ ClaimsKept /\ UNCHANGED healthy

Takes(x, s) ==
    /\ enter[x] = "acquire" /\ EnterTo(x, "setup")
    /\ Take(s)
    /\ slotRef' = [slotRef EXCEPT ![x] = s]
    /\ UNCHANGED <<exit, healthy>>

Returns(x) ==
    /\ Holds(x) /\ ~Holds(x)'
    /\ Release(slotRef[x])
    /\ UNCHANGED enter \/ EnterTo(x, "raised")
    /\ UNCHANGED healthy \/ CountFailure(slotRef[x])

Moves(x) == Asks(x) \/ Stays(x) \/ IsRefused(x) \/ (\E s \in Slot : Takes(x, s)) \/ Returns(x)

LEMMA SessionMoves ==
    ASSUME TypeOK, Places, NEW x \in Session, StepOf(x)
    PROVE  Moves(x) \/ ReleasedTwice'
<1>0. PlaceOf(x) /\ OthersKeep(x)
  BY PlacesParts, SessionFrame
<1> USE DEF Moves, ClaimsKept, Holds, TypeOK, EnterTo, ThreadTo, slotVars
<1>1. CASE Call(x)
  BY <1>0, <1>1 DEF Call, Asks, PlaceOf
<1>2. CASE Scan(x)
  <2>1. CASE \E s \in Slot : Take(s) /\ slotRef' = [slotRef EXCEPT ![x] = s] /\ EnterTo(x, "setup")
    BY <1>2, <2>1 DEF Scan, Takes
  <2>2. CASE EnterTo(x, "park") /\ UNCHANGED <<busy, slotRef>>
    BY <1>2, <2>2 DEF Scan, Stays, Asking
  <2>3. CASE AllDead /\ EnterTo(x, "raised") /\ UNCHANGED <<busy, slotRef>>
    BY <1>2, <2>3 DEF Scan, IsRefused
  <2> QED BY <1>2, <2>1, <2>2, <2>3 DEF Scan
<1>3. CASE ClearAndWait(x)
  BY <1>3 DEF ClearAndWait, Stays, Asking
<1>4. CASE SetupOk(x) \/ SetupFails(x) \/ RefreshDone(x) \/ BackoffDone(x)
  BY <1>4 DEF SetupOk, CountSuccess, SetupFails, RefreshDone, BackoffDone, Stays, Asking
<1>5. CASE CleanupDone(x)
  <2>1. CASE GiveSlotUp(x)
    BY <1>0, <1>5, <2>1 DEF CleanupDone, GiveSlotUp, Returns, PlaceOf, AttemptPC
  <2>2. CASE UNCHANGED <<busy, healthy, slotRef>>
    BY <1>5, <2>2 DEF CleanupDone, Stays, Asking
  <2> QED BY <1>5, <2>1, <2>2 DEF CleanupDone
<1>6. CASE ExitDone(x)
  <2>1. CASE slotRef[x] # 0
    BY <1>6, <2>1 DEF ExitDone, ReleaseRef, Returns
  <2>2. CASE slotRef[x] = 0
    BY <1>6, <2>2 DEF ExitDone, ReleaseRef, Stays, Asking
  <2> QED BY <2>1, <2>2
<1>7. CASE EnterReturns(x) \/ EnterTimesOut(x) \/ SwapReturns(x) \/ SwapTimesOut(x)
           \/ ExitReturns(x) \/ ExitTimesOut(x)
  BY <1>7 DEF EnterReturns, EnterTimesOut, SwapReturns, SwapTimesOut, ExitReturns,
              ExitTimesOut, Stays, Asking
<1>8. CASE Connect(x) \/ UserExit(x)
  BY <1>0, <1>8 DEF Connect, UserExit, Stays, Asking, PlaceOf, LeavingPC
<1>9. CASE ThreadReleases(x)
  <2>1. CASE slotRef[x] # 0 /\ exit[x] # "done"
    BY <1>9, <2>1 DEF ThreadReleases, ReleaseRef, Returns
  <2>2. CASE slotRef[x] # 0 /\ exit[x] = "done"
    BY <1>9, <2>2 DEF ThreadReleases, ReleasedTwice
  <2>3. CASE slotRef[x] = 0
    BY <1>9, <2>3 DEF ThreadReleases, ReleaseRef, Stays, Asking
  <2> QED BY <2>1, <2>2, <2>3
<1>10. CASE Watchdog(x)
  BY <1>10 DEF Watchdog, TimerFires, KillChrome, Stays, Asking
<1> QED BY <1>1, <1>2, <1>3, <1>4, <1>5, <1>6, <1>7, <1>8, <1>9, <1>10
        DEF StepOf, LoopStep, ThreadStep

(* What was released twice stays so.                                       *)
LEMMA TwiceStays ==
    ASSUME NEW x \in Session, StepOf(x), ReleasedTwice
    PROVE  ReleasedTwice'
  BY DEF ReleasedTwice, StepOf, Call, LoopStep, Scan, ClearAndWait, SetupOk, SetupFails,
         CleanupDone, RefreshDone, BackoffDone, ExitDone, ThreadStep, EnterReturns,
         EnterTimesOut, SwapReturns, SwapTimesOut, Connect, UserExit, ExitReturns,
         ExitTimesOut, ThreadReleases, Watchdog, TimerFires, KillChrome, slotVars

-----------------------------------------------------------------------------
(* Who holds what.                                                         *)
Exclusive ==
    \A x, y \in Session : Holds(x) /\ Holds(y) /\ slotRef[x] = slotRef[y] => x = y

BusyExact == \A s \in Slot : busy[s] <=> \E x \in Session : Holds(x) /\ slotRef[x] = s

LEMMA HolderHasSlot ==
    ASSUME TypeOK, NEW x \in Session, Holds(x)
    PROVE  slotRef[x] \in Slot
  BY DEF TypeOK, Holds

LEMMA OwnershipMove ==
    ASSUME TypeOK, TypeOK', Places, Exclusive, BusyExact, NEW x \in Session,
           OthersKeep(x), Moves(x)
    PROVE  Exclusive' /\ BusyExact'
<1>0. \A y \in Session \ {x} : (Holds(y)' <=> Holds(y)) /\ slotRef'[y] = slotRef[y]
  BY DEF OthersKeep, Holds
<1>1. CASE ClaimsKept
  <2>1. Exclusive'
    BY <1>1 DEF ClaimsKept, Exclusive
  <2>2. BusyExact'
    BY <1>1 DEF ClaimsKept, BusyExact
  <2> QED BY <2>1, <2>2
<1>2. CASE \E s \in Slot : Takes(x, s)
  <2>1. PICK s \in Slot : Takes(x, s)
    BY <1>2
  <2>2. slotRef[x] = 0 /\ exit[x] = "none"
    BY <2>1, PlacesParts DEF Takes, PlaceOf, AttemptPC
  <2>3. ~Holds(x) /\ Holds(x)' /\ slotRef'[x] = s /\ s # 0
    BY <2>1, <2>2 DEF Takes, Holds, TypeOK, Slot
  <2>4. \A y \in Session : Holds(y) => slotRef[y] # s
    BY <2>1 DEF Takes, Take, Free, BusyExact
  <2>5. Exclusive'
    BY <1>0, <2>3, <2>4 DEF Exclusive
  <2>6. busy'[s] /\ \A r \in Slot \ {s} : busy'[r] = busy[r]
    BY <2>1 DEF Takes, Take, TypeOK, SlotsTypeOK
  <2>7. BusyExact'
    BY <1>0, <2>3, <2>6 DEF BusyExact
  <2> QED BY <2>5, <2>7
<1>3. CASE Returns(x)
  <2>1. slotRef[x] \in Slot /\ Holds(x) /\ ~Holds(x)'
    BY <1>3, HolderHasSlot DEF Returns
  <2>2. Exclusive'
    BY <1>0, <2>1 DEF Exclusive
  <2>3. ~busy'[slotRef[x]] /\ \A r \in Slot \ {slotRef[x]} : busy'[r] = busy[r]
    BY <1>3, <2>1 DEF Returns, Release, TypeOK, SlotsTypeOK
  <2>4. \A y \in Session \ {x} : Holds(y) => slotRef[y] # slotRef[x]
    BY <2>1 DEF Exclusive
  <2>5. BusyExact'
    BY <1>0, <2>1, <2>3, <2>4 DEF BusyExact
  <2> QED BY <2>2, <2>5
<1> QED BY <1>1, <1>2, <1>3 DEF Moves, Asks, Stays, IsRefused

LEMMA OwnershipStep ==
    ASSUME TypeOK, TypeOK', Places, SlotsExclusive, NEW x \in Session, StepOf(x)
    PROVE  SlotsExclusive'
<1>1. CASE ReleasedTwice'
  BY <1>1 DEF SlotsExclusive, SlotExclusive, BusyIffHeld
<1>2. CASE ~ReleasedTwice'
  <2>1. ~ReleasedTwice
    BY <1>2, TwiceStays
  <2>2. Exclusive /\ BusyExact
    BY <2>1 DEF SlotsExclusive, SlotExclusive, BusyIffHeld, Exclusive, BusyExact
  <2>3. Exclusive' /\ BusyExact'
    BY <1>2, <2>2, SessionMoves, SessionFrame, OwnershipMove
  <2> QED BY <2>3 DEF SlotsExclusive, SlotExclusive, BusyIffHeld, Exclusive, BusyExact
<1> QED BY <1>1, <1>2

-----------------------------------------------------------------------------
(* Who waits, and why it will be woken.                                    *)
LEMMA WaitersStep ==
    ASSUME TypeOK, Waiters, NEW x \in Session, StepOf(x)
    PROVE  Waiters'
<1> SUFFICES ASSUME byThread' = "never"
             PROVE  /\ loop' # Nobody => \E s \in Slot : busy'[s]
                    /\ waiting' # {} => \E s \in Slot : busy'[s]
  BY DEF Waiters, ParkedOnBusy, NoStrandedWaiter
<1> USE DEF Waiters, ParkedOnBusy, NoStrandedWaiter
<1>1. CASE Scan(x)
  <2>1. byThread = "never" /\ loop = Nobody /\ UNCHANGED waiting
    BY <1>1 DEF Scan, LoopFree
  <2>2. CASE \E s \in Slot : Take(s)
    <3>1. \E s \in Slot : busy'[s]
      BY <2>2 DEF Take, TypeOK, SlotsTypeOK
    <3> QED BY <3>1
  <2>3. CASE (\A s \in Slot : ~Free(s)) /\ AnyHealthy /\ UNCHANGED busy
    BY <2>3 DEF Free, AnyHealthy
  <2>4. CASE UNCHANGED <<busy, loop>>
    BY <2>1, <2>4
  <2> QED BY <1>1, <2>2, <2>3, <2>4 DEF Scan
<1>2. CASE ClearAndWait(x)
  BY <1>2 DEF ClearAndWait
<1>3. CASE CleanupDone(x)
  <2>1. CASE Release(slotRef[x])
    BY <1>3, <2>1 DEF CleanupDone, LoopFree, Release
  <2>2. CASE UNCHANGED <<busy, waiting>>
    BY <1>3, <2>2 DEF CleanupDone
  <2> QED BY <1>3, <2>1, <2>2 DEF CleanupDone, GiveSlotUp
<1>4. CASE ExitDone(x)
  <2>1. CASE Release(slotRef[x])
    BY <1>4, <2>1 DEF ExitDone, LoopFree, Release
  <2>2. CASE UNCHANGED <<busy, waiting>>
    BY <1>4, <2>2 DEF ExitDone
  <2> QED BY <1>4, <2>1, <2>2 DEF ExitDone, ReleaseRef
<1>5. CASE ThreadReleases(x)
  <2>1. slotRef[x] = 0
    BY <1>5 DEF ThreadReleases
  <2> QED BY <1>5, <2>1 DEF ThreadReleases, ReleaseRef
<1>6. CASE Call(x) \/ SetupOk(x) \/ SetupFails(x) \/ RefreshDone(x) \/ BackoffDone(x)
  BY <1>6 DEF Call, SetupOk, SetupFails, RefreshDone, BackoffDone, slotVars
<1>7. CASE (ThreadStep(x) /\ ~ThreadReleases(x)) \/ Watchdog(x)
  BY <1>7 DEF ThreadStep, EnterReturns, EnterTimesOut, SwapReturns, SwapTimesOut, Connect,
              UserExit, ExitReturns, ExitTimesOut, Watchdog, TimerFires, KillChrome, slotVars
<1> QED BY <1>1, <1>2, <1>3, <1>4, <1>5, <1>6, <1>7 DEF StepOf, LoopStep

-----------------------------------------------------------------------------
(* Whose browser runs on the device of a session that has entered.         *)

(* Only a setup that worked makes a session enter.                         *)
LEMMA EntersBySetup ==
    ASSUME TypeOK, NEW x \in Session, StepOf(x), enter'[x] = "entered"
    PROVE  enter[x] = "entered" \/ SetupOk(x)
<1> USE DEF TypeOK, EnterTo, slotVars
<1>1. CASE Call(x) \/ Scan(x) \/ ClearAndWait(x)
  BY <1>1 DEF Call, Scan, ClearAndWait
<1>2. CASE SetupFails(x) \/ CleanupDone(x) \/ RefreshDone(x) \/ BackoffDone(x)
  BY <1>2 DEF SetupFails, CleanupDone, RefreshDone, BackoffDone
<1>3. CASE ExitDone(x) \/ ThreadStep(x) \/ Watchdog(x)
  BY <1>3 DEF ExitDone, ThreadStep, EnterReturns, EnterTimesOut, SwapReturns, SwapTimesOut,
              Connect, UserExit, ExitReturns, ExitTimesOut, ThreadReleases, Watchdog,
              TimerFires, KillChrome
<1> QED BY <1>1, <1>2, <1>3 DEF StepOf, LoopStep

LEMMA BrowsersStep ==
    ASSUME TypeOK, TypeOK', Places, SlotsExclusive, BrowserOfHolder,
           NEW x \in Session, StepOf(x)
    PROVE  BrowserOfHolder'
<1> SUFFICES ASSUME ~ReleasedTwice', NEW y \in Session, enter'[y] = "entered", Holds(y)'
             PROVE  live'[slotRef'[y]] \in {y, Nobody}
  BY DEF BrowserOfHolder
<1>1. ~ReleasedTwice /\ Exclusive
  <2>1. ~ReleasedTwice
    BY TwiceStays
  <2> QED BY <2>1 DEF SlotsExclusive, SlotExclusive, Exclusive
<1>2. OthersKeep(x) /\ OnlyOwnDevice(x) /\ Moves(x) /\ PlaceOf(x)
  BY SessionFrame, SessionMoves, PlacesParts
<1>3. CASE SetupOk(x) /\ y = x
  <2>1. slotRef[x] \in Slot
    BY <1>3, AttemptHasSlot DEF SetupOk, AttemptPC, Places
  <2> QED BY <1>3, <2>1 DEF SetupOk, TypeOK, SlotsTypeOK
<1>4. CASE ~SetupOk(x) /\ y = x
  <2>1. enter[x] = "entered"
    BY <1>4, EntersBySetup
  <2>2. Holds(x) /\ slotRef'[x] = slotRef[x]
    <3>1. ~Returns(x) /\ \A s \in Slot : ~Takes(x, s)
      BY <1>4, <2>1 DEF Returns, Takes
    <3>2. ClaimsKept
      BY <1>2, <3>1 DEF Moves, Asks, Stays, IsRefused
    <3> QED BY <1>4, <3>2 DEF ClaimsKept
  <2>3. live[slotRef[x]] \in {x, Nobody} /\ slotRef[x] \in Slot
    BY <1>1, <2>1, <2>2, HolderHasSlot DEF BrowserOfHolder
  <2>4. UNCHANGED live \/ live' = [live EXCEPT ![damruRef[x]] = Nobody]
    BY <1>2, <2>1 DEF OnlyOwnDevice, AttemptPC
  <2> QED BY <1>4, <2>2, <2>3, <2>4 DEF TypeOK, SlotsTypeOK
<1>5. CASE y # x
  <2>1. enter[y] = "entered" /\ Holds(y) /\ slotRef'[y] = slotRef[y] /\ slotRef[y] \in Slot
    BY <1>2, <1>5, HolderHasSlot DEF OthersKeep, Holds
  <2>2. live[slotRef[y]] \in {y, Nobody}
    BY <1>1, <2>1 DEF BrowserOfHolder
  <2>3. CASE enter[x] \in AttemptPC
    <3>1. Holds(x)
      BY <1>2, <2>3 DEF PlaceOf, Holds, AttemptPC
    <3>2. slotRef[x] # slotRef[y]
      BY <1>1, <1>5, <2>1, <3>1 DEF Exclusive
    <3>3. live'[slotRef[y]] = live[slotRef[y]]
      BY <1>2, <2>1, <2>3, <3>2 DEF OnlyOwnDevice, AttemptPC, TypeOK, SlotsTypeOK
    <3> QED BY <2>1, <2>2, <3>3
  <2>4. CASE enter[x] \notin AttemptPC
    BY <1>2, <2>1, <2>2, <2>4 DEF OnlyOwnDevice, TypeOK, SlotsTypeOK
  <2> QED BY <2>3, <2>4
<1> QED BY <1>3, <1>4, <1>5

-----------------------------------------------------------------------------
(* The health task changes neither who holds a slot nor who waits; a       *)
(* recovery ends browsers and starts none.                                 *)
LEMMA HealthFrame ==
    ASSUME HealthStep
    PROVE  /\ UNCHANGED <<pool, busy, waiting>>
           /\ \/ UNCHANGED live
              \/ live' = [live EXCEPT ![health.slot] = Nobody]
  BY DEF HealthStep, HealthWake, ProbePassed, ProbeFailed, RestartDone, InstallDone, RecoveryFails

LEMMA HealthKeeps ==
    ASSUME IInv, HealthStep, UNCHANGED threadVars
    PROVE  IInv'
<1>1. UNCHANGED <<pool, busy, waiting, thread, enter, attempt, exit, slotRef, damruRef, timer,
                  loop, byThread>>
  BY HealthFrame DEF threadVars
<1>2. \A s \in Slot : live'[s] = live[s] \/ live'[s] = Nobody
  BY HealthFrame DEF IInv, TypeOK, SlotsTypeOK
<1>3. TypeOK'
  BY TypeHealth DEF IInv
<1>4. Places'
  BY <1>1 DEF IInv, Places, ThreadFollows, SlotByPC, ExitByPC, BrowserRef, TimerByPC,
              RetryLeft, PoolOpen
<1>5. SlotsExclusive' /\ Waiters'
  BY <1>1 DEF IInv, SlotsExclusive, SlotExclusive, BusyIffHeld, ReleasedTwice, Holds,
              Waiters, ParkedOnBusy, NoStrandedWaiter
<1>6. BrowserOfHolder'
  <2> SUFFICES ASSUME ~ReleasedTwice, NEW x \in Session, enter[x] = "entered", Holds(x)
               PROVE  live'[slotRef[x]] \in {x, Nobody}
    BY <1>1 DEF BrowserOfHolder, ReleasedTwice, Holds
  <2>1. slotRef[x] \in Slot /\ live[slotRef[x]] \in {x, Nobody}
    BY HolderHasSlot DEF IInv, BrowserOfHolder
  <2> QED BY <1>2, <2>1
<1> QED BY <1>3, <1>4, <1>5, <1>6 DEF IInv

-----------------------------------------------------------------------------
LEMMA InvInit == Init => IInv
<1> SUFFICES ASSUME Init PROVE IInv
  OBVIOUS
<1>1. TypeOK
  BY TypeInit
<1>2. Places
  BY DEF Init, SlotsInit, Places, ThreadFollows, SlotByPC, ExitByPC, BrowserRef, TimerByPC,
         RetryLeft, PoolOpen, InsidePC, LeavingPC, AttemptPC
<1>3. SlotsExclusive
  BY DEF Init, SlotsInit, SlotsExclusive, SlotExclusive, BusyIffHeld, Holds
<1>4. BrowserOfHolder /\ Waiters
  BY DEF Init, SlotsInit, BrowserOfHolder, Waiters, ParkedOnBusy, NoStrandedWaiter
<1> QED BY <1>1, <1>2, <1>3, <1>4 DEF IInv

LEMMA InvStep == IInv /\ [Next]_vars => IInv'
<1> SUFFICES ASSUME IInv, [Next]_vars PROVE IInv'
  OBVIOUS
<1>1. ASSUME NEW x \in Session, StepOf(x)
      PROVE  IInv'
  <2>1. TypeOK' /\ Places'
    BY <1>1, TypeStep, PlacesStep DEF IInv
  <2>2. SlotsExclusive' /\ Waiters'
    BY <1>1, <2>1, OwnershipStep, WaitersStep DEF IInv
  <2>3. BrowserOfHolder'
    BY <1>1, <2>1, BrowsersStep DEF IInv
  <2> QED BY <2>1, <2>2, <2>3 DEF IInv
<1>2. CASE HealthStep /\ UNCHANGED threadVars
  BY <1>2, HealthKeeps
<1>3. CASE UNCHANGED vars
  BY <1>3 DEF vars, IInv, TypeOK, SlotsTypeOK, Places, ThreadFollows, SlotByPC, ExitByPC,
              BrowserRef, TimerByPC, RetryLeft, PoolOpen, SlotsExclusive, SlotExclusive,
              BusyIffHeld, BrowserOfHolder, Waiters, ParkedOnBusy, NoStrandedWaiter,
              Holds, ReleasedTwice
<1> QED BY <1>1, <1>2, <1>3 DEF Next, StepOf

(* The inductive invariant holds in every reachable state.                 *)
THEOREM Invariance == Spec => []IInv
  BY InvInit, InvStep, PTL DEF Spec

(* Every variable keeps its type, the attempt counter and the references   *)
(* to slots included.                                                      *)
THEOREM TypeCorrect == Spec => []TypeOK
<1>1. IInv => TypeOK
  BY DEF IInv
<1> QED BY <1>1, Invariance, PTL

(* Two threads never hold one slot, and the busy flags say exactly which   *)
(* slots are held, until a thread and _exit have both released one.        *)
THEOREM SlotsAreExclusive == Spec => []SlotsExclusive
<1>1. IInv => SlotsExclusive
  BY DEF IInv
<1> QED BY <1>1, Invariance, PTL

(* As long as all releases are made by the loop, some slot is busy while   *)
(* anybody waits.                                                          *)
THEOREM NobodyStranded == Spec => []NoStrandedWaiter
<1>1. IInv => NoStrandedWaiter
  BY DEF IInv, Waiters
<1> QED BY <1>1, Invariance, PTL

(* A thread that has left session() and still holds a slot either gave up  *)
(* on _enter or on the swap, or its _exit is on its way.                   *)
THEOREM LosersGaveUp == Spec => []OnlyGivingUpLosesSlots
<1>1. IInv => OnlyGivingUpLosesSlots
  <2> SUFFICES ASSUME IInv, NEW x \in Session, Holds(x), thread[x] \in {"done", "failed"}
               PROVE  exit[x] = "running"
    BY DEF OnlyGivingUpLosesSlots, ThreadEnd
  <2>1. PlaceOf(x) /\ TypeOK
    BY PlacesParts DEF IInv
  <2>2. exit[x] # "none"
    BY <2>1 DEF PlaceOf, Holds, LeavingPC, EnterEnd, AttemptPC
  <2> QED BY <2>1, <2>2 DEF Holds, TypeOK
<1> QED BY <1>1, Invariance, PTL

(* A timer fires only inside its session's block, and the stop of Chrome   *)
(* that a running session's timer sends ends no other session's browser.   *)
THEOREM TimersKillOwn == Spec => TimeoutKillsOwn
<1> DEFINE Armed == \A x \in Session : timer[x] = "armed" => thread[x] = "user"
           Own == \A x \in Session, s \in Slot :
                     Watchdog(x) /\ live'[s] # live[s] =>
                         live[s] = x \/ thread[x] # "user" \/ ReleasedTwice
<1>1. IInv => Armed
  BY DEF IInv, Places, TimerByPC
<1>2. ASSUME IInv PROVE [Own]_vars
  <2> SUFFICES ASSUME NEW x \in Session, NEW s \in Slot, Watchdog(x), live'[s] # live[s],
                      thread[x] = "user", ~ReleasedTwice
               PROVE  live[s] = x
    OBVIOUS
  <2>1. live' = [live EXCEPT ![damruRef[x]] = Nobody]
    BY DEF Watchdog, TimerFires, KillChrome, slotVars
  <2>2. PlaceOf(x) /\ TypeOK /\ BrowserOfHolder
    BY <1>2, PlacesParts DEF IInv
  <2>3. enter[x] = "entered" /\ Holds(x) /\ slotRef[x] = damruRef[x]
    BY <2>2 DEF PlaceOf, InsidePC, LeavingPC, Holds
  <2>4. live[damruRef[x]] \in {x, Nobody}
    BY <2>2, <2>3 DEF BrowserOfHolder
  <2>5. s = damruRef[x] /\ live[s] # Nobody
    BY <2>1, <2>2 DEF TypeOK, SlotsTypeOK
  <2> QED BY <2>4, <2>5
<1>3. Spec => []Armed
  BY <1>1, Invariance, PTL
<1>4. Spec => [][Own]_vars
  BY <1>2, Invariance, PTL
<1> QED BY <1>3, <1>4 DEF TimeoutKillsOwn

-----------------------------------------------------------------------------
(* The refinement of SlotAllocator.                                        *)

(* The owner of a slot, where there is one, is the session that holds it.  *)
LEMMA OwnerIsHolder ==
    ASSUME Exclusive, NEW s \in Slot, NEW x \in Session, Holds(x), slotRef[x] = s
    PROVE  Owner[s] = x
  BY DEF Exclusive, Owner

LEMMA NoOwnerIfFree ==
    ASSUME NEW s \in Slot, \A x \in Session : ~(Holds(x) /\ slotRef[x] = s)
    PROVE  Owner[s] = Nobody
  BY DEF Owner

(* A slot whose holders stay the same keeps its owner.                     *)
LEMMA OwnerStays ==
    ASSUME NEW s \in Slot,
           \A y \in Session : (Holds(y) /\ slotRef[y] = s)' <=> (Holds(y) /\ slotRef[y] = s)
    PROVE  Owner'[s] = Owner[s]
  BY DEF Owner

LEMMA OwnersAreFunctions ==
    Owner = [s \in Slot |-> Owner[s]] /\ Owner' = [s \in Slot |-> Owner'[s]]
  BY DEF Owner

LEMMA ClaimsKeepOwner ==
    ASSUME ClaimsKept
    PROVE  UNCHANGED Owner
<1>1. ASSUME NEW s \in Slot PROVE Owner'[s] = Owner[s]
  BY OwnerStays DEF ClaimsKept
<1> QED BY <1>1, OwnersAreFunctions

(* The request of one session changes with its place and its claim.        *)
RequestOf(x) ==
    IF enter[x] = "none" THEN "none"
    ELSE IF Asking(x) THEN "pending"
    ELSE IF Holds(x) THEN "granted" ELSE "over"

(* The cases of Request exclude each other: who asks holds nothing.        *)
LEMMA RequestIs == Places => Request = [x \in Session |-> RequestOf(x)]
<1> SUFFICES ASSUME Places PROVE Request = [x \in Session |-> RequestOf(x)]
  OBVIOUS
<1>1. \A x \in Session : Holds(x) => enter[x] # "none" /\ ~Asking(x)
  BY DEF Places, SlotByPC, Holds, Asking, AttemptPC
<1>2. \A x \in Session : Request[x] = RequestOf(x)
  BY <1>1 DEF Request, RequestOf, Asking
<1> QED BY <1>2 DEF Request

LEMMA RequestIsNext == Places' => Request' = [x \in Session |-> RequestOf(x)']
<1> SUFFICES ASSUME Places' PROVE Request' = [x \in Session |-> RequestOf(x)']
  OBVIOUS
<1>1. \A x \in Session : Holds(x)' => enter'[x] # "none" /\ ~Asking(x)'
  BY DEF Places, SlotByPC, Holds, Asking, AttemptPC
<1>2. \A x \in Session : Request'[x] = RequestOf(x)'
  BY <1>1 DEF Request, RequestOf, Asking
<1> QED BY <1>2 DEF Request

LEMMA OthersKeepRequest ==
    ASSUME Places, Places', NEW x \in Session, OthersKeep(x), NEW b, RequestOf(x)' = b
    PROVE  Request' = [Request EXCEPT ![x] = b]
<1>1. \A y \in Session \ {x} : RequestOf(y)' = RequestOf(y)
  BY DEF OthersKeep, RequestOf, Asking, Holds
<1> QED BY <1>1, RequestIs, RequestIsNext

LEMMA AsksMaps ==
    ASSUME TypeOK, Places, Places', NEW x \in Session, OthersKeep(x), Asks(x)
    PROVE  Alloc!Next
<1>1. RequestOf(x) = "none" /\ RequestOf(x)' = "pending"
  BY DEF Asks, RequestOf, Asking, EnterTo, TypeOK
<1>2. Request[x] = "none" /\ Request' = [Request EXCEPT ![x] = "pending"]
  BY <1>1, RequestIs, OthersKeepRequest
<1>3. UNCHANGED <<Owner, healthy>>
  BY ClaimsKeepOwner DEF Asks
<1> QED BY <1>2, <1>3 DEF Alloc!Next, Alloc!Ask

LEMMA StaysMaps ==
    ASSUME Places, Places', NEW x \in Session, Stays(x)
    PROVE  UNCHANGED Alloc!vars
<1>1. \A y \in Session : RequestOf(y)' = RequestOf(y)
  BY DEF Stays, ClaimsKept, RequestOf
<1>2. UNCHANGED <<Request, Owner, healthy>>
  BY <1>1, RequestIs, RequestIsNext, ClaimsKeepOwner DEF Stays
<1> QED BY <1>2 DEF Alloc!vars

LEMMA IsRefusedMaps ==
    ASSUME TypeOK, Places, Places', NEW x \in Session, OthersKeep(x), IsRefused(x)
    PROVE  Alloc!Next
<1>1. ~Holds(x)
  BY PlacesParts DEF IsRefused, Holds, PlaceOf, AttemptPC
<1>2. RequestOf(x) = "pending" /\ RequestOf(x)' = "over"
  BY <1>1 DEF IsRefused, ClaimsKept, RequestOf, Asking, EnterTo, TypeOK
<1>3. Request[x] = "pending" /\ Request' = [Request EXCEPT ![x] = "over"]
  BY <1>2, RequestIs, OthersKeepRequest
<1>4. \A s \in Slot : ~healthy[s]
  BY DEF IsRefused, AllDead, AnyHealthy, Places, PoolOpen, Slot
<1>5. UNCHANGED <<Owner, healthy>>
  BY ClaimsKeepOwner DEF IsRefused
<1> QED BY <1>3, <1>4, <1>5 DEF Alloc!Next, Alloc!Refuse

LEMMA TakesMaps ==
    ASSUME TypeOK, Places, Places', Exclusive', BusyExact, NEW x \in Session, OthersKeep(x),
           NEW s \in Slot, Takes(x, s)
    PROVE  Alloc!Next
<1>1. ~Holds(x) /\ Holds(x)' /\ slotRef'[x] = s
  BY PlacesParts DEF Takes, PlaceOf, AttemptPC, Holds, TypeOK, Slot
<1>2. RequestOf(x) = "pending" /\ RequestOf(x)' = "granted"
  BY <1>1 DEF Takes, RequestOf, Asking, EnterTo, TypeOK
<1>3. Request[x] = "pending" /\ Request' = [Request EXCEPT ![x] = "granted"]
  BY <1>2, RequestIs, OthersKeepRequest
<1>4. Owner[s] = Nobody /\ healthy[s]
  BY NoOwnerIfFree DEF Takes, Take, Free, BusyExact
<1>5. Owner' = [Owner EXCEPT ![s] = x]
  <2>1. Owner'[s] = x
    BY <1>1 DEF Exclusive, Owner
  <2>2. ASSUME NEW r \in Slot, r # s PROVE Owner'[r] = Owner[r]
    <3>1. \A y \in Session : (Holds(y) /\ slotRef[y] = r)' <=> (Holds(y) /\ slotRef[y] = r)
      BY <1>1, <2>2 DEF OthersKeep, Holds
    <3> QED BY <3>1, OwnerStays
  <2> QED BY <2>1, <2>2, OwnersAreFunctions
<1> QED BY <1>3, <1>4, <1>5 DEF Takes, Alloc!Next, Alloc!Grant

LEMMA ReturnsMaps ==
    ASSUME TypeOK, Places, Places', Exclusive, NEW x \in Session, OthersKeep(x), Returns(x)
    PROVE  Alloc!Next
<1>1. slotRef[x] \in Slot /\ Holds(x) /\ ~Holds(x)'
  BY HolderHasSlot DEF Returns
<1>2. RequestOf(x) = "granted" /\ RequestOf(x)' = "over"
  <2>1. enter[x] \in AttemptPC \cup {"entered"}
    BY <1>1, PlacesParts DEF PlaceOf, Holds
  <2> QED BY <1>1, <2>1 DEF Returns, RequestOf, Asking, EnterTo, TypeOK, AttemptPC
<1>3. Request[x] = "granted" /\ Request' = [Request EXCEPT ![x] = "over"]
  BY <1>2, RequestIs, OthersKeepRequest
<1>4. Owner[slotRef[x]] = x
  BY <1>1, OwnerIsHolder
<1>5. Owner' = [Owner EXCEPT ![slotRef[x]] = Nobody]
  <2>1. \A y \in Session : ~(Holds(y) /\ slotRef[y] = slotRef[x]) \/ y = x
    BY <1>1 DEF Exclusive
  <2>2. Owner'[slotRef[x]] = Nobody
    <3>1. \A y \in Session : ~(Holds(y)' /\ slotRef'[y] = slotRef[x])
      BY <1>1, <2>1 DEF OthersKeep, Holds
    <3> QED BY <1>1, <3>1 DEF Owner
  <2>3. ASSUME NEW r \in Slot, r # slotRef[x] PROVE Owner'[r] = Owner[r]
    <3>1. \A y \in Session : (Holds(y) /\ slotRef[y] = r)' <=> (Holds(y) /\ slotRef[y] = r)
      BY <1>1, <2>3 DEF OthersKeep, Holds
    <3> QED BY <3>1, OwnerStays
  <2> QED BY <1>1, <2>2, <2>3, OwnersAreFunctions
<1>6. \E b \in {healthy[slotRef[x]], FALSE} : healthy' = [healthy EXCEPT ![slotRef[x]] = b]
  <2>1. CASE UNCHANGED healthy
    BY <2>1 DEF TypeOK, SlotsTypeOK
  <2>2. CASE CountFailure(slotRef[x])
    <3>1. CASE failures[slotRef[x]] + 1 < MaxFailures
      BY <1>1, <2>2, <3>1 DEF CountFailure, TypeOK, SlotsTypeOK
    <3>2. CASE ~(failures[slotRef[x]] + 1 < MaxFailures)
      BY <2>2, <3>2 DEF CountFailure
    <3> QED BY <3>1, <3>2
  <2> QED BY <2>1, <2>2 DEF Returns
<1> QED BY <1>1, <1>3, <1>4, <1>5, <1>6 DEF Alloc!Next, Alloc!Return

(* The health task moves one slot in or out of service.                    *)
LEMMA HealthMaps ==
    ASSUME TypeOK, HealthStep, UNCHANGED threadVars
    PROVE  [Alloc!Next]_Alloc!vars
<1>1. UNCHANGED <<Request, Owner>>
  BY DEF threadVars, Request, Owner, Holds
<1>2. UNCHANGED healthy \/ \E s \in Slot : healthy' = [healthy EXCEPT ![s] = ~@]
  <2>1. UNCHANGED healthy \/ \E b \in BOOLEAN : /\ health.slot \in Slot
                                             /\ healthy' = [healthy EXCEPT ![health.slot] = b]
    BY DEF HealthStep, HealthWake, ProbePassed, ProbeFailed, RestartDone, TypeOK,
           InstallDone, RecoveryFails, RecoverySucceeds, SlotsTypeOK, HealthState
  <2>2. ASSUME NEW b \in BOOLEAN, health.slot \in Slot,
               healthy' = [healthy EXCEPT ![health.slot] = b]
        PROVE  UNCHANGED healthy \/ healthy' = [healthy EXCEPT ![health.slot] = ~@]
    <3>1. CASE b = healthy[health.slot]
      BY <2>2, <3>1 DEF TypeOK, SlotsTypeOK
    <3>2. CASE b # healthy[health.slot]
      <4>1. b = ~healthy[health.slot]
        BY <2>2, <3>2 DEF TypeOK, SlotsTypeOK
      <4> QED BY <2>2, <4>1
    <3> QED BY <3>1, <3>2
  <2> QED BY <2>1, <2>2
<1> QED BY <1>1, <1>2 DEF Alloc!Next, Alloc!Change, Alloc!vars

LEMMA RefinementInit == Init => Alloc!Init
<1> SUFFICES ASSUME Init PROVE Alloc!Init
  OBVIOUS
<1>1. Request = [x \in Session |-> "none"]
  <2>1. \A x \in Session : Request[x] = "none"
    BY DEF Init, Request, Holds
  <2> QED BY <2>1 DEF Request
<1>2. Owner = [s \in Slot |-> Nobody]
  <2>1. \A s \in Slot : Owner[s] = Nobody
    BY NoOwnerIfFree DEF Init, Holds
  <2> QED BY <2>1, OwnersAreFunctions
<1>3. healthy = [s \in Slot |-> TRUE]
  BY DEF Init, SlotsInit
<1> QED BY <1>1, <1>2, <1>3 DEF Alloc!Init

LEMMA RefinementStep ==
    ASSUME IInv, IInv', [Next]_vars, ~ReleasedTwice'
    PROVE  [Alloc!Next]_Alloc!vars
<1>1. ASSUME NEW x \in Session, StepOf(x)
      PROVE  [Alloc!Next]_Alloc!vars
  <2>1. OthersKeep(x) /\ Moves(x)
    BY <1>1, SessionFrame, SessionMoves DEF IInv
  <2>2. Exclusive /\ BusyExact /\ Exclusive'
    <3>1. ~ReleasedTwice
      BY <1>1, TwiceStays
    <3> QED BY <3>1 DEF IInv, SlotsExclusive, SlotExclusive, BusyIffHeld, Exclusive, BusyExact
  <2> QED BY <2>1, <2>2, AsksMaps, StaysMaps, IsRefusedMaps, TakesMaps, ReturnsMaps
          DEF Moves, IInv
<1>2. CASE HealthStep /\ UNCHANGED threadVars
  BY <1>2, HealthMaps DEF IInv
<1>3. CASE UNCHANGED vars
  BY <1>3 DEF vars, Request, Owner, Holds, Alloc!vars
<1> QED BY <1>1, <1>2, <1>3 DEF Next, StepOf

(* The threads use the slots as the abstract allocator allows, until a     *)
(* thread and _exit have both released one: a slot has one owner, is       *)
(* granted only in service, and a session is turned away only when no slot *)
(* is.                                                                     *)
THEOREM Refinement == Spec => ImplementsAllocator
<1> DEFINE Allowed == ReleasedTwice' \/ [Alloc!Next]_(Alloc!vars)
<1>1. ASSUME IInv, IInv', [Next]_vars PROVE [Allowed]_vars
  BY <1>1, RefinementStep
<1>2. Spec => [][Allowed]_vars
  BY <1>1, Invariance, PTL DEF Spec
<1>3. Spec => Alloc!Init
  BY RefinementInit, PTL DEF Spec
<1> QED BY <1>2, <1>3 DEF ImplementsAllocator

-----------------------------------------------------------------------------
(* What the timeouts cost.                                                 *)

(* Where no thread gives up on _exit, no thread releases a slot itself.    *)
LoopReleases ==
    /\ byThread = "never"
    /\ \A x \in Session : thread[x] # "release"

LEMMA LoopReleasesStep ==
    ASSUME ~ExitMayTimeOut, TypeOK, LoopReleases, [Next]_vars
    PROVE  LoopReleases'
<1> USE DEF LoopReleases, TypeOK, ThreadTo, slotVars
<1>1. ASSUME NEW x \in Session, Call(x) \/ LoopStep(x)
      PROVE  LoopReleases'
  BY <1>1 DEF Call, LoopStep, Scan, ClearAndWait, SetupOk, SetupFails, CleanupDone,
              RefreshDone, BackoffDone, ExitDone
<1>2. ASSUME NEW x \in Session, ThreadStep(x)
      PROVE  LoopReleases'
  BY <1>2 DEF ThreadStep, EnterReturns, EnterTimesOut, SwapReturns, SwapTimesOut, Connect,
              UserExit, ExitReturns, ExitTimesOut, ThreadReleases
<1>3. ASSUME NEW x \in Session, Watchdog(x)
      PROVE  LoopReleases'
  BY <1>3 DEF Watchdog, TimerFires, KillChrome
<1>4. CASE UNCHANGED threadVars \/ UNCHANGED vars
  BY <1>4 DEF threadVars, vars
<1> QED BY <1>1, <1>2, <1>3, <1>4 DEF Next

(* If _exit always ends within the time a thread waits for it, the threads *)
(* use the slots as the allocator allows without any exception: every      *)
(* release is made once, by the loop.                                      *)
THEOREM PunctualExitRefines ==
    ASSUME ~ExitMayTimeOut
    PROVE  Spec => Alloc!Safety /\ [](Exclusive /\ BusyExact)
<1>1. Init => LoopReleases
  BY DEF Init, LoopReleases
<1>2. IInv /\ LoopReleases /\ [Next]_vars => LoopReleases'
  BY LoopReleasesStep DEF IInv
<1>3. ASSUME IInv, IInv', LoopReleases', [Next]_vars
      PROVE  [Alloc!Next]_(Alloc!vars)
  BY <1>3, RefinementStep DEF LoopReleases, ReleasedTwice
<1>4. IInv /\ LoopReleases => Exclusive /\ BusyExact
  BY DEF LoopReleases, IInv, SlotsExclusive, SlotExclusive, BusyIffHeld, ReleasedTwice,
         Exclusive, BusyExact
<1>5. Spec => []LoopReleases
  BY <1>1, <1>2, Invariance, PTL DEF Spec
<1> QED BY <1>3, <1>4, <1>5, RefinementInit, Invariance, PTL DEF Spec, Alloc!Safety

(* Where no thread gives up on _enter or on the swap, none ends that way.  *)
NobodyGaveUp == \A x \in Session : thread[x] # "timedOut"

LEMMA NobodyGaveUpStep ==
    ASSUME ~EnterMayTimeOut, ~SwapMayTimeOut, TypeOK, NobodyGaveUp, [Next]_vars
    PROVE  NobodyGaveUp'
<1> USE DEF NobodyGaveUp, TypeOK, ThreadTo, slotVars
<1>1. ASSUME NEW x \in Session, Call(x) \/ LoopStep(x)
      PROVE  NobodyGaveUp'
  BY <1>1 DEF Call, LoopStep, Scan, ClearAndWait, SetupOk, SetupFails, CleanupDone,
              RefreshDone, BackoffDone, ExitDone
<1>2. ASSUME NEW x \in Session, ThreadStep(x)
      PROVE  NobodyGaveUp'
  BY <1>2 DEF ThreadStep, EnterReturns, EnterTimesOut, SwapReturns, SwapTimesOut, Connect,
              UserExit, ExitReturns, ExitTimesOut, ThreadReleases
<1>3. ASSUME NEW x \in Session, Watchdog(x)
      PROVE  NobodyGaveUp'
  BY <1>3 DEF Watchdog, TimerFires, KillChrome
<1>4. CASE UNCHANGED threadVars \/ UNCHANGED vars
  BY <1>4 DEF threadVars, vars
<1> QED BY <1>1, <1>2, <1>3, <1>4 DEF Next

(* If _enter and the swap always end in time, the pool is whole again once *)
(* every thread has left session() and no _exit is under way: no slot is   *)
(* busy, whichever setups, connects and cleanups failed.                   *)
PoolWhole ==
    (\A x \in Session : thread[x] \in ThreadEnd /\ exit[x] # "running") =>
        ReleasedTwice \/ \A s \in Slot : ~busy[s]

THEOREM NoSlotLost ==
    ASSUME ~EnterMayTimeOut, ~SwapMayTimeOut
    PROVE  Spec => []PoolWhole
<1>1. Init => NobodyGaveUp
  BY DEF Init, NobodyGaveUp
<1>2. IInv /\ NobodyGaveUp /\ [Next]_vars => NobodyGaveUp'
  BY NobodyGaveUpStep DEF IInv
<1>3. IInv /\ NobodyGaveUp /\ OnlyGivingUpLosesSlots => PoolWhole
  BY DEF NobodyGaveUp, OnlyGivingUpLosesSlots, PoolWhole, IInv, SlotsExclusive, BusyIffHeld
<1>4. Spec => []NobodyGaveUp
  BY <1>1, <1>2, Invariance, PTL DEF Spec
<1> QED BY <1>3, <1>4, LosersGaveUp, Invariance, PTL
=============================================================================
