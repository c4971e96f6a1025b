------------------------ MODULE DeviceSession_proofs ------------------------
(***************************************************************************)
(* Proofs about DeviceSession for every set of profiles, every bound on    *)
(* the sessions and both kinds of device.  HarmlessLoss is the assumption  *)
(* on what the adb connection may lose: if the answer about the backup of  *)
(* renderer.config is lost, the spoofed file becomes the backup.  The last *)
(* section is about the pages of a session, the module PageOverrides.      *)
(***************************************************************************)
EXTENDS DeviceSession, PageOverrides, TLAPS

(* Type correctness, by the kinds of variables: the solvers do best with   *)
(* files, flags, numbers and Chrome apart.                                 *)
LEMMA DriverTypes == ASSUME IInv, [Next]_vars PROVE DriverTypeOK'
<1> USE DeviceAssumption DEF IInv, TypeOK, gpuVars, envVars, appVars, sessVars,
    DriverTypeOK, SessionTypeOK, File
<1>1. CASE Begin
  BY <1>1 DEF Begin
<1>2. CASE Detect
  BY <1>2 DEF Detect
<1>3. CASE ApplySystem
  BY <1>3 DEF ApplySystem
<1>4. CASE SetupPreload
  BY <1>4 DEF SetupPreload, Answers
<1>5. CASE ApplyTarget
  BY <1>5 DEF ApplyTarget
<1>6. CASE ColdIfPreloaded
  BY <1>6 DEF ColdIfPreloaded, Answers
<1>7. CASE ChooseGpu
  BY <1>7 DEF ChooseGpu, Answers
<1>8. CASE BackupConfig
  BY <1>8 DEF BackupConfig, Answers
<1>9. CASE WriteConfig
  BY <1>9 DEF WriteConfig
<1>10. CASE FlagConfig
  BY <1>10 DEF FlagConfig
<1>11. CASE ConfigFails
  BY <1>11 DEF ConfigFails
<1>12. CASE ReadMarker
  BY <1>12 DEF ReadMarker, Answers, MarkerMatches
<1>13. CASE BackupLib
  BY <1>13 DEF BackupLib, Answers
<1>14. CASE Patch
  BY <1>14 DEF Patch
<1>15. CASE Mark
  BY <1>15 DEF Mark
<1>16. CASE Reload
  BY <1>16 DEF Reload
<1>17. CASE PrepStop
  BY <1>17 DEF PrepStop, StopChrome, Answers
<1>18. CASE PrepWrite
  BY <1>18 DEF PrepWrite, Answers
<1>19. CASE Launch
  BY <1>19 DEF Launch
<1>20. CASE AwaitSocket
  BY <1>20 DEF AwaitSocket, StopChrome, Answers
<1>21. CASE Connect
  BY <1>21 DEF Connect, RemoveGpuSpoof
<1>22. CASE Override
  BY <1>22 DEF Override
<1>23. CASE ExitStop
  BY <1>23 DEF ExitStop, StopChrome, Answers
<1>24. CASE ExitRestore
  BY <1>24 DEF ExitRestore, RemoveGpuSpoof
<1>25. CASE UserEnds
  BY <1>25 DEF UserEnds
<1>26. CASE Cut
  BY <1>26 DEF Cut
<1>27. CASE Restart
  BY <1>27 DEF Restart
<1>28. CASE Recreate
  BY <1>28 DEF Recreate
<1>29. CASE UNCHANGED vars
  BY <1>29 DEF vars
<1> QED
  BY <1>1, <1>2, <1>3, <1>4, <1>5, <1>6, <1>7, <1>8, <1>9, <1>10, <1>11, <1>12, <1>13,
         <1>14, <1>15, <1>16, <1>17, <1>18, <1>19, <1>20, <1>21, <1>22, <1>23, <1>24,
         <1>25, <1>26, <1>27, <1>28, <1>29 DEF Next, Step

(* Flags: a device keeps its kind, and its library with it.                *)
LEMMA FlagTypes == ASSUME IInv, [Next]_vars PROVE FlagTypeOK'
<1> USE DeviceAssumption DEF IInv, TypeOK, gpuVars, envVars, appVars, sessVars,
    FlagTypeOK, DriverTypeOK, PathOK, BackedUp
<1>1. CASE Begin
  BY <1>1 DEF Begin
<1>2. CASE Detect
  BY <1>2 DEF Detect
<1>3. CASE ApplySystem
  BY <1>3 DEF ApplySystem
<1>4. CASE SetupPreload
  BY <1>4 DEF SetupPreload, Answers
<1>5. CASE ApplyTarget
  BY <1>5 DEF ApplyTarget
<1>6. CASE ColdIfPreloaded
  BY <1>6 DEF ColdIfPreloaded, Answers
<1>7. CASE ChooseGpu
  BY <1>7 DEF ChooseGpu, Answers
<1>8. CASE BackupConfig
  BY <1>8 DEF BackupConfig, Answers
<1>9. CASE WriteConfig
  BY <1>9 DEF WriteConfig
<1>10. CASE FlagConfig
  BY <1>10 DEF FlagConfig
<1>11. CASE ConfigFails
  BY <1>11 DEF ConfigFails
<1>12. CASE ReadMarker
  BY <1>12 DEF ReadMarker, Answers, MarkerMatches
<1>13. CASE BackupLib
  BY <1>13 DEF BackupLib, Answers
<1>14. CASE Patch
  <2>1. pc = "patch" /\ hasConfig = (lib = None) /\ lib # None /\ prof # None
    BY <1>14 DEF Patch, SessionTypeOK
  <2>2. lib' # None /\ hasConfig' = hasConfig
    BY <1>14, <2>1 DEF Patch
  <2>3. hasConfig' = (lib' = None)
    BY <2>1, <2>2
  <2> QED
    BY <1>14, <2>3 DEF Patch
<1>15. CASE Mark
  BY <1>15 DEF Mark
<1>16. CASE Reload
  BY <1>16 DEF Reload
<1>17. CASE PrepStop
  BY <1>17 DEF PrepStop, StopChrome, Answers
<1>18. CASE PrepWrite
  BY <1>18 DEF PrepWrite, Answers
<1>19. CASE Launch
  BY <1>19 DEF Launch
<1>20. CASE AwaitSocket
  BY <1>20 DEF AwaitSocket, StopChrome, Answers
<1>21. CASE Connect
  BY <1>21 DEF Connect, RemoveGpuSpoof
<1>22. CASE Override
  BY <1>22 DEF Override
<1>23. CASE ExitStop
  BY <1>23 DEF ExitStop, StopChrome, Answers
<1>24. CASE ExitRestore
  BY <1>24 DEF ExitRestore, RemoveGpuSpoof
<1>25. CASE UserEnds
  BY <1>25 DEF UserEnds
<1>26. CASE Cut
  BY <1>26 DEF Cut
<1>27. CASE Restart
  BY <1>27 DEF Restart
<1>28. CASE Recreate
  BY <1>28 DEF Recreate
<1>29. CASE UNCHANGED vars
  BY <1>29 DEF vars
<1> QED
  BY <1>1, <1>2, <1>3, <1>4, <1>5, <1>6, <1>7, <1>8, <1>9, <1>10, <1>11, <1>12, <1>13,
         <1>14, <1>15, <1>16, <1>17, <1>18, <1>19, <1>20, <1>21, <1>22, <1>23, <1>24,
         <1>25, <1>26, <1>27, <1>28, <1>29 DEF Next, Step

(* Numbers: at most MaxSessions sessions and MaxLaunches launches.         *)
LEMMA SessionTypes == ASSUME IInv, [Next]_vars PROVE SessionTypeOK'
<1> USE DeviceAssumption DEF IInv, TypeOK, gpuVars, envVars, appVars, sessVars,
    SessionTypeOK, SetupPC, ConfigPC, LibraryPC
<1>1. CASE Begin
  BY <1>1 DEF Begin, MaxLaunches
<1>2. CASE Detect
  BY <1>2 DEF Detect
<1>3. CASE ApplySystem
  BY <1>3 DEF ApplySystem
<1>4. CASE SetupPreload
  BY <1>4 DEF SetupPreload, Answers
<1>5. CASE ApplyTarget
  BY <1>5 DEF ApplyTarget
<1>6. CASE ColdIfPreloaded
  BY <1>6 DEF ColdIfPreloaded, Answers
<1>7. CASE ChooseGpu
  BY <1>7 DEF ChooseGpu, Answers
<1>8. CASE BackupConfig
  BY <1>8 DEF BackupConfig, Answers
<1>9. CASE WriteConfig
  BY <1>9 DEF WriteConfig
<1>10. CASE FlagConfig
  BY <1>10 DEF FlagConfig
<1>11. CASE ConfigFails
  BY <1>11 DEF ConfigFails
<1>12. CASE ReadMarker
  BY <1>12 DEF ReadMarker, Answers, MarkerMatches
<1>13. CASE BackupLib
  BY <1>13 DEF BackupLib, Answers
<1>14. CASE Patch
  BY <1>14 DEF Patch
<1>15. CASE Mark
  BY <1>15 DEF Mark
<1>16. CASE Reload
  BY <1>16 DEF Reload
<1>17. CASE PrepStop
  BY <1>17 DEF PrepStop, StopChrome, Answers
<1>18. CASE PrepWrite
  BY <1>18 DEF PrepWrite, Answers
<1>19. CASE Launch
  BY <1>19 DEF Launch
<1>20. CASE AwaitSocket
  <2>1. tries' \in 0..MaxLaunches - 1
    BY <1>20 DEF AwaitSocket, MaxLaunches
  <2>2. pc' \in {"connect", "launch"}
    BY <1>20 DEF AwaitSocket
  <2> QED
    BY <1>20, <2>1, <2>2 DEF AwaitSocket
<1>21. CASE Connect
  BY <1>21 DEF Connect, RemoveGpuSpoof
<1>22. CASE Override
  BY <1>22 DEF Override
<1>23. CASE ExitStop
  BY <1>23 DEF ExitStop, StopChrome, Answers
<1>24. CASE ExitRestore
  BY <1>24 DEF ExitRestore, RemoveGpuSpoof
<1>25. CASE UserEnds
  BY <1>25 DEF UserEnds
<1>26. CASE Cut
  BY <1>26 DEF Cut
<1>27. CASE Restart
  BY <1>27 DEF Restart
<1>28. CASE Recreate
  BY <1>28 DEF Recreate
<1>29. CASE UNCHANGED vars
  BY <1>29 DEF vars
<1> QED
  BY <1>1, <1>2, <1>3, <1>4, <1>5, <1>6, <1>7, <1>8, <1>9, <1>10, <1>11, <1>12, <1>13,
         <1>14, <1>15, <1>16, <1>17, <1>18, <1>19, <1>20, <1>21, <1>22, <1>23, <1>24,
         <1>25, <1>26, <1>27, <1>28, <1>29 DEF Next, Step

(* Chrome runs with what some session wrote.                               *)
LEMMA ChromeTypes == ASSUME IInv, [Next]_vars PROVE ChromeTypeOK'
<1> USE DeviceAssumption DEF IInv, TypeOK, gpuVars, envVars, appVars, sessVars,
    ChromeTypeOK
<1>1. CASE Begin
  BY <1>1 DEF Begin
<1>2. CASE Detect
  BY <1>2 DEF Detect
<1>3. CASE ApplySystem
  BY <1>3 DEF ApplySystem
<1>4. CASE SetupPreload
  BY <1>4 DEF SetupPreload, Answers
<1>5. CASE ApplyTarget
  BY <1>5 DEF ApplyTarget
<1>6. CASE ColdIfPreloaded
  BY <1>6 DEF ColdIfPreloaded, Answers
<1>7. CASE ChooseGpu
  BY <1>7 DEF ChooseGpu, Answers
<1>8. CASE BackupConfig
  BY <1>8 DEF BackupConfig, Answers
<1>9. CASE WriteConfig
  BY <1>9 DEF WriteConfig
<1>10. CASE FlagConfig
  BY <1>10 DEF FlagConfig
<1>11. CASE ConfigFails
  BY <1>11 DEF ConfigFails
<1>12. CASE ReadMarker
  BY <1>12 DEF ReadMarker, Answers, MarkerMatches
<1>13. CASE BackupLib
  BY <1>13 DEF BackupLib, Answers
<1>14. CASE Patch
  BY <1>14 DEF Patch
<1>15. CASE Mark
  BY <1>15 DEF Mark
<1>16. CASE Reload
  BY <1>16 DEF Reload
<1>17. CASE PrepStop
  BY <1>17 DEF PrepStop, StopChrome, Answers
<1>18. CASE PrepWrite
  <2>1. chrome.owner = 0
    BY <1>18 DEF PrepWrite, ChromeAsFound, Off
  <2>2. data' \subseteq Sessions
    BY <1>18, <2>1 DEF PrepWrite
  <2> QED
    BY <1>18, <2>2 DEF PrepWrite
<1>19. CASE Launch
  <2>1. sess \in Sessions
    BY <1>19 DEF Launch, Numbered, SessionTypeOK, Sessions
  <2>2. sys = sess /\ flags = sess /\ chrome = Off
    BY <1>19 DEF Launch, ChromeAsFound, SetupPC, ChromePC
  <2>3. Renderer \in Profile \cup {Orig}
    <3>1. ~hasConfig => lib # None
      BY DEF FlagTypeOK
    <3>2. CASE hasConfig
      BY <3>2 DEF Renderer, DriverTypeOK
    <3>3. CASE ~hasConfig
      <4>1. loaded \in Profile \cup {Orig}
        BY <3>1, <3>3 DEF DriverTypeOK, File, PathOK
      <4> QED
        BY <3>3, <4>1 DEF Renderer
    <3> QED
      BY <3>2, <3>3
  <2>4. Memory \in Profile \cup {Orig}
    BY DEF Memory, DriverTypeOK
  <2>5. chrome' = [owner |-> sess, gpu |-> Renderer, mem |-> Memory, sys |-> sess, flags |-> sess]
    BY <1>19, <2>2 DEF Launch
  <2>6. chrome' \in Browser
    BY <2>1, <2>3, <2>4, <2>5 DEF Browser
  <2>7. data' \subseteq Sessions
    BY <1>19, <2>1, <2>5 DEF Launch
  <2> QED
    BY <2>6, <2>7
<1>20. CASE AwaitSocket
  BY <1>20 DEF AwaitSocket, StopChrome, Answers
<1>21. CASE Connect
  BY <1>21 DEF Connect, RemoveGpuSpoof
<1>22. CASE Override
  BY <1>22 DEF Override
<1>23. CASE ExitStop
  BY <1>23 DEF ExitStop, StopChrome, Answers
<1>24. CASE ExitRestore
  BY <1>24 DEF ExitRestore, RemoveGpuSpoof
<1>25. CASE UserEnds
  BY <1>25 DEF UserEnds
<1>26. CASE Cut
  BY <1>26 DEF Cut
<1>27. CASE Restart
  BY <1>27 DEF Restart
<1>28. CASE Recreate
  BY <1>28 DEF Recreate
<1>29. CASE UNCHANGED vars
  BY <1>29 DEF vars
<1> QED
  BY <1>1, <1>2, <1>3, <1>4, <1>5, <1>6, <1>7, <1>8, <1>9, <1>10, <1>11, <1>12, <1>13,
         <1>14, <1>15, <1>16, <1>17, <1>18, <1>19, <1>20, <1>21, <1>22, <1>23, <1>24,
         <1>25, <1>26, <1>27, <1>28, <1>29 DEF Next, Step

(* A lost answer only turns a yes into a no.                               *)
LEMMA AnswerFacts ==
  ASSUME NEW x, NEW t \in BOOLEAN, NEW a \in Answers(x, t)
  PROVE  a \in BOOLEAN /\ (a => t) /\ (x \notin Lost => a = t)
BY DEF Answers

(* The other conjuncts of the invariant, one action at a time.             *)
LEMMA RestStep == ASSUME HarmlessLoss, IInv, [Next]_vars
  PROVE  (BackupPristine /\ BackedUp /\ PathOK /\ MarkerTruthful /\ NothingHidden
          /\ GpuReady /\ MemoryReady /\ ChromeAsFound /\ DataOwn /\ Numbered)'
<1> USE DeviceAssumption DEF IInv, TypeOK, DriverTypeOK, FlagTypeOK, SessionTypeOK, ChromeTypeOK,
    File, HarmlessLoss, Exchange, gpuVars, envVars, appVars, sessVars,
    SetupPC, ConfigPC, LibraryPC, DriverPC, ChromePC, Off, Renderer, Memory,
    BackupPristine, BackedUp, PathOK, MarkerTruthful, NothingHidden, GpuReady, MemoryReady,
    ChromeAsFound, DataOwn, Numbered
<1>1. CASE Begin
  BY <1>1 DEF Begin
<1>2. CASE Detect
  BY <1>2 DEF Detect
<1>3. CASE ApplySystem
  BY <1>3 DEF ApplySystem
<1>4. CASE SetupPreload
  BY <1>4 DEF SetupPreload, Answers
<1>5. CASE ApplyTarget
  BY <1>5 DEF ApplyTarget
<1>6. CASE ColdIfPreloaded
  BY <1>6 DEF ColdIfPreloaded, Answers
<1>7. CASE ChooseGpu
  <2>1. BackupPristine'
    BY <1>7 DEF ChooseGpu, Answers
  <2>2. BackedUp'
    BY <1>7 DEF ChooseGpu, Answers
  <2>3. PathOK'
    BY <1>7 DEF ChooseGpu, Answers
  <2>4. MarkerTruthful'
    BY <1>7 DEF ChooseGpu, Answers
  <2>5. NothingHidden'
    BY <1>7 DEF ChooseGpu, Answers
  <2>6. GpuReady'
    <3>1. CASE pc' # "adb"
      BY <1>7, <3>1 DEF ChooseGpu
    <3>2. CASE pc' = "adb"
      <4>1. PICK patched \in Answers("library", lib = prof) : patched
        BY <1>7, <3>2 DEF ChooseGpu
      <4>2. lib = prof
        BY <4>1, AnswerFacts
      <4>3. ~leftover => Renderer = prof
        BY <1>7, <4>2 DEF ChooseGpu
      <4> QED
        BY <1>7, <4>3 DEF ChooseGpu
    <3> QED
      BY <3>1, <3>2
  <2>7. MemoryReady'
    BY <1>7 DEF ChooseGpu, Answers
  <2>8. ChromeAsFound'
    BY <1>7 DEF ChooseGpu, Answers
  <2>9. DataOwn'
    BY <1>7 DEF ChooseGpu, Answers
  <2>10. Numbered'
    BY <1>7 DEF ChooseGpu, Answers
  <2> QED
    BY <2>1, <2>2, <2>3, <2>4, <2>5, <2>6, <2>7, <2>8, <2>9, <2>10
<1>8. CASE BackupConfig
  BY <1>8 DEF BackupConfig, Answers
<1>9. CASE WriteConfig
  BY <1>9 DEF WriteConfig
<1>10. CASE FlagConfig
  BY <1>10 DEF FlagConfig
<1>11. CASE ConfigFails
  BY <1>11 DEF ConfigFails
<1>12. CASE ReadMarker
  <2>1. BackupPristine'
    BY <1>12 DEF ReadMarker, Answers, MarkerMatches
  <2>2. BackedUp'
    BY <1>12 DEF ReadMarker, Answers, MarkerMatches
  <2>3. PathOK'
    BY <1>12 DEF ReadMarker, Answers, MarkerMatches
  <2>4. MarkerTruthful'
    BY <1>12 DEF ReadMarker, Answers, MarkerMatches
  <2>5. NothingHidden'
    BY <1>12 DEF ReadMarker, Answers, MarkerMatches
  <2>6. GpuReady'
    <3>1. CASE pc' # "adb" \/ skipped'
      BY <1>12, <3>1 DEF ReadMarker
    <3>2. CASE pc' = "adb" /\ ~skipped'
      <4>1. PICK matches \in Answers("marker", MarkerMatches(marker)) : matches
        BY <1>12, <3>2 DEF ReadMarker
      <4>2. MarkerMatches(marker) \in BOOLEAN
        BY DEF MarkerMatches
      <4>3. marker = prof
        BY <4>1, <4>2, AnswerFacts DEF MarkerMatches
      <4>4. ~leftover => Renderer = prof
        BY <1>12, <4>3 DEF ReadMarker
      <4> QED
        BY <1>12, <4>4 DEF ReadMarker
    <3> QED
      BY <3>1, <3>2
  <2>7. MemoryReady'
    BY <1>12 DEF ReadMarker, Answers, MarkerMatches
  <2>8. ChromeAsFound'
    BY <1>12 DEF ReadMarker, Answers, MarkerMatches
  <2>9. DataOwn'
    BY <1>12 DEF ReadMarker, Answers, MarkerMatches
  <2>10. Numbered'
    BY <1>12 DEF ReadMarker, Answers, MarkerMatches
  <2> QED
    BY <2>1, <2>2, <2>3, <2>4, <2>5, <2>6, <2>7, <2>8, <2>9, <2>10
<1>13. CASE BackupLib
  BY <1>13 DEF BackupLib, Answers
<1>14. CASE Patch
  BY <1>14 DEF Patch
<1>15. CASE Mark
  BY <1>15 DEF Mark
<1>16. CASE Reload
  BY <1>16 DEF Reload
<1>17. CASE PrepStop
  BY <1>17 DEF PrepStop, StopChrome, Answers
<1>18. CASE PrepWrite
  <2>1. BackupPristine'
    BY <1>18 DEF PrepWrite, Answers
  <2>2. BackedUp'
    BY <1>18 DEF PrepWrite, Answers
  <2>3. PathOK'
    BY <1>18 DEF PrepWrite, Answers
  <2>4. MarkerTruthful'
    BY <1>18 DEF PrepWrite, Answers
  <2>5. NothingHidden'
    BY <1>18 DEF PrepWrite, Answers
  <2>6. GpuReady'
    BY <1>18 DEF PrepWrite, Answers
  <2>7. MemoryReady'
    BY <1>18 DEF PrepWrite, Answers
  <2>8. ChromeAsFound'
    BY <1>18 DEF PrepWrite, Answers
  <2>9. DataOwn'
    <3>1. chrome.owner = 0 /\ "clear" \notin Lost
      BY <1>18 DEF PrepWrite
    <3>2. data' = {}
      BY <1>18, <3>1 DEF PrepWrite, Answers
    <3> QED
      BY <1>18, <3>2 DEF PrepWrite
  <2>10. Numbered'
    BY <1>18 DEF PrepWrite, Answers
  <2> QED
    BY <2>1, <2>2, <2>3, <2>4, <2>5, <2>6, <2>7, <2>8, <2>9, <2>10
<1>19. CASE Launch
  BY <1>19 DEF Launch
<1>20. CASE AwaitSocket
  <2>1. BackupPristine'
    BY <1>20 DEF AwaitSocket, StopChrome, Answers
  <2>2. BackedUp'
    BY <1>20 DEF AwaitSocket, StopChrome, Answers
  <2>3. PathOK'
    BY <1>20 DEF AwaitSocket, StopChrome, Answers
  <2>4. MarkerTruthful'
    BY <1>20 DEF AwaitSocket, StopChrome, Answers
  <2>5. NothingHidden'
    BY <1>20 DEF AwaitSocket, StopChrome, Answers
  <2>6. GpuReady'
    BY <1>20 DEF AwaitSocket, StopChrome, Answers
  <2>7. MemoryReady'
    BY <1>20 DEF AwaitSocket, StopChrome, Answers
  <2>8. ChromeAsFound'
    BY <1>20 DEF AwaitSocket, StopChrome, Answers
  <2>9. DataOwn'
    BY <1>20 DEF AwaitSocket, StopChrome, Answers
  <2>10. Numbered'
    BY <1>20 DEF AwaitSocket, StopChrome, Answers
  <2> QED
    BY <2>1, <2>2, <2>3, <2>4, <2>5, <2>6, <2>7, <2>8, <2>9, <2>10
<1>21. CASE Connect
  BY <1>21 DEF Connect, RemoveGpuSpoof
<1>22. CASE Override
  BY <1>22 DEF Override
<1>23. CASE ExitStop
  BY <1>23 DEF ExitStop, StopChrome, Answers
<1>24. CASE ExitRestore
  BY <1>24 DEF ExitRestore, RemoveGpuSpoof
<1>25. CASE UserEnds
  BY <1>25 DEF UserEnds
<1>26. CASE Cut
  BY <1>26 DEF Cut
<1>27. CASE Restart
  BY <1>27 DEF Restart
<1>28. CASE Recreate
  BY <1>28 DEF Recreate
<1>29. CASE UNCHANGED vars
  BY <1>29 DEF vars
<1> QED
  BY <1>1, <1>2, <1>3, <1>4, <1>5, <1>6, <1>7, <1>8, <1>9, <1>10, <1>11, <1>12, <1>13,
         <1>14, <1>15, <1>16, <1>17, <1>18, <1>19, <1>20, <1>21, <1>22, <1>23, <1>24,
         <1>25, <1>26, <1>27, <1>28, <1>29 DEF Next, Step

-----------------------------------------------------------------------------
(* The inductive invariant.                                                *)
LEMMA InitInv == Init => IInv
<1> SUFFICES ASSUME Init PROVE IInv
  OBVIOUS
<1> USE DeviceAssumption DEF Init
<1>1. DriverTypeOK
  BY DEF DriverTypeOK, File
<1>2. FlagTypeOK
  BY DEF FlagTypeOK
<1>3. SessionTypeOK
  BY DEF SessionTypeOK, MaxLaunches
<1>4. ChromeTypeOK
  BY DEF ChromeTypeOK
<1>5. BackupPristine /\ BackedUp /\ PathOK /\ MarkerTruthful /\ NothingHidden
  BY DEF BackupPristine, BackedUp, PathOK, MarkerTruthful, NothingHidden, ConfigPC
<1>6. GpuReady /\ MemoryReady /\ ChromeAsFound /\ DataOwn /\ Numbered
  BY DEF GpuReady, MemoryReady, ChromeAsFound, DataOwn, Numbered,
         SetupPC, ConfigPC, LibraryPC, DriverPC, ChromePC
<1> QED
  BY <1>1, <1>2, <1>3, <1>4, <1>5, <1>6 DEF IInv, TypeOK

(* Every step keeps the invariant.                                         *)
LEMMA StepInv == ASSUME HarmlessLoss, IInv, [Next]_vars PROVE IInv'
<1>1. TypeOK'
  BY DriverTypes, FlagTypes, SessionTypes, ChromeTypes DEF TypeOK
<1> QED
  BY <1>1, RestStep DEF IInv

(* The invariant holds throughout.                                         *)
LEMMA Invariance == ASSUME HarmlessLoss PROVE Spec => []IInv
<1>1. Init => IInv
  BY InitInv
<1>2. IInv /\ [Next]_vars => IInv'
  BY StepInv
<1> QED
  BY <1>1, <1>2, PTL DEF Spec

-----------------------------------------------------------------------------
(* Type correctness: in particular no session launches Chrome more than    *)
(* three times (async_core.py's retry loop).                               *)
THEOREM TypeCorrect == ASSUME HarmlessLoss PROVE Spec => []TypeOK
<1>1. IInv => TypeOK
  BY DEF IInv
<1> QED
  BY <1>1, Invariance, PTL

(* No sequence of sessions, cuts and restarts makes a patched driver file  *)
(* the backup (_binary_patch_so and apply_gpu_spoof back up only once).    *)
THEOREM BackupsPristine == ASSUME HarmlessLoss PROVE Spec => []BackupPristine
<1>1. IInv => BackupPristine
  BY DEF IInv
<1> QED
  BY <1>1, Invariance, PTL

(* The marker _gpu_binary_marker_matches believes names the library on     *)
(* disk and the loaded one, outside the patch and after no cut inside it.  *)
THEOREM MarkersTruthful == ASSUME HarmlessLoss PROVE Spec => []MarkerTruthful
<1>1. IInv => MarkerTruthful
  BY DEF IInv
<1> QED
  BY <1>1, Invariance, PTL

(* The caller's Chrome shows the GPU of its profile, whatever profiles     *)
(* were used on the device before, if no earlier cut left a driver         *)
(* changed.                                                                *)
THEOREM GpuProfiled == ASSUME HarmlessLoss PROVE Spec => []GpuUnlessLeftover
<1>1. IInv => GpuUnlessLeftover
  BY DEF IInv, GpuUnlessLeftover, GpuAsProfiled, GpuReady, ChromeAsFound, DriverPC, ChromePC
<1> QED
  BY <1>1, Invariance, PTL

(* The caller's Chrome reports its profile's memory or the device's own.   *)
THEOREM MemoryProfiled == ASSUME HarmlessLoss PROVE Spec => []MemoryProfiledOrNative
<1>1. IInv => MemoryProfiledOrNative
  BY DEF IInv, MemoryProfiledOrNative, MemoryReady, ChromeAsFound, DriverPC, ChromePC
<1> QED
  BY <1>1, Invariance, PTL

(* The caller's Chrome was launched by its own session and has read that   *)
(* session's settings and command line.                                    *)
THEOREM ChromeFresh == ASSUME HarmlessLoss PROVE Spec => []ChromeIsFresh
<1>1. IInv => ChromeIsFresh
  BY DEF IInv, ChromeIsFresh, ChromeAsFound, ChromePC
<1> QED
  BY <1>1, Invariance, PTL

(* No earlier session's browsing data is there, on a warm start or a cold  *)
(* one.                                                                    *)
THEOREM NoDataShared == ASSUME HarmlessLoss PROVE Spec => []NoDataCarriedOver
<1>1. IInv => NoDataCarriedOver
  BY DEF IInv, NoDataCarriedOver, DataOwn, ChromePC
<1> QED
  BY <1>1, Invariance, PTL

(* Between sessions renderer.config is the original again, unless a cut or *)
(* a failing cleanup left it changed.                                      *)
THEOREM ConfigPutBack == ASSUME HarmlessLoss PROVE Spec => []ConfigRestored
<1>1. IInv => ConfigRestored
  BY DEF IInv, ConfigRestored, NothingHidden, DriverPC
<1> QED
  BY <1>1, Invariance, PTL

-----------------------------------------------------------------------------
(* The view the pool has of the device, one action at a time.              *)
LEMMA ViewStep == ASSUME IInv, IInv', [Next]_vars PROVE [View!Next]_(View!vars)
<1> USE DEF View!vars, View!Next, Use, SetupPC, ConfigPC, LibraryPC
<1>1. CASE Begin
  BY <1>1 DEF Begin, View!Begin, gpuVars, envVars, appVars, sessVars
<1>2. CASE Detect
  BY <1>2 DEF Detect, gpuVars, envVars, appVars, sessVars
<1>3. CASE ApplySystem
  BY <1>3 DEF ApplySystem, gpuVars, envVars, appVars, sessVars
<1>4. CASE SetupPreload
  BY <1>4 DEF SetupPreload, Answers, gpuVars, envVars, appVars, sessVars
<1>5. CASE ApplyTarget
  BY <1>5 DEF ApplyTarget, gpuVars, envVars, appVars, sessVars
<1>6. CASE ColdIfPreloaded
  BY <1>6 DEF ColdIfPreloaded, Answers, gpuVars, envVars, appVars, sessVars
<1>7. CASE ChooseGpu
  BY <1>7 DEF ChooseGpu, Answers, gpuVars, envVars, appVars, sessVars
<1>8. CASE BackupConfig
  BY <1>8 DEF BackupConfig, Answers, gpuVars, envVars, appVars, sessVars
<1>9. CASE WriteConfig
  BY <1>9 DEF WriteConfig, gpuVars, envVars, appVars, sessVars
<1>10. CASE FlagConfig
  BY <1>10 DEF FlagConfig, gpuVars, envVars, appVars, sessVars
<1>11. CASE ConfigFails
  BY <1>11 DEF ConfigFails, gpuVars, envVars, appVars, sessVars
<1>12. CASE ReadMarker
  BY <1>12 DEF ReadMarker, Answers, MarkerMatches, gpuVars, envVars, appVars, sessVars
<1>13. CASE BackupLib
  BY <1>13 DEF BackupLib, Answers, gpuVars, envVars, appVars, sessVars
<1>14. CASE Patch
  BY <1>14 DEF Patch, gpuVars, envVars, appVars, sessVars
<1>15. CASE Mark
  BY <1>15 DEF Mark, gpuVars, envVars, appVars, sessVars
<1>16. CASE Reload
  BY <1>16 DEF Reload, View!Prepare, gpuVars, envVars, appVars, sessVars, Off
<1>17. CASE PrepStop
  BY <1>17 DEF PrepStop, StopChrome, Answers, View!Prepare, gpuVars, envVars, appVars,
         sessVars, Off
<1>18. CASE PrepWrite
  BY <1>18 DEF PrepWrite, Answers, gpuVars, envVars, appVars, sessVars
<1>19. CASE Launch
  BY <1>19 DEF Launch, View!Prepare, gpuVars, envVars, appVars, sessVars, IInv,
         ChromeAsFound, ChromePC, Off
<1>20. CASE AwaitSocket
  <2>1. chrome' \in {Off, chrome}
    BY <1>20 DEF AwaitSocket, StopChrome, Answers
  <2>2. pc = "socket" /\ pc' \in {"connect", "launch"} /\ sess' = sess
    BY <1>20 DEF AwaitSocket
  <2>3. chrome.owner \in {0, sess}
    BY <2>2 DEF IInv, ChromeAsFound, ChromePC, Off
  <2>4. chrome'.owner \in {0, sess}
    BY <2>1, <2>3 DEF Off
  <2> QED
    BY <2>2, <2>4 DEF View!Prepare
<1>21. CASE Connect
  BY <1>21 DEF Connect, RemoveGpuSpoof, View!End, gpuVars, envVars, appVars, sessVars
<1>22. CASE Override
  BY <1>22 DEF Override, View!Ready, gpuVars, envVars, appVars, sessVars, IInv,
         ChromeAsFound, ChromePC
<1>23. CASE ExitStop
  <2>1. chrome' \in {Off, chrome} /\ pc = "exit" /\ pc' = "restore" /\ sess' = sess
    BY <1>23 DEF ExitStop, StopChrome, Answers, sessVars
  <2>2. chrome'.owner \in {0, chrome.owner}
    BY <2>1 DEF Off
  <2> QED
    BY <2>1, <2>2 DEF View!Close
<1>24. CASE ExitRestore
  BY <1>24 DEF ExitRestore, RemoveGpuSpoof, View!Close, gpuVars, envVars, appVars, sessVars
<1>25. CASE UserEnds
  BY <1>25 DEF UserEnds, View!End, gpuVars, envVars, appVars, sessVars
<1>26. CASE Cut
  BY <1>26 DEF Cut, View!End, View!Close, gpuVars, envVars, appVars, sessVars
<1>27. CASE Restart
  BY <1>27 DEF Restart, View!Restart, gpuVars, envVars, appVars, sessVars, Off
<1>28. CASE Recreate
  BY <1>28 DEF Recreate, View!Restart, gpuVars, envVars, appVars, sessVars, Off
<1>29. CASE UNCHANGED vars
  BY <1>29 DEF vars
<1> QED
  BY <1>1, <1>2, <1>3, <1>4, <1>5, <1>6, <1>7, <1>8, <1>9, <1>10, <1>11, <1>12, <1>13,
         <1>14, <1>15, <1>16, <1>17, <1>18, <1>19, <1>20, <1>21, <1>22, <1>23, <1>24,
         <1>25, <1>26, <1>27, <1>28, <1>29 DEF Next, Step

(* The setup and the cleanup implement the view DamruPool has of them, so  *)
(* what the pool assumes of __aenter__ and __aexit__ is what they do.      *)
THEOREM Implements == ASSUME HarmlessLoss PROVE Spec => ImplementsDeviceUse
<1>1. Init => View!Init
  BY DEF Init, View!Init, Use, Off, SetupPC, ConfigPC, LibraryPC
<1>2. IInv /\ IInv' /\ [Next]_vars => [View!Next]_(View!vars)
  BY ViewStep
<1> QED
  BY <1>1, <1>2, Invariance, PTL DEF Spec, ImplementsDeviceUse, View!Safety

-----------------------------------------------------------------------------
(***************************************************************************)
(* The pages of the same session: proofs about PageOverrides, for every    *)
(* set of pages, every set of overrides of the three kinds, whichever of   *)
(* them may fail, and every bound on the navigations.                      *)
(***************************************************************************)

(* The workers: each message of a handler goes with how far it is.         *)
WorkerRec == [st : {"none", "started", "paused", "plain", "pausing"},
              cores : BOOLEAN, ua : BOOLEAN,
              plain : {"none", "cores", "run", "done"},
              pausing : {"none", "cores", "ua", "run", "done"}]

WorkerOK(w) ==
    /\ w.pausing \in {"ua", "run"} => w.cores
    /\ w.pausing = "run" => w.ua
    /\ w.plain = "run" => w.cores
    /\ w.st \in {"plain", "pausing"} => w.cores
    /\ w.st = "pausing" => w.ua

LEMMA FreshWorker == NoWorker \in WorkerRec /\ WorkerOK(NoWorker)
BY DEF NoWorker, WorkerRec, WorkerOK

LEMMA StartWorkerOK ==
  ASSUME NEW p \in Page, worker \in [Page -> WorkerRec], StartWorker(p)
  PROVE  \E v \in WorkerRec : WorkerOK(v) /\ worker' = [worker EXCEPT ![p] = v]
<1>1. PICK type \in {"worker", "service", "frame"} :
         worker' = [worker EXCEPT ![p] =
             [st |-> IF "workers" \in on[p] THEN "paused" ELSE "started",
              cores |-> FALSE, ua |-> FALSE,
              plain |-> IF p \in listening /\ "plain" \in TakenBy(type)
                           THEN "cores" ELSE "none",
              pausing |-> IF "workers" \in on[p] /\ "pausing" \in TakenBy(type)
                             THEN "cores" ELSE "none"]]
  BY Zenon DEF StartWorker
<1> DEFINE v == [st |-> IF "workers" \in on[p] THEN "paused" ELSE "started",
                 cores |-> FALSE, ua |-> FALSE,
                 plain |-> IF p \in listening /\ "plain" \in TakenBy(type)
                              THEN "cores" ELSE "none",
                 pausing |-> IF "workers" \in on[p] /\ "pausing" \in TakenBy(type)
                                THEN "cores" ELSE "none"]
<1>2. v \in WorkerRec
  BY DEF WorkerRec
<1>3. WorkerOK(v)
  BY DEF WorkerOK
<1> QED BY <1>1, <1>2, <1>3, Zenon

LEMMA PlainMessageOK ==
  ASSUME NEW p \in Page, worker \in [Page -> WorkerRec], WorkerOK(worker[p]),
         PlainMessage(p)
  PROVE  \E v \in WorkerRec : WorkerOK(v) /\ worker' = [worker EXCEPT ![p] = v]
<1> DEFINE w == worker[p]
<1>1. w \in WorkerRec /\ WorkerOK(w)
  OBVIOUS
<1>2. PICK v :
         /\ worker' = [worker EXCEPT ![p] = v]
         /\ \/ v = [w EXCEPT !.cores = TRUE, !.plain = "run"]
            \/ w.plain = "run" /\ v = [w EXCEPT !.st = LetRun(w, "plain"), !.plain = "done"]
            \/ v = [w EXCEPT !.plain = "none"]
  BY Zenon DEF PlainMessage
<1> HIDE DEF w
<1>3. v \in WorkerRec
  BY <1>1, <1>2 DEF WorkerRec, LetRun
<1>4. WorkerOK(v)
  <2>1. CASE v = [w EXCEPT !.cores = TRUE, !.plain = "run"]
    BY <1>1, <2>1 DEF WorkerOK, WorkerRec
  <2>2. CASE w.plain = "run" /\ v = [w EXCEPT !.st = LetRun(w, "plain"), !.plain = "done"]
    BY <1>1, <2>2 DEF WorkerOK, WorkerRec, LetRun
  <2>3. CASE v = [w EXCEPT !.plain = "none"]
    BY <1>1, <2>3 DEF WorkerOK, WorkerRec
  <2> QED BY <1>2, <2>1, <2>2, <2>3
<1> QED BY <1>2, <1>3, <1>4, Zenon

LEMMA PausingMessageOK ==
  ASSUME NEW p \in Page, worker \in [Page -> WorkerRec], WorkerOK(worker[p]),
         PausingMessage(p)
  PROVE  \E v \in WorkerRec : WorkerOK(v) /\ worker' = [worker EXCEPT ![p] = v]
<1> DEFINE w == worker[p]
<1>1. w \in WorkerRec /\ WorkerOK(w)
  OBVIOUS
<1>2. PICK v :
         /\ worker' = [worker EXCEPT ![p] = v]
         /\ \/ v = [w EXCEPT !.cores = TRUE, !.pausing = "ua"]
            \/ w.pausing = "ua" /\ v = [w EXCEPT !.ua = TRUE, !.pausing = "run"]
            \/ w.pausing = "run" /\ v = [w EXCEPT !.st = LetRun(w, "pausing"), !.pausing = "done"]
            \/ v = [w EXCEPT !.pausing = "none"]
  BY Zenon DEF PausingMessage
<1> HIDE DEF w
<1>3. v \in WorkerRec
  BY <1>1, <1>2 DEF WorkerRec, LetRun
<1>4. WorkerOK(v)
  <2>1. CASE v = [w EXCEPT !.cores = TRUE, !.pausing = "ua"]
    BY <1>1, <2>1 DEF WorkerOK, WorkerRec
  <2>2. CASE w.pausing = "ua" /\ v = [w EXCEPT !.ua = TRUE, !.pausing = "run"]
    BY <1>1, <2>2 DEF WorkerOK, WorkerRec
  <2>3. CASE w.pausing = "run" /\ v = [w EXCEPT !.st = LetRun(w, "pausing"), !.pausing = "done"]
    BY <1>1, <2>3 DEF WorkerOK, WorkerRec, LetRun
  <2>4. CASE v = [w EXCEPT !.pausing = "none"]
    BY <1>1, <2>4 DEF WorkerOK, WorkerRec
  <2> QED BY <1>2, <2>1, <2>2, <2>3, <2>4
<1> QED BY <1>2, <1>3, <1>4, Zenon

Workers == worker \in [Page -> WorkerRec] /\ \A p \in Page : WorkerOK(worker[p])

LEMMA WorkersStep == ASSUME Workers, [PagesNext]_overrideVars PROVE Workers'
<1>1. ASSUME NEW ps \in SUBSET Page,
             worker' = [q \in Page |-> IF q \in ps THEN NoWorker ELSE worker[q]]
      PROVE  Workers'
  BY <1>1, FreshWorker DEF Workers
<1>2. ASSUME NEW p \in Page, NEW v \in WorkerRec, WorkerOK(v),
             worker' = [worker EXCEPT ![p] = v]
      PROVE  Workers'
  BY <1>2 DEF Workers
<1>3. CASE UNCHANGED worker
  BY <1>3 DEF Workers
<1>4. CASE Exit
  BY <1>1, <1>4 DEF Exit, Forget
<1>5. ASSUME NEW p \in Page, ClosePage(p) PROVE Workers'
  BY <1>1, <1>5 DEF ClosePage, Forget
<1>6. ASSUME NEW p \in Page, Commit(p) PROVE Workers'
  BY <1>2, <1>6, FreshWorker DEF Commit
<1>7. ASSUME NEW p \in Page,
             StartWorker(p) \/ PlainMessage(p) \/ PausingMessage(p)
      PROVE  Workers'
  BY <1>2, <1>7, StartWorkerOK, PlainMessageOK, PausingMessageOK DEF Workers
<1>8. ASSUME NEW k, Install(k) PROVE Workers'
  BY <1>3, <1>8 DEF Install
<1>9. ASSUME NEW p \in Page, NEW k, Apply(p, k) PROVE Workers'
  BY <1>3, <1>9 DEF Apply
<1>10. CASE Installed \/ ArmWorkers \/ Resume
  BY <1>3, <1>10 DEF Installed, ArmWorkers, Resume
<1>11. ASSUME NEW p \in Page, PopUp(p) \/ NewPage(p) \/ WrapSend(p)
       PROVE  Workers'
  BY <1>3, <1>11 DEF PopUp, NewPage, WrapSend
<1>12. CASE UNCHANGED overrideVars
  BY <1>3, <1>12 DEF overrideVars
<1> QED
  BY <1>4, <1>5, <1>6, <1>7, <1>8, <1>9, <1>10, <1>11, <1>12
  DEF PagesNext, Task, InstallCores, InstallTouch, InstallUserAgent,
      InstallSensors, WrapGoto, Navigate

-----------------------------------------------------------------------------
(* Types of the rest of the state.                                         *)
PageTypes ==
    /\ phase \in {"install", "workers", "user", "over"}
    /\ handlers \subseteq Kind
    /\ page \in [Page -> {"none", "open", "asked", "blank", "closed"}]
    /\ todo \in [Page -> SUBSET Kind] /\ bound \in [Page -> SUBSET Kind]
    /\ on \in [Page -> SUBSET (Kind \cup {"tz"})]
    /\ failed \in [Page -> SUBSET Kind]
    /\ dressed \subseteq Page
    /\ resuming \in (Page \X Kind) \cup {<<>>}
    /\ missed \subseteq Page \X Kind
    /\ listening \subseteq Page

LEMMA PageTypesSuffice ==
  PagesTypeOK <=> PageTypes /\ navs \in 0..MaxNavs /\ worker \in [Page -> WorkerRec]
BY DEF PagesTypeOK, PageTypes, WorkerRec

LEMMA PageTypesStep ==
  ASSUME PageTypes, [PagesNext]_overrideVars PROVE PageTypes'
<1> USE DEF PageTypes
<1>1. ASSUME NEW k \in Kind, Install(k) PROVE PageTypes'
  <2>1. bound' \in [Page -> SUBSET Kind]
    BY <1>1 DEF Install
  <2>2. on' \in [Page -> SUBSET (Kind \cup {"tz"})] /\ failed' \in [Page -> SUBSET Kind]
    BY <1>1 DEF Install, Sent
  <2> QED BY <1>1, <2>1, <2>2 DEF Install, Listens
<1>2. CASE Installed
  BY <1>2 DEF Installed, pageVars
<1>3. CASE ArmWorkers
  <2>1. "workers" \in Kind
    BY KindAssumption DEF Kind
  <2>2. on' \in [Page -> SUBSET (Kind \cup {"tz"})] /\ failed' \in [Page -> SUBSET Kind]
    BY <1>3, <2>1 DEF ArmWorkers, Sent
  <2>3. bound' \in [Page -> SUBSET Kind]
    BY <1>3, <2>1 DEF ArmWorkers
  <2> QED
    BY <1>3, <2>1, <2>2, <2>3 DEF ArmWorkers
<1>4. ASSUME NEW p \in Page, PopUp(p) \/ NewPage(p) PROVE PageTypes'
  BY <1>4 DEF PopUp, NewPage, PageEvent, BoundAtOnce
<1>5. ASSUME NEW p \in Page, Commit(p),
             UNCHANGED page \/ page' = [page EXCEPT ![p] = "blank"], UNCHANGED dressed
      PROVE PageTypes'
  BY <1>5 DEF Commit, Reapply
<1>6. ASSUME NEW p \in Page, WrapSend(p) PROVE PageTypes'
  <2>1. Range(Direct) \subseteq Kind
    BY KindAssumption DEF Range
  <2>2. ASSUME NEW n \in DOMAIN Direct
        PROVE  /\ Direct[n] \in Kind
               /\ Range(SubSeq(Direct, 1, n - 1)) \subseteq Kind
    BY <2>2, KindAssumption DEF Range
  <2> QED BY <1>6, <2>1, <2>2 DEF WrapSend
<1>7. ASSUME NEW p \in Page, NEW k \in Kind, Apply(p, k) PROVE PageTypes'
  <2>1. on' \in [Page -> SUBSET (Kind \cup {"tz"})] /\ failed' \in [Page -> SUBSET Kind]
    BY <1>7 DEF Apply, Sent
  <2> QED BY <1>7, <2>1 DEF Apply, Listens
<1>8. CASE Resume
  BY <1>8 DEF Resume, Idle
<1>9. ASSUME NEW ps \in SUBSET Page, Forget(ps), UNCHANGED handlers,
             UNCHANGED phase \/ phase' = "over"
      PROVE  PageTypes'
  BY <1>9 DEF Forget
<1>10. ASSUME NEW p \in Page,
              StartWorker(p) \/ PlainMessage(p) \/ PausingMessage(p)
       PROVE  PageTypes'
  BY <1>10 DEF StartWorker, PlainMessage, PausingMessage, pageVars
<1>11. CASE UNCHANGED overrideVars
  BY <1>11 DEF overrideVars
<1>12. ASSUME NEW p \in Page, WrapGoto(p) \/ Navigate(p) PROVE PageTypes'
  BY <1>5, <1>12 DEF WrapGoto, Navigate
<1>13. CASE Exit \/ \E p \in Page : ClosePage(p)
  BY <1>9, <1>13 DEF Exit, ClosePage
<1>14. CASE InstallCores \/ InstallTouch \/ InstallUserAgent \/ InstallSensors
  BY <1>1, <1>14, KindAssumption
  DEF InstallCores, InstallTouch, InstallUserAgent, InstallSensors, Kind
<1> QED
  BY <1>2, <1>3, <1>4, <1>6, <1>7, <1>8, <1>10, <1>11, <1>12, <1>13, <1>14
  DEF PagesNext, Task

-----------------------------------------------------------------------------
(* Pages other than the first appear when the block runs, and by then      *)
(* every override has its handler; the sensors are the last of the gather. *)
PhaseInv ==
    /\ phase \in {"install", "workers"} => \A p \in Page : Alive(p) => p = Main
    /\ phase = "install" /\ "sensors" \in handlers =>
          Wanted \ {"workers"} \subseteq handlers
    /\ phase = "workers" => Wanted \ {"workers"} \subseteq handlers
    /\ phase = "user" => Wanted \subseteq handlers

(* Every step leaves the phase alone, or is one of the steps of entering,  *)
(* or ends the session.                                                    *)
LEMMA PhaseStep ==
  ASSUME PageTypes, PhaseInv, [PagesNext]_overrideVars PROVE PhaseInv'
<1> USE DEF PhaseInv
<1>1. ASSUME NEW k, k # "sensors", Install(k) PROVE PhaseInv'
  BY <1>1 DEF Install, Alive, Wanted, Kind
<1>2. CASE InstallSensors
  BY <1>2 DEF InstallSensors, Gathered, Install, Alive, Wanted
<1>3. CASE InstallCores \/ InstallTouch \/ InstallUserAgent
  BY <1>1, <1>3, KindAssumption DEF InstallCores, InstallTouch, InstallUserAgent
<1>4. CASE Installed
  BY <1>4 DEF Installed, pageVars, Alive, Wanted
<1>5. CASE ArmWorkers
  BY <1>5 DEF ArmWorkers, Wanted
<1>6. ASSUME phase = "user", UNCHANGED <<phase, handlers>> PROVE PhaseInv'
  BY <1>6 DEF Wanted
<1>7. ASSUME UNCHANGED <<phase, handlers, page>> PROVE PhaseInv'
  BY <1>7 DEF Wanted, Alive
<1>8. CASE Exit
  BY <1>8 DEF Exit
<1>9. ASSUME NEW p \in Page,
             \/ PopUp(p) \/ NewPage(p) \/ WrapGoto(p) \/ WrapSend(p)
             \/ Navigate(p) \/ ClosePage(p)
      PROVE  PhaseInv'
  BY <1>6, <1>9 DEF PopUp, NewPage, WrapGoto, WrapSend, Navigate,
      ClosePage, Commit
<1>10. ASSUME NEW p \in Page,
              \/ StartWorker(p) \/ PlainMessage(p) \/ PausingMessage(p)
              \/ \E k \in Kind : Apply(p, k)
       PROVE  PhaseInv'
  BY <1>7, <1>10 DEF StartWorker, PlainMessage, PausingMessage, Apply,
      pageVars
<1>11. CASE Resume \/ UNCHANGED overrideVars
  BY <1>7, <1>11 DEF Resume, overrideVars
<1> QED
  BY <1>2, <1>3, <1>4, <1>5, <1>8, <1>9, <1>10, <1>11 DEF PagesNext, Task

-----------------------------------------------------------------------------
(* An override was tried on a page, missed it, or still has a task.        *)
Reached(p, k) ==
    k \in on[p] \/ k \in failed[p] \/ <<p, k>> \in missed \/ k \in todo[p]

(* An override that a commit may reset is bound to its page's navigations, *)
(* or is still to be sent, or is about to be bound.                        *)
Followed(p, k) ==
    /\ k \in BindFirst => k \in bound[p]
    /\ k \in BindLast => k \in bound[p] \/ k \in todo[p] \/ resuming = <<p, k>>

OverridesInv ==
    \A p \in Page : Alive(p) => \A k \in handlers : Reached(p, k) /\ Followed(p, k)

LEMMA InstallOverrides ==
  ASSUME PageTypes, PhaseInv, OverridesInv,
         phase \in {"install", "workers"},
         NEW k \in Kind, Sent(Main, k), handlers' = handlers \cup {k},
         bound' = [bound EXCEPT ![Main] = IF k \in Once THEN @ ELSE @ \cup {k}],
         UNCHANGED <<page, todo, resuming, missed>>
  PROVE  OverridesInv'
<1> SUFFICES ASSUME NEW p \in Page, Alive(p)', NEW l \in handlers'
             PROVE  Reached(p, l)' /\ Followed(p, l)'
  BY DEF OverridesInv
<1>1. p = Main /\ Alive(p)
  BY DEF PhaseInv, Alive
<1>2. l \in handlers => Reached(p, l) /\ Followed(p, l)
  BY <1>1 DEF OverridesInv
<1>3. Reached(p, l)'
  BY <1>1, <1>2 DEF Reached, Sent, PageTypes
<1>4. Followed(p, l)'
  <2>1. bound'[p] = IF k \in Once THEN bound[p] ELSE bound[p] \cup {k}
    BY <1>1 DEF PageTypes
  <2>2. k \in BindFirst \cup BindLast => k \notin Once
    BY KindAssumption
  <2> QED BY <1>2, <2>1, <2>2 DEF Followed
<1> QED BY <1>3, <1>4

LEMMA CommitOverrides ==
  ASSUME PageTypes, OverridesInv, NEW p \in Page, Alive(p), Commit(p),
         UNCHANGED page \/ page' = [page EXCEPT ![p] = "blank"]
  PROVE  OverridesInv'
<1> SUFFICES ASSUME NEW q \in Page, Alive(q)', NEW k \in handlers
             PROVE  Reached(q, k)' /\ Followed(q, k)'
  BY DEF OverridesInv, Commit
<1>1. Reached(q, k) /\ Followed(q, k)
  BY DEF OverridesInv, Alive, PageTypes
<1>2. Followed(q, k)'
  BY <1>1 DEF Followed, Commit, Reapply, PageTypes
<1>3. Reached(q, k)'
  <2>1. CASE q # p
    BY <1>1, <2>1 DEF Reached, Commit, PageTypes
  <2>2. CASE q = p
    <3>1. PICK reset \in {{}, BindFirst \cup BindLast} :
             /\ on' = [on EXCEPT ![p] = @ \ reset]
             /\ missed' = missed \cup {r \in {resuming} : r # <<>> /\ r[1] = p /\ r[2] \in reset}
      BY DEF Commit
    <3>2. todo'[p] = todo[p] \cup bound[p] /\ UNCHANGED failed
      BY DEF Commit, Reapply, PageTypes
    <3>3. CASE k \in on[p] /\ k \notin on'[p]
      <4>1. k \in reset /\ k \in BindFirst \cup BindLast
        BY <3>1, <3>3 DEF PageTypes
      <4>2. CASE resuming = <<p, k>>
        BY <3>1, <4>1, <4>2, <2>2 DEF Reached
      <4>3. CASE k \in bound[p] \/ k \in todo[p]
        BY <3>2, <4>3, <2>2 DEF Reached
      <4> QED BY <4>1, <4>2, <4>3, <1>1, <2>2 DEF Followed
    <3> QED BY <1>1, <2>2, <3>1, <3>2, <3>3 DEF Reached
  <2> QED BY <2>1, <2>2
<1> QED BY <1>2, <1>3

LEMMA WrapSendOverrides ==
  ASSUME PageTypes, OverridesInv, NEW p \in Page, WrapSend(p)
  PROVE  OverridesInv'
<1> SUFFICES ASSUME NEW q \in Page, Alive(q)', NEW k \in handlers
             PROVE  Reached(q, k)' /\ Followed(q, k)'
  BY DEF OverridesInv, WrapSend
<1>1. Reached(q, k) /\ Followed(q, k)
  BY DEF OverridesInv, WrapSend, Alive, PageTypes
<1>2. UNCHANGED <<todo, missed>>
  BY DEF WrapSend
<1>3. Reached(q, k)'
  <2>1. CASE on' = [on EXCEPT ![p] = @ \cup Range(Direct) \cup {"tz"}]
             /\ failed' = [failed EXCEPT ![p] = @ \ Range(Direct)]
    BY <1>1, <1>2, <2>1 DEF Reached, PageTypes
  <2>2. ASSUME NEW n \in DOMAIN Direct,
               LET done == Range(SubSeq(Direct, 1, n - 1)) IN
               /\ on' = [on EXCEPT ![p] = @ \cup done]
               /\ failed' = [failed EXCEPT ![p] = (@ \ done) \cup {Direct[n]}]
        PROVE  Reached(q, k)'
    BY <1>1, <1>2, <2>2 DEF Reached, PageTypes
  <2> QED BY <2>1, <2>2 DEF WrapSend
<1>4. Followed(q, k)'
  BY <1>1 DEF Followed, WrapSend
<1> QED BY <1>3, <1>4

LEMMA ApplyOverrides ==
  ASSUME PageTypes, OverridesInv, NEW p \in Page, NEW l \in Kind, Apply(p, l)
  PROVE  OverridesInv'
<1> SUFFICES ASSUME NEW q \in Page, Alive(q)', NEW k \in handlers
             PROVE  Reached(q, k)' /\ Followed(q, k)'
  BY DEF OverridesInv, Apply
<1>1. Reached(q, k) /\ Followed(q, k)
  BY DEF OverridesInv, Apply, Alive
<1>2. Reached(q, k)'
  BY <1>1 DEF Reached, Apply, Sent, PageTypes
<1>3. Followed(q, k)'
  <2>1. resuming # <<q, k>>
    BY DEF Apply, Idle
  <2>2. CASE <<q, k>> = <<p, l>>
    BY <1>1, <2>2 DEF Followed, Apply
  <2>3. CASE <<q, k>> # <<p, l>>
    BY <1>1, <2>1, <2>3 DEF Followed, Apply, PageTypes
  <2> QED BY <2>2, <2>3
<1> QED BY <1>2, <1>3

LEMMA ResumeOverrides ==
  ASSUME PageTypes, OverridesInv, Resume PROVE OverridesInv'
<1> SUFFICES ASSUME NEW q \in Page, Alive(q)', NEW k \in handlers
             PROVE  Reached(q, k)' /\ Followed(q, k)'
  BY DEF OverridesInv, Resume
<1>1. Reached(q, k) /\ Followed(q, k)
  BY DEF OverridesInv, Resume, Alive
<1>2. Reached(q, k)'
  BY <1>1 DEF Reached, Resume
<1>3. Followed(q, k)'
  <2>1. bound[q] \subseteq bound'[q]
    BY DEF Resume, PageTypes
  <2>2. resuming = <<q, k>> => k \in bound'[q]
    BY DEF Resume, PageTypes
  <2> QED BY <1>1, <2>1, <2>2 DEF Followed, Resume
<1> QED BY <1>2, <1>3

LEMMA ForgetOverrides ==
  ASSUME PageTypes, OverridesInv, NEW ps \in SUBSET Page, Forget(ps), UNCHANGED handlers
  PROVE  OverridesInv'
<1> SUFFICES ASSUME NEW q \in Page, Alive(q)', NEW k \in handlers
             PROVE  Reached(q, k)' /\ Followed(q, k)'
  BY DEF OverridesInv
<1>1. q \notin ps /\ Alive(q)
  BY DEF Alive, Forget
<1>2. Reached(q, k) /\ Followed(q, k)
  BY <1>1 DEF OverridesInv
<1> QED BY <1>1, <1>2 DEF Reached, Followed, Forget

LEMMA PageEventOverrides ==
  ASSUME PageTypes, OverridesInv, NEW p \in Page, PopUp(p) \/ NewPage(p)
  PROVE  OverridesInv'
<1> SUFFICES ASSUME NEW q \in Page, Alive(q)', NEW k \in handlers
             PROVE  Reached(q, k)' /\ Followed(q, k)'
  BY DEF OverridesInv, PopUp, NewPage
<1>1. CASE q = p
  BY <1>1 DEF Reached, Followed, PopUp, NewPage, PageEvent, BoundAtOnce,
      PageTypes
<1>2. CASE q # p
  <2>1. Reached(q, k) /\ Followed(q, k)
    BY <1>2 DEF OverridesInv, PopUp, NewPage, Alive, PageTypes
  <2> QED BY <1>2, <2>1 DEF Reached, Followed, PopUp, NewPage, PageEvent, PageTypes
<1> QED BY <1>1, <1>2

LEMMA OverridesStep ==
  ASSUME PageTypes, PhaseInv, OverridesInv, [PagesNext]_overrideVars
  PROVE  OverridesInv'
<1>1. ASSUME NEW k \in Kind, Install(k) PROVE OverridesInv'
  BY <1>1, InstallOverrides DEF Install
<1>2. CASE ArmWorkers
  <2>1. "workers" \in Kind /\ "workers" \notin Once
    BY KindAssumption DEF Kind
  <2>2. bound' = [bound EXCEPT ![Main] = IF "workers" \in Once THEN @ ELSE @ \cup {"workers"}]
    BY <1>2, <2>1 DEF ArmWorkers
  <2> QED BY <1>2, <2>1, <2>2, InstallOverrides DEF ArmWorkers
<1>3. ASSUME UNCHANGED <<handlers, page, todo, bound, on, failed, resuming, missed>>
      PROVE  OverridesInv'
  BY <1>3 DEF OverridesInv, Reached, Followed, Alive
<1>4. CASE InstallCores \/ InstallTouch \/ InstallUserAgent \/ InstallSensors
  BY <1>1, <1>4, KindAssumption
  DEF InstallCores, InstallTouch, InstallUserAgent, InstallSensors, Kind
<1>5. CASE Installed \/ UNCHANGED overrideVars
  BY <1>3, <1>5 DEF Installed, overrideVars, pageVars
<1>6. ASSUME NEW p \in Page, WrapGoto(p) \/ Navigate(p) PROVE OverridesInv'
  BY <1>6, CommitOverrides DEF WrapGoto, Navigate, Alive
<1>7. CASE Exit \/ \E p \in Page : ClosePage(p)
  BY <1>7, ForgetOverrides DEF Exit, ClosePage
<1>8. ASSUME NEW p \in Page,
             StartWorker(p) \/ PlainMessage(p) \/ PausingMessage(p)
      PROVE  OverridesInv'
  BY <1>3, <1>8 DEF StartWorker, PlainMessage, PausingMessage, pageVars
<1> QED
  BY <1>2, <1>4, <1>5, <1>6, <1>7, <1>8, WrapSendOverrides, ApplyOverrides, ResumeOverrides,
     PageEventOverrides
  DEF PagesNext, Task

(* The time zone is not among what a commit resets.                        *)
ZoneInv == \A p \in dressed : "tz" \in on[p]

LEMMA ZoneStep ==
  ASSUME PageTypes, ZoneInv, [PagesNext]_overrideVars PROVE ZoneInv'
<1> USE DEF ZoneInv, PageTypes
<1>1. ASSUME NEW k, Sent(Main, k), UNCHANGED dressed PROVE ZoneInv'
  BY <1>1 DEF Sent
<1>2. CASE ArmWorkers \/ \E k \in Kind : Install(k)
  BY <1>1, <1>2 DEF ArmWorkers, Install
<1>3. ASSUME UNCHANGED <<dressed, on>> PROVE ZoneInv'
  BY <1>3
<1>4. CASE InstallCores \/ InstallTouch \/ InstallUserAgent \/ InstallSensors
  BY <1>2, <1>4, KindAssumption
  DEF InstallCores, InstallTouch, InstallUserAgent, InstallSensors, Kind
<1>5. CASE Installed \/ Resume \/ UNCHANGED overrideVars
  BY <1>3, <1>5 DEF Installed, Resume, overrideVars, pageVars
<1>6. ASSUME NEW p \in Page, Commit(p), UNCHANGED dressed PROVE ZoneInv'
  <2>1. "tz" \notin BindFirst \cup BindLast
    BY KindAssumption DEF Kind
  <2> QED BY <1>6, <2>1 DEF Commit
<1>7. ASSUME NEW p \in Page, WrapGoto(p) \/ Navigate(p) PROVE ZoneInv'
  BY <1>6, <1>7 DEF WrapGoto, Navigate
<1>8. ASSUME NEW p \in Page, WrapSend(p) PROVE ZoneInv'
  BY <1>8 DEF WrapSend
<1>9. ASSUME NEW p \in Page, NEW k \in Kind, Apply(p, k) PROVE ZoneInv'
  BY <1>9 DEF Apply, Sent
<1>10. CASE Exit \/ \E p \in Page : ClosePage(p)
  BY <1>10 DEF Exit, ClosePage, Forget
<1>11. ASSUME NEW p \in Page,
              \/ PopUp(p) \/ NewPage(p)
              \/ StartWorker(p) \/ PlainMessage(p) \/ PausingMessage(p)
       PROVE  ZoneInv'
  BY <1>3, <1>11 DEF PopUp, NewPage, StartWorker, PlainMessage,
      PausingMessage, pageVars
<1> QED
  BY <1>2, <1>4, <1>5, <1>7, <1>8, <1>9, <1>10, <1>11 DEF PagesNext, Task

(* Only a coroutine that applies before it binds has a gap to lose in.     *)
GapInv ==
    /\ Idle \/ resuming[2] \in BindLast
    /\ \A m \in missed : m[2] \in BindLast

LEMMA GapStep ==
  ASSUME PageTypes, GapInv, [PagesNext]_overrideVars PROVE GapInv'
<1> USE DEF GapInv, PageTypes, Idle
<1>1. ASSUME UNCHANGED <<resuming, missed>> PROVE GapInv'
  BY <1>1
<1>2. ASSUME NEW k, Install(k) PROVE GapInv'
  BY <1>1, <1>2 DEF Install
<1>3. CASE Installed \/ ArmWorkers \/ UNCHANGED overrideVars
  BY <1>1, <1>3 DEF Installed, ArmWorkers, overrideVars, pageVars
<1>4. CASE Resume
  BY <1>4 DEF Resume
<1>5. ASSUME NEW p \in Page, NEW k \in Kind, Apply(p, k) PROVE GapInv'
  BY <1>5 DEF Apply
<1>6. ASSUME NEW p \in Page, Commit(p) PROVE GapInv'
  <2>1. ASSUME NEW m \in missed' PROVE m \in missed \/ (m = resuming /\ ~Idle)
    BY <1>6 DEF Commit
  <2>2. UNCHANGED resuming
    BY <1>6 DEF Commit
  <2> QED BY <2>1, <2>2
<1>7. ASSUME NEW ps \in SUBSET Page, Forget(ps) PROVE GapInv'
  BY <1>7 DEF Forget
<1>8. CASE Exit \/ \E p \in Page : ClosePage(p)
  BY <1>7, <1>8 DEF Exit, ClosePage
<1>9. ASSUME NEW p \in Page,
             \/ PopUp(p) \/ NewPage(p) \/ WrapSend(p)
             \/ StartWorker(p) \/ PlainMessage(p) \/ PausingMessage(p)
      PROVE  GapInv'
  BY <1>1, <1>9 DEF PopUp, NewPage, WrapSend, StartWorker,
      PlainMessage, PausingMessage, pageVars
<1> QED
  BY <1>2, <1>3, <1>4, <1>5, <1>6, <1>8, <1>9
  DEF PagesNext, Task, InstallCores, InstallTouch, InstallUserAgent,
      InstallSensors, WrapGoto, Navigate

-----------------------------------------------------------------------------
PagesInv ==
    /\ PageTypes /\ Workers
    /\ PhaseInv /\ OverridesInv /\ ZoneInv /\ GapInv

LEMMA PagesInvInit == PagesInit => PagesInv
<1> SUFFICES ASSUME PagesInit PROVE PagesInv
  OBVIOUS
<1>1. PageTypes
  BY DEF PagesInit, PageTypes
<1>2. Workers
  BY FreshWorker DEF PagesInit, Workers
<1>3. PhaseInv
  BY DEF PagesInit, PhaseInv, Alive
<1>4. OverridesInv /\ ZoneInv /\ GapInv
  BY DEF PagesInit, OverridesInv, ZoneInv, GapInv, Idle
<1> QED BY <1>1, <1>2, <1>3, <1>4 DEF PagesInv

LEMMA PagesInvariance == PagesSpec => []PagesInv
<1>1. PagesInv /\ [PagesNext]_overrideVars => PagesInv'
  BY PageTypesStep, WorkersStep, PhaseStep, OverridesStep, ZoneStep, GapStep DEF PagesInv
<1>2. PagesInit => PagesInv
  BY PagesInvInit
<1> QED BY <1>1, <1>2, PTL DEF PagesSpec

(* Every variable keeps its type, the bound on the navigations included.   *)
THEOREM PagesTypeCorrect == PagesSpec => []PagesTypeOK
<1> DEFINE Navs == navs \in 0..MaxNavs
<1>1. PagesInit => Navs
  BY FlagAssumption DEF PagesInit
<1>2. Navs /\ [PagesNext]_overrideVars => Navs'
  <2> SUFFICES ASSUME Navs, [PagesNext]_overrideVars PROVE Navs'
    OBVIOUS
  <2>1. ASSUME NEW p \in Page, Navigate(p) PROVE Navs'
    BY <2>1, FlagAssumption DEF Navigate
  <2>2. CASE UNCHANGED navs
    BY <2>2
  <2> QED
    BY <2>1, <2>2
    DEF PagesNext, Task, InstallCores, InstallTouch, InstallUserAgent,
        InstallSensors, Install, Installed, ArmWorkers, Resume,
        Exit, Forget, ClosePage, PopUp, NewPage, WrapGoto,
        WrapSend, StartWorker, PlainMessage, PausingMessage, Apply,
        overrideVars, pageVars
<1>3. PagesInv /\ Navs => PagesTypeOK
  BY PageTypesSuffice DEF PagesInv, Workers
<1> QED BY <1>1, <1>2, <1>3, PagesInvariance, PTL DEF PagesSpec

(* On a page whose tasks have all run every override is in force, unless   *)
(* its last send failed or a commit fell into its gap.                     *)
THEOREM PagesAreComplete == PagesSpec => []PagesComplete
<1>1. PagesInv => PagesComplete
  <2> SUFFICES ASSUME PagesInv, NEW p \in Page, page[p] = "open", phase = "user", todo[p] = {}
               PROVE  /\ \A k \in Wanted :
                            k \in on[p] \/ k \in failed[p] \/ <<p, k>> \in missed
                      /\ p \in dressed => "tz" \in on[p]
    BY DEF PagesComplete
  <2> QED
    BY DEF PagesInv, PhaseInv, OverridesInv, ZoneInv, Reached, Alive
<1> QED BY <1>1, PagesInvariance, PTL

(* A commit never costs a page its cores, worker or user agent override:   *)
(* those are bound before they are sent, or not reset.                     *)
THEOREM BoundFirstNeverMissed ==
  PagesSpec => [](\A p \in Page : page[p] = "open" /\ phase = "user" /\ todo[p] = {} =>
             \A k \in Wanted \ BindLast : k \in on[p] \/ k \in failed[p])
<1> DEFINE Kept == \A p \in Page : page[p] = "open" /\ phase = "user" /\ todo[p] = {} =>
                      \A k \in Wanted \ BindLast : k \in on[p] \/ k \in failed[p]
<1>1. PagesInv => Kept
  BY DEF PagesInv, PhaseInv, OverridesInv, GapInv, Reached, Alive
<1> QED BY <1>1, PagesInvariance, PTL

(* A worker that was made to wait is let run with the profile's cores, and *)
(* with its user agent unless the plain handler let it run first, whatever *)
(* messages of the two handlers fail.                                      *)
THEOREM WorkersAreMasked == PagesSpec => []WorkersMasked
<1>1. PagesInv => WorkersMasked
  BY DEF PagesInv, WorkersMasked, Workers, WorkerOK
<1> QED BY <1>1, PagesInvariance, PTL
=============================================================================
