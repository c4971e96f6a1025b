----------------------- MODULE DeviceSettings_proofs -----------------------
(***************************************************************************)
(* Proofs about DeviceSettings for all profiles, versions, numbers of      *)
(* cores and bounds, and whatever exchanges may go wrong.                  *)
(***************************************************************************)
EXTENDS DeviceSettings, TLAPS

-----------------------------------------------------------------------------
(* Uses and what goes wrong in them.                                       *)

BaseInv ==
    /\ DOMAIN wrong = Uses /\ DOMAIN setting = Key
    /\ use \in 0..MaxUses /\ booted \in 0..use /\ forced \subseteq 1..use
    /\ kind \in {"session", "force"} /\ prof \in Profile
    /\ pc \in SetupPC \cup {"idle", "user"}
    /\ pc # "idle" => use > booted /\ (kind = "force" <=> use \in forced)
    /\ pc \in {"fonts", "randomize", "user"} => kind = "session"
    /\ pc \in {"idle", "resetprop", "props", "fonts", "randomize"} => todo = {}
    /\ "release" \in todo => kind = "force"

LEMMA BaseInit == Init => BaseInv
  BY SettingsAssumption DEF Init, BaseInv, SetupPC

(* GoWrong adds to what went wrong in this use.                            *)
LEMMA Wrongs ==
    ASSUME BaseInv, pc # "idle"
    PROVE  \A xs : GoWrong(xs) =>
              /\ DOMAIN wrong' = Uses /\ wrong'[use] = wrong[use] \cup xs
              /\ \A u \in Uses \ {use} : wrong'[u] = wrong[u]
  BY SettingsAssumption DEF BaseInv, GoWrong, Uses

LEMMA BaseStep == ASSUME BaseInv, [Next]_vars PROVE BaseInv'
<1> USE SettingsAssumption
<1>1. CASE Begin
  BY <1>1 DEF Begin, propVars, fontVars, cpuVars, useVars, BaseInv, SetupPC
<1>2. CASE EnsureResetprop
  BY <1>2, Wrongs DEF EnsureResetprop, Right, propVars, fontVars, cpuVars, useVars, BaseInv, SetupPC
<1>3. CASE PropsFail
  BY <1>3 DEF PropsFail, GiveUp, propVars, fontVars, cpuVars, useVars, BaseInv, SetupPC
<1>4. CASE ApplyProps
  BY <1>4, Wrongs DEF ApplyProps, Right, propVars, fontVars, cpuVars, useVars, BaseInv, SetupPC
<1>5. CASE ForceProps
  BY <1>5 DEF ForceProps, propVars, fontVars, cpuVars, useVars, BaseInv, SetupPC
<1>6. CASE ApplyVersionRelease
  BY <1>6 DEF ApplyVersionRelease, propVars, fontVars, cpuVars, useVars, BaseInv, SetupPC
<1>7. CASE InstallFonts
  BY <1>7, Wrongs DEF InstallFonts, Right, propVars, fontVars, cpuVars, useVars, BaseInv, SetupPC
<1>8. CASE InstallFontsCut
  BY <1>8, Wrongs DEF InstallFontsCut, GiveUp, propVars, fontVars, cpuVars, useVars, BaseInv,
     SetupPC
<1>9. CASE RandomizeFonts
  BY <1>9, Wrongs DEF RandomizeFonts, Right, propVars, fontVars, cpuVars, useVars, BaseInv, SetupPC
<1>10. CASE ApplySettings
  BY <1>10, Wrongs DEF ApplySettings, Right, propVars, fontVars, cpuVars, useVars, BaseInv, SetupPC
<1>11. CASE SpoofAfterSettings
  BY <1>11 DEF SpoofAfterSettings, propVars, fontVars, cpuVars, useVars, BaseInv, SetupPC
<1>12. CASE SpoofCores
  BY <1>12 DEF SpoofCores, propVars, fontVars, cpuVars, useVars, BaseInv, SetupPC
<1>13. CASE Unmount
  BY <1>13, Wrongs DEF Unmount, Right, propVars, fontVars, cpuVars, useVars, BaseInv, SetupPC
<1>14. CASE MountOnline
  BY <1>14, Wrongs DEF MountOnline, Mount, Right, propVars, fontVars, cpuVars, useVars, BaseInv,
     SetupPC
<1>15. CASE MountStat
  BY <1>15, Wrongs DEF MountStat, Mount, Right, GiveUp, propVars, fontVars, cpuVars, useVars,
     BaseInv, SetupPC
<1>16. CASE ApplyRuntimeArch
  BY <1>16 DEF ApplyRuntimeArch, propVars, fontVars, cpuVars, useVars, BaseInv, SetupPC
<1>17. CASE Cut
  BY <1>17 DEF Cut, GiveUp, propVars, fontVars, cpuVars, useVars, BaseInv, SetupPC
<1>18. CASE Restart
  BY <1>18 DEF Restart, propVars, fontVars, cpuVars, useVars, BaseInv, SetupPC
<1>19. CASE UNCHANGED vars
  BY <1>19 DEF vars, propVars, fontVars, cpuVars, useVars, BaseInv, SetupPC
<1> QED
  BY <1>1, <1>2, <1>3, <1>4, <1>5, <1>6, <1>7, <1>8, <1>9, <1>10, <1>11, <1>12, <1>13,
     <1>14, <1>15, <1>16, <1>17, <1>18, <1>19 DEF Next, PropsStep, FontStep, CoreStep

LEMMA BaseAlways == Spec => []BaseInv
  BY BaseInit, BaseStep, PTL DEF Spec

(* What went wrong stays so.                                               *)
LEMMA WrongGrows ==
    ASSUME BaseInv, [Next]_vars
    PROVE  \A u \in Uses : wrong[u] \subseteq wrong'[u]
<1>1. CASE Begin
  BY <1>1 DEF Begin, propVars, fontVars, cpuVars, useVars, BaseInv
<1>2. CASE EnsureResetprop
  BY <1>2, Wrongs DEF EnsureResetprop, Right, propVars, fontVars, cpuVars, useVars, BaseInv
<1>3. CASE PropsFail
  BY <1>3 DEF PropsFail, GiveUp, propVars, fontVars, cpuVars, useVars, BaseInv
<1>4. CASE ApplyProps
  BY <1>4, Wrongs DEF ApplyProps, Right, propVars, fontVars, cpuVars, useVars, BaseInv
<1>5. CASE ForceProps
  BY <1>5 DEF ForceProps, propVars, fontVars, cpuVars, useVars, BaseInv
<1>6. CASE ApplyVersionRelease
  BY <1>6 DEF ApplyVersionRelease, propVars, fontVars, cpuVars, useVars, BaseInv
<1>7. CASE InstallFonts
  BY <1>7, Wrongs DEF InstallFonts, Right, propVars, fontVars, cpuVars, useVars, BaseInv
<1>8. CASE InstallFontsCut
  BY <1>8, Wrongs DEF InstallFontsCut, GiveUp, propVars, fontVars, cpuVars, useVars, BaseInv
<1>9. CASE RandomizeFonts
  BY <1>9, Wrongs DEF RandomizeFonts, Right, propVars, fontVars, cpuVars, useVars, BaseInv
<1>10. CASE ApplySettings
  BY <1>10, Wrongs DEF ApplySettings, Right, propVars, fontVars, cpuVars, useVars, BaseInv
<1>11. CASE SpoofAfterSettings
  BY <1>11 DEF SpoofAfterSettings, propVars, fontVars, cpuVars, useVars, BaseInv
<1>12. CASE SpoofCores
  BY <1>12 DEF SpoofCores, propVars, fontVars, cpuVars, useVars, BaseInv
<1>13. CASE Unmount
  BY <1>13, Wrongs DEF Unmount, Right, propVars, fontVars, cpuVars, useVars, BaseInv
<1>14. CASE MountOnline
  BY <1>14, Wrongs DEF MountOnline, Mount, Right, propVars, fontVars, cpuVars, useVars, BaseInv
<1>15. CASE MountStat
  BY <1>15, Wrongs DEF MountStat, Mount, Right, GiveUp, propVars, fontVars, cpuVars, useVars,
     BaseInv
<1>16. CASE ApplyRuntimeArch
  BY <1>16 DEF ApplyRuntimeArch, propVars, fontVars, cpuVars, useVars, BaseInv
<1>17. CASE Cut
  BY <1>17 DEF Cut, GiveUp, propVars, fontVars, cpuVars, useVars, BaseInv
<1>18. CASE Restart
  BY <1>18 DEF Restart, propVars, fontVars, cpuVars, useVars, BaseInv
<1>19. CASE UNCHANGED vars
  BY <1>19 DEF vars, propVars, fontVars, cpuVars, useVars, BaseInv
<1> QED
  BY <1>1, <1>2, <1>3, <1>4, <1>5, <1>6, <1>7, <1>8, <1>9, <1>10, <1>11, <1>12, <1>13,
     <1>14, <1>15, <1>16, <1>17, <1>18, <1>19 DEF Next, PropsStep, FontStep, CoreStep

-----------------------------------------------------------------------------
(* What can make a device unusable.                                        *)

(* A profile was forced on the device in a use before u.                   *)
ForcedBefore(u) == \E f \in forced : f < u

UsableInv ==
    /\ release # RealVersion => \E f \in forced : f <= use
    /\ arm => binary # "none" /\ (\E f \in forced : f <= use)
              /\ (pc # "idle" => ForcedBefore(use))
    /\ pc \notin {"idle", "resetprop"} => binary # "none"
    /\ sdk # RealVersion => \E u \in Uses : u > booted /\ "sdk" \in wrong[u] /\ ForcedBefore(u)
    /\ binary = "foreign" => \E u \in Uses : "binary" \in wrong[u] /\ ForcedBefore(u)

LEMMA UsableStep == ASSUME BaseInv, UsableInv, [Next]_vars PROVE UsableInv'
<1> USE SettingsAssumption
<1>0. \A u \in Uses : wrong[u] \subseteq wrong'[u]
  BY WrongGrows
<1>1. CASE Begin
  BY <1>1, <1>0 DEF Begin, propVars, fontVars, cpuVars, useVars, BaseInv, UsableInv, ForcedBefore,
     Uses
<1>2. CASE EnsureResetprop
  <2>1. /\ pc = "resetprop" /\ use \in Uses /\ use > booted
        /\ UNCHANGED <<release, sdk, arm, use, forced, booted>> /\ pc' = "props"
    BY <1>2 DEF EnsureResetprop, propVars, useVars, BaseInv, Uses
  <2>2. CASE binary' = binary /\ binary # "none"
    BY <2>1, <2>2, <1>0 DEF UsableInv, ForcedBefore
  <2>3. CASE binary = "none" /\ PushResetprop
    BY <2>1, <2>3, <1>0 DEF UsableInv, ForcedBefore, PushResetprop
  <2>4. CASE binary # "none" /\ GoWrong({"binary"}) /\ PushResetprop
    <3>1. "binary" \in wrong'[use]
      BY <2>1, <2>4, Wrongs
    <3>2. arm => ForcedBefore(use)
      BY <2>1 DEF UsableInv
    <3>3. binary' \in {"foreign", "native"} /\ (binary' = "foreign" => arm)
      BY <2>4 DEF PushResetprop
    <3> QED
      BY <2>1, <3>1, <3>2, <3>3, <1>0 DEF UsableInv, ForcedBefore
  <2> QED
    BY <1>2, <2>2, <2>3, <2>4 DEF EnsureResetprop
<1>3. CASE PropsFail
  BY <1>3, <1>0 DEF PropsFail, GiveUp, propVars, fontVars, cpuVars, useVars, BaseInv, UsableInv,
     ForcedBefore, Uses
<1>4. CASE ApplyProps
  BY <1>4, <1>0, Wrongs DEF ApplyProps, Right, propVars, fontVars, cpuVars, useVars, BaseInv,
     UsableInv, ForcedBefore, Uses, VersionMatch
<1>5. CASE ForceProps
  BY <1>5, <1>0 DEF ForceProps, propVars, fontVars, cpuVars, useVars, BaseInv, UsableInv,
     ForcedBefore, Uses
<1>6. CASE ApplyVersionRelease
  BY <1>6, <1>0 DEF ApplyVersionRelease, propVars, fontVars, cpuVars, useVars, BaseInv, UsableInv,
     ForcedBefore, Uses
<1>7. CASE InstallFonts
  BY <1>7, <1>0, Wrongs DEF InstallFonts, Right, propVars, fontVars, cpuVars, useVars, BaseInv,
     UsableInv, ForcedBefore, Uses
<1>8. CASE InstallFontsCut
  BY <1>8, <1>0, Wrongs DEF InstallFontsCut, GiveUp, propVars, fontVars, cpuVars, useVars, BaseInv,
     UsableInv, ForcedBefore, Uses
<1>9. CASE RandomizeFonts
  BY <1>9, <1>0, Wrongs DEF RandomizeFonts, Right, propVars, fontVars, cpuVars, useVars, BaseInv,
     UsableInv, ForcedBefore, Uses
<1>10. CASE ApplySettings
  BY <1>10, <1>0, Wrongs DEF ApplySettings, Right, propVars, fontVars, cpuVars, useVars, BaseInv,
     UsableInv, ForcedBefore, Uses
<1>11. CASE SpoofAfterSettings
  BY <1>11, <1>0 DEF SpoofAfterSettings, propVars, fontVars, cpuVars, useVars, BaseInv, UsableInv,
     ForcedBefore, Uses
<1>12. CASE SpoofCores
  BY <1>12, <1>0 DEF SpoofCores, propVars, fontVars, cpuVars, useVars, BaseInv, UsableInv,
     ForcedBefore, Uses
<1>13. CASE Unmount
  BY <1>13, <1>0, Wrongs DEF Unmount, Right, propVars, fontVars, cpuVars, useVars, BaseInv,
     UsableInv, ForcedBefore, Uses
<1>14. CASE MountOnline
  BY <1>14, <1>0, Wrongs DEF MountOnline, Mount, Right, propVars, fontVars, cpuVars, useVars,
     BaseInv, UsableInv, ForcedBefore, Uses
<1>15. CASE MountStat
  BY <1>15, <1>0, Wrongs DEF MountStat, Mount, Right, GiveUp, propVars, fontVars, cpuVars, useVars,
     BaseInv, UsableInv, ForcedBefore, Uses
<1>16. CASE ApplyRuntimeArch
  BY <1>16, <1>0 DEF ApplyRuntimeArch, propVars, fontVars, cpuVars, useVars, BaseInv, UsableInv,
     ForcedBefore, Uses
<1>17. CASE Cut
  BY <1>17, <1>0 DEF Cut, GiveUp, propVars, fontVars, cpuVars, useVars, BaseInv, UsableInv,
     ForcedBefore, Uses
<1>18. CASE Restart
  BY <1>18, <1>0 DEF Restart, propVars, fontVars, cpuVars, useVars, BaseInv, UsableInv,
     ForcedBefore, Uses
<1>19. CASE UNCHANGED vars
  BY <1>19, <1>0 DEF vars, propVars, fontVars, cpuVars, useVars, BaseInv, UsableInv, ForcedBefore,
     Uses
<1> QED
  BY <1>1, <1>2, <1>3, <1>4, <1>5, <1>6, <1>7, <1>8, <1>9, <1>10, <1>11, <1>12, <1>13,
     <1>14, <1>15, <1>16, <1>17, <1>18, <1>19 DEF Next, PropsStep, FontStep, CoreStep

(* Neither an SDK nor a resetprop that would stop Chrome or every later    *)
(* use is ever left on a device, unless a probe is lost after a profile    *)
(* was forced on it: apply_device_props and _ensure_resetprop of root.py.  *)
THEOREM StaysUsable == Spec => []DeviceUsable
<1>1. Init => UsableInv
  BY DEF Init, UsableInv
<1>2. BaseInv /\ UsableInv /\ [Next]_vars => UsableInv'
  BY UsableStep
<1>3. UsableInv => DeviceUsable
  BY DEF UsableInv, DeviceUsable, ForcedBefore
<1> QED
  BY <1>1, <1>2, <1>3, BaseAlways, PTL DEF Spec

-----------------------------------------------------------------------------
(* Settings and fonts.                                                     *)

WrittenPC == {"unmount", "online", "stat", "user"}

(* A cut came between the backup of fonts.xml and its marker.              *)
CutBefore(u) == \E v \in Uses : v < u /\ "cut" \in wrong[v]

FontsMixed ==
    \E u \in Uses : "backup" \in wrong[u] /\ ("marker" \in wrong[u] \/ CutBefore(u))

WrittenInv ==
    /\ pc # "idle" /\ kind = "session" /\ "settings" \notin wrong[use] =>
          ((pc \in WrittenPC \/ (pc = "gather" /\ "settings" \notin todo))
              => setting["screen"] = prof /\ setting["http_proxy"] = proxy)
    /\ pc # "idle" /\ kind = "session" /\ "backup" \notin wrong[use] =>
          (pc \in WrittenPC \cup {"gather"} => fonts.by \in {use, 0})
    /\ fonts \in FontsFile /\ backup \in FontsFile \cup {None}
    /\ fonts.by # 0 => backup # None
    /\ ~marker /\ backup # None =>
          \E v \in Uses : v <= use /\ "cut" \in wrong[v] /\ (pc # "idle" => v < use)
    /\ backup # None /\ backup.by # 0 => FontsMixed
    /\ fonts.stacked => FontsMixed
LEMMA WrittenStep == ASSUME BaseInv, WrittenInv, [Next]_vars PROVE WrittenInv'
<1> USE SettingsAssumption
<1>0. \A u \in Uses : wrong[u] \subseteq wrong'[u]
  BY WrongGrows
<1>m. FontsMixed => FontsMixed'
  BY <1>0 DEF FontsMixed, CutBefore
<1>1. CASE Begin
  <2>1. /\ pc' = "resetprop" /\ use \in Nat /\ use' = use + 1
        /\ UNCHANGED <<marker, backup, fonts, wrong>>
    BY <1>1 DEF Begin, fontVars, BaseInv
  <2>2. ~marker /\ backup # None =>
           \E v \in Uses : v <= use' /\ "cut" \in wrong'[v] /\ v < use'
    <3>1. SUFFICES ASSUME ~marker, backup # None
                   PROVE  \E v \in Uses : v <= use' /\ "cut" \in wrong'[v] /\ v < use'
      OBVIOUS
    <3>2. PICK v \in Uses : v <= use /\ "cut" \in wrong[v]
      BY <3>1 DEF WrittenInv
    <3> QED
      BY <2>1, <3>2 DEF Uses
  <2> QED
    BY <2>1, <2>2, <1>m DEF WrittenInv, WrittenPC
<1>2. CASE EnsureResetprop
  BY <1>2, <1>0, <1>m, Wrongs DEF EnsureResetprop, Right, propVars, fontVars, cpuVars, useVars,
     BaseInv, WrittenInv, WrittenPC, Uses
<1>3. CASE PropsFail
  BY <1>3, <1>0, <1>m DEF PropsFail, GiveUp, propVars, fontVars, cpuVars, useVars, BaseInv,
     WrittenInv, WrittenPC, Uses
<1>4. CASE ApplyProps
  BY <1>4, <1>0, <1>m, Wrongs DEF ApplyProps, Right, propVars, fontVars, cpuVars, useVars, BaseInv,
     WrittenInv, WrittenPC, Uses
<1>5. CASE ForceProps
  BY <1>5, <1>0, <1>m DEF ForceProps, propVars, fontVars, cpuVars, useVars, BaseInv, WrittenInv,
     WrittenPC, Uses
<1>6. CASE ApplyVersionRelease
  BY <1>6, <1>0, <1>m DEF ApplyVersionRelease, propVars, fontVars, cpuVars, useVars, BaseInv,
     WrittenInv, WrittenPC, Uses
<1>7. CASE InstallFonts
  <2>1. /\ pc = "fonts" /\ pc' = "randomize" /\ use \in Uses /\ kind = "session"
        /\ UNCHANGED <<fonts, use, kind>>
    BY <1>7 DEF InstallFonts, useVars, BaseInv, Uses
  <2>2. CASE UNCHANGED <<marker, backup>>
    BY <2>1, <2>2, <1>0, <1>m DEF WrittenInv, WrittenPC
  <2>3. ASSUME NEW saved \in {backup # None, FALSE},
               backup' = IF saved THEN backup ELSE fonts, marker' = TRUE,
               GoWrong((IF marker THEN {"marker"} ELSE {})
                         \cup (IF saved = (backup # None) THEN {} ELSE {"backup"}))
        PROVE  WrittenInv'
    <3>1. /\ marker => "marker" \in wrong'[use]
          /\ saved # (backup # None) => "backup" \in wrong'[use]
      BY <2>1, <2>3, Wrongs
    <3>2. CASE saved
      BY <2>1, <2>3, <3>2, <1>m DEF WrittenInv, WrittenPC
    <3>3. CASE ~saved /\ backup = None
      BY <2>1, <2>3, <3>3, <1>m DEF WrittenInv, WrittenPC
    <3>4. CASE ~saved /\ backup # None
      <4>1. "backup" \in wrong'[use]
        BY <3>1, <3>4
      <4>2. ~marker => CutBefore(use)'
        BY <2>1, <3>4, <1>0 DEF WrittenInv, CutBefore
      <4>3. FontsMixed'
        BY <2>1, <3>1, <4>1, <4>2 DEF FontsMixed, CutBefore
      <4>4. backup' = fonts /\ fonts \in FontsFile /\ fonts # None
        BY <2>3, <3>4 DEF WrittenInv
      <4> QED
        BY <2>1, <2>3, <4>3, <4>4 DEF WrittenInv, WrittenPC
    <3> QED
      BY <3>2, <3>3, <3>4
  <2> QED
    BY <1>7, <2>2, <2>3 DEF InstallFonts
<1>8. CASE InstallFontsCut
  <2>1. /\ pc = "fonts" /\ pc' = "idle" /\ use \in Uses /\ ~marker
        /\ UNCHANGED <<marker, fonts, use, kind>>
        /\ backup' = IF backup = None THEN fonts ELSE backup
    BY <1>8 DEF InstallFontsCut, GiveUp, useVars, BaseInv, Uses
  <2>2. "cut" \in wrong'[use]
    BY <1>8, <2>1, Wrongs DEF InstallFontsCut
  <2>3. CASE backup = None
    <3>2. fonts.by = 0
      BY <2>3 DEF WrittenInv
    <3>3. fonts.stacked => FontsMixed'
      BY <1>m DEF WrittenInv
    <3> QED
      BY <2>1, <2>2, <2>3, <3>2, <3>3 DEF WrittenInv, BaseInv
  <2>4. CASE backup # None
    BY <2>1, <2>2, <2>4, <1>m DEF WrittenInv, BaseInv
  <2> QED
    BY <2>3, <2>4
<1>9. CASE RandomizeFonts
  <2>1. /\ pc = "randomize" /\ pc' = "gather" /\ use \in Uses /\ kind = "session"
        /\ UNCHANGED <<marker, backup, use, kind, prof, proxy>> /\ todo' = {"settings"}
    BY <1>9 DEF RandomizeFonts, useVars, BaseInv, Uses
  <2>2. ~marker /\ backup # None =>
            \E v \in Uses : v <= use /\ "cut" \in wrong'[v] /\ v < use
    BY <2>1, <1>0 DEF WrittenInv
  <2>3. CASE backup # None /\ fonts' = [by |-> use, stacked |-> backup.by # 0]
    <3>1. fonts' \in FontsFile /\ fonts'.by = use /\ fonts'.stacked = (backup.by # 0)
      BY <2>1, <2>3 DEF FontsFile, Uses
    <3> QED
      BY <2>1, <2>2, <2>3, <3>1, <1>m DEF WrittenInv, WrittenPC
  <2>4. CASE backup = None /\ UNCHANGED fonts
    BY <2>1, <2>4, <1>m DEF WrittenInv, WrittenPC, FontsFile
  <2>5. CASE backup # None /\ GoWrong({"backup"}) /\ UNCHANGED fonts
    <3>1. "backup" \in wrong'[use]
      BY <2>1, <2>5, Wrongs
    <3> QED
      BY <2>1, <2>2, <2>5, <3>1, <1>m DEF WrittenInv, WrittenPC
  <2> QED
    BY <1>9, <2>3, <2>4, <2>5 DEF RandomizeFonts
<1>10. CASE ApplySettings
  <2>1. /\ pc = "gather" /\ pc' = "gather" /\ use \in Uses
        /\ UNCHANGED <<marker, backup, fonts, use, kind, prof, proxy>>
    BY <1>10 DEF ApplySettings, useVars, fontVars, BaseInv, Uses
  <2>2. PICK done \in SUBSET DOMAIN Wanted :
           /\ setting' = [k \in Key |-> IF k \in done THEN Wanted[k] ELSE setting[k]]
           /\ IF done = DOMAIN Wanted THEN Right ELSE GoWrong({"settings"})
    BY <1>10 DEF ApplySettings
  <2>3. kind = "session" /\ "settings" \notin wrong'[use] =>
            setting'["screen"] = prof /\ setting'["http_proxy"] = proxy
    <3>1. "settings" \notin wrong'[use] => done = DOMAIN Wanted
      BY <2>1, <2>2, Wrongs
    <3>2. kind = "session" => /\ DOMAIN Wanted = Key
                              /\ Wanted["screen"] = prof /\ Wanted["http_proxy"] = proxy
      BY DEF Wanted, Key
    <3> QED
      BY <2>2, <3>1, <3>2 DEF Key
  <2> QED
    BY <2>1, <2>3, <1>0, <1>m DEF WrittenInv, WrittenPC
<1>11. CASE SpoofAfterSettings
  BY <1>11, <1>0, <1>m DEF SpoofAfterSettings, propVars, fontVars, cpuVars, useVars, BaseInv,
     WrittenInv, WrittenPC, Uses
<1>12. CASE SpoofCores
  BY <1>12, <1>0, <1>m DEF SpoofCores, propVars, fontVars, cpuVars, useVars, BaseInv, WrittenInv,
     WrittenPC, Uses
<1>13. CASE Unmount
  BY <1>13, <1>0, <1>m, Wrongs DEF Unmount, Right, propVars, fontVars, cpuVars, useVars, BaseInv,
     WrittenInv, WrittenPC, Uses
<1>14. CASE MountOnline
  BY <1>14, <1>0, <1>m, Wrongs DEF MountOnline, Mount, Right, propVars, fontVars, cpuVars, useVars,
     BaseInv, WrittenInv, WrittenPC, Uses
<1>15. CASE MountStat
  BY <1>15, <1>0, <1>m, Wrongs DEF MountStat, Mount, Right, GiveUp, propVars, fontVars, cpuVars,
     useVars, BaseInv, WrittenInv, WrittenPC, Uses
<1>16. CASE ApplyRuntimeArch
  BY <1>16, <1>0, <1>m DEF ApplyRuntimeArch, propVars, fontVars, cpuVars, useVars, BaseInv,
     WrittenInv, WrittenPC, Uses
<1>17. CASE Cut
  BY <1>17, <1>0, <1>m DEF Cut, GiveUp, propVars, fontVars, cpuVars, useVars, BaseInv, WrittenInv,
     WrittenPC, Uses
<1>18. CASE Restart
  BY <1>18, <1>0, <1>m DEF Restart, propVars, fontVars, cpuVars, useVars, BaseInv, WrittenInv,
     WrittenPC, Uses
<1>19. CASE UNCHANGED vars
  BY <1>19, <1>0, <1>m DEF vars, propVars, fontVars, cpuVars, useVars, BaseInv, WrittenInv,
     WrittenPC, Uses
<1> QED
  BY <1>1, <1>2, <1>3, <1>4, <1>5, <1>6, <1>7, <1>8, <1>9, <1>10, <1>11, <1>12, <1>13,
     <1>14, <1>15, <1>16, <1>17, <1>18, <1>19 DEF Next, PropsStep, FontStep, CoreStep

(* A caller's screen, proxy and fonts are its own session's, unless a      *)
(* write or an answer was lost: __aenter__ and randomize_fonts.            *)
THEOREM OwnSettings == Spec => []SettingsOwn
<1>1. Init => WrittenInv
  BY DEF Init, WrittenInv, Original, FontsFile
<1>2. BaseInv /\ WrittenInv /\ [Next]_vars => WrittenInv'
  BY WrittenStep
<1>3. BaseInv /\ WrittenInv => SettingsOwn
  BY DEF BaseInv, WrittenInv, WrittenPC, FontsMixed, CutBefore, SettingsOwn, FontsSpoilt, InUser
<1> QED
  BY <1>1, <1>2, <1>3, BaseAlways, PTL DEF Spec


-----------------------------------------------------------------------------
(* Cores.                                                                  *)

Capped == Least(Cores[prof], RealCores)

(* Mounts lie at most one deep, and none once both paths are unmounted,    *)
(* unless an unmount failed or a mount was made twice; the count that is   *)
(* read is always one the device could have, for it is capped by what is   *)
(* visible.                                                                *)
CoresInv ==
    /\ depth \in [Path -> Nat] /\ file \in [Path -> Nat]
    /\ depth["online"] > 0 => file["online"] \in 1..RealCores
    /\ ~Stuck => \A p \in Path : depth[p] <= 1
    /\ ~Stuck /\ pc \in {"online", "stat"} => depth["stat"] = 0
    /\ ~Stuck /\ pc = "online" => depth["online"] = 0
    /\ pc \in {"stat", "user"} => /\ depth["online"] > 0
                                  /\ file["online"] \in 1..Capped
                                  /\ ~Stuck => file["online"] = Capped
    /\ pc = "user" => depth["stat"] > 0 /\ file["stat"] = file["online"]

LEMMA Counts ==
    /\ \A p \in Profile : Cores[p] \in Nat /\ Cores[p] >= 1
    /\ RealCores \in Nat /\ RealCores >= 1
  BY SettingsAssumption

LEMMA CoresInit == Init => CoresInv
  BY Counts DEF Init, CoresInv, Path

LEMMA CoresStep == ASSUME BaseInv, CoresInv, [Next]_vars PROVE CoresInv'
<1> USE Counts
<1>0. \A u \in Uses : wrong[u] \subseteq wrong'[u]
  BY WrongGrows
<1>b. booted' = booted => (Stuck => Stuck')
  BY <1>0 DEF Stuck
<1>k. pc # "idle" => use \in Uses /\ use > booted /\ prof \in Profile
  BY DEF BaseInv, Uses
<1>1. CASE Begin
  <2>1. UNCHANGED <<depth, file, booted>> /\ pc' = "resetprop"
    BY <1>1 DEF Begin, cpuVars, useVars
  <2> QED
    BY <2>1, <1>b DEF CoresInv
<1>2. CASE EnsureResetprop
  <2>1. UNCHANGED <<depth, file, booted, prof>> /\ pc' # "user" /\ pc' \notin {"online", "stat"}
    BY <1>2 DEF EnsureResetprop, cpuVars, useVars
  <2> QED
    BY <2>1, <1>b DEF CoresInv
<1>3. CASE PropsFail
  <2>1. UNCHANGED <<depth, file, booted, prof>> /\ pc' # "user" /\ pc' \notin {"online", "stat"}
    BY <1>3 DEF PropsFail, GiveUp, cpuVars, useVars
  <2> QED
    BY <2>1, <1>b DEF CoresInv
<1>4. CASE ApplyProps
  <2>1. UNCHANGED <<depth, file, booted, prof>> /\ pc' # "user" /\ pc' \notin {"online", "stat"}
    BY <1>4 DEF ApplyProps, cpuVars, useVars
  <2> QED
    BY <2>1, <1>b DEF CoresInv
<1>5. CASE ForceProps
  <2>1. UNCHANGED <<depth, file, booted, prof>> /\ pc' # "user" /\ pc' \notin {"online", "stat"}
    BY <1>5 DEF ForceProps, cpuVars, useVars
  <2> QED
    BY <2>1, <1>b DEF CoresInv
<1>6. CASE ApplyVersionRelease
  <2>1. UNCHANGED <<depth, file, booted, prof>> /\ pc' # "user" /\ pc' \notin {"online", "stat"}
    BY <1>6 DEF ApplyVersionRelease, cpuVars, useVars
  <2> QED
    BY <2>1, <1>b DEF CoresInv
<1>7. CASE InstallFonts
  <2>1. UNCHANGED <<depth, file, booted, prof>> /\ pc' # "user" /\ pc' \notin {"online", "stat"}
    BY <1>7 DEF InstallFonts, cpuVars, useVars
  <2> QED
    BY <2>1, <1>b DEF CoresInv
<1>8. CASE InstallFontsCut
  <2>1. UNCHANGED <<depth, file, booted, prof>> /\ pc' # "user" /\ pc' \notin {"online", "stat"}
    BY <1>8 DEF InstallFontsCut, GiveUp, cpuVars, useVars
  <2> QED
    BY <2>1, <1>b DEF CoresInv
<1>9. CASE RandomizeFonts
  <2>1. UNCHANGED <<depth, file, booted, prof>> /\ pc' # "user" /\ pc' \notin {"online", "stat"}
    BY <1>9 DEF RandomizeFonts, cpuVars, useVars
  <2> QED
    BY <2>1, <1>b DEF CoresInv
<1>10. CASE ApplySettings
  <2>1. UNCHANGED <<depth, file, booted, prof>> /\ pc' # "user" /\ pc' \notin {"online", "stat"}
    BY <1>10 DEF ApplySettings, cpuVars, useVars
  <2> QED
    BY <2>1, <1>b DEF CoresInv
<1>11. CASE SpoofAfterSettings
  <2>1. UNCHANGED <<depth, file, booted, prof>> /\ pc' # "user" /\ pc' \notin {"online", "stat"}
    BY <1>11 DEF SpoofAfterSettings, cpuVars, useVars
  <2> QED
    BY <2>1, <1>b DEF CoresInv
<1>12. CASE SpoofCores
  <2>1. UNCHANGED <<depth, file, booted, prof>> /\ pc' # "user" /\ pc' \notin {"online", "stat"}
    BY <1>12 DEF SpoofCores, cpuVars, useVars
  <2> QED
    BY <2>1, <1>b DEF CoresInv
<1>13. CASE Unmount
  <2>1. /\ pc = "unmount" /\ pc' = "online" /\ UNCHANGED <<file, prof, use, booted>>
    BY <1>13 DEF Unmount, useVars
  <2>2. PICK gone \in SUBSET Path :
           /\ depth' = [p \in Path |-> IF p \in gone /\ depth[p] > 0 THEN depth[p] - 1
                                       ELSE depth[p]]
           /\ IF gone = Path THEN Right ELSE GoWrong({"unmount"})
    BY <1>13 DEF Unmount
  <2>3. /\ depth' \in [Path -> Nat] /\ \A p \in Path : depth'[p] <= depth[p]
        /\ \A p \in Path : p \in gone /\ depth[p] <= 1 => depth'[p] = 0
    BY <2>2 DEF CoresInv
  <2>4. ~Stuck' => gone = Path /\ ~Stuck
    <3>1. gone # Path => "unmount" \in wrong'[use]
      BY <2>1, <2>2, Wrongs
    <3>2. "unmount" \in wrong'[use] => Stuck'
      BY <2>1, <1>k DEF Stuck
    <3> QED
      BY <2>1, <3>1, <3>2, <1>b
  <2> QED
    BY <2>1, <2>3, <2>4 DEF CoresInv, Path
<1>14. CASE MountOnline
  <2>1. /\ pc = "online" /\ pc' = "stat" /\ UNCHANGED <<prof, use, booted>>
        /\ file' = [file EXCEPT !["online"] = Least(Cores[prof], Visible("online"))]
    BY <1>14 DEF MountOnline, useVars
  <2>2. \/ depth' = [depth EXCEPT !["online"] = @ + 1] /\ Right
        \/ depth' = [depth EXCEPT !["online"] = @ + 2] /\ GoWrong({"mount"})
    BY <1>14 DEF MountOnline, Mount
  <2>3. ~Stuck' => ~Stuck /\ depth' = [depth EXCEPT !["online"] = @ + 1]
    <3>1. depth' # [depth EXCEPT !["online"] = @ + 1] => "mount" \in wrong'[use]
      BY <2>1, <2>2, Wrongs
    <3>2. "mount" \in wrong'[use] => Stuck'
      BY <2>1, <1>k DEF Stuck
    <3> QED
      BY <2>1, <3>1, <3>2, <1>b
  <2>4. /\ Visible("online") \in 1..RealCores
        /\ ~Stuck => Visible("online") = RealCores
    BY <2>1 DEF CoresInv, Visible, Path
  <2>5. /\ Least(Cores[prof], Visible("online")) \in 1..Capped
        /\ ~Stuck => Least(Cores[prof], Visible("online")) = Capped
        /\ Capped \in 1..RealCores
    BY <2>1, <2>4, <1>k DEF Least, Capped
  <2>6. /\ depth' \in [Path -> Nat] /\ file' \in [Path -> Nat]
        /\ depth'["online"] > 0 /\ depth'["stat"] = depth["stat"]
        /\ file'["online"] = Least(Cores[prof], Visible("online"))
    BY <2>1, <2>2, <2>5 DEF CoresInv, Path
  <2>7. ~Stuck' => depth'["online"] = 1 /\ depth'["stat"] = 0
    BY <2>1, <2>3 DEF CoresInv, Path
  <2>8. Capped' = Capped
    BY <2>1 DEF Capped
  <2> QED
    BY <2>1, <2>3, <2>5, <2>6, <2>7, <2>8 DEF CoresInv, Path
<1>15. CASE MountStat
  <2>0. pc = "stat" /\ UNCHANGED <<prof, use, booted>>
    BY <1>15 DEF MountStat, useVars
  <2>1. CASE /\ depth["stat"] > 0 /\ pc' = "idle" /\ UNCHANGED <<depth, wrong>>
             /\ file' = [file EXCEPT !["stat"] = 0]
    BY <2>0, <2>1, <1>b DEF CoresInv, Path, Stuck
  <2>2. CASE /\ depth["stat"] = 0 /\ pc' \in {"user", "gather"}
             /\ file' = [file EXCEPT !["stat"] = Least(file["online"], RealCores)]
             /\ Mount("stat")
    <3>1. /\ depth["online"] > 0 /\ file["online"] \in 1..Capped
          /\ ~Stuck => file["online"] = Capped
          /\ Capped \in 1..RealCores
      BY <2>0, <1>k DEF CoresInv, Capped, Least
    <3>2. Least(file["online"], RealCores) = file["online"]
      BY <3>1 DEF Least
    <3>3. \/ depth' = [depth EXCEPT !["stat"] = @ + 1] /\ Right
          \/ depth' = [depth EXCEPT !["stat"] = @ + 2] /\ GoWrong({"mount"})
      BY <2>2 DEF Mount
    <3>4. ~Stuck' => ~Stuck /\ depth' = [depth EXCEPT !["stat"] = @ + 1]
      <4>1. depth' # [depth EXCEPT !["stat"] = @ + 1] => "mount" \in wrong'[use]
        BY <2>0, <3>3, Wrongs
      <4>2. "mount" \in wrong'[use] => Stuck'
        BY <2>0, <1>k DEF Stuck
      <4> QED
        BY <2>0, <4>1, <4>2, <1>b
    <3>5. /\ depth' \in [Path -> Nat] /\ file' \in [Path -> Nat]
          /\ depth'["stat"] > 0 /\ depth'["online"] = depth["online"]
          /\ file'["online"] = file["online"] /\ file'["stat"] = file["online"]
      BY <2>2, <3>1, <3>2, <3>3 DEF CoresInv, Path
    <3>6. ~Stuck' => depth'["stat"] = 1 /\ depth'["online"] <= 1
      BY <2>2, <3>4 DEF CoresInv, Path
    <3>7. Capped' = Capped
      BY <2>0 DEF Capped
    <3> QED
      BY <2>2, <3>1, <3>4, <3>5, <3>6, <3>7 DEF CoresInv, Path
  <2> QED
    BY <1>15, <2>1, <2>2 DEF MountStat, GiveUp, CoresInv, Path
<1>16. CASE ApplyRuntimeArch
  <2>1. UNCHANGED <<depth, file, booted, prof>> /\ pc' # "user" /\ pc' \notin {"online", "stat"}
    BY <1>16 DEF ApplyRuntimeArch, cpuVars, useVars
  <2> QED
    BY <2>1, <1>b DEF CoresInv
<1>17. CASE Cut
  <2>1. UNCHANGED <<depth, file, booted, prof>> /\ pc' # "user" /\ pc' \notin {"online", "stat"}
    BY <1>17 DEF Cut, GiveUp, cpuVars, useVars
  <2> QED
    BY <2>1, <1>b DEF CoresInv
<1>18. CASE Restart
  <2>1. /\ pc = "idle" /\ pc' = "idle" /\ depth' = [p \in Path |-> 0] /\ file' = file
    BY <1>18 DEF Restart
  <2> QED
    BY <2>1 DEF CoresInv, Path
<1>19. CASE UNCHANGED vars
  BY <1>19, <1>b DEF vars, CoresInv, Stuck, Capped
<1> QED
  BY <1>1, <1>2, <1>3, <1>4, <1>5, <1>6, <1>7, <1>8, <1>9, <1>10, <1>11, <1>12, <1>13,
     <1>14, <1>15, <1>16, <1>17, <1>18, <1>19 DEF Next, PropsStep, FontStep, CoreStep

(* A caller's Chrome counts the profile's cores, at most the device's, and *)
(* its two sources agree: apply_cpu_cores_spoof of root.py.                *)
THEOREM CoresShown == Spec => []CoresAsProfiled
<1>1. BaseInv /\ CoresInv /\ [Next]_vars => CoresInv'
  BY CoresStep
<1>2. BaseInv /\ CoresInv => CoresAsProfiled
  BY DEF BaseInv, CoresInv, CoresAsProfiled, InUser, Visible, Capped
<1> QED
  BY CoresInit, <1>1, <1>2, BaseAlways, PTL DEF Spec

-----------------------------------------------------------------------------
(* The types of what the invariants above say nothing about.               *)
RestTypes ==
    /\ props \in Profile \cup {None} /\ release \in Nat /\ sdk \in Nat
    /\ arm \in BOOLEAN /\ binary \in {"none", "native", "foreign"}
    /\ marker \in BOOLEAN
    /\ setting \in [Key -> Profile \cup Proxy \cup {None}]
    /\ proxy \in Proxy \cup {None}
    /\ todo \subseteq {"release", "settings", "cpu"}
    /\ wrong \in [Uses -> SUBSET Exchange]

LEMMA RestTypesStep == ASSUME BaseInv, RestTypes, [Next]_vars PROVE RestTypes'
<1> USE SettingsAssumption DEF RestTypes, propVars, fontVars, cpuVars, useVars
<1>0. ASSUME NEW xs, GoWrong(xs), pc # "idle" PROVE wrong' \in [Uses -> SUBSET Exchange]
  BY <1>0 DEF GoWrong
<1>p. prof \in Profile
  BY DEF BaseInv
<1> USE <1>0, <1>p DEF Right, GiveUp
<1>1. CASE Begin
  BY <1>1 DEF Begin, Current
<1>2. CASE EnsureResetprop
  BY <1>2 DEF EnsureResetprop, PushResetprop
<1>3. CASE PropsFail
  BY <1>3 DEF PropsFail
<1>4. CASE ApplyProps
  BY <1>4 DEF ApplyProps
<1>5. CASE ForceProps
  BY <1>5 DEF ForceProps
<1>6. CASE ApplyVersionRelease
  BY <1>6 DEF ApplyVersionRelease
<1>7. CASE InstallFonts
  BY <1>7 DEF InstallFonts
<1>8. CASE InstallFontsCut
  BY <1>8 DEF InstallFontsCut
<1>9. CASE RandomizeFonts
  BY <1>9 DEF RandomizeFonts
<1>10. CASE ApplySettings
  <2>1. \A k \in DOMAIN Wanted : Wanted[k] \in Profile \cup Proxy \cup {None}
    BY DEF Wanted
  <2>2. PICK done \in SUBSET DOMAIN Wanted :
           setting' = [k \in Key |-> IF k \in done THEN Wanted[k] ELSE setting[k]]
    BY <1>10 DEF ApplySettings
  <2>3. setting' \in [Key -> Profile \cup Proxy \cup {None}]
    BY <2>1, <2>2
  <2>4. wrong' \in [Uses -> SUBSET Exchange]
    BY <1>10 DEF ApplySettings
  <2> QED BY <1>10, <2>3, <2>4 DEF ApplySettings
<1>11. CASE SpoofAfterSettings
  BY <1>11 DEF SpoofAfterSettings
<1>12. CASE SpoofCores
  BY <1>12 DEF SpoofCores
<1>13. CASE Unmount
  BY <1>13 DEF Unmount
<1>14. CASE MountOnline
  BY <1>14 DEF MountOnline, Mount
<1>15. CASE MountStat
  BY <1>15 DEF MountStat, Mount
<1>16. CASE ApplyRuntimeArch
  BY <1>16 DEF ApplyRuntimeArch
<1>17. CASE Cut
  BY <1>17 DEF Cut
<1>18. CASE Restart
  BY <1>18 DEF Restart
<1>19. CASE UNCHANGED vars
  BY <1>19 DEF vars
<1> QED
  BY <1>1, <1>2, <1>3, <1>4, <1>5, <1>6, <1>7, <1>8, <1>9, <1>10, <1>11, <1>12, <1>13,
     <1>14, <1>15, <1>16, <1>17, <1>18, <1>19 DEF Next, PropsStep, FontStep, CoreStep

(* Every variable of the settings keeps its type.                          *)
THEOREM TypeCorrect == Spec => []TypeOK
<1>1. Init => RestTypes
  BY SettingsAssumption DEF Init, RestTypes
<1>2. BaseInv /\ RestTypes /\ [Next]_vars => RestTypes'
  BY RestTypesStep
<1>3. Init => WrittenInv /\ CoresInv
  BY CoresInit, SettingsAssumption DEF Init, WrittenInv, Original, FontsFile, WrittenPC
<1>4. /\ BaseInv /\ WrittenInv /\ [Next]_vars => WrittenInv'
      /\ BaseInv /\ CoresInv /\ [Next]_vars => CoresInv'
  BY WrittenStep, CoresStep
<1>5. BaseInv /\ WrittenInv /\ CoresInv /\ RestTypes => TypeOK
  BY SettingsAssumption DEF BaseInv, WrittenInv, CoresInv, RestTypes, TypeOK, Uses
<1> QED
  BY <1>1, <1>2, <1>3, <1>4, <1>5, BaseAlways, PTL DEF Spec
=============================================================================
