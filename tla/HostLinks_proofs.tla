-------------------------- MODULE HostLinks_proofs --------------------------
(***************************************************************************)
(* Proofs about HostLinks for any number of devices, ports, upstreams and  *)
(* zones, and all bounds.                                                  *)
(***************************************************************************)
EXTENDS HostLinks, TLAPS

(* Where a session holds a local port, and where it has gone through it.   *)
LinkPC == {"connect", "sync", "override", "reapply", "user"}
PortPC == {"clear", "forward"} \cup LinkPC

AllPC == {"idle", "probe", "start", "ready", "geo", "zone", "proxy",
          "choose", "clear", "forward", "connect", "sync", "override",
          "reapply", "user", "detached", "put", "opened"}

(* The shape of a session's record is all the solvers need of it.          *)
Fields == {"pc", "open", "up", "port", "link", "again", "asked", "prof", "found",
           "page", "raced", "lostZone", "lostProxy"}

UseShape == /\ DOMAIN use = Device
            /\ \A d \in Device : DOMAIN use[d] = Fields

LEMMA IdleShape ==
    /\ DOMAIN Idle = Fields
    /\ Idle.pc = "idle" /\ Idle.open = FALSE /\ Idle.up = None /\ Idle.port = None
    /\ Idle.link = None /\ Idle.again = FALSE /\ Idle.asked = None /\ Idle.found = None
    /\ Idle.page = None /\ Idle.raced = FALSE /\ Idle.lostZone = FALSE
    /\ Idle.lostProxy = FALSE
  BY DEF Idle, Fields

-----------------------------------------------------------------------------
(* Steps.                                                                  *)

(* Which session an action belongs to.                                     *)
Act(d) == Resolve(d) \/ Automated(d) \/ Opened(d)

(* An action of d changes no other session, except that the choice of a    *)
(* port may tell another that it is raced.                                 *)
SameButRaced(e) ==
    /\ use'[e].pc = use[e].pc /\ use'[e].up = use[e].up /\ use'[e].port = use[e].port
    /\ use'[e].link = use[e].link /\ use'[e].again = use[e].again
    /\ use'[e].asked = use[e].asked /\ use'[e].prof = use[e].prof
    /\ use'[e].found = use[e].found /\ use'[e].page = use[e].page
    /\ use'[e].open = use[e].open /\ use'[e].lostZone = use[e].lostZone
    /\ use'[e].lostProxy = use[e].lostProxy

LEMMA ChooseShape ==
    ASSUME UseShape, NEW d \in Device, ChoosePort(d)
    PROVE  /\ UseShape'
           /\ \E p \in Port :
                /\ forward[p] = None
                /\ use'[d].port = p /\ use'[d].pc = "clear"
                /\ use'[d].up = use[d].up /\ use'[d].link = use[d].link
                /\ use'[d].again = use[d].again /\ use'[d].asked = use[d].asked
                /\ use'[d].prof = use[d].prof /\ use'[d].found = use[d].found
                /\ use'[d].page = use[d].page /\ use'[d].open = use[d].open
                /\ use'[d].lostZone = use[d].lostZone
                /\ use'[d].lostProxy = use[d].lostProxy
                /\ use[d].raced \/ (\E e \in Device \ {d} : use[e].port = p) => use'[d].raced
                /\ \A e \in Device \ {d} : use[e].raced \/ use[e].port = p => use'[e].raced
           /\ \A e \in Device \ {d} : SameButRaced(e)
<1> USE DEF UseShape, Fields
<1>1. PICK p \in Port : forward[p] = None /\ Choose(d, p)
  BY DEF ChoosePort
<1> DEFINE Clash(o) == forward[p] = None /\ use[o].port = p
           chosen == [use[d] EXCEPT !.port = p, !.pc = "clear",
                                    !.raced = @ \/ \E o \in Device \ {d} : Clash(o)]
           told(e) == [use[e] EXCEPT !.raced = @ \/ Clash(e)]
<1>2. use' = [e \in Device |-> IF e = d THEN chosen ELSE told(e)]
  BY <1>1 DEF Choose
<1>3. use'[d] = chosen /\ \A e \in Device \ {d} : use'[e] = told(e)
  BY <1>2
<1>4. /\ DOMAIN chosen = Fields /\ chosen.port = p /\ chosen.pc = "clear"
      /\ chosen.up = use[d].up /\ chosen.link = use[d].link
      /\ chosen.again = use[d].again /\ chosen.asked = use[d].asked
      /\ chosen.prof = use[d].prof /\ chosen.found = use[d].found
      /\ chosen.page = use[d].page /\ chosen.open = use[d].open
      /\ chosen.lostZone = use[d].lostZone /\ chosen.lostProxy = use[d].lostProxy
      /\ chosen.raced = (use[d].raced \/ \E o \in Device \ {d} : Clash(o))
  OBVIOUS
<1>5. ASSUME NEW e \in Device \ {d}
      PROVE  /\ DOMAIN told(e) = Fields
             /\ told(e).pc = use[e].pc /\ told(e).up = use[e].up /\ told(e).port = use[e].port
             /\ told(e).link = use[e].link /\ told(e).again = use[e].again
             /\ told(e).asked = use[e].asked /\ told(e).prof = use[e].prof
             /\ told(e).found = use[e].found /\ told(e).page = use[e].page
             /\ told(e).open = use[e].open /\ told(e).lostZone = use[e].lostZone
             /\ told(e).lostProxy = use[e].lostProxy
             /\ told(e).raced = (use[e].raced \/ Clash(e))
  OBVIOUS
<1> HIDE DEF chosen, told
<1>6. UseShape'
  BY <1>2, <1>3, <1>4, <1>5
<1>7. \A e \in Device \ {d} : SameButRaced(e)
  BY <1>3, <1>5 DEF SameButRaced
<1>8. use[d].raced \/ (\E e \in Device \ {d} : use[e].port = p) => use'[d].raced
  BY <1>1, <1>3, <1>4
<1>9. \A e \in Device \ {d} : use[e].raced \/ use[e].port = p => use'[e].raced
  BY <1>1, <1>3, <1>5
<1> QED
  BY <1>1, <1>3, <1>4, <1>6, <1>7, <1>8, <1>9

LEMMA Frame ==
    ASSUME UseShape, NEW d \in Device, Act(d)
    PROVE  /\ UseShape'
           /\ \A e \in Device \ {d} : SameButRaced(e)
           /\ ~ChoosePort(d) => \A e \in Device \ {d} : use'[e] = use[e]
<1> USE IdleShape
<1>1. CASE Begin(d)
  BY <1>1 DEF Begin, At, UseShape, Fields, SameButRaced
<1>2. CASE Geo(d)
  BY <1>2 DEF Geo, At, UseShape, Fields, SameButRaced
<1>3. CASE ApplyZone(d)
  BY <1>3 DEF ApplyZone, At, Go, UseShape, Fields, SameButRaced
<1>4. CASE ChoosePort(d)
  BY <1>4, ChooseShape
<1>5. CASE ClearPort(d)
  BY <1>5 DEF ClearPort, At, Removed, Go, UseShape, Fields, SameButRaced
<1>6. CASE Forward(d)
  BY <1>6 DEF Forward, At, Go, UseShape, Fields, SameButRaced
<1>7. CASE Connect(d)
  BY <1>7 DEF Connect, At, UseShape, Fields, SameButRaced
<1>8. CASE SyncGeo(d)
  BY <1>8 DEF SyncGeo, At, UseShape, Fields, SameButRaced
<1>9. CASE Override(d)
  BY <1>9 DEF Override, At, Go, GoesWrong, UseShape, Fields, SameButRaced
<1>10. CASE NoReapply(d)
  BY <1>10 DEF NoReapply, At, Go, UseShape, Fields, SameButRaced
<1>11. CASE Detach(d)
  BY <1>11 DEF Detach, At, Removed, GoesWrong, UseShape, Fields, SameButRaced
<1>12. CASE Reattach(d)
  BY <1>12 DEF Reattach, At, UseShape, Fields, SameButRaced
<1>13. CASE Swap(d)
  BY <1>13 DEF Swap, At, UseShape, Fields, SameButRaced
<1>14. CASE End(d)
  BY <1>14 DEF End, At, Removed, GoesWrong, UseShape, Fields, SameButRaced
<1>15. CASE Abandon(d)
  BY <1>15 DEF Abandon, At, GoesWrong, UseShape, Fields, SameButRaced
<1>16. CASE BeginOpen(d)
  BY <1>16 DEF BeginOpen, At, UseShape, Fields, SameButRaced
<1>17. CASE ProbeBridge(d)
  BY <1>17 DEF ProbeBridge, Resolved, At, Go, UseShape, Fields, SameButRaced
<1>18. CASE StartBridge(d)
  BY <1>18 DEF StartBridge, At, Go, UseShape, Fields, SameButRaced
<1>19. CASE AwaitBridge(d)
  BY <1>19 DEF AwaitBridge, Resolved, At, Go, UseShape, Fields, SameButRaced
<1>20. CASE PutProxy(d)
  BY <1>20 DEF PutProxy, At, Go, UseShape, Fields, SameButRaced
<1>21. CASE SetProxy(d)
  BY <1>21 DEF SetProxy, At, Go, GoesWrong, UseShape, Fields, SameButRaced
<1>22. CASE Close(d)
  BY <1>22 DEF Close, At, UseShape, Fields, SameButRaced
<1> QED
  BY <1>1, <1>2, <1>3, <1>4, <1>5, <1>6, <1>7, <1>8, <1>9, <1>10, <1>11, <1>12, <1>13, <1>14,
     <1>15, <1>16, <1>17, <1>18, <1>19, <1>20, <1>21, <1>22 DEF Act, Resolve, Automated, Attach, Opened

-----------------------------------------------------------------------------
(* Connections.                                                            *)

(* A session has a port exactly from choosing it to giving it up.          *)
PortInv ==
    \A d \in Device :
        /\ use[d].pc \in PortPC => use[d].port \in Port
        /\ use[d].pc \notin PortPC => use[d].port = None

(* Sessions that share a port know it, unlike the code they stand for.     *)
SharedInv ==
    \A d, e \in Device :
        d # e /\ use[d].port # None /\ use[d].port = use[e].port => use[d].raced

(* A port that is not shared leads to its session's device or nowhere.     *)
LeadInv ==
    \A d \in Device :
        ~use[d].raced /\ use[d].pc \in LinkPC => forward[use[d].port] \in {d, None}

LinkInv == /\ UseShape /\ DOMAIN forward = Port
           /\ PortInv /\ SharedInv /\ LeadInv /\ CdpReachesOwnDevice

LEMMA LinkInit == Init => LinkInv
<1> SUFFICES ASSUME Init PROVE LinkInv
  OBVIOUS
<1>1. \A d \in Device : use[d] = Idle
  BY DEF Init
<1> QED
  BY <1>1, IdleShape DEF Init, LinkInv, UseShape, PortInv, SharedInv, LeadInv,
                         CdpReachesOwnDevice, PortPC, LinkPC

(* What an action of d may do to adb's forwards.                           *)
ForwardStep(d) ==
    /\ DOMAIN forward' = Port
    /\ \A p \in Port :
          \/ forward'[p] \in {forward[p], None}
          \/ forward'[p] = d /\ use[d].port = p /\ use[d].pc = "forward"

LEMMA ForwardSteps ==
    ASSUME LinkInv, NEW d \in Device, Act(d)
    PROVE  ForwardStep(d)
<1>0. UseShape /\ DOMAIN forward = Port /\ use[d].port \in Port \cup {None}
  BY DEF LinkInv, PortInv, PortPC
<1>1. CASE Begin(d)
  BY <1>1, <1>0 DEF Begin, At, ForwardStep, Keep, shared, UseShape
<1>2. CASE Geo(d)
  BY <1>2, <1>0 DEF Geo, At, ForwardStep, Keep, shared, UseShape
<1>3. CASE ApplyZone(d)
  BY <1>3, <1>0 DEF ApplyZone, At, Go, ForwardStep, Keep, shared, UseShape
<1>4. CASE ChoosePort(d)
  BY <1>4, <1>0 DEF ChoosePort, ForwardStep, Keep, shared, UseShape
<1>5. CASE ClearPort(d)
  BY <1>5, <1>0 DEF ClearPort, At, Removed, Go, ForwardStep, Keep, shared, UseShape
<1>6. CASE Forward(d)
  BY <1>6, <1>0 DEF Forward, At, Go, ForwardStep, Keep, shared, UseShape
<1>7. CASE Connect(d)
  BY <1>7, <1>0 DEF Connect, At, ForwardStep, Keep, shared, UseShape
<1>8. CASE SyncGeo(d)
  BY <1>8, <1>0 DEF SyncGeo, At, ForwardStep, Keep, shared, UseShape
<1>9. CASE Override(d)
  BY <1>9, <1>0 DEF Override, At, Go, GoesWrong, ForwardStep, Keep, shared, UseShape
<1>10. CASE NoReapply(d)
  BY <1>10, <1>0 DEF NoReapply, At, Go, ForwardStep, Keep, shared, UseShape
<1>11. CASE Detach(d)
  BY <1>11, <1>0 DEF Detach, At, Removed, GoesWrong, ForwardStep, Keep, shared, UseShape
<1>12. CASE Reattach(d)
  BY <1>12, <1>0 DEF Reattach, At, ForwardStep, Keep, shared, UseShape
<1>13. CASE Swap(d)
  BY <1>13, <1>0 DEF Swap, At, ForwardStep, Keep, shared, UseShape
<1>14. CASE End(d)
  BY <1>14, <1>0 DEF End, At, Removed, GoesWrong, ForwardStep, Keep, shared, UseShape
<1>15. CASE Abandon(d)
  BY <1>15, <1>0 DEF Abandon, At, GoesWrong, ForwardStep, Keep, shared, UseShape
<1>16. CASE BeginOpen(d)
  BY <1>16, <1>0 DEF BeginOpen, At, ForwardStep, Keep, shared, UseShape
<1>17. CASE ProbeBridge(d)
  BY <1>17, <1>0 DEF ProbeBridge, Resolved, At, Go, ForwardStep, Keep, shared, UseShape
<1>18. CASE StartBridge(d)
  BY <1>18, <1>0 DEF StartBridge, At, Go, ForwardStep, Keep, shared, UseShape
<1>19. CASE AwaitBridge(d)
  BY <1>19, <1>0 DEF AwaitBridge, Resolved, At, Go, ForwardStep, Keep, shared, UseShape
<1>20. CASE PutProxy(d)
  BY <1>20, <1>0 DEF PutProxy, At, Go, ForwardStep, Keep, shared, UseShape
<1>21. CASE SetProxy(d)
  BY <1>21, <1>0 DEF SetProxy, At, Go, GoesWrong, ForwardStep, Keep, shared, UseShape
<1>22. CASE Close(d)
  BY <1>22, <1>0 DEF Close, At, ForwardStep, Keep, shared, UseShape
<1> QED
  BY <1>1, <1>2, <1>3, <1>4, <1>5, <1>6, <1>7, <1>8, <1>9, <1>10, <1>11, <1>12, <1>13, <1>14,
     <1>15, <1>16, <1>17, <1>18, <1>19, <1>20, <1>21, <1>22 DEF Act, Resolve, Automated, Attach, Opened

(* What an action of d leaves of d's own record.                           *)
OwnLink(d) ==
    /\ use'[d].pc \in PortPC => use'[d].port \in Port
    /\ use'[d].pc \notin PortPC => use'[d].port = None
    /\ use'[d].port # None /\ ~ChoosePort(d) =>
          use'[d].port = use[d].port /\ use'[d].raced = use[d].raced
    /\ ~use'[d].raced /\ use'[d].pc \in LinkPC => forward'[use'[d].port] \in {d, None}
    /\ use'[d].link \in {d, None} \/ use'[d].raced

LEMMA OwnLinks ==
    ASSUME LinkInv, NEW d \in Device, Act(d)
    PROVE  OwnLink(d)
<1> USE HostLinksAssumption, IdleShape
<1>0. /\ UseShape /\ DOMAIN forward = Port
      /\ use[d].pc \in PortPC => use[d].port \in Port
      /\ use[d].pc \notin PortPC => use[d].port = None
      /\ ~use[d].raced /\ use[d].pc \in LinkPC => forward[use[d].port] \in {d, None}
      /\ use[d].link \in {d, None} \/ use[d].raced
  BY DEF LinkInv, PortInv, LeadInv, CdpReachesOwnDevice
<1>1. CASE Begin(d)
  BY <1>1, <1>0 DEF Begin, At, OwnLink, Keep, shared, UseShape, Fields, PortPC, LinkPC
<1>2. CASE Geo(d)
  BY <1>2, <1>0 DEF Geo, At, OwnLink, Keep, shared, UseShape, Fields, PortPC, LinkPC
<1>3. CASE ApplyZone(d)
  BY <1>3, <1>0 DEF ApplyZone, At, Go, OwnLink, Keep, shared, UseShape, Fields, PortPC, LinkPC
<1>4. CASE ChoosePort(d)
  BY <1>4, <1>0, ChooseShape DEF ChoosePort, OwnLink, PortPC, LinkPC
<1>5. CASE ClearPort(d)
  BY <1>5, <1>0 DEF ClearPort, At, Removed, Go, OwnLink, Keep, shared, UseShape, Fields, PortPC,
     LinkPC
<1>6. CASE Forward(d)
  BY <1>6, <1>0 DEF Forward, At, Go, OwnLink, Keep, shared, UseShape, Fields, PortPC, LinkPC
<1>7. CASE Connect(d)
  BY <1>7, <1>0 DEF Connect, At, OwnLink, Keep, shared, UseShape, Fields, PortPC, LinkPC
<1>8. CASE SyncGeo(d)
  BY <1>8, <1>0 DEF SyncGeo, At, OwnLink, Keep, shared, UseShape, Fields, PortPC, LinkPC
<1>9. CASE Override(d)
  BY <1>9, <1>0 DEF Override, At, Go, GoesWrong, OwnLink, Keep, shared, UseShape, Fields, PortPC,
     LinkPC
<1>10. CASE NoReapply(d)
  BY <1>10, <1>0 DEF NoReapply, At, Go, OwnLink, Keep, shared, UseShape, Fields, PortPC, LinkPC
<1>11. CASE Detach(d)
  BY <1>11, <1>0 DEF Detach, At, Removed, GoesWrong, OwnLink, Keep, shared, UseShape, Fields,
     PortPC, LinkPC
<1>12. CASE Reattach(d)
  BY <1>12, <1>0 DEF Reattach, At, OwnLink, Keep, shared, UseShape, Fields, PortPC, LinkPC
<1>13. CASE Swap(d)
  BY <1>13, <1>0 DEF Swap, At, OwnLink, Keep, shared, UseShape, Fields, PortPC, LinkPC
<1>14. CASE End(d)
  BY <1>14, <1>0 DEF End, At, Removed, GoesWrong, OwnLink, Keep, shared, UseShape, Fields, PortPC,
     LinkPC
<1>15. CASE Abandon(d)
  BY <1>15, <1>0 DEF Abandon, At, GoesWrong, OwnLink, Keep, shared, UseShape, Fields, PortPC, LinkPC
<1>16. CASE BeginOpen(d)
  BY <1>16, <1>0 DEF BeginOpen, At, OwnLink, Keep, shared, UseShape, Fields, PortPC, LinkPC
<1>17. CASE ProbeBridge(d)
  BY <1>17, <1>0 DEF ProbeBridge, Resolved, At, Go, OwnLink, Keep, shared, UseShape, Fields, PortPC, LinkPC
<1>18. CASE StartBridge(d)
  BY <1>18, <1>0 DEF StartBridge, At, Go, OwnLink, Keep, shared, UseShape, Fields, PortPC, LinkPC
<1>19. CASE AwaitBridge(d)
  BY <1>19, <1>0 DEF AwaitBridge, Resolved, At, Go, OwnLink, Keep, shared, UseShape, Fields, PortPC, LinkPC
<1>20. CASE PutProxy(d)
  BY <1>20, <1>0 DEF PutProxy, At, Go, OwnLink, Keep, shared, UseShape, Fields, PortPC, LinkPC
<1>21. CASE SetProxy(d)
  BY <1>21, <1>0 DEF SetProxy, At, Go, GoesWrong, OwnLink, Keep, shared, UseShape, Fields, PortPC, LinkPC
<1>22. CASE Close(d)
  BY <1>22, <1>0 DEF Close, At, OwnLink, Keep, shared, UseShape, Fields, PortPC, LinkPC
<1> QED
  BY <1>1, <1>2, <1>3, <1>4, <1>5, <1>6, <1>7, <1>8, <1>9, <1>10, <1>11, <1>12, <1>13, <1>14,
     <1>15, <1>16, <1>17, <1>18, <1>19, <1>20, <1>21, <1>22 DEF Act, Resolve, Automated, Attach, Opened

LEMMA LinkStep ==
    ASSUME LinkInv, NEW d \in Device, Act(d)
    PROVE  LinkInv'
<1>1. /\ UseShape' /\ ForwardStep(d) /\ OwnLink(d)
      /\ \A e \in Device \ {d} : SameButRaced(e)
      /\ ~ChoosePort(d) => \A e \in Device \ {d} : use'[e] = use[e]
  BY Frame, ForwardSteps, OwnLinks DEF LinkInv
<1>2. \A e \in Device \ {d} : use[e].raced => use'[e].raced
  <2>1. CASE ChoosePort(d)
    BY <2>1, ChooseShape DEF LinkInv
  <2>2. CASE ~ChoosePort(d)
    BY <2>2, <1>1
  <2> QED
    BY <2>1, <2>2
<1>3. PortInv'
  BY <1>1 DEF LinkInv, PortInv, OwnLink, SameButRaced
<1>4. SharedInv'
  <2>1. ASSUME NEW e \in Device, NEW o \in Device, e # o,
               use'[e].port # None, use'[e].port = use'[o].port
        PROVE  use'[e].raced
    <3>1. CASE ChoosePort(d)
      <4>1. PICK p \in Port :
               /\ use'[d].port = p
               /\ use[d].raced \/ (\E f \in Device \ {d} : use[f].port = p) => use'[d].raced
               /\ \A f \in Device \ {d} : use[f].raced \/ use[f].port = p => use'[f].raced
        BY <3>1, ChooseShape DEF LinkInv
      <4>2. CASE e = d
        BY <2>1, <4>1, <4>2, <1>1 DEF SameButRaced
      <4>3. CASE o = d
        BY <2>1, <4>1, <4>3, <1>1 DEF SameButRaced
      <4>4. CASE e # d /\ o # d
        BY <2>1, <4>4, <1>1, <1>2 DEF LinkInv, SharedInv, SameButRaced
      <4> QED
        BY <4>2, <4>3, <4>4
    <3>2. CASE ~ChoosePort(d)
      <4>1. \A f \in Device : use'[f].port # None =>
                use'[f].port = use[f].port /\ use'[f].raced = use[f].raced
        BY <3>2, <1>1 DEF OwnLink
      <4> QED
        BY <2>1, <4>1 DEF LinkInv, SharedInv
    <3> QED
      BY <3>1, <3>2
  <2> QED
    BY <2>1 DEF SharedInv
<1>5. LeadInv'
  <2>1. ASSUME NEW e \in Device, ~use'[e].raced, use'[e].pc \in LinkPC
        PROVE  forward'[use'[e].port] \in {e, None}
    <3>1. CASE e = d
      BY <2>1, <3>1, <1>1 DEF OwnLink
    <3>2. CASE e # d
      <4>1. /\ use'[e].port = use[e].port /\ use[e].port \in Port
            /\ use[e].pc \in LinkPC /\ ~use[e].raced
            /\ forward[use[e].port] \in {e, None}
        BY <2>1, <3>2, <1>1, <1>2 DEF SameButRaced, LinkInv, PortInv, LeadInv, PortPC
      <4>2. use[d].port # use[e].port
        BY <4>1, <3>2, HostLinksAssumption DEF LinkInv, SharedInv
      <4> QED
        BY <4>1, <4>2, <1>1 DEF ForwardStep
    <3> QED
      BY <3>1, <3>2
  <2> QED
    BY <2>1 DEF LeadInv
<1>6. CdpReachesOwnDevice'
  BY <1>1, <1>2 DEF LinkInv, CdpReachesOwnDevice, OwnLink, SameButRaced
<1> QED
  BY <1>1, <1>3, <1>4, <1>5, <1>6 DEF LinkInv, ForwardStep

LEMMA LinkWorld ==
    ASSUME LinkInv, AdbRestarts
    PROVE  LinkInv'
<1>1. /\ use' = [d \in Device |-> [use[d] EXCEPT !.link = None]]
      /\ forward' = [p \in Port |-> None]
  BY DEF AdbRestarts
<1>2. UseShape' /\ \A d \in Device :
          /\ use'[d].pc = use[d].pc /\ use'[d].port = use[d].port
          /\ use'[d].raced = use[d].raced /\ use'[d].link = None
  BY <1>1 DEF LinkInv, UseShape, Fields
<1>3. PortInv' /\ SharedInv' /\ CdpReachesOwnDevice'
  BY <1>2 DEF LinkInv, PortInv, SharedInv, CdpReachesOwnDevice
<1>4. LeadInv'
  BY <1>1, <1>2 DEF LinkInv, PortInv, LeadInv, PortPC
<1> QED
  BY <1>1, <1>2, <1>3, <1>4 DEF LinkInv

LEMMA LinksAlways == Spec => []LinkInv
<1>1. LinkInv /\ [Next]_vars => LinkInv'
  <2> SUFFICES ASSUME LinkInv, [Next]_vars PROVE LinkInv'
    OBVIOUS
  <2>1. CASE \E d \in Device : Act(d)
    BY <2>1, LinkStep
  <2>2. CASE AdbRestarts
    BY <2>2, LinkWorld
  <2>3. CASE UNCHANGED <<forward, use>>
    BY <2>3 DEF LinkInv, UseShape, PortInv, SharedInv, LeadInv, CdpReachesOwnDevice
  <2> QED
    BY <2>1, <2>2, <2>3 DEF Next, Act, Rotate, BridgeDies, vars, shared
<1> QED
  BY LinkInit, <1>1, PTL DEF Spec

(* The connection of a session reaches its own device, or its port was     *)
(* chosen twice while adb did not listen there: cdp.py's free-port probe.  *)
THEOREM LinksAreOwn == Spec => []CdpReachesOwnDevice
<1>1. LinkInv => CdpReachesOwnDevice
  BY DEF LinkInv
<1> QED
  BY <1>1, LinksAlways, PTL

-----------------------------------------------------------------------------
(* Zones.                                                                  *)

AttachPC == {"choose", "clear", "forward", "connect"}
EarlyPC == {"probe", "start", "ready", "geo", "zone", "proxy"}
ZonePC == AttachPC \cup {"proxy", "sync", "override", "reapply", "user", "detached"}

(* Until the lookup nothing is found or lost, and no zone is set over the  *)
(* pages until the connection stands; the profile has the zone that is     *)
(* due, and the device has the profile's.                                  *)
ZoneState(s) ==
    /\ s.pc \in EarlyPC => ~s.again
    /\ s.pc \in EarlyPC \cup AttachPC \cup {"sync", "reapply", "detached"}
          => s.page = None
    /\ s.pc \in EarlyPC \cup {"sync"} \/ (s.pc \in AttachPC /\ ~s.again)
          => s.found = None /\ ~s.lostZone
    /\ s.asked # None /\ s.pc \in {"zone"} \cup ZonePC => s.prof = s.asked
    /\ s.asked = None /\ s.found # None => s.prof = s.found
    /\ s.page \in {None, s.prof}
ZoneInv ==
    /\ UseShape /\ DOMAIN dev = Device
    /\ \A d \in Device :
          /\ ZoneState(use[d])
          /\ use[d].pc \in ZonePC => dev[d] = use[d].prof \/ use[d].lostZone

LEMMA ZoneInit == Init => ZoneInv
<1> SUFFICES ASSUME Init PROVE ZoneInv
  OBVIOUS
<1>1. \A d \in Device : use[d] = Idle
  BY DEF Init
<1> QED
  BY <1>1, IdleShape DEF Init, ZoneInv, UseShape, ZoneState, AttachPC, EarlyPC, ZonePC

(* What an action of d leaves of d's own zones and of the others'.         *)
OwnZone(d) ==
    /\ ZoneState(use'[d])
    /\ use'[d].pc \in ZonePC => dev'[d] = use'[d].prof \/ use'[d].lostZone
    /\ DOMAIN dev' = Device /\ \A e \in Device \ {d} : dev'[e] = dev[e]

LEMMA OwnZones ==
    ASSUME ZoneInv, NEW d \in Device, Act(d)
    PROVE  OwnZone(d)
<1> USE IdleShape
<1>0. /\ UseShape /\ DOMAIN dev = Device
      /\ ZoneState(use[d])
      /\ use[d].pc \in ZonePC => dev[d] = use[d].prof \/ use[d].lostZone
  BY DEF ZoneInv
<1>1. CASE Begin(d)
  BY <1>1, <1>0 DEF Begin, At, OwnZone, Keep, shared, UseShape, Fields, ZoneState, AttachPC, EarlyPC, ZonePC
<1>2. CASE Geo(d)
  BY <1>2, <1>0 DEF Geo, StartupZone, At, OwnZone, Keep, shared, UseShape, Fields, ZoneState,
     AttachPC, EarlyPC, ZonePC
<1>3. CASE ApplyZone(d)
  BY <1>3, <1>0 DEF ApplyZone, At, Go, OwnZone, Keep, shared, UseShape, Fields, ZoneState,
     AttachPC, EarlyPC, ZonePC
<1>4. CASE ChoosePort(d)
  BY <1>4, <1>0, ChooseShape DEF ChoosePort, At, shared, OwnZone, ZoneState, AttachPC, EarlyPC, ZonePC
<1>5. CASE ClearPort(d)
  BY <1>5, <1>0 DEF ClearPort, At, Removed, Go, OwnZone, Keep, shared, UseShape, Fields, ZoneState,
     AttachPC, EarlyPC, ZonePC
<1>6. CASE Forward(d)
  BY <1>6, <1>0 DEF Forward, At, Go, OwnZone, Keep, shared, UseShape, Fields, ZoneState, AttachPC,
     EarlyPC, ZonePC
<1>7. CASE Connect(d)
  BY <1>7, <1>0 DEF Connect, At, OwnZone, Keep, shared, UseShape, Fields, ZoneState, AttachPC,
     EarlyPC, ZonePC
<1>8. CASE SyncGeo(d)
  BY <1>8, <1>0 DEF SyncGeo, BrowserLookup, At, OwnZone, Keep, shared, UseShape, Fields, ZoneState, AttachPC,
     EarlyPC, ZonePC
<1>9. CASE Override(d)
  BY <1>9, <1>0 DEF Override, At, Go, GoesWrong, OwnZone, Keep, shared, UseShape, Fields,
     ZoneState, AttachPC, EarlyPC, ZonePC
<1>10. CASE NoReapply(d)
  BY <1>10, <1>0 DEF NoReapply, At, Go, OwnZone, Keep, shared, UseShape, Fields, ZoneState,
     AttachPC, EarlyPC, ZonePC
<1>11. CASE Detach(d)
  BY <1>11, <1>0 DEF Detach, At, Removed, GoesWrong, OwnZone, Keep, shared, UseShape, Fields,
     ZoneState, AttachPC, EarlyPC, ZonePC
<1>12. CASE Reattach(d)
  BY <1>12, <1>0 DEF Reattach, At, OwnZone, Keep, shared, UseShape, Fields, ZoneState, AttachPC,
     EarlyPC, ZonePC
<1>13. CASE Swap(d)
  BY <1>13, <1>0 DEF Swap, At, OwnZone, Keep, shared, UseShape, Fields, ZoneState, AttachPC, EarlyPC, ZonePC
<1>14. CASE End(d)
  BY <1>14, <1>0 DEF End, At, Removed, GoesWrong, OwnZone, Keep, shared, UseShape, Fields,
     ZoneState, AttachPC, EarlyPC, ZonePC
<1>15. CASE Abandon(d)
  BY <1>15, <1>0 DEF Abandon, At, GoesWrong, OwnZone, Keep, shared, UseShape, Fields, ZoneState,
     AttachPC, EarlyPC, ZonePC
<1>16. CASE BeginOpen(d)
  BY <1>16, <1>0 DEF BeginOpen, At, OwnZone, Keep, shared, UseShape, Fields, ZoneState, AttachPC,
     EarlyPC, ZonePC
<1>17. CASE ProbeBridge(d)
  BY <1>17, <1>0 DEF ProbeBridge, Resolved, At, Go, OwnZone, Keep, shared, UseShape, Fields, ZoneState,
     AttachPC, EarlyPC, ZonePC
<1>18. CASE StartBridge(d)
  BY <1>18, <1>0 DEF StartBridge, At, Go, OwnZone, Keep, shared, UseShape, Fields, ZoneState,
     AttachPC, EarlyPC, ZonePC
<1>19. CASE AwaitBridge(d)
  BY <1>19, <1>0 DEF AwaitBridge, Resolved, At, Go, OwnZone, Keep, shared, UseShape, Fields, ZoneState,
     AttachPC, EarlyPC, ZonePC
<1>20. CASE PutProxy(d)
  BY <1>20, <1>0 DEF PutProxy, At, Go, OwnZone, Keep, shared, UseShape, Fields, ZoneState,
     AttachPC, EarlyPC, ZonePC
<1>21. CASE SetProxy(d)
  BY <1>21, <1>0 DEF SetProxy, At, Go, GoesWrong, OwnZone, Keep, shared, UseShape, Fields, ZoneState, AttachPC,
     EarlyPC, ZonePC
<1>22. CASE Close(d)
  BY <1>22, <1>0 DEF Close, At, OwnZone, Keep, shared, UseShape, Fields, ZoneState, AttachPC, EarlyPC, ZonePC
<1> QED
  BY <1>1, <1>2, <1>3, <1>4, <1>5, <1>6, <1>7, <1>8, <1>9, <1>10, <1>11, <1>12, <1>13, <1>14,
     <1>15, <1>16, <1>17, <1>18, <1>19, <1>20, <1>21, <1>22 DEF Act, Resolve, Automated, Attach, Opened

LEMMA ZoneStep ==
    ASSUME ZoneInv, NEW d \in Device, Act(d)
    PROVE  ZoneInv'
<1>1. /\ UseShape' /\ OwnZone(d)
      /\ \A e \in Device \ {d} : SameButRaced(e)
  BY Frame, OwnZones DEF ZoneInv
<1>2. ASSUME NEW e \in Device \ {d}
      PROVE  /\ ZoneState(use'[e])
             /\ use'[e].pc \in ZonePC => dev'[e] = use'[e].prof \/ use'[e].lostZone
  BY <1>1 DEF ZoneInv, OwnZone, SameButRaced, ZoneState
<1> QED
  BY <1>1, <1>2 DEF ZoneInv, OwnZone

LEMMA ZoneWorld ==
    ASSUME ZoneInv, AdbRestarts
    PROVE  ZoneInv'
<1>1. use' = [d \in Device |-> [use[d] EXCEPT !.link = None]] /\ dev' = dev
  BY DEF AdbRestarts
<1>2. UseShape'
  BY <1>1 DEF ZoneInv, UseShape, Fields
<1>3. ASSUME NEW d \in Device
      PROVE  /\ ZoneState(use'[d])
             /\ use'[d].pc = use[d].pc /\ use'[d].prof = use[d].prof
             /\ use'[d].lostZone = use[d].lostZone
  BY <1>1 DEF ZoneInv, UseShape, Fields, ZoneState
<1> QED
  BY <1>1, <1>2, <1>3 DEF ZoneInv

(* What a caller's pages and device show is the zone asked for, or the one *)
(* looked up, or the profile's: _sync_geo_from_browser_proxy and           *)
(* reconnect_cdp of async_core.py.                                         *)
THEOREM ZonesAgree == Spec => []ZoneCoherent
<1>1. ZoneInv /\ [Next]_vars => ZoneInv'
  <2> SUFFICES ASSUME ZoneInv, [Next]_vars PROVE ZoneInv'
    OBVIOUS
  <2>1. CASE \E d \in Device : Act(d)
    BY <2>1, ZoneStep
  <2>2. CASE AdbRestarts
    BY <2>2, ZoneWorld
  <2>3. CASE UNCHANGED <<dev, use>>
    BY <2>3 DEF ZoneInv, UseShape
  <2> QED
    BY <2>1, <2>2, <2>3 DEF Next, Act, Rotate, BridgeDies, vars, shared
<1>2. ZoneInv => ZoneCoherent
  BY DEF ZoneInv, ZoneCoherent, ZoneState, ZonePC
<1> QED
  BY ZoneInit, <1>1, <1>2, PTL DEF Spec

-----------------------------------------------------------------------------
(* Proxies.                                                                *)

ResolvePC == {"probe", "start", "ready"}
GivenPC == AttachPC \cup {"sync", "override", "reapply", "user", "detached"}

(* What is given to the device for a session stays in its setting from     *)
(* SetProxy or PutProxy to the end of the session.                         *)
ProxyState(s, given) ==
    /\ s.up \in Upstream \cup {None}
    /\ s.pc \in ResolvePC => s.up \in Bridged
    /\ s.pc = "put" => s.up \in Upstream
    /\ s.pc \in {"put", "opened"} => s.open
    /\ s.pc \in GivenPC => given = Address(s.up) \/ s.lostProxy
    /\ s.pc = "opened" => given = Address(s.up) \/ s.up = None

(* Who listens on a bridge port has that port's digest.                    *)
Listening(who) ==
    \A b \in BridgePort :
        who[b] # None => who[b] \in Bridged /\ portOf[who[b]] = b

BridgeInv ==
    /\ UseShape
    /\ portOf \in [Bridged -> BridgePort]
    /\ DOMAIN bridge = BridgePort /\ DOMAIN setting = Device
    /\ Listening(bridge)
    /\ \A d \in Device : ProxyState(use[d], setting[d])

LEMMA BridgeInit == Init => BridgeInv
<1> SUFFICES ASSUME Init PROVE BridgeInv
  OBVIOUS
<1>1. \A d \in Device : use[d] = Idle
  BY DEF Init
<1> QED
  BY <1>1, IdleShape, HostLinksAssumption
  DEF Init, BridgeInv, UseShape, Listening, ProxyState, ResolvePC, GivenPC, AttachPC

(* What an action of d leaves of the bridges and of d's own setting.       *)
OwnBridge(d) ==
    /\ portOf' = portOf /\ DOMAIN bridge' = BridgePort
    /\ Listening(bridge')
    /\ DOMAIN setting' = Device /\ \A e \in Device \ {d} : setting'[e] = setting[e]
    /\ ProxyState(use'[d], setting'[d])

LEMMA OwnBridges ==
    ASSUME BridgeInv, NEW d \in Device, Act(d)
    PROVE  OwnBridge(d)
<1> USE IdleShape, HostLinksAssumption
<1>0. /\ UseShape /\ portOf \in [Bridged -> BridgePort]
      /\ DOMAIN bridge = BridgePort /\ DOMAIN setting = Device
      /\ Listening(bridge)
      /\ ProxyState(use[d], setting[d])
  BY DEF BridgeInv
<1>1. CASE Begin(d)
    BY <1>1, <1>0 DEF Begin, At, OwnBridge, Keep, shared, UseShape, Fields, ProxyState, ResolvePC,
     GivenPC, AttachPC
<1>2. CASE Geo(d)
    BY <1>2, <1>0 DEF Geo, At, OwnBridge, Keep, shared, UseShape, Fields, ProxyState, ResolvePC,
     GivenPC, AttachPC
<1>3. CASE ApplyZone(d)
    BY <1>3, <1>0 DEF ApplyZone, At, Go, OwnBridge, Keep, shared, UseShape, Fields, ProxyState,
     ResolvePC, GivenPC, AttachPC
<1>4. CASE ChoosePort(d)
    BY <1>4, <1>0, ChooseShape DEF ChoosePort, At, shared, OwnBridge, ProxyState, ResolvePC,
     GivenPC, AttachPC
<1>5. CASE ClearPort(d)
    BY <1>5, <1>0 DEF ClearPort, At, Removed, Go, GoesWrong, OwnBridge, Keep, shared, UseShape,
     Fields, ProxyState, ResolvePC, GivenPC, AttachPC
<1>6. CASE Forward(d)
    BY <1>6, <1>0 DEF Forward, At, Go, OwnBridge, Keep, shared, UseShape, Fields, ProxyState,
     ResolvePC, GivenPC, AttachPC
<1>7. CASE Connect(d)
    BY <1>7, <1>0 DEF Connect, At, OwnBridge, Keep, shared, UseShape, Fields, ProxyState,
     ResolvePC, GivenPC, AttachPC
<1>8. CASE SyncGeo(d)
    BY <1>8, <1>0 DEF SyncGeo, At, OwnBridge, Keep, shared, UseShape, Fields, ProxyState,
     ResolvePC, GivenPC, AttachPC
<1>9. CASE Override(d)
    BY <1>9, <1>0 DEF Override, At, Go, GoesWrong, OwnBridge, Keep, shared, UseShape, Fields,
     ProxyState, ResolvePC, GivenPC, AttachPC
<1>10. CASE NoReapply(d)
    BY <1>10, <1>0 DEF NoReapply, At, Go, OwnBridge, Keep, shared, UseShape, Fields, ProxyState,
     ResolvePC, GivenPC, AttachPC
<1>11. CASE Detach(d)
    BY <1>11, <1>0 DEF Detach, At, Removed, GoesWrong, OwnBridge, Keep, shared, UseShape, Fields,
     ProxyState, ResolvePC, GivenPC, AttachPC
<1>12. CASE Reattach(d)
    BY <1>12, <1>0 DEF Reattach, At, OwnBridge, Keep, shared, UseShape, Fields, ProxyState,
     ResolvePC, GivenPC, AttachPC
<1>13. CASE Swap(d)
    BY <1>13, <1>0 DEF Swap, At, OwnBridge, Keep, shared, UseShape, Fields, ProxyState, ResolvePC,
     GivenPC, AttachPC
<1>14. CASE End(d)
    BY <1>14, <1>0 DEF End, At, Removed, GoesWrong, OwnBridge, Keep, shared, UseShape, Fields,
     ProxyState, ResolvePC, GivenPC, AttachPC
<1>15. CASE Abandon(d)
    BY <1>15, <1>0 DEF Abandon, At, GoesWrong, OwnBridge, Keep, shared, UseShape, Fields,
     ProxyState, ResolvePC, GivenPC, AttachPC
<1>16. CASE BeginOpen(d)
    BY <1>16, <1>0 DEF BeginOpen, At, OwnBridge, Keep, shared, UseShape, Fields, ProxyState,
     ResolvePC, GivenPC, AttachPC
<1>17. CASE ProbeBridge(d)
    BY <1>17, <1>0 DEF ProbeBridge, At, Go, Resolved, BridgeOf, OwnBridge, Keep, shared, UseShape,
     Fields, ProxyState, ResolvePC, GivenPC, AttachPC
<1>18. CASE StartBridge(d)
    BY <1>18, <1>0 DEF StartBridge, At, Go, BridgeOf, Listening, OwnBridge, Keep, shared,
     UseShape, Fields, ProxyState, ResolvePC, GivenPC, AttachPC
<1>19. CASE AwaitBridge(d)
    BY <1>19, <1>0 DEF AwaitBridge, At, Go, Resolved, BridgeOf, OwnBridge, Keep, shared, UseShape,
     Fields, ProxyState, ResolvePC, GivenPC, AttachPC
<1>20. CASE PutProxy(d)
    BY <1>20, <1>0 DEF PutProxy, At, Go, OwnBridge, Keep, shared, UseShape, Fields, ProxyState,
     ResolvePC, GivenPC, AttachPC
<1>21. CASE SetProxy(d)
    BY <1>21, <1>0 DEF SetProxy, At, Go, GoesWrong, OwnBridge, Keep, shared, UseShape, Fields,
     ProxyState, ResolvePC, GivenPC, AttachPC
<1>22. CASE Close(d)
    BY <1>22, <1>0 DEF Close, At, OwnBridge, Keep, shared, UseShape, Fields, ProxyState,
     ResolvePC, GivenPC, AttachPC
<1> QED
  BY <1>1, <1>2, <1>3, <1>4, <1>5, <1>6, <1>7, <1>8, <1>9, <1>10, <1>11, <1>12, <1>13, <1>14,
     <1>15, <1>16, <1>17, <1>18, <1>19, <1>20, <1>21, <1>22 DEF Act, Resolve, Automated, Attach, Opened

LEMMA BridgeStep ==
    ASSUME BridgeInv, NEW d \in Device, Act(d)
    PROVE  BridgeInv'
<1>1. /\ UseShape' /\ OwnBridge(d)
      /\ \A e \in Device \ {d} : SameButRaced(e)
  BY Frame, OwnBridges DEF BridgeInv
<1>2. ASSUME NEW e \in Device \ {d}
      PROVE  ProxyState(use[e], setting[e]) => ProxyState(use[e], setting[e])'
  BY <1>1 DEF OwnBridge, SameButRaced, ProxyState, Address, BridgeOf
<1>3. ProxyState(use'[d], setting'[d]) <=> ProxyState(use[d], setting[d])'
  BY <1>1 DEF OwnBridge, ProxyState, Address, BridgeOf
<1> QED
  BY <1>1, <1>2, <1>3 DEF BridgeInv, OwnBridge, Listening

LEMMA BridgeWorld ==
    ASSUME BridgeInv, AdbRestarts \/ \E b \in BridgePort : BridgeDies(b)
    PROVE  BridgeInv'
<1>1. CASE AdbRestarts
  <2>1. /\ use' = [d \in Device |-> [use[d] EXCEPT !.link = None]]
        /\ UNCHANGED <<portOf, bridge, setting>>
    BY <1>1 DEF AdbRestarts
  <2>2. UseShape' /\ \A d \in Device :
            /\ use'[d].pc = use[d].pc /\ use'[d].up = use[d].up
            /\ use'[d].open = use[d].open /\ use'[d].lostProxy = use[d].lostProxy
    BY <2>1 DEF BridgeInv, UseShape, Fields
  <2> QED
    BY <2>1, <2>2 DEF BridgeInv, Listening, ProxyState, Address, BridgeOf
<1>2. CASE \E b \in BridgePort : BridgeDies(b)
  <2>1. PICK b \in BridgePort : bridge' = [bridge EXCEPT ![b] = None]
    BY <1>2 DEF BridgeDies
  <2>2. UNCHANGED <<portOf, setting, use>>
    BY <1>2 DEF BridgeDies
  <2>3. DOMAIN bridge' = BridgePort /\ Listening(bridge)'
    BY <2>1, <2>2 DEF BridgeInv, Listening
  <2> QED
    BY <2>2, <2>3 DEF BridgeInv, UseShape, ProxyState, Address, BridgeOf
<1> QED
  BY <1>1, <1>2

LEMMA BridgesAlways == Spec => []BridgeInv
<1>1. BridgeInv /\ [Next]_vars => BridgeInv'
  <2> SUFFICES ASSUME BridgeInv, [Next]_vars PROVE BridgeInv'
    OBVIOUS
  <2>1. CASE \E d \in Device : Act(d)
    BY <2>1, BridgeStep
  <2>2. CASE AdbRestarts \/ \E b \in BridgePort : BridgeDies(b)
    BY <2>2, BridgeWorld
  <2>3. CASE UNCHANGED <<portOf, bridge, setting, use>>
    BY <2>3 DEF BridgeInv, UseShape, Listening, ProxyState, Address, BridgeOf
  <2> QED
    BY <2>1, <2>2, <2>3 DEF Next, Act, Rotate, vars, shared
<1> QED
  BY BridgeInit, <1>1, PTL DEF Spec

(* A request leaves by the address that was given to the device: directly, *)
(* by that upstream, or by the bridge on the port of its digest.           *)
LEMMA LeavesByAddress ==
    ASSUME BridgeInv, NEW d \in Device, NEW up \in Upstream \cup {None},
           setting[d] = Address(up), NEW u \in LeavesBy(d)
    PROVE  u = up \/ ({u, up} \subseteq Bridged /\ portOf[u] = portOf[up])
<1>1. CASE up \in Bridged
  <2>1. setting[d] = portOf[up] /\ portOf[up] \in BridgePort
    BY <1>1 DEF Address, BridgeOf, BridgeInv
  <2>2. u = bridge[portOf[up]] /\ u # None
    BY <2>1 DEF LeavesBy
  <2> QED
    BY <1>1, <2>1, <2>2 DEF BridgeInv, Listening
<1>2. CASE up \notin Bridged
  <2>1. setting[d] = up /\ up \notin BridgePort
    BY <1>2, HostLinksAssumption DEF Address
  <2> QED
    BY <2>1 DEF LeavesBy
<1> QED
  BY <1>1, <1>2

(* What a session's caller browses leaves by the proxy he gave, or         *)
(* directly if he gave none: _set_proxy of async_core.py,                  *)
(* _apply_android_proxy of cli.py and ensure_proxy_bridge of               *)
(* proxy_runtime.py, over the connection that cdp.py made.                 *)
THEOREM UpstreamsAreOwn == Spec => []OwnUpstream
<1>1. LinkInv /\ BridgeInv => OwnUpstream
  <2> SUFFICES ASSUME LinkInv, BridgeInv,
                      NEW d \in Device, ~use[d].raced, ~use[d].lostProxy,
                      ~(use[d].open /\ use[d].up = None),
                      NEW e \in Browses(d), NEW u \in LeavesBy(e)
               PROVE  \/ u = use[d].up
                      \/ {u, use[d].up} \subseteq Bridged /\ portOf[u] = portOf[use[d].up]
    BY DEF OwnUpstream
  <2>1. e = d
    <3>1. use[d].link \in {d, None}
      BY DEF LinkInv, CdpReachesOwnDevice
    <3> QED
      BY <3>1 DEF Browses
  <2>2. use[d].pc \in {"user", "detached", "opened"}
    BY DEF Browses
  <2>3. use[d].up \in Upstream \cup {None} /\ setting[d] = Address(use[d].up)
    BY <2>2 DEF BridgeInv, ProxyState, GivenPC
  <2> QED
    BY <2>1, <2>3, LeavesByAddress
<1> QED
  BY <1>1, LinksAlways, BridgesAlways, PTL

-----------------------------------------------------------------------------
(* Types.                                                                  *)
UsesAt(S) ==
    [pc : S, open : BOOLEAN, up : Upstream \cup {None}, port : Port \cup {None},
     link : Device \cup {None}, again : BOOLEAN,
     asked : Zone \cup {None}, prof : Zone,
     found : Zone \cup {None}, page : Zone \cup {None},
     raced : BOOLEAN, lostZone : BOOLEAN, lostProxy : BOOLEAN]

LEMMA UseIs == Use = UsesAt(AllPC)
BY DEF Use, UsesAt, AllPC

LEMMA IdleTyped == Idle \in Use
BY HostLinksAssumption DEF Idle, Use

(* Records that differ in a few fields keep their type.                    *)
LEMMA Retyped ==
  ASSUME NEW r \in Use
  PROVE  /\ \A c \in AllPC : [r EXCEPT !.pc = c] \in Use
         /\ \A c \in AllPC, u \in Upstream \cup {None}, z \in Zone \cup {None} :
               [r EXCEPT !.up = u, !.asked = z, !.pc = c] \in Use
         /\ \A c \in AllPC, u \in Upstream \cup {None}, b \in BOOLEAN :
               [r EXCEPT !.open = b, !.up = u, !.pc = c] \in Use
         /\ \A c \in AllPC : [r EXCEPT !.pc = c, !.port = None, !.link = None, !.page = None] \in Use
         /\ \A c \in AllPC, b \in BOOLEAN : [r EXCEPT !.pc = c, !.again = b] \in Use
         /\ \A l \in Device \cup {None} : [r EXCEPT !.link = l, !.page = None] \in Use
         /\ \A c \in AllPC, b \in BOOLEAN : [r EXCEPT !.lostProxy = b, !.pc = c] \in Use
         /\ \A b \in BOOLEAN : [r EXCEPT !.raced = b] \in Use
         /\ \A c \in AllPC, p \in Port, b \in BOOLEAN :
               [r EXCEPT !.port = p, !.pc = c, !.raced = b] \in Use
<1> USE UseIs DEF UsesAt
<1>1. \A c \in AllPC : [r EXCEPT !.pc = c] \in Use
  OBVIOUS
<1>2. \A c \in AllPC, u \in Upstream \cup {None}, z \in Zone \cup {None} :
               [r EXCEPT !.up = u, !.asked = z, !.pc = c] \in Use
  OBVIOUS
<1>3. \A c \in AllPC, u \in Upstream \cup {None}, b \in BOOLEAN :
               [r EXCEPT !.open = b, !.up = u, !.pc = c] \in Use
  OBVIOUS
<1>4. \A c \in AllPC : [r EXCEPT !.pc = c, !.port = None, !.link = None, !.page = None] \in Use
  OBVIOUS
<1>5. \A c \in AllPC, b \in BOOLEAN : [r EXCEPT !.pc = c, !.again = b] \in Use
  OBVIOUS
<1>6. \A l \in Device \cup {None} : [r EXCEPT !.link = l, !.page = None] \in Use
  OBVIOUS
<1>7. \A c \in AllPC, b \in BOOLEAN : [r EXCEPT !.lostProxy = b, !.pc = c] \in Use
  OBVIOUS
<1>8. \A b \in BOOLEAN : [r EXCEPT !.raced = b] \in Use
  OBVIOUS
<1>9. \A c \in AllPC, p \in Port, b \in BOOLEAN :
               [r EXCEPT !.port = p, !.pc = c, !.raced = b] \in Use
  OBVIOUS
<1> HIDE UseIs DEF UsesAt
<1> QED BY <1>1, <1>2, <1>3, <1>4, <1>5, <1>6, <1>7, <1>8, <1>9, Zenon

(* What a lookup through a browser finds is a zone or nothing.             *)
LEMMA LookupTyped ==
  ASSUME TypeOK, NEW d \in Device
  PROVE  BrowserLookup(d) \subseteq Zone \cup {None}
<1>1. ASSUME NEW e \in Device, NEW u \in LeavesBy(e) PROVE u \in Upstream \cup {None}
  <2>1. CASE setting[e] \in BridgePort
    BY <1>1, <2>1, HostLinksAssumption DEF LeavesBy, TypeOK
  <2>2. CASE setting[e] \notin BridgePort
    BY <1>1, <2>2 DEF LeavesBy, TypeOK
  <2> QED BY <2>1, <2>2
<1>2. use[d].link \in Device \cup {None}
  BY DEF TypeOK, Use
<1>3. ASSUME NEW u \in Upstream \cup {None}
      PROVE  (IF u = None THEN Zone ELSE {exit[u]}) \subseteq Zone
  BY DEF TypeOK
<1> QED BY <1>1, <1>2, <1>3 DEF BrowserLookup

LEMMA UseTypes ==
  ASSUME TypeOK, PortInv, BridgeInv, NEW d \in Device, Act(d)
  PROVE use' \in [Device -> Use]
<1>a. use \in [Device -> Use] /\ use[d] \in Use
  BY DEF TypeOK
<1>b. ASSUME NEW r \in Use, use' = [use EXCEPT ![d] = r] PROVE use' \in [Device -> Use]
  BY <1>a, <1>b
<1>c. /\ "idle" \in AllPC /\ "geo" \in AllPC /\ "zone" \in AllPC /\ "choose" \in AllPC
      /\ "clear" \in AllPC /\ "forward" \in AllPC /\ "connect" \in AllPC /\ "sync" \in AllPC
      /\ "override" \in AllPC /\ "reapply" \in AllPC /\ "user" \in AllPC
      /\ "detached" \in AllPC /\ "probe" \in AllPC /\ "start" \in AllPC
      /\ "ready" \in AllPC /\ "put" \in AllPC /\ "opened" \in AllPC /\ "proxy" \in AllPC
      /\ Resolved(d) \in AllPC
  BY DEF AllPC, Resolved
<1>d. ASSUME NEW c \in AllPC, Go(d, c) PROVE use' \in [Device -> Use]
  <2>1. use' = [use EXCEPT ![d] = [use[d] EXCEPT !.pc = c]]
    BY <1>d, <1>a DEF Go
  <2>2. [use[d] EXCEPT !.pc = c] \in Use
    BY <1>a, Retyped
  <2> QED BY <1>b, <2>1, <2>2
<1>1. CASE Begin(d)
  <2>1. PICK u \in Upstream \cup {None}, z \in Given \cup {None} :
           use' = [use EXCEPT ![d] = [Idle EXCEPT !.up = u, !.asked = z,
                       !.pc = IF u \in Bridged THEN "probe" ELSE "geo"]]
    BY <1>1 DEF Begin
  <2>2. [Idle EXCEPT !.up = u, !.asked = z,
             !.pc = IF u \in Bridged THEN "probe" ELSE "geo"] \in Use
    BY IdleTyped, Retyped, <1>c, HostLinksAssumption
  <2> QED BY <1>b, <2>1, <2>2
<1>2. CASE Geo(d)
  BY <1>2, HostLinksAssumption DEF Geo, At, StartupZone, TypeOK, Use, shared, counters
<1>3. CASE ApplyZone(d)
  BY <1>3, <1>c, <1>d DEF ApplyZone
<1>4. CASE ChoosePort(d)
  <2>1. PICK p \in Port : Choose(d, p)
    BY <1>4 DEF ChoosePort
  <2> DEFINE Clash(o) == forward[p] = None /\ use[o].port = p
             chosen == [use[d] EXCEPT !.port = p, !.pc = "clear",
                                      !.raced = @ \/ \E o \in Device \ {d} : Clash(o)]
             told(e) == [use[e] EXCEPT !.raced = @ \/ Clash(e)]
  <2>2. use' = [e \in Device |-> IF e = d THEN chosen ELSE told(e)]
    BY <2>1 DEF Choose
  <2>3. chosen \in Use
    <3>1. (use[d].raced \/ \E o \in Device \ {d} : Clash(o)) \in BOOLEAN
      OBVIOUS
    <3> QED BY <1>a, <1>c, <3>1, Retyped
  <2>4. ASSUME NEW e \in Device PROVE told(e) \in Use
    <3>1. (use[e].raced \/ Clash(e)) \in BOOLEAN
      OBVIOUS
    <3>2. use[e] \in Use
      BY <1>a
    <3> QED BY <3>1, <3>2, Retyped
  <2> HIDE DEF chosen, told
  <2> QED BY <2>2, <2>3, <2>4
<1>5. CASE ClearPort(d)
  BY <1>5, <1>c, <1>d DEF ClearPort
<1>6. CASE Forward(d)
  BY <1>6, <1>c, <1>d DEF Forward
<1>7. CASE Connect(d)
  BY <1>7, HostLinksAssumption DEF Connect, At, PortInv, PortPC, LinkPC, TypeOK, Use, shared, counters
<1>8. CASE SyncGeo(d)
  <2>1. ASSUME NEW c \in AllPC, NEW z \in Zone \cup {None}, NEW y \in Zone, NEW b \in BOOLEAN
        PROVE  [use[d] EXCEPT !.pc = c, !.found = z, !.prof = y, !.lostZone = b] \in Use
    BY <1>a, <2>1, UseIs DEF UsesAt
  <2>2. PICK z \in BrowserLookup(d) : \E y \in {z, use[d].prof}, b \in BOOLEAN :
           /\ y \in {use[d].prof} \/ z # None
           /\ use' = [use EXCEPT ![d] = [use[d] EXCEPT !.pc = "override", !.found = z,
                                                      !.prof = y, !.lostZone = b]]
    <3>1. PICK z \in BrowserLookup(d) :
             LET new == z # None /\ z # use[d].prof
                 Synced(lost) == use' = [use EXCEPT ![d].pc = "override", ![d].found = z,
                                             ![d].prof = IF new THEN z ELSE @,
                                             ![d].lostZone = lost]
             IN  Synced(FALSE) \/ Synced(TRUE)
      BY <1>8 DEF SyncGeo
    <3> DEFINE new == z # None /\ z # use[d].prof
               y == IF new THEN z ELSE use[d].prof
    <3>2. \E b \in BOOLEAN :
             use' = [use EXCEPT ![d] = [use[d] EXCEPT !.pc = "override", !.found = z,
                                                      !.prof = y, !.lostZone = b]]
      BY <1>a, <3>1
    <3>3. y \in {z, use[d].prof} /\ (y \in {use[d].prof} \/ z # None)
      OBVIOUS
    <3> HIDE DEF y
    <3> QED BY <3>2, <3>3
  <2>3. BrowserLookup(d) \subseteq Zone \cup {None} /\ use[d].prof \in Zone
    BY LookupTyped DEF TypeOK, Use
  <2> QED BY <1>b, <1>c, <2>1, <2>2, <2>3
<1>9. CASE Override(d)
  BY <1>9, HostLinksAssumption DEF Override, Go, GoesWrong, TypeOK, Use
<1>10. CASE NoReapply(d)
  BY <1>10, <1>c, <1>d DEF NoReapply
<1>11. CASE Detach(d)
  <2>1. use' = [use EXCEPT ![d] = [use[d] EXCEPT !.pc = "detached", !.port = None,
                                                 !.link = None, !.page = None]]
    BY <1>11, <1>a DEF Detach
  <2> QED BY <1>a, <1>b, <1>c, <2>1, Retyped
<1>12. CASE Reattach(d)
  <2>1. use' = [use EXCEPT ![d] = [use[d] EXCEPT !.pc = "choose", !.again = TRUE]]
    BY <1>12, <1>a DEF Reattach
  <2> QED BY <1>a, <1>b, <1>c, <2>1, Retyped
<1>13. CASE Swap(d)
  <2>1. use' = [use EXCEPT ![d] = [use[d] EXCEPT !.link = forward[use[d].port], !.page = None]]
    BY <1>13, <1>a DEF Swap
  <2>2. forward[use[d].port] \in Device \cup {None}
    BY <1>13 DEF Swap, At, PortInv, PortPC, LinkPC, TypeOK
  <2> QED BY <1>a, <1>b, <2>1, <2>2, Retyped
<1>14. CASE End(d)
  BY <1>14, <1>b, IdleTyped DEF End
<1>15. CASE Abandon(d)
  BY <1>15, <1>b, IdleTyped DEF Abandon
<1>16. CASE BeginOpen(d)
  <2>1. PICK u \in Upstream \cup {None}, c \in AllPC :
           use' = [use EXCEPT ![d] = [Idle EXCEPT !.open = TRUE, !.up = u, !.pc = c]]
    BY <1>16, <1>c DEF BeginOpen
  <2>2. [Idle EXCEPT !.open = TRUE, !.up = u, !.pc = c] \in Use
    BY IdleTyped, Retyped
  <2> QED BY <1>b, <2>1, <2>2
<1>17. CASE ProbeBridge(d)
  BY <1>17, <1>c, <1>d DEF ProbeBridge
<1>18. CASE StartBridge(d)
  BY <1>18, <1>c, <1>d DEF StartBridge
<1>19. CASE AwaitBridge(d)
  BY <1>19, <1>b, <1>c, <1>d, IdleTyped DEF AwaitBridge
<1>20. CASE PutProxy(d)
  BY <1>20, <1>c, <1>d DEF PutProxy
<1>21. CASE SetProxy(d)
  <2>1. CASE Go(d, "choose")
    BY <2>1, <1>c, <1>d
  <2>2. CASE use' = [use EXCEPT ![d].lostProxy = TRUE, ![d].pc = "choose"]
    <3>1. use' = [use EXCEPT ![d] = [use[d] EXCEPT !.lostProxy = TRUE, !.pc = "choose"]]
      BY <2>2, <1>a
    <3> QED BY <1>a, <1>b, <1>c, <3>1, Retyped
  <2> QED BY <1>21, <2>1, <2>2 DEF SetProxy
<1>22. CASE Close(d)
  BY <1>22, <1>b, IdleTyped DEF Close
<1> QED
  BY <1>1, <1>2, <1>3, <1>4, <1>5, <1>6, <1>7, <1>8, <1>9, <1>10, <1>11, <1>12, <1>13, <1>14,
     <1>15, <1>16, <1>17, <1>18, <1>19, <1>20, <1>21, <1>22 DEF Act, Resolve, Automated, Attach, Opened

LEMMA SharedTypes ==
  ASSUME TypeOK, PortInv, BridgeInv, NEW d \in Device, Act(d), use' \in [Device -> Use]
  PROVE  TypeOK'
<1> USE HostLinksAssumption DEF TypeOK, shared, counters
<1>0. use[d] \in Use /\ use[d].prof \in Zone
  BY DEF Use
<1>1. CASE Begin(d) \/ BeginOpen(d)
  <2>1. sessions \in 0..MaxSessions /\ sessions < MaxSessions /\ sessions' = sessions + 1
    BY <1>1 DEF Begin, BeginOpen
  <2>2. sessions' \in 0..MaxSessions
    BY <2>1
  <2>3. UNCHANGED <<portOf, exit, forward, bridge, setting, dev, rotations, wrong>>
    BY <1>1 DEF Begin, BeginOpen
  <2> QED BY <2>2, <2>3
<1>2. CASE Geo(d)
  BY <1>2 DEF Geo
<1>3. CASE ApplyZone(d)
  BY <1>0, <1>3 DEF ApplyZone, Keep
<1>4. CASE ChoosePort(d)
  BY <1>4 DEF ChoosePort
<1>5. CASE ClearPort(d)
  BY <1>5 DEF ClearPort, Removed, GoesWrong, Keep
<1>6. CASE Forward(d)
  BY <1>6 DEF Forward, Keep
<1>7. CASE Connect(d)
  BY <1>7 DEF Connect
<1>8. CASE SyncGeo(d)
  <2>1. BrowserLookup(d) \subseteq Zone \cup {None}
    BY LookupTyped
  <2>2. dev' \in [Device -> Zone]
    BY <1>8, <2>1 DEF SyncGeo
  <2> QED BY <1>8, <2>2 DEF SyncGeo, GoesWrong, Keep
<1>9. CASE Override(d)
  BY <1>9 DEF Override, GoesWrong
<1>10. CASE NoReapply(d)
  BY <1>10 DEF NoReapply
<1>11. CASE Detach(d)
  BY <1>11 DEF Detach, Removed, GoesWrong, Keep
<1>12. CASE Reattach(d)
  BY <1>12 DEF Reattach
<1>13. CASE Swap(d)
  BY <1>13 DEF Swap
<1>14. CASE End(d)
  BY <1>14 DEF End, Removed, GoesWrong, Keep
<1>15. CASE Abandon(d)
  BY <1>15 DEF Abandon, GoesWrong
<1>17. CASE ProbeBridge(d)
  BY <1>17 DEF ProbeBridge
<1>18. CASE StartBridge(d)
  BY <1>18 DEF StartBridge, Keep, BridgeOf, BridgeInv, ProxyState, ResolvePC, At
<1>19. CASE AwaitBridge(d)
  BY <1>19 DEF AwaitBridge
<1>a. Address(use[d].up) \in BridgePort \cup Upstream \cup {None}
  BY <1>0 DEF Address, BridgeOf, BridgeInv, ProxyState
<1>20. CASE PutProxy(d)
  BY <1>20, <1>a DEF PutProxy, Keep
<1>21. CASE SetProxy(d)
  BY <1>21, <1>a DEF SetProxy, GoesWrong, Keep
<1>22. CASE Close(d)
  BY <1>22 DEF Close
<1> QED
  BY <1>1, <1>2, <1>3, <1>4, <1>5, <1>6, <1>7, <1>8, <1>9, <1>10, <1>11, <1>12, <1>13, <1>14,
     <1>15, <1>17, <1>18, <1>19, <1>20, <1>21, <1>22 DEF Act, Resolve, Automated, Attach, Opened

(* Every variable keeps its type; among them the records of the sessions   *)
(* and the three bounds.                                                   *)
THEOREM TypeCorrect == Spec => []TypeOK
<1>1. Init => TypeOK
  BY IdleTyped, HostLinksAssumption DEF Init, TypeOK
<1>2. ASSUME TypeOK, LinkInv, BridgeInv, [Next]_vars PROVE TypeOK'
  <2>1. CASE \E d \in Device : Act(d)
    BY <1>2, <2>1, UseTypes, SharedTypes DEF LinkInv
  <2>2. CASE AdbRestarts
    <3>1. ASSUME NEW r \in Use PROVE [r EXCEPT !.link = None] \in Use
      BY <3>1 DEF Use
    <3>2. use' \in [Device -> Use]
      BY <1>2, <2>2, <3>1 DEF AdbRestarts, TypeOK
    <3> QED
      BY <1>2, <2>2, <3>2, HostLinksAssumption DEF AdbRestarts, GoesWrong, TypeOK
  <2>3. CASE \E u \in Upstream : Rotate(u)
    BY <1>2, <2>3, HostLinksAssumption DEF Rotate, TypeOK
  <2>4. CASE \E b \in BridgePort : BridgeDies(b)
    BY <1>2, <2>4, HostLinksAssumption DEF BridgeDies, GoesWrong, TypeOK
  <2>5. CASE UNCHANGED vars
    BY <1>2, <2>5 DEF vars, shared, counters, TypeOK
  <2> QED
    BY <1>2, <2>1, <2>2, <2>3, <2>4, <2>5 DEF Next, Act
<1> QED
  BY <1>1, <1>2, LinksAlways, BridgesAlways, PTL DEF Spec
=============================================================================
