------------------------- MODULE Containers_proofs -------------------------
(***************************************************************************)
(* Proofs about Containers for any number of workers, any questions whose  *)
(* answers may be lost, and all bounds.  What concerns the HAL is proved   *)
(* for processes that all have it on, which the theorems state.            *)
(***************************************************************************)
EXTENDS Containers, TLAPS

RootfsFields == {"hal", "used", "chrome", "web", "marks"}

(* The shape of the state is all that the solvers need of its type.        *)
Shape ==
    /\ DOMAIN state = Worker /\ DOMAIN fs = Worker /\ DOMAIN active = Worker
    /\ DOMAIN pc = Worker /\ DOMAIN fresh = Worker /\ DOMAIN restarts = Worker
    /\ \A w \in Worker : DOMAIN fs[w] = RootfsFields
    /\ image # None => DOMAIN image = RootfsFields

LEMMA MarkedShape ==
    ASSUME NEW rootfs, DOMAIN rootfs = RootfsFields, NEW what
    PROVE  /\ DOMAIN Marked(rootfs, what) = RootfsFields
           /\ Marked(rootfs, what).marks = rootfs.marks \cup what
           /\ Marked(rootfs, what).hal = rootfs.hal
           /\ Marked(rootfs, what).used = rootfs.used
           /\ Marked(rootfs, what).chrome = rootfs.chrome
           /\ Marked(rootfs, what).web = rootfs.web
  BY DEF Marked, RootfsFields

LEMMA RawShape ==
    /\ DOMAIN Raw = RootfsFields /\ ~Raw.used /\ ~Raw.hal
    /\ Raw.chrome = "none" /\ Raw.marks = {}
  BY DEF Raw, RootfsFields

LEMMA ImagesShape ==
    \A i \in {Raw, Old, Baked} :
        DOMAIN i = RootfsFields /\ ~i.used /\ i.chrome \in {"none", i.web}
<1>1. Raw.chrome = "none" /\ ~Raw.used /\ DOMAIN Raw = RootfsFields
  BY DEF Raw, RootfsFields
<1>2. Old.chrome = "base" /\ Old.web = "base" /\ ~Old.used /\ DOMAIN Old = RootfsFields
  BY DEF Old, Raw, RootfsFields
<1>3. Baked.chrome = "base" /\ Baked.web = "base" /\ ~Baked.used /\ DOMAIN Baked = RootfsFields
  BY DEF Baked, Old, Raw, RootfsFields
<1> QED
  BY <1>1, <1>2, <1>3

-----------------------------------------------------------------------------
(* Steps.                                                                  *)

(* The actions that concern one worker.                                    *)
Act(w) == TaskStep(w) \/ UseSlot(w) \/ Recover(w) \/ Crash(w) \/ DaemonRestarts(w)

Same(v) ==
    /\ state'[v] = state[v] /\ fs'[v] = fs[v] /\ active'[v] = active[v]
    /\ pc'[v] = pc[v] /\ fresh'[v] = fresh[v] /\ restarts'[v] = restarts[v]

(* What a step may do to the worker's container.                           *)
Untouched(w) == state'[w] = state[w] /\ fs'[w] = fs[w] /\ active'[w] = active[w]

Gone(w) == state'[w] = "none" /\ fs'[w] = Raw /\ active'[w] = FALSE

Content(w) ==
    /\ fs'[w].hal = fs[w].hal /\ fs'[w].used = fs[w].used
    /\ fs'[w].chrome = fs[w].chrome /\ fs'[w].web = fs[w].web

MarkedWith(w, what) ==
    /\ DOMAIN fs'[w] = RootfsFields
    /\ state'[w] = state[w] /\ active'[w] = active[w]
    /\ Content(w) /\ fs'[w].marks = fs[w].marks \cup what

Stays(w) == MarkedWith(w, IF fs[w].hal /\ ~active[w] THEN {"hal"} ELSE {})

Booted(w) ==
    /\ DOMAIN fs'[w] = RootfsFields
    /\ Content(w) /\ fs'[w].marks = fs[w].marks \ {"hal"}
    /\ state'[w] = "up" /\ active'[w] = fs[w].hal

Made(w) == /\ image # None /\ state'[w] \in {"up", "down"}
           /\ fs'[w] = image /\ active'[w] = image.hal

(* What it may do to the other workers: nothing.                           *)
Others(w) ==
    /\ DOMAIN state' = Worker /\ DOMAIN fs' = Worker /\ DOMAIN active' = Worker
    /\ \A v \in Worker \ {w} :
          state'[v] = state[v] /\ fs'[v] = fs[v] /\ active'[v] = active[v]

Raised(w) == pc'[w] \in {"dead", "off"} /\ fresh'[w] = FALSE

LEMMA Raises ==
    ASSUME Shape, NEW w \in Worker, Raise(w)
    PROVE  Raised(w)
  BY DEF Raise, Goto, Shape, Raised

LEMMA Keeps ==
    ASSUME Shape, NEW w \in Worker, UNCHANGED contVars
    PROVE  Untouched(w) /\ Others(w)
  BY DEF contVars, Shape, Untouched, Others

LEMMA Removes ==
    ASSUME Shape, NEW w \in Worker, RemoveContainer(w)
    PROVE  Gone(w) /\ Others(w)
  BY DEF RemoveContainer, Shape, Gone, Others

LEMMA Marks ==
    ASSUME Shape, NEW w \in Worker, NEW what, UNCHANGED <<state, active>>,
           fs' = [fs EXCEPT ![w] = Marked(@, what)]
    PROVE  MarkedWith(w, what) /\ Others(w)
<1>1. fs'[w] = Marked(fs[w], what) /\ DOMAIN fs[w] = RootfsFields
  BY DEF Shape
<1>2. DOMAIN fs' = Worker /\ \A v \in Worker \ {w} : fs'[v] = fs[v]
  BY DEF Shape
<1> QED
  BY <1>1, <1>2, MarkedShape DEF MarkedWith, Content, Others, Shape

LEMMA Discards ==
    ASSUME Shape, NEW w \in Worker, Discard(w)
    PROVE  (Gone(w) \/ Stays(w)) /\ Others(w)
<1> DEFINE what == IF fs[w].hal /\ ~active[w] THEN {"hal"} ELSE {}
<1>1. CASE RemoveContainer(w)
  BY <1>1, Removes
<1>2. CASE fs' = [fs EXCEPT ![w] = Marked(@, what)] /\ UNCHANGED <<state, active>>
  <2> HIDE DEF what
  <2>1. MarkedWith(w, what) /\ Others(w)
    BY <1>2, Marks
  <2> QED
    BY <2>1 DEF Stays, what
<1> QED
  BY <1>1, <1>2 DEF Discard

LEMMA BootsUp ==
    ASSUME Shape, NEW w \in Worker, Boots(w)
    PROVE  Booted(w) /\ Others(w)
  BY DEF Boots, Shape, RootfsFields, Booted, Content, Others

LEMMA Creates ==
    ASSUME Shape, NEW w \in Worker, NEW s \in {"up", "down"}, Created(w, s)
    PROVE  Made(w) /\ Others(w)
  BY DEF Created, Shape, Made, Others

LEMMA RaisesEnsuring ==
    ASSUME Shape, NEW w \in Worker, RaiseEnsuring(w)
    PROVE  /\ Raised(w) /\ Others(w)
           /\ (fresh[w] /\ (Gone(w) \/ Stays(w))) \/ (~fresh[w] /\ Untouched(w))
  BY Raises, Discards, Keeps DEF RaiseEnsuring

(* A failed installation ends the task or leads back to its beginning.     *)
LEMMA InstallsFail ==
    ASSUME Shape, NEW w \in Worker, InstallFails(w)
    PROVE  Raised(w) \/ (pc'[w] \in {"webview", "single"} /\ fresh'[w] = fresh[w])
  BY Raises DEF InstallFails, Installation, Goto, Shape

LEMMA InstallEnds ==
    ASSUME Shape, NEW w \in Worker, Installed(w)
    PROVE  pc'[w] \in {"slot", "root"} /\ fresh'[w] = fresh[w]
  BY DEF Installed, Goto, Shape

LEMMA InspectSteps ==
    ASSUME Shape, NEW w \in Worker, Inspect(w)
    PROVE  /\ image' = image /\ pc[w] = "inspect" /\ Others(w)
           /\ \/ pc'[w] = "image" /\ MarkedWith(w, Unseen(w))
              \/ pc'[w] = "boot" /\ ~fresh'[w] /\ (Untouched(w) \/ Booted(w))
              \/ pc'[w] = "image" /\ state[w] = "sigint" /\ (Gone(w) \/ Stays(w))
<1>1. image' = image /\ pc[w] = "inspect" /\ fresh' = [fresh EXCEPT ![w] = pc'[w] = "image"]
  BY DEF Inspect
<1>2. /\ pc' = [pc EXCEPT ![w] = "image"] => pc'[w] = "image"
      /\ pc' = [pc EXCEPT ![w] = "boot"] => pc'[w] = "boot"
      /\ fresh'[w] = (pc'[w] = "image")
  BY <1>1 DEF Shape
<1>3. CASE /\ Goto(w, "image") /\ fs' = [fs EXCEPT ![w] = Marked(@, Unseen(w))]
           /\ UNCHANGED <<state, active>>
  <2>1. MarkedWith(w, Unseen(w)) /\ Others(w)
    BY <1>3, Marks
  <2> QED
    BY <1>1, <1>2, <1>3, <2>1 DEF Goto
<1>4. CASE Goto(w, "boot") /\ UNCHANGED contVars
  BY <1>1, <1>2, <1>4, Keeps DEF Goto
<1>5. CASE Goto(w, "boot") /\ Boots(w)
  BY <1>1, <1>2, <1>5, BootsUp DEF Goto
<1>6. CASE state[w] = "sigint" /\ Goto(w, "image") /\ Discard(w)
  BY <1>1, <1>2, <1>6, Discards DEF Goto
<1> QED
  BY <1>3, <1>4, <1>5, <1>6 DEF Inspect

LEMMA BootSteps ==
    ASSUME Shape, NEW w \in Worker, Boot(w)
    PROVE  /\ image' = image /\ pc[w] = "boot" /\ Others(w)
           /\ \/ pc'[w] = "hal" /\ Untouched(w) /\ fresh'[w] = fresh[w]
              \/ pc'[w] = "image" /\ state[w] = "ill" /\ (Gone(w) \/ Stays(w))
              \/ /\ Raised(w)
                 /\ (fresh[w] /\ (Gone(w) \/ Stays(w))) \/ (~fresh[w] /\ Untouched(w))
<1>1. image' = image /\ pc[w] = "boot"
  BY DEF Boot
<1>2. CASE Goto(w, "hal") /\ UNCHANGED <<contVars, taskData>>
  BY <1>1, <1>2, Keeps DEF Goto, Shape, taskData
<1>3. CASE state[w] = "ill" /\ Discard(w) /\ Goto(w, "image")
  BY <1>1, <1>3, Discards DEF Goto, Shape
<1>4. CASE RaiseEnsuring(w)
  BY <1>1, <1>4, RaisesEnsuring
<1> QED
  BY <1>2, <1>3, <1>4 DEF Boot

LEMMA ProbeSteps ==
    ASSUME Shape, NEW w \in Worker, Probe(w)
    PROVE  /\ image' = image /\ pc[w] = "hal" /\ Others(w)
           /\ \/ /\ pc'[w] = "install" /\ fresh'[w] = fresh[w]
                 /\ MarkedWith(w, IF fs[w].hal THEN Unseen(w) ELSE {})
              \/ /\ pc'[w] = Equipped(w) /\ ~fresh'[w] /\ Untouched(w)
                 /\ halOn => fs[w].hal
<1>1. image' = image /\ pc[w] = "hal" /\ UNCHANGED <<state, active>>
  BY DEF Probe
<1> DEFINE what == IF fs[w].hal THEN Unseen(w) ELSE {}
<1>2. CASE Goto(w, "install") /\ UNCHANGED fresh /\ fs' = [fs EXCEPT ![w] = Marked(@, what)]
  <2> HIDE DEF what
  <2>1. MarkedWith(w, what) /\ Others(w)
    BY <1>1, <1>2, Marks
  <2> QED
    BY <1>1, <1>2, <2>1 DEF Goto, Shape, what
<1>3. CASE /\ ~halOn \/ fs[w].hal
           /\ Goto(w, Equipped(w)) /\ fresh' = [fresh EXCEPT ![w] = FALSE] /\ UNCHANGED fs
  BY <1>1, <1>3, Keeps DEF Goto, Shape, contVars
<1> QED
  BY <1>2, <1>3 DEF Probe, Answers

LEMMA InstallSteps ==
    ASSUME Shape, NEW w \in Worker, Install(w)
    PROVE  /\ image' = image /\ pc[w] = "install" /\ Others(w)
           /\ \/ /\ pc'[w] = "commit" /\ fresh'[w] = fresh[w]
                 /\ DOMAIN fs'[w] = RootfsFields
                 /\ state'[w] = state[w] /\ active'[w] = active[w]
                 /\ fs'[w].hal /\ fs'[w].used = fs[w].used /\ fs'[w].marks = fs[w].marks
                 /\ fs'[w].chrome = fs[w].chrome /\ fs'[w].web = fs[w].web
              \/ /\ Raised(w)
                 /\ (fresh[w] /\ (Gone(w) \/ Stays(w))) \/ (~fresh[w] /\ Untouched(w))
              \/ /\ Raised(w) /\ ~fresh[w] /\ DOMAIN fs'[w] = RootfsFields
                 /\ state'[w] = state[w] /\ active'[w] = active[w]
                 /\ fs'[w].hal /\ fs'[w].used = fs[w].used
                 /\ fs'[w].marks = fs[w].marks \cup {"hal"}
                 /\ fs'[w].chrome = fs[w].chrome /\ fs'[w].web = fs[w].web
<1>1. image' = image /\ pc[w] = "install"
  BY DEF Install
<1>2. CASE /\ fs' = [fs EXCEPT ![w].hal = TRUE] /\ Goto(w, "commit")
           /\ UNCHANGED <<state, active, taskData>>
  BY <1>1, <1>2 DEF Goto, taskData, Shape, RootfsFields, Others
<1>3. CASE RaiseEnsuring(w)
  BY <1>1, <1>3, RaisesEnsuring
<1>4. CASE /\ ~fresh[w] /\ Raise(w) /\ UNCHANGED <<state, active>>
           /\ fs' = [fs EXCEPT ![w] = Marked([@ EXCEPT !.hal = TRUE], {"hal"})]
  <2> DEFINE whole == [fs[w] EXCEPT !.hal = TRUE]
  <2>1. /\ DOMAIN whole = RootfsFields /\ whole.hal /\ whole.used = fs[w].used
        /\ whole.chrome = fs[w].chrome /\ whole.web = fs[w].web /\ whole.marks = fs[w].marks
    BY DEF Shape, RootfsFields
  <2>2. fs' = [fs EXCEPT ![w] = Marked(whole, {"hal"})]
    BY <1>4
  <2> HIDE DEF whole
  <2>3. /\ fs'[w] = Marked(whole, {"hal"}) /\ Others(w)
        /\ state'[w] = state[w] /\ active'[w] = active[w]
    BY <1>4, <2>2 DEF Shape, Others
  <2>4. /\ DOMAIN Marked(whole, {"hal"}) = RootfsFields
        /\ Marked(whole, {"hal"}).marks = whole.marks \cup {"hal"}
        /\ Marked(whole, {"hal"}).hal = whole.hal
        /\ Marked(whole, {"hal"}).used = whole.used
        /\ Marked(whole, {"hal"}).chrome = whole.chrome
        /\ Marked(whole, {"hal"}).web = whole.web
    BY <2>1, MarkedShape
  <2>5. Raised(w)
    BY <1>4, Raises
  <2> QED
    BY <1>1, <1>4, <2>1, <2>3, <2>4, <2>5
<1> QED
  BY <1>2, <1>3, <1>4 DEF Install

LEMMA CommitSteps ==
    ASSUME Shape, NEW w \in Worker, Commit(w)
    PROVE  /\ pc[w] = "commit" /\ Others(w) /\ image' \in {image, fs[w]}
           /\ \/ pc'[w] = "remove" /\ fresh'[w] = fresh[w] /\ Untouched(w)
              \/ Raised(w) /\ fresh[w] /\ (Gone(w) \/ Stays(w))
              \/ Raised(w) /\ ~fresh[w] /\ MarkedWith(w, {"hal"})
<1>1. pc[w] = "commit" /\ image' \in {image, fs[w]}
  BY DEF Commit
<1>2. CASE Goto(w, "remove") /\ UNCHANGED <<contVars, taskData>>
  BY <1>1, <1>2, Keeps DEF Goto, taskData, Shape
<1>3. CASE fresh[w] /\ RaiseEnsuring(w)
  BY <1>1, <1>3, RaisesEnsuring
<1>4. CASE /\ ~fresh[w] /\ Raise(w) /\ UNCHANGED <<state, active>>
           /\ fs' = [fs EXCEPT ![w] = Marked(@, {"hal"})]
  BY <1>1, <1>4, Raises, Marks
<1> QED
  BY <1>2, <1>3, <1>4 DEF Commit

LEMMA RemoveSteps ==
    ASSUME Shape, NEW w \in Worker, Remove(w)
    PROVE  /\ image' = image /\ pc[w] = "remove" /\ pc'[w] = "image"
           /\ Others(w) /\ (Gone(w) \/ Stays(w))
  BY Discards DEF Remove, Goto, Shape

LEMMA EnsureImageSteps ==
    ASSUME Shape, NEW w \in Worker, EnsureImage(w)
    PROVE  /\ image' = image /\ pc[w] = "image" /\ pc'[w] \in {"run", "pull"}
           /\ Others(w) /\ Untouched(w) /\ fresh'[w] = fresh[w]
  BY Keeps DEF EnsureImage, Goto, Shape, taskData

LEMMA PullSteps ==
    ASSUME Shape, NEW w \in Worker, Pull(w)
    PROVE  /\ image' \in Images \cup {image} /\ pc[w] = "pull"
           /\ Others(w) /\ Untouched(w)
           /\ (pc'[w] = "run" /\ fresh'[w] = fresh[w]) \/ Raised(w)
  BY Keeps, Raises DEF Pull, Goto, Shape, taskData

LEMMA RunSteps ==
    ASSUME Shape, NEW w \in Worker, Run(w)
    PROVE  /\ image' = image /\ pc[w] = "run" /\ Others(w)
           /\ \/ Made(w) /\ pc'[w] = "boot" /\ fresh'[w] = fresh[w]
              \/ Raised(w) /\ (Gone(w) \/ Untouched(w) \/ Made(w))
<1>1. image' = image /\ pc[w] = "run"
  BY DEF Run
<1>2. CASE Created(w, "up") /\ Goto(w, "boot") /\ UNCHANGED taskData
  BY <1>1, <1>2, Creates DEF Goto, Shape, taskData
<1>3. CASE Raise(w) /\ RemoveContainer(w)
  BY <1>1, <1>3, Raises, Removes
<1>4. CASE Raise(w) /\ UNCHANGED contVars
  BY <1>1, <1>4, Raises, Keeps
<1>5. CASE Raise(w) /\ (Created(w, "up") \/ Created(w, "down"))
  BY <1>1, <1>5, Raises, Creates
<1> QED
  BY <1>2, <1>3, <1>4, <1>5 DEF Run

LEMMA VersionSteps ==
    ASSUME Shape, NEW w \in Worker, Version(w)
    PROVE  /\ image' = image /\ pc[w] = "version" /\ Others(w) /\ Untouched(w)
           /\ \/ pc'[w] = "root" /\ fs[w].chrome # "none" /\ fresh'[w] = fresh[w]
              \/ pc'[w] \in {"webview", "single"} /\ fresh'[w] = fresh[w]
              \/ Raised(w)
<1>1. image' = image /\ pc[w] = "version" /\ Others(w) /\ Untouched(w)
  BY Keeps DEF Version
<1>2. PICK installed \in BOOLEAN :
          /\ Answers("chrome", fs[w].chrome # "none" /\ state[w] = "up", installed)
          /\ \/ installed /\ Goto(w, "root") /\ UNCHANGED taskData
             \/ Goto(w, Installation) /\ UNCHANGED taskData
             \/ Raise(w)
  BY DEF Version
<1>3. installed => fs[w].chrome # "none"
  BY <1>2 DEF Answers
<1>4. CASE installed /\ Goto(w, "root") /\ UNCHANGED taskData
  BY <1>1, <1>3, <1>4 DEF Goto, taskData, Shape
<1>5. CASE Goto(w, Installation) /\ UNCHANGED taskData
  BY <1>1, <1>5 DEF Goto, Installation, taskData, Shape
<1>6. CASE Raise(w)
  BY <1>1, <1>6, Raises
<1> QED
  BY <1>2, <1>4, <1>5, <1>6

LEMMA ReplaceSteps ==
    ASSUME Shape, NEW w \in Worker, ReplaceWebView(w)
    PROVE  /\ image' = image /\ pc[w] = "webview" /\ Others(w)
           /\ state'[w] = state[w] /\ DOMAIN fs'[w] = RootfsFields
           /\ fs'[w].hal = fs[w].hal /\ fs'[w].used = fs[w].used
           /\ fs'[w].chrome = fs[w].chrome
           /\ \/ /\ pc'[w] = "package" /\ fresh'[w] = fresh[w] /\ active'[w] = fs[w].hal
                 /\ fs'[w].web = "split" /\ fs'[w].marks = fs[w].marks \ {"hal"}
              \/ /\ active'[w] = active[w]
                 /\ Raised(w) \/ (pc'[w] \in {"webview", "single"} /\ fresh'[w] = fresh[w])
                 /\ fs'[w] = fs[w] \/ fs'[w].marks = fs[w].marks \cup {"web"}
<1>1. image' = image /\ pc[w] = "webview" /\ state' = state /\ DOMAIN fs[w] = RootfsFields
  BY DEF ReplaceWebView, Shape
<1>2. CASE /\ active' = [active EXCEPT ![w] = fs[w].hal]
           /\ fs' = [fs EXCEPT ![w].web = "split", ![w].marks = @ \ {"hal"}]
           /\ Goto(w, "package") /\ UNCHANGED taskData
  <2>1. active'[w] = fs[w].hal /\ pc'[w] = "package" /\ fresh'[w] = fresh[w]
    BY <1>2 DEF Goto, taskData, Shape
  <2>2. /\ DOMAIN fs'[w] = RootfsFields
        /\ fs'[w].hal = fs[w].hal /\ fs'[w].used = fs[w].used
        /\ fs'[w].chrome = fs[w].chrome
        /\ fs'[w].web = "split" /\ fs'[w].marks = fs[w].marks \ {"hal"}
    BY <1>2 DEF Shape, RootfsFields
  <2>3. Others(w)
    BY <1>1, <1>2 DEF Shape, Others
  <2> QED
    BY <1>1, <2>1, <2>2, <2>3
<1>3. CASE /\ InstallFails(w) /\ UNCHANGED active
           /\ fs' = [fs EXCEPT ![w] = Marked([@ EXCEPT !.web = "split"], {"web"})]
  <2> DEFINE half == [fs[w] EXCEPT !.web = "split"]
  <2>1. /\ DOMAIN half = RootfsFields /\ half.hal = fs[w].hal /\ half.used = fs[w].used
        /\ half.chrome = fs[w].chrome /\ half.marks = fs[w].marks
    BY <1>1 DEF RootfsFields
  <2>2. fs' = [fs EXCEPT ![w] = Marked(half, {"web"})]
    BY <1>3
  <2> HIDE DEF half
  <2>3. fs'[w] = Marked(half, {"web"}) /\ Others(w) /\ active'[w] = active[w]
    BY <1>1, <1>3, <2>2 DEF Shape, Others
  <2>4. /\ DOMAIN Marked(half, {"web"}) = RootfsFields
        /\ Marked(half, {"web"}).marks = half.marks \cup {"web"}
        /\ Marked(half, {"web"}).hal = half.hal
        /\ Marked(half, {"web"}).used = half.used
        /\ Marked(half, {"web"}).chrome = half.chrome
    BY <2>1, MarkedShape
  <2> QED
    BY <1>1, <1>3, <2>1, <2>3, <2>4, InstallsFail
<1>4. CASE InstallFails(w) /\ UNCHANGED <<fs, active>>
  <2>1. Others(w)
    BY <1>1, <1>4 DEF Shape, Others
  <2> QED
    BY <1>1, <1>4, <2>1, InstallsFail
<1> QED
  BY <1>2, <1>3, <1>4 DEF ReplaceWebView

LEMMA PackageSteps ==
    ASSUME Shape, NEW w \in Worker, InstallPackage(w)
    PROVE  /\ image' = image /\ pc[w] = "package" /\ Others(w)
           /\ state'[w] = state[w] /\ active'[w] = active[w]
           /\ DOMAIN fs'[w] = RootfsFields
           /\ fs'[w].hal = fs[w].hal /\ fs'[w].used = fs[w].used
           /\ \/ /\ pc'[w] \in {"slot", "root"} /\ fresh'[w] = fresh[w]
                 /\ fs'[w].web = fs[w].web /\ fs'[w].chrome = "split"
                 /\ fs'[w].marks = fs[w].marks \ {"web", "before"}
              \/ /\ Raised(w) \/ (pc'[w] \in {"webview", "single"} /\ fresh'[w] = fresh[w])
                 /\ fs'[w].marks = fs[w].marks \cup {"web"}
<1>1. /\ image' = image /\ pc[w] = "package" /\ UNCHANGED <<state, active>>
      /\ DOMAIN fs[w] = RootfsFields
  BY DEF InstallPackage, Shape
<1>2. CASE /\ fs' = [fs EXCEPT ![w].chrome = "split", ![w].marks = @ \ {"web", "before"}]
           /\ Installed(w)
  <2>1. /\ DOMAIN fs'[w] = RootfsFields
        /\ fs'[w].hal = fs[w].hal /\ fs'[w].used = fs[w].used /\ fs'[w].web = fs[w].web
        /\ fs'[w].chrome = "split" /\ fs'[w].marks = fs[w].marks \ {"web", "before"}
    BY <1>2 DEF Shape, RootfsFields
  <2>2. Others(w)
    BY <1>1, <1>2 DEF Shape, Others
  <2> QED
    BY <1>1, <1>2, <2>1, <2>2, InstallEnds
<1>3. ASSUME NEW version, InstallFails(w),
             fs' = [fs EXCEPT ![w] = Marked([@ EXCEPT !.chrome = version], {"web"})]
      PROVE  /\ Others(w) /\ DOMAIN fs'[w] = RootfsFields
             /\ fs'[w].hal = fs[w].hal /\ fs'[w].used = fs[w].used
             /\ fs'[w].marks = fs[w].marks \cup {"web"}
             /\ Raised(w) \/ (pc'[w] \in {"webview", "single"} /\ fresh'[w] = fresh[w])
  <2> DEFINE half == [fs[w] EXCEPT !.chrome = version]
  <2>1. /\ DOMAIN half = RootfsFields /\ half.hal = fs[w].hal /\ half.used = fs[w].used
        /\ half.marks = fs[w].marks
    BY <1>1 DEF RootfsFields
  <2>2. fs' = [fs EXCEPT ![w] = Marked(half, {"web"})]
    BY <1>3
  <2> HIDE DEF half
  <2>3. fs'[w] = Marked(half, {"web"}) /\ Others(w)
    BY <1>1, <2>2 DEF Shape, Others
  <2>4. /\ DOMAIN Marked(half, {"web"}) = RootfsFields
        /\ Marked(half, {"web"}).marks = half.marks \cup {"web"}
        /\ Marked(half, {"web"}).hal = half.hal
        /\ Marked(half, {"web"}).used = half.used
    BY <2>1, MarkedShape
  <2> QED
    BY <1>3, <2>1, <2>3, <2>4, InstallsFail
<1> QED
  BY <1>1, <1>2, <1>3 DEF InstallPackage

LEMMA SingleSteps ==
    ASSUME Shape, NEW w \in Worker, InstallSingle(w)
    PROVE  /\ image' = image /\ pc[w] = "single" /\ Others(w)
           /\ state'[w] = state[w] /\ active'[w] = active[w]
           /\ DOMAIN fs'[w] = RootfsFields /\ fs'[w].marks = fs[w].marks
           /\ fs'[w].hal = fs[w].hal /\ fs'[w].used = fs[w].used /\ fs'[w].web = fs[w].web
           /\ \/ /\ fs'[w].chrome = "single"
                 /\ pc'[w] \in {"slot", "root"} /\ fresh'[w] = fresh[w]
              \/ /\ fs'[w].chrome \in {fs[w].chrome, "single"}
                 /\ Raised(w) \/ (pc'[w] \in {"webview", "single"} /\ fresh'[w] = fresh[w])
<1>1. /\ image' = image /\ pc[w] = "single" /\ UNCHANGED <<state, active>>
      /\ DOMAIN fs[w] = RootfsFields
  BY DEF InstallSingle, Shape
<1>2. CASE fs' = [fs EXCEPT ![w].chrome = "single"] /\ (Installed(w) \/ InstallFails(w))
  <2>1. /\ DOMAIN fs'[w] = RootfsFields /\ fs'[w].marks = fs[w].marks
        /\ fs'[w].hal = fs[w].hal /\ fs'[w].used = fs[w].used /\ fs'[w].web = fs[w].web
        /\ fs'[w].chrome = "single"
    BY <1>2 DEF Shape, RootfsFields
  <2>2. Others(w)
    BY <1>1, <1>2 DEF Shape, Others
  <2> QED
    BY <1>1, <1>2, <2>1, <2>2, InstallEnds, InstallsFail
<1>3. CASE InstallFails(w) /\ UNCHANGED fs
  <2>1. Others(w)
    BY <1>1, <1>3 DEF Shape, Others
  <2> QED
    BY <1>1, <1>3, <2>1, InstallsFail
<1> QED
  BY <1>2, <1>3 DEF InstallSingle

LEMMA RootSteps ==
    ASSUME Shape, NEW w \in Worker, CheckRoot(w)
    PROVE  /\ image' = image /\ pc[w] = "root" /\ Others(w) /\ Untouched(w)
           /\ (pc'[w] = "slot" /\ fresh'[w] = fresh[w]) \/ Raised(w)
  BY Keeps, Raises DEF CheckRoot, Goto, Shape, taskData

LEMMA UseSteps ==
    ASSUME Shape, NEW w \in Worker, UseSlot(w)
    PROVE  /\ image' = image /\ pool = "open" /\ Others(w) /\ pc' = pc /\ fresh' = fresh
           /\ state'[w] = "up" /\ state[w] = "up" /\ active'[w] = active[w]
           /\ DOMAIN fs'[w] = RootfsFields /\ fs'[w].used
           /\ fs'[w].hal = fs[w].hal /\ fs'[w].chrome = fs[w].chrome /\ fs'[w].web = fs[w].web
           /\ fs'[w].marks = fs[w].marks \cup (IF pc[w] = "slot" THEN {} ELSE {"early"})
<1> DEFINE what == IF pc[w] = "slot" THEN {} ELSE {"early"}
           touched == [fs[w] EXCEPT !.used = TRUE]
<1>1. /\ DOMAIN touched = RootfsFields /\ touched.used /\ touched.hal = fs[w].hal
      /\ touched.chrome = fs[w].chrome /\ touched.web = fs[w].web
      /\ touched.marks = fs[w].marks
  BY DEF Shape, RootfsFields
<1>2. fs' = [fs EXCEPT ![w] = Marked(touched, what)]
  BY DEF UseSlot
<1> HIDE DEF touched, what
<1>3. /\ image' = image /\ pool = "open" /\ pc' = pc /\ fresh' = fresh
      /\ state' = state /\ active' = active /\ state[w] = "up"
  BY DEF UseSlot, taskData
<1>4. fs'[w] = Marked(touched, what) /\ Others(w)
  BY <1>2, <1>3 DEF Shape, Others
<1>5. /\ DOMAIN Marked(touched, what) = RootfsFields
      /\ Marked(touched, what).marks = touched.marks \cup what
      /\ Marked(touched, what).hal = touched.hal
      /\ Marked(touched, what).used = touched.used
      /\ Marked(touched, what).chrome = touched.chrome
      /\ Marked(touched, what).web = touched.web
  BY <1>1, MarkedShape
<1> QED
  BY <1>1, <1>3, <1>4, <1>5 DEF what

LEMMA RecoverSteps ==
    ASSUME Shape, NEW w \in Worker, Recover(w)
    PROVE  /\ image' = image /\ pool = "open" /\ pc[w] = "slot" /\ Others(w)
           /\ \/ pc'[w] = "image" /\ (Gone(w) \/ Stays(w))
              \/ pc'[w] = "dead" /\ Untouched(w) /\ fresh'[w] = fresh[w]
  BY Discards, Keeps DEF Recover, Goto, Shape

LEMMA CrashSteps ==
    ASSUME Shape, NEW w \in Worker, Crash(w)
    PROVE  /\ image' = image /\ pc' = pc /\ fresh' = fresh /\ Others(w)
           /\ state[w] = "up" /\ state'[w] \in {"down", "sigint", "looping", "ill"}
           /\ fs'[w] = fs[w] /\ active'[w] = active[w]
  BY DEF Crash, Shape, taskData, Others

LEMMA DaemonSteps ==
    ASSUME Shape, NEW w \in Worker, DaemonRestarts(w)
    PROVE  /\ image' = image /\ pc' = pc /\ fresh' = fresh /\ state[w] = "looping"
           /\ Booted(w) /\ Others(w)
  BY BootsUp DEF DaemonRestarts, taskData

-----------------------------------------------------------------------------
(* What a step for one worker leaves alone.                                *)

(* The tasks and counters of the others, and a pool as it is or failed.    *)
Tasks(w) ==
    /\ DOMAIN pc' = Worker /\ DOMAIN fresh' = Worker /\ DOMAIN restarts' = Worker
    /\ \A v \in Worker \ {w} :
          pc'[v] = pc[v] /\ fresh'[v] = fresh[v] /\ restarts'[v] = restarts[v]
    /\ restarts'[w] = restarts[w] \/ (pc'[w] = "image" /\ restarts'[w] = restarts[w] + 1)
    /\ halOn' = halOn /\ bundle' = bundle
    /\ pool' = pool \/ (pool # "open" /\ pool' = "failed")

LEMMA Moves ==
    ASSUME Shape, NEW w \in Worker, NEW l, Goto(w, l), UNCHANGED <<poolVars, restarts>>,
           fresh' = fresh \/ \E b : fresh' = [fresh EXCEPT ![w] = b]
    PROVE  Tasks(w)
  BY DEF Goto, poolVars, Shape, Tasks

LEMMA RaiseMoves ==
    ASSUME Shape, NEW w \in Worker, Raise(w)
    PROVE  Tasks(w)
  BY DEF Raise, Goto, Shape, Tasks

LEMMA Idles ==
    ASSUME Shape, NEW w \in Worker, UNCHANGED <<poolVars, pc, taskData>>
    PROVE  Tasks(w)
  BY DEF poolVars, taskData, Shape, Tasks

LEMMA FailMoves ==
    ASSUME Shape, NEW w \in Worker, InstallFails(w) \/ Installed(w)
    PROVE  Tasks(w)
  BY Moves, RaiseMoves DEF InstallFails, Installed

LEMMA TaskFrame ==
    ASSUME Shape, NEW w \in Worker, Act(w)
    PROVE  Tasks(w)
<1> USE DEF taskData
<1>1. CASE Inspect(w)
  <2>1. PICK l \in {"image", "boot"} : Goto(w, l)
    BY <1>1 DEF Inspect
  <2>2. UNCHANGED <<poolVars, restarts>> /\ \E b : fresh' = [fresh EXCEPT ![w] = b]
    BY <1>1 DEF Inspect
  <2> QED
    BY <2>1, <2>2, Moves
<1>2. CASE Boot(w)
  BY <1>2, Moves, RaiseMoves DEF Boot, RaiseEnsuring
<1>3. CASE Probe(w)
  BY <1>3, Moves DEF Probe
<1>4. CASE Install(w) \/ Commit(w)
  BY <1>4, Moves, RaiseMoves DEF Install, Commit, RaiseEnsuring
<1>5. CASE Remove(w) \/ EnsureImage(w)
  BY <1>5, Moves DEF Remove, EnsureImage
<1>6. CASE Pull(w) \/ Run(w) \/ Version(w) \/ CheckRoot(w)
  BY <1>6, Moves, RaiseMoves DEF Pull, Run, Version, CheckRoot
<1>7. CASE ReplaceWebView(w) \/ InstallPackage(w) \/ InstallSingle(w)
  BY <1>7, Moves, FailMoves DEF ReplaceWebView, InstallPackage, InstallSingle
<1>8. CASE UseSlot(w) \/ Crash(w) \/ DaemonRestarts(w)
  BY <1>8, Idles DEF UseSlot, Crash, DaemonRestarts
<1>9. CASE Recover(w)
  <2>1. CASE Goto(w, "dead") /\ UNCHANGED <<poolVars, fresh, restarts>>
    BY <2>1, Moves
  <2>2. CASE /\ restarts' = [restarts EXCEPT ![w] = @ + 1] /\ Goto(w, "image")
             /\ fresh' = [fresh EXCEPT ![w] = TRUE] /\ UNCHANGED poolVars
    BY <2>2 DEF Goto, poolVars, Shape, Tasks
  <2> QED
    BY <1>9, <2>1, <2>2 DEF Recover
<1> QED
  BY <1>1, <1>2, <1>3, <1>4, <1>5, <1>6, <1>7, <1>8, <1>9 DEF Act, TaskStep

(* Its own container and the image keep their shape.                       *)
OwnShape(w) ==
    /\ Others(w) /\ DOMAIN fs'[w] = RootfsFields
    /\ image' # None => DOMAIN image' = RootfsFields

LEMMA OwnShapes ==
    ASSUME Shape, NEW w \in Worker, Act(w)
    PROVE  OwnShape(w)
<1>0. /\ Shape /\ DOMAIN fs[w] = RootfsFields /\ DOMAIN Raw = RootfsFields
      /\ image # None => DOMAIN image = RootfsFields
  BY RawShape DEF Shape
<1>1. CASE Inspect(w)
  BY <1>1, <1>0, InspectSteps
  DEF Untouched, Gone, Content, MarkedWith, Stays, Booted, Made, Raised, OwnShape
<1>2. CASE Boot(w)
  BY <1>2, <1>0, BootSteps
  DEF Untouched, Gone, Content, MarkedWith, Stays, Booted, Made, Raised, OwnShape
<1>3. CASE Probe(w)
  BY <1>3, <1>0, ProbeSteps
  DEF Untouched, Gone, Content, MarkedWith, Stays, Booted, Made, Raised, OwnShape
<1>4. CASE Install(w)
  BY <1>4, <1>0, InstallSteps
  DEF Untouched, Gone, Content, MarkedWith, Stays, Booted, Made, Raised, OwnShape
<1>5. CASE Commit(w)
  BY <1>5, <1>0, CommitSteps
  DEF Untouched, Gone, Content, MarkedWith, Stays, Booted, Made, Raised, OwnShape
<1>6. CASE Remove(w)
  BY <1>6, <1>0, RemoveSteps
  DEF Untouched, Gone, Content, MarkedWith, Stays, Booted, Made, Raised, OwnShape
<1>7. CASE EnsureImage(w)
  BY <1>7, <1>0, EnsureImageSteps
  DEF Untouched, Gone, Content, MarkedWith, Stays, Booted, Made, Raised, OwnShape
<1>8. CASE Pull(w)
  BY <1>8, <1>0, PullSteps, ImagesShape, ContainersAssumption
  DEF Untouched, Gone, Content, MarkedWith, Stays, Booted, Made, Raised, ContainersAssumption, OwnShape
<1>9. CASE Run(w)
  BY <1>9, <1>0, RunSteps
  DEF Untouched, Gone, Content, MarkedWith, Stays, Booted, Made, Raised, OwnShape
<1>10. CASE Version(w)
  BY <1>10, <1>0, VersionSteps
  DEF Untouched, Gone, Content, MarkedWith, Stays, Booted, Made, Raised, OwnShape
<1>11. CASE ReplaceWebView(w)
  BY <1>11, <1>0, ReplaceSteps
  DEF Untouched, Gone, Content, MarkedWith, Stays, Booted, Made, Raised, OwnShape
<1>12. CASE InstallPackage(w)
  BY <1>12, <1>0, PackageSteps
  DEF Untouched, Gone, Content, MarkedWith, Stays, Booted, Made, Raised, OwnShape
<1>13. CASE InstallSingle(w)
  BY <1>13, <1>0, SingleSteps
  DEF Untouched, Gone, Content, MarkedWith, Stays, Booted, Made, Raised, OwnShape
<1>14. CASE CheckRoot(w)
  BY <1>14, <1>0, RootSteps
  DEF Untouched, Gone, Content, MarkedWith, Stays, Booted, Made, Raised, OwnShape
<1>15. CASE UseSlot(w)
  BY <1>15, <1>0, UseSteps
  DEF Untouched, Gone, Content, MarkedWith, Stays, Booted, Made, Raised, OwnShape
<1>16. CASE Recover(w)
  BY <1>16, <1>0, RecoverSteps
  DEF Untouched, Gone, Content, MarkedWith, Stays, Booted, Made, Raised, OwnShape
<1>17. CASE Crash(w)
  BY <1>17, <1>0, CrashSteps
  DEF Untouched, Gone, Content, MarkedWith, Stays, Booted, Made, Raised, OwnShape
<1>18. CASE DaemonRestarts(w)
  BY <1>18, <1>0, DaemonSteps
  DEF Untouched, Gone, Content, MarkedWith, Stays, Booted, Made, Raised, OwnShape
<1> QED
  BY <1>1, <1>2, <1>3, <1>4, <1>5, <1>6, <1>7, <1>8, <1>9,
     <1>10, <1>11, <1>12, <1>13, <1>14, <1>15, <1>16, <1>17, <1>18
  DEF Act, TaskStep

LEMMA Frame ==
    ASSUME Shape, NEW w \in Worker, Act(w)
    PROVE  Shape' /\ Tasks(w) /\ \A v \in Worker \ {w} : Same(v)
  BY OwnShapes, TaskFrame DEF OwnShape, Others, Tasks, Same, Shape

LEMMA InitShape == Init => Shape
  BY DEF Init, Shape, Raw, RootfsFields

(* The actions of the pool as a whole.                                     *)
Pool == Open \/ AllEnsured \/ Opened \/ Close

(* They only mark what is broken off, and when it was.                     *)
LEMMA PoolFrame ==
    ASSUME Shape, Pool
    PROVE  /\ Shape' /\ UNCHANGED <<image, state, active>>
           /\ \A w \in Worker :
                /\ Content(w)
                /\ fs[w].marks \ {"web"} \subseteq fs'[w].marks
                /\ "web" \in fs[w].marks => fs'[w].marks \cap {"web", "before"} # {}
<1> DEFINE Kept(w) ==
        /\ DOMAIN fs'[w] = RootfsFields /\ Content(w)
        /\ fs[w].marks \ {"web"} \subseteq fs'[w].marks
        /\ "web" \in fs[w].marks => fs'[w].marks \cap {"web", "before"} # {}
<1>1. CASE Open
  <2>1. ASSUME NEW w \in Worker PROVE Kept(w)
    <3>1. DOMAIN fs[w] = RootfsFields
      BY DEF Shape
    <3>2. fs'[w] = IF "web" \in fs[w].marks
                   THEN [fs[w] EXCEPT !.marks = (@ \ {"web"}) \cup {"before"}] ELSE fs[w]
      BY <1>1 DEF Open
    <3> QED
      BY <3>1, <3>2 DEF RootfsFields, Content
  <2> QED
    BY <1>1, <2>1 DEF Open, taskData, Shape
<1>2. CASE AllEnsured \/ Opened
  <2>1. UNCHANGED <<image, state, fs, active, fresh, restarts>> /\ DOMAIN pc' = Worker
    BY <1>2 DEF AllEnsured, Opened, contVars, taskData, Shape
  <2> QED
    BY <2>1 DEF Shape, Content
<1>3. CASE Close
  <2>1. ASSUME NEW w \in Worker PROVE Kept(w)
    <3>1. DOMAIN fs[w] = RootfsFields
      BY DEF Shape
    <3>2. fs'[w] = CASE pc[w] \in {"commit", "remove"} -> Marked(fs[w], {"hal"})
                     [] pc[w] = "package" -> Marked(fs[w], {"web"})
                     [] OTHER -> fs[w]
      BY <1>3 DEF Close
    <3>3. CASE pc[w] \in {"commit", "remove"}
      BY <3>1, <3>2, <3>3, MarkedShape DEF Content
    <3>4. CASE pc[w] = "package"
      BY <3>1, <3>2, <3>4, MarkedShape DEF Content
    <3>5. CASE pc[w] \notin {"commit", "remove", "package"}
      BY <3>1, <3>2, <3>5 DEF Content
    <3> QED
      BY <3>3, <3>4, <3>5
  <2> QED
    BY <1>3, <2>1 DEF Close, Shape
<1> QED
  BY <1>1, <1>2, <1>3 DEF Pool

-----------------------------------------------------------------------------
(* Types.                                                                  *)

LEMMA RootfsTyped ==
    ASSUME NEW r \in Rootfs
    PROVE  /\ r.hal \in BOOLEAN
           /\ [r EXCEPT !.hal = TRUE] \in Rootfs /\ [r EXCEPT !.used = TRUE] \in Rootfs
           /\ [r EXCEPT !.web = "split"] \in Rootfs
           /\ \A v \in ChromeVersion : [r EXCEPT !.chrome = v] \in Rootfs
           /\ \A what \in SUBSET Mark :
                 Marked(r, what) \in Rootfs /\ [r EXCEPT !.marks = @ \ what] \in Rootfs
           /\ [r EXCEPT !.marks = (@ \ {"web"}) \cup {"before"}] \in Rootfs
           /\ [r EXCEPT !.web = "split", !.marks = @ \ {"hal"}] \in Rootfs
           /\ [r EXCEPT !.chrome = "split", !.marks = @ \ {"web", "before"}] \in Rootfs
<1> USE DEF Rootfs, Marked, WebVersion
<1>1. r.hal \in BOOLEAN
  OBVIOUS
<1>2. [r EXCEPT !.hal = TRUE] \in Rootfs /\ [r EXCEPT !.used = TRUE] \in Rootfs
  OBVIOUS
<1>3. [r EXCEPT !.web = "split"] \in Rootfs
  OBVIOUS
<1>4. \A v \in ChromeVersion : [r EXCEPT !.chrome = v] \in Rootfs
  OBVIOUS
<1>5. \A what \in SUBSET Mark :
          Marked(r, what) \in Rootfs /\ [r EXCEPT !.marks = @ \ what] \in Rootfs
  OBVIOUS
<1>6. [r EXCEPT !.marks = (@ \ {"web"}) \cup {"before"}] \in Rootfs
  BY DEF Mark
<1>7. [r EXCEPT !.web = "split", !.marks = @ \ {"hal"}] \in Rootfs
  OBVIOUS
<1>8. [r EXCEPT !.chrome = "split", !.marks = @ \ {"web", "before"}] \in Rootfs
  BY DEF ChromeVersion
<1> HIDE DEF Rootfs, Marked, WebVersion
<1> QED
  BY <1>1, <1>2, <1>3, <1>4, <1>5, <1>6, <1>7, <1>8, Zenon

LEMMA ImagesTyped == {Raw, Old, Baked} \subseteq Rootfs
<1>1. Raw \in Rootfs
  BY DEF Raw, Rootfs, ChromeVersion, WebVersion
<1>2. Old \in Rootfs
  BY <1>1 DEF Old, Rootfs, ChromeVersion, WebVersion
<1>3. Baked \in Rootfs
  BY <1>2 DEF Baked, Rootfs
<1> QED
  BY <1>1, <1>2, <1>3

(* What is on the machine.                                                 *)
MachineTypes ==
    /\ image \in Rootfs \cup {None}
    /\ state \in [Worker -> States]
    /\ fs \in [Worker -> Rootfs]
    /\ active \in [Worker -> BOOLEAN]

LEMMA MachineStep ==
    ASSUME MachineTypes, NEW w \in Worker, Act(w)
    PROVE  MachineTypes'
<1>0. /\ fs[w] \in Rootfs /\ fs[w].hal \in BOOLEAN /\ Raw \in Rootfs
      /\ image # None => image \in Rootfs /\ image.hal \in BOOLEAN
  <2>1. fs[w] \in Rootfs /\ Raw \in Rootfs /\ (image # None => image \in Rootfs)
    BY ImagesTyped DEF MachineTypes
  <2> QED BY <2>1, RootfsTyped, Zenon
<1>m. ASSUME NEW what \in SUBSET Mark PROVE Marked(fs[w], what) \in Rootfs
  BY <1>0, RootfsTyped, Zenon
<1>n. /\ {"hal"} \in SUBSET Mark /\ {"web"} \in SUBSET Mark /\ {"early"} \in SUBSET Mark
      /\ {} \in SUBSET Mark /\ Unseen(w) \in SUBSET Mark
  BY DEF Mark, Unseen
<1> USE DEF MachineTypes
<1>a. ASSUME NEW r \in Rootfs, fs' = [fs EXCEPT ![w] = r] PROVE fs' \in [Worker -> Rootfs]
  BY <1>a
<1>b. ASSUME NEW s \in States, state' = [state EXCEPT ![w] = s] PROVE state' \in [Worker -> States]
  BY <1>b
<1>c. ASSUME NEW b \in BOOLEAN, active' = [active EXCEPT ![w] = b]
      PROVE  active' \in [Worker -> BOOLEAN]
  BY <1>c
<1>d. "none" \in States /\ "up" \in States /\ "down" \in States
  BY DEF States
<1>e. ASSUME RemoveContainer(w), image' \in Rootfs \cup {None} PROVE MachineTypes'
  BY <1>0, <1>a, <1>b, <1>c, <1>d, <1>e DEF RemoveContainer
<1>f. ASSUME Boots(w), UNCHANGED image PROVE MachineTypes'
  <2>1. fs' = [fs EXCEPT ![w] = [fs[w] EXCEPT !.marks = @ \ {"hal"}]]
    BY <1>f DEF Boots
  <2>2. [fs[w] EXCEPT !.marks = @ \ {"hal"}] \in Rootfs
    BY <1>0, <1>n, RootfsTyped, Zenon
  <2> QED BY <1>0, <1>a, <1>b, <1>c, <1>d, <1>f, <2>1, <2>2 DEF Boots
<1>g. ASSUME UNCHANGED contVars, image' \in Rootfs \cup {None} PROVE MachineTypes'
  BY <1>g DEF contVars
<1>j. ASSUME NEW r \in Rootfs, fs' = [fs EXCEPT ![w] = r], UNCHANGED <<state, active>>,
             image' \in Rootfs \cup {None}
      PROVE  MachineTypes'
  BY <1>a, <1>j
<1>k. ASSUME NEW what \in SUBSET Mark, fs' = [fs EXCEPT ![w] = Marked(@, what)],
             UNCHANGED <<state, active>>, image' \in Rootfs \cup {None}
      PROVE  MachineTypes'
  <2>1. fs' = [fs EXCEPT ![w] = Marked(fs[w], what)]
    BY <1>k
  <2> QED BY <1>k, <2>1, <1>m, <1>j
<1>l. ASSUME Discard(w), image' \in Rootfs \cup {None} PROVE MachineTypes'
  <2> DEFINE what == IF fs[w].hal /\ ~active[w] THEN {"hal"} ELSE {}
  <2>1. what \in SUBSET Mark
    BY <1>n
  <2>2. CASE fs' = [fs EXCEPT ![w] = Marked(@, what)] /\ UNCHANGED <<state, active>>
    <3> HIDE DEF what
    <3> QED BY <1>k, <1>l, <2>1, <2>2
  <2> QED BY <1>e, <1>l, <2>2 DEF Discard
<1>h. ASSUME RaiseEnsuring(w), image' \in Rootfs \cup {None} PROVE MachineTypes'
  BY <1>l, <1>g, <1>h DEF RaiseEnsuring
<1>i. ASSUME NEW s \in {"up", "down"}, Created(w, s), UNCHANGED image PROVE MachineTypes'
  BY <1>0, <1>a, <1>b, <1>c, <1>d, <1>i DEF Created
<1>1. CASE Inspect(w)
  BY <1>1, <1>k, <1>l, <1>f, <1>g, <1>n DEF Inspect
<1>2. CASE Boot(w)
  BY <1>2, <1>g, <1>h, <1>l DEF Boot
<1>3. CASE Probe(w)
  <2> DEFINE what == IF fs[w].hal THEN Unseen(w) ELSE {}
  <2>1. what \in SUBSET Mark
    BY <1>n
  <2>2. CASE fs' = [fs EXCEPT ![w] = Marked(@, what)] /\ UNCHANGED <<image, state, active>>
    <3> HIDE DEF what
    <3> QED BY <1>k, <2>1, <2>2
  <2>3. CASE UNCHANGED <<image, state, active, fs>>
    BY <2>3
  <2> QED BY <1>3, <2>2, <2>3 DEF Probe
<1>4. CASE Install(w)
  <2>0. [fs[w] EXCEPT !.hal = TRUE] \in Rootfs
    BY <1>0, RootfsTyped, Zenon
  <2>1. CASE fs' = [fs EXCEPT ![w].hal = TRUE] /\ UNCHANGED <<image, state, active>>
    <3>2. fs' = [fs EXCEPT ![w] = [fs[w] EXCEPT !.hal = TRUE]]
      BY <2>1
    <3> QED BY <1>j, <2>0, <2>1, <3>2
  <2>2. CASE /\ fs' = [fs EXCEPT ![w] = Marked([@ EXCEPT !.hal = TRUE], {"hal"})]
             /\ UNCHANGED <<image, state, active>>
    <3>2. Marked([fs[w] EXCEPT !.hal = TRUE], {"hal"}) \in Rootfs
      BY <2>0, <1>n, RootfsTyped, Zenon
    <3>3. fs' = [fs EXCEPT ![w] = Marked([fs[w] EXCEPT !.hal = TRUE], {"hal"})]
      BY <2>2
    <3> QED BY <1>j, <2>2, <3>2, <3>3
  <2> QED BY <1>4, <1>h, <2>1, <2>2 DEF Install
<1>5. CASE Commit(w)
  BY <1>5, <1>0, <1>g, <1>h, <1>k, <1>n DEF Commit
<1>6. CASE Remove(w)
  BY <1>6, <1>l DEF Remove
<1>7. CASE Pull(w)
  BY <1>7, <1>g, ImagesTyped, ContainersAssumption DEF Pull, contVars, ContainersAssumption
<1>8. CASE Run(w)
  BY <1>8, <1>e, <1>g, <1>i DEF Run
<1>9. CASE EnsureImage(w) \/ Version(w) \/ CheckRoot(w)
  BY <1>9, <1>g DEF EnsureImage, Version, CheckRoot
<1>10. CASE ReplaceWebView(w)
  <2>1. CASE /\ active' = [active EXCEPT ![w] = fs[w].hal] /\ UNCHANGED <<image, state>>
             /\ fs' = [fs EXCEPT ![w].web = "split", ![w].marks = @ \ {"hal"}]
    <3>1. fs' = [fs EXCEPT ![w] = [fs[w] EXCEPT !.web = "split", !.marks = @ \ {"hal"}]]
      BY <2>1
    <3>2. [fs[w] EXCEPT !.web = "split", !.marks = @ \ {"hal"}] \in Rootfs
      BY <1>0, RootfsTyped, Zenon
    <3> QED BY <1>0, <1>a, <1>c, <2>1, <3>1, <3>2
  <2>2. CASE /\ fs' = [fs EXCEPT ![w] = Marked([@ EXCEPT !.web = "split"], {"web"})]
             /\ UNCHANGED <<image, state, active>>
    <3>1. [fs[w] EXCEPT !.web = "split"] \in Rootfs
      BY <1>0, RootfsTyped, Zenon
    <3>2. Marked([fs[w] EXCEPT !.web = "split"], {"web"}) \in Rootfs
      BY <3>1, <1>n, RootfsTyped, Zenon
    <3>3. fs' = [fs EXCEPT ![w] = Marked([fs[w] EXCEPT !.web = "split"], {"web"})]
      BY <2>2
    <3> QED BY <1>j, <2>2, <3>2, <3>3
  <2>3. CASE UNCHANGED <<image, state, active, fs>>
    BY <2>3
  <2> QED BY <1>10, <2>1, <2>2, <2>3 DEF ReplaceWebView
<1>11. CASE InstallPackage(w)
  <2>1. CASE /\ fs' = [fs EXCEPT ![w].chrome = "split", ![w].marks = @ \ {"web", "before"}]
             /\ UNCHANGED <<image, state, active>>
    <3>1. fs' = [fs EXCEPT ![w] =
                    [fs[w] EXCEPT !.chrome = "split", !.marks = @ \ {"web", "before"}]]
      BY <2>1
    <3>2. [fs[w] EXCEPT !.chrome = "split", !.marks = @ \ {"web", "before"}] \in Rootfs
      BY <1>0, RootfsTyped, Zenon
    <3> QED BY <1>j, <2>1, <3>1, <3>2
  <2>2. ASSUME NEW v \in {fs[w].chrome, "split"}, UNCHANGED <<image, state, active>>,
               fs' = [fs EXCEPT ![w] = Marked([@ EXCEPT !.chrome = v], {"web"})]
        PROVE  MachineTypes'
    <3>1. v \in ChromeVersion
      BY <1>0 DEF Rootfs, ChromeVersion
    <3>2. [fs[w] EXCEPT !.chrome = v] \in Rootfs
      BY <1>0, <3>1, RootfsTyped, Zenon
    <3>3. Marked([fs[w] EXCEPT !.chrome = v], {"web"}) \in Rootfs
      BY <3>2, <1>n, RootfsTyped, Zenon
    <3>4. fs' = [fs EXCEPT ![w] = Marked([fs[w] EXCEPT !.chrome = v], {"web"})]
      BY <2>2
    <3> QED BY <1>j, <2>2, <3>3, <3>4
  <2> QED BY <1>11, <2>1, <2>2 DEF InstallPackage
<1>12. CASE InstallSingle(w)
  <2>1. CASE fs' = [fs EXCEPT ![w].chrome = "single"] /\ UNCHANGED <<image, state, active>>
    <3>1. fs' = [fs EXCEPT ![w] = [fs[w] EXCEPT !.chrome = "single"]]
      BY <2>1
    <3>2. "single" \in ChromeVersion
      BY DEF ChromeVersion
    <3>3. [fs[w] EXCEPT !.chrome = "single"] \in Rootfs
      BY <1>0, <3>2, RootfsTyped, Zenon
    <3> QED BY <1>j, <2>1, <3>1, <3>3
  <2>2. CASE UNCHANGED <<image, state, active, fs>>
    BY <2>2
  <2> QED BY <1>12, <2>1, <2>2 DEF InstallSingle
<1>13. CASE UseSlot(w)
  <2> DEFINE what == IF pc[w] = "slot" THEN {} ELSE {"early"}
  <2>1. [fs[w] EXCEPT !.used = TRUE] \in Rootfs /\ what \in SUBSET Mark
    BY <1>0, <1>n, RootfsTyped, Zenon
  <2>2. fs' = [fs EXCEPT ![w] = Marked([fs[w] EXCEPT !.used = TRUE], what)]
    BY <1>13 DEF UseSlot
  <2> HIDE DEF what
  <2>3. Marked([fs[w] EXCEPT !.used = TRUE], what) \in Rootfs
    BY <2>1, RootfsTyped, Zenon
  <2> QED BY <1>13, <1>j, <2>2, <2>3 DEF UseSlot
<1>14. CASE Recover(w)
  BY <1>14, <1>g, <1>l DEF Recover
<1>15. CASE Crash(w)
  BY <1>15 DEF Crash, States
<1>16. CASE DaemonRestarts(w)
  BY <1>16, <1>f DEF DaemonRestarts
<1> QED
  BY <1>1, <1>2, <1>3, <1>4, <1>5, <1>6, <1>7, <1>8, <1>9, <1>10, <1>11, <1>12, <1>13, <1>14,
     <1>15, <1>16
  DEF Act, TaskStep

(* The tasks with their counters.                                          *)
TaskTypes ==
    /\ pool \in {"closed", "opening", "open", "failed"}
    /\ opens \in 0..MaxOpens /\ halOn \in BOOLEAN /\ bundle \in Bundle
    /\ pc \in [Worker -> {"off", "ensured", "slot", "dead"} \cup TaskPC]
    /\ fresh \in [Worker -> BOOLEAN]
    /\ tries \in [Worker -> 0..MaxTries - 1]
    /\ restarts \in [Worker -> 0..MaxFailures]

LEMMA TaskTypesStep ==
    ASSUME TaskTypes, NEW w \in Worker, Act(w)
    PROVE  TaskTypes'
<1> USE ContainersAssumption DEF TaskTypes, poolVars, taskData
<1> DEFINE PC == {"off", "ensured", "slot", "dead"} \cup TaskPC
<1>0. /\ {"off", "ensured", "slot", "dead", "inspect", "boot", "hal", "install", "commit",
          "remove", "image", "pull", "run", "version", "root"} \subseteq PC
      /\ "package" \in PC /\ Installation \in PC
  BY DEF TaskPC, InstallPC, Installation
<1> HIDE DEF PC
<1>a. ASSUME NEW l \in PC, Goto(w, l), UNCHANGED <<poolVars, fresh, tries, restarts>>
      PROVE  TaskTypes'
  BY <1>a DEF Goto, PC
<1>b. ASSUME NEW l \in PC, NEW b \in BOOLEAN, Goto(w, l), fresh' = [fresh EXCEPT ![w] = b],
             UNCHANGED <<poolVars, tries, restarts>>
      PROVE  TaskTypes'
  BY <1>b DEF Goto, PC
<1>c. ASSUME Raise(w) PROVE TaskTypes'
  <2>1. pc' \in [Worker -> PC]
    BY <1>c, <1>0 DEF Raise, Goto, PC
  <2>2. tries' \in [Worker -> 0..MaxTries - 1]
    BY <1>c DEF Raise, MaxTries
  <2> QED BY <1>c, <2>1, <2>2 DEF Raise, PC
<1>d. ASSUME RaiseEnsuring(w) PROVE TaskTypes'
  BY <1>c, <1>d DEF RaiseEnsuring
<1>e. ASSUME InstallFails(w) PROVE TaskTypes'
  <2>1. CASE Raise(w)
    BY <1>c, <2>1
  <2>2. CASE /\ tries[w] < MaxTries - 1 /\ tries' = [tries EXCEPT ![w] = @ + 1]
             /\ Goto(w, Installation) /\ UNCHANGED <<poolVars, fresh, restarts>>
    <3>1. tries' \in [Worker -> 0..MaxTries - 1]
      BY <2>2 DEF MaxTries
    <3>2. pc' \in [Worker -> PC]
      BY <2>2, <1>0 DEF Goto, PC
    <3> QED BY <2>2, <3>1, <3>2 DEF PC
  <2> QED BY <1>e, <2>1, <2>2 DEF InstallFails
<1>f. ASSUME Installed(w) PROVE TaskTypes'
  <2>1. pc' \in [Worker -> PC]
    BY <1>0, <1>f DEF Installed, Goto, PC
  <2>2. tries' \in [Worker -> 0..MaxTries - 1]
    BY <1>f DEF Installed, MaxTries
  <2> QED BY <1>f, <2>1, <2>2 DEF Installed, PC
<1>1. CASE Inspect(w)
  <2>1. PICK l \in {"image", "boot"} : Goto(w, l)
    BY <1>1 DEF Inspect
  <2>2. (pc'[w] = "image") \in BOOLEAN
    OBVIOUS
  <2> QED BY <1>0, <1>1, <1>b, <2>1, <2>2 DEF Inspect
<1>2. CASE Boot(w)
  BY <1>0, <1>2, <1>a, <1>b, <1>d DEF Boot
<1>3. CASE Probe(w)
  <2>1. Equipped(w) \in PC
    BY <1>0 DEF Equipped
  <2>2. CASE Goto(w, "install") /\ UNCHANGED <<poolVars, fresh, tries, restarts>>
    BY <1>0, <1>a, <2>2
  <2>3. CASE /\ Goto(w, Equipped(w)) /\ fresh' = [fresh EXCEPT ![w] = FALSE]
             /\ UNCHANGED <<poolVars, tries, restarts>>
    BY <1>b, <2>1, <2>3
  <2> QED BY <1>3, <2>2, <2>3 DEF Probe
<1>4. CASE Install(w) \/ Commit(w)
  BY <1>0, <1>4, <1>a, <1>c, <1>d DEF Install, Commit
<1>5. CASE Remove(w)
  BY <1>0, <1>5, <1>b DEF Remove
<1>6. CASE EnsureImage(w) \/ Pull(w) \/ Run(w) \/ CheckRoot(w)
  BY <1>0, <1>6, <1>a, <1>c DEF EnsureImage, Pull, Run, CheckRoot
<1>7. CASE Version(w)
  BY <1>0, <1>7, <1>a, <1>c DEF Version
<1>8. CASE ReplaceWebView(w)
  BY <1>0, <1>8, <1>a, <1>e DEF ReplaceWebView
<1>9. CASE InstallPackage(w) \/ InstallSingle(w)
  BY <1>9, <1>e, <1>f DEF InstallPackage, InstallSingle
<1>10. CASE UseSlot(w) \/ Crash(w) \/ DaemonRestarts(w)
  BY <1>10 DEF UseSlot, Crash, DaemonRestarts
<1>11. CASE Recover(w)
  <2>1. CASE /\ restarts[w] < MaxFailures /\ restarts' = [restarts EXCEPT ![w] = @ + 1]
             /\ Goto(w, "image") /\ fresh' = [fresh EXCEPT ![w] = TRUE]
             /\ UNCHANGED <<poolVars, tries>>
    <3>1. restarts' \in [Worker -> 0..MaxFailures]
      BY <2>1 DEF ContainersAssumption
    <3>2. pc' \in [Worker -> PC]
      BY <1>0, <2>1 DEF Goto, PC
    <3> QED BY <2>1, <3>1, <3>2 DEF PC
  <2>2. CASE Goto(w, "dead") /\ UNCHANGED <<poolVars, fresh, restarts, tries>>
    BY <1>0, <1>a, <2>2
  <2> QED BY <1>11, <2>1, <2>2 DEF Recover
<1> QED
  BY <1>1, <1>2, <1>3, <1>4, <1>5, <1>6, <1>7, <1>8, <1>9, <1>10, <1>11 DEF Act, TaskStep

LEMMA FaultsStep ==
    ASSUME faults \in 0..MaxFaults, [Next]_vars
    PROVE  faults' \in 0..MaxFaults
<1> USE ContainersAssumption DEF ContainersAssumption
<1>1. CASE UNCHANGED vars
  BY <1>1 DEF vars
<1>2. CASE Open \/ AllEnsured \/ Opened \/ Close
  BY <1>2 DEF Open, AllEnsured, Opened, Close
<1>3. ASSUME NEW w \in Worker, Act(w) PROVE faults' \in 0..MaxFaults
  <2>1. CASE Inspect(w) \/ Probe(w) \/ EnsureImage(w) \/ Version(w)
    <3>1. ASSUME NEW q, NEW truth, NEW answer, Answers(q, truth, answer)
          PROVE  faults' \in 0..MaxFaults
      BY <3>1 DEF Answers
    <3>2. \E q, truth, answer : Answers(q, truth, answer)
      <4>1. CASE Inspect(w)
        BY <4>1, Zenon DEF Inspect
      <4>2. CASE Probe(w)
        BY <4>2, Zenon DEF Probe
      <4>3. CASE EnsureImage(w)
        BY <4>3, Zenon DEF EnsureImage
      <4>4. CASE Version(w)
        BY <4>4, Zenon DEF Version
      <4> QED BY <2>1, <4>1, <4>2, <4>3, <4>4
    <3> QED BY <3>1, <3>2
  <2>2. CASE Boot(w) \/ Install(w) \/ Commit(w) \/ Remove(w) \/ Pull(w) \/ Run(w)
    BY <2>2 DEF Boot, Install, Commit, Remove, Pull, Run
  <2>3. CASE ReplaceWebView(w) \/ InstallPackage(w) \/ InstallSingle(w) \/ CheckRoot(w)
    BY <2>3 DEF ReplaceWebView, InstallPackage, InstallSingle, CheckRoot
  <2>4. CASE UseSlot(w) \/ Recover(w) \/ Crash(w) \/ DaemonRestarts(w)
    BY <2>4 DEF UseSlot, Recover, Crash, DaemonRestarts
  <2> QED BY <1>3, <2>1, <2>2, <2>3, <2>4 DEF Act, TaskStep
<1> QED
  BY <1>1, <1>2, <1>3 DEF Next, Act

LEMMA PoolTypes ==
    ASSUME MachineTypes, TaskTypes, Pool
    PROVE  MachineTypes' /\ TaskTypes'
<1> USE ContainersAssumption DEF MachineTypes, TaskTypes, contVars, taskData, poolVars
<1>1. CASE Open
  <2>1. \A w \in Worker :
            fs[w] \in Rootfs /\ [fs[w] EXCEPT !.marks = (@ \ {"web"}) \cup {"before"}] \in Rootfs
    BY RootfsTyped, Zenon DEF MachineTypes
  <2>2. fs' \in [Worker -> Rootfs]
    BY <1>1, <2>1 DEF Open
  <2>3. opens' \in 1..MaxOpens /\ bundle' \in Bundle
    BY <1>1 DEF Open, ContainersAssumption
  <2>4. pc' \in [Worker -> TaskPC] /\ halOn' \in BOOLEAN /\ pool' = "opening"
    BY <1>1 DEF Open, TaskPC, ContainersAssumption
  <2> QED BY <1>1, <2>2, <2>3, <2>4 DEF Open, ContainersAssumption
<1>2. CASE AllEnsured
  BY <1>2 DEF AllEnsured, TaskPC
<1>3. CASE Opened
  BY <1>3 DEF Opened
<1>4. CASE Close
  <2>1. {"hal"} \in SUBSET Mark /\ {"web"} \in SUBSET Mark
    BY DEF Mark
  <2>2. \A w \in Worker : fs[w] \in Rootfs /\ Marked(fs[w], {"hal"}) \in Rootfs
                          /\ Marked(fs[w], {"web"}) \in Rootfs
    BY <2>1, RootfsTyped, Zenon DEF MachineTypes
  <2>3. fs' \in [Worker -> Rootfs]
    BY <1>4, <2>2 DEF Close
  <2> QED BY <1>4, <2>3 DEF Close, MaxTries, ContainersAssumption
<1> QED
  BY <1>1, <1>2, <1>3, <1>4 DEF Pool

(* Every variable keeps its type: no worker is recovered more often than   *)
(* MAX_SLOT_FAILURES, and Chrome is installed at most three times.         *)
THEOREM TypeCorrect == Spec => []TypeOK
<1>1. TypeOK <=> MachineTypes /\ TaskTypes /\ faults \in 0..MaxFaults
  BY DEF TypeOK, MachineTypes, TaskTypes
<1>2. Init => MachineTypes /\ TaskTypes /\ faults \in 0..MaxFaults
  <2> SUFFICES ASSUME Init PROVE MachineTypes /\ TaskTypes /\ faults \in 0..MaxFaults
    OBVIOUS
  <2>1. MachineTypes
    BY ImagesTyped DEF Init, MachineTypes, States
  <2>2. TaskTypes /\ faults \in 0..MaxFaults
    BY ContainersAssumption DEF Init, TaskTypes, MaxTries, Bundle, ContainersAssumption
  <2> QED BY <2>1, <2>2
<1>3. MachineTypes /\ TaskTypes /\ [Next]_vars => MachineTypes' /\ TaskTypes'
  <2> SUFFICES ASSUME MachineTypes, TaskTypes, [Next]_vars PROVE MachineTypes' /\ TaskTypes'
    OBVIOUS
  <2>1. CASE UNCHANGED vars
    BY <2>1 DEF vars, poolVars, contVars, taskData, MachineTypes, TaskTypes
  <2> QED
    BY <2>1, MachineStep, TaskTypesStep, PoolTypes DEF Next, Act, Pool
<1>4. faults \in 0..MaxFaults /\ [Next]_vars => (faults \in 0..MaxFaults)'
  BY FaultsStep
<1> QED
  BY <1>1, <1>2, <1>3, <1>4, PTL DEF Spec

-----------------------------------------------------------------------------
(* Closed pools.                                                           *)

OffInv == Shape /\ (pool = "closed" => \A w \in Worker : pc[w] = "off")

LEMMA OffStep == ASSUME OffInv, [Next]_vars PROVE OffInv'
<1>1. CASE \E w \in Worker : Act(w)
  <2>1. PICK w \in Worker : Act(w)
    BY <1>1
  <2>2. /\ Shape' /\ (pool' = pool \/ pool' = "failed")
        /\ \A v \in Worker \ {w} : pc'[v] = pc[v]
    BY <2>1, Frame DEF OffInv, Tasks
  <2>3. pool = "closed" => pc'[w] = pc[w]
    BY <2>1, CrashSteps, DaemonSteps DEF OffInv, Act, TaskStep, Inspect, Boot, Probe, Install,
       Commit, Remove, EnsureImage, Pull, Run, Version, ReplaceWebView, InstallPackage,
       InstallSingle, CheckRoot, UseSlot, Recover
  <2> QED
    BY <2>2, <2>3 DEF OffInv
<1>2. CASE Pool
  <2>1. Shape'
    BY <1>2, PoolFrame DEF OffInv
  <2> QED
    BY <1>2, <2>1 DEF Pool, Open, AllEnsured, Opened, Close, OffInv, poolVars
<1>3. CASE UNCHANGED vars
  BY <1>3 DEF OffInv, Shape, vars, poolVars, contVars, taskData
<1> QED
  BY <1>1, <1>2, <1>3 DEF Next, Act, Pool

LEMMA OffAlways == Spec => []OffInv
<1>1. Init => OffInv
  BY InitShape DEF Init, OffInv
<1> QED
  BY <1>1, OffStep, PTL DEF Spec

(* Closing a pool breaks off what is under way.                            *)
LEMMA PoolEnds ==
    ASSUME OffInv, Pool, NEW w \in Worker
    PROVE  /\ pc[w] \in {"commit", "remove"} => pc'[w] = "off" /\ "hal" \in fs'[w].marks
           /\ pc[w] = "package" => pc'[w] = "off" /\ "web" \in fs'[w].marks
           /\ \/ pc'[w] = "off"
              \/ /\ pc'[w] = "inspect" /\ pc[w] = "off"
                 /\ "web" \in fs[w].marks => "before" \in fs'[w].marks
              \/ /\ pc[w] = "ensured" /\ pc'[w] = "version" /\ fs'[w] = fs[w]
              \/ pc'[w] = pc[w] /\ fs'[w] = fs[w] /\ bundle' = bundle /\ restarts' = restarts
<1>1. DOMAIN fs[w] = RootfsFields
  BY DEF OffInv, Shape
<1>2. CASE Close
  <2>1. fs'[w] = CASE pc[w] \in {"commit", "remove"} -> Marked(fs[w], {"hal"})
                   [] pc[w] = "package" -> Marked(fs[w], {"web"})
                   [] OTHER -> fs[w]
    BY <1>2 DEF Close
  <2>2. pc[w] \in {"commit", "remove"} => "hal" \in fs'[w].marks
    BY <1>1, <2>1, MarkedShape
  <2>3. pc[w] = "package" => "web" \in fs'[w].marks
    BY <1>1, <2>1, MarkedShape
  <2>4. pc'[w] = "off"
    BY <1>2 DEF Close
  <2> QED
    BY <2>2, <2>3, <2>4
<1>3. CASE Open
  <2>1. fs'[w] = IF "web" \in fs[w].marks
                 THEN [fs[w] EXCEPT !.marks = (@ \ {"web"}) \cup {"before"}] ELSE fs[w]
    BY <1>3 DEF Open
  <2>2. "web" \in fs[w].marks => "before" \in fs'[w].marks
    BY <1>1, <2>1 DEF RootfsFields
  <2> QED
    BY <1>3, <2>2 DEF Open, OffInv
<1>4. CASE AllEnsured
  BY <1>4 DEF AllEnsured, contVars
<1>5. CASE Opened
  BY <1>5 DEF Opened, contVars, taskData
<1> QED
  BY <1>2, <1>3, <1>4, <1>5 DEF Pool

-----------------------------------------------------------------------------
(* Clean images.                                                           *)

(* The exceptions of ImageClean.                                           *)
Excused(rootfs) == rootfs.marks \cap {"unseen", "early"} # {}

HalPC  == {"install", "commit", "remove"}
HeldPC == {"ensured", "version", "webview", "package", "single", "root", "slot"}

(* A container that sessions used has the HAL, so it is not committed; one *)
(* that loses the HAL was made anew from the image.                        *)
CleanInv ==
    /\ Shape /\ halOn = TRUE
    /\ ImageClean
    /\ \A w \in Worker :
          /\ fs[w].used => fs[w].hal \/ Excused(fs[w])
          /\ pc[w] \in HalPC => ~fs[w].used \/ Excused(fs[w])
          /\ pc[w] \in HeldPC => fs[w].hal

LEMMA CleanInit == ASSUME HalModes \subseteq {TRUE}, Init PROVE CleanInv
  BY InitShape DEF Init, CleanInv, ImageClean, Raw, HalPC, HeldPC

OwnClean(w) ==
    /\ fs'[w].used => fs'[w].hal \/ Excused(fs'[w])
    /\ pc'[w] \in HalPC => ~fs'[w].used \/ Excused(fs'[w])
    /\ pc'[w] \in HeldPC => fs'[w].hal
    /\ image' # None /\ image'.used => Excused(image')

LEMMA OwnCleans ==
    ASSUME CleanInv, NEW w \in Worker, Act(w)
    PROVE  OwnClean(w)
<1> USE DEF HalPC, HeldPC, Excused
<1>0. /\ Shape /\ halOn = TRUE /\ (image # None /\ image.used => Excused(image))
      /\ fs[w].used => fs[w].hal \/ Excused(fs[w])
      /\ pc[w] \in HalPC => ~fs[w].used \/ Excused(fs[w])
      /\ pc[w] \in HeldPC => fs[w].hal
      /\ ~Raw.used /\ ~Raw.hal
  BY RawShape DEF CleanInv, ImageClean
<1>1. CASE Inspect(w)
  BY <1>1, <1>0, InspectSteps
  DEF Untouched, Gone, Content, MarkedWith, Stays, Booted, Made, Raised, Unseen, OwnClean
<1>2. CASE Boot(w)
  BY <1>2, <1>0, BootSteps
  DEF Untouched, Gone, Content, MarkedWith, Stays, Booted, Made, Raised, OwnClean
<1>3. CASE Probe(w)
  BY <1>3, <1>0, ProbeSteps
  DEF Untouched, Gone, Content, MarkedWith, Stays, Booted, Made, Raised, Equipped, Installation, Unseen, OwnClean
<1>4. CASE Install(w)
  BY <1>4, <1>0, InstallSteps
  DEF Untouched, Gone, Content, MarkedWith, Stays, Booted, Made, Raised, OwnClean
<1>5. CASE Commit(w)
  BY <1>5, <1>0, CommitSteps
  DEF Untouched, Gone, Content, MarkedWith, Stays, Booted, Made, Raised, OwnClean
<1>6. CASE Remove(w)
  BY <1>6, <1>0, RemoveSteps
  DEF Untouched, Gone, Content, MarkedWith, Stays, Booted, Made, Raised, OwnClean
<1>7. CASE EnsureImage(w)
  BY <1>7, <1>0, EnsureImageSteps
  DEF Untouched, Gone, Content, MarkedWith, Stays, Booted, Made, Raised, OwnClean
<1>8. CASE Pull(w)
  BY <1>8, <1>0, PullSteps, ImagesShape, ContainersAssumption
  DEF Untouched, Gone, Content, MarkedWith, Stays, Booted, Made, Raised, ContainersAssumption, OwnClean
<1>9. CASE Run(w)
  BY <1>9, <1>0, RunSteps
  DEF Untouched, Gone, Content, MarkedWith, Stays, Booted, Made, Raised, OwnClean
<1>10. CASE Version(w)
  BY <1>10, <1>0, VersionSteps
  DEF Untouched, Gone, Content, MarkedWith, Stays, Booted, Made, Raised, OwnClean
<1>11. CASE ReplaceWebView(w)
  BY <1>11, <1>0, ReplaceSteps
  DEF Untouched, Gone, Content, MarkedWith, Stays, Booted, Made, Raised, OwnClean
<1>12. CASE InstallPackage(w)
  BY <1>12, <1>0, PackageSteps
  DEF Untouched, Gone, Content, MarkedWith, Stays, Booted, Made, Raised, OwnClean
<1>13. CASE InstallSingle(w)
  BY <1>13, <1>0, SingleSteps
  DEF Untouched, Gone, Content, MarkedWith, Stays, Booted, Made, Raised, OwnClean
<1>14. CASE CheckRoot(w)
  BY <1>14, <1>0, RootSteps
  DEF Untouched, Gone, Content, MarkedWith, Stays, Booted, Made, Raised, OwnClean
<1>15. CASE UseSlot(w)
  BY <1>15, <1>0, UseSteps
  DEF Untouched, Gone, Content, MarkedWith, Stays, Booted, Made, Raised, OwnClean
<1>16. CASE Recover(w)
  BY <1>16, <1>0, RecoverSteps
  DEF Untouched, Gone, Content, MarkedWith, Stays, Booted, Made, Raised, OwnClean
<1>17. CASE Crash(w)
  BY <1>17, <1>0, CrashSteps
  DEF Untouched, Gone, Content, MarkedWith, Stays, Booted, Made, Raised, OwnClean
<1>18. CASE DaemonRestarts(w)
  BY <1>18, <1>0, DaemonSteps
  DEF Untouched, Gone, Content, MarkedWith, Stays, Booted, Made, Raised, OwnClean
<1> QED
  BY <1>1, <1>2, <1>3, <1>4, <1>5, <1>6, <1>7, <1>8, <1>9,
     <1>10, <1>11, <1>12, <1>13, <1>14, <1>15, <1>16, <1>17, <1>18
  DEF Act, TaskStep

LEMMA CleanStep ==
    ASSUME HalModes \subseteq {TRUE}, CleanInv, [Next]_vars
    PROVE  CleanInv'
<1>1. CASE \E w \in Worker : Act(w)
  <2>1. PICK w \in Worker : Act(w)
    BY <1>1
  <2>2. /\ Shape' /\ halOn' = halOn /\ OwnClean(w)
        /\ \A v \in Worker \ {w} : Same(v)
    BY <2>1, Frame, OwnCleans DEF CleanInv, Tasks
  <2> QED
    BY <2>2 DEF CleanInv, OwnClean, Same, ImageClean, Excused
<1>2. CASE Pool
  <2>1. /\ Shape' /\ UNCHANGED image
        /\ \A w \in Worker : Content(w) /\ (Excused(fs[w]) => Excused(fs'[w]))
    BY <1>2, PoolFrame DEF CleanInv, Excused
  <2>2. halOn' = TRUE
    BY <1>2 DEF Pool, Open, AllEnsured, Opened, Close, poolVars, CleanInv
  <2>3. \A w \in Worker : pc'[w] \in HalPC \cup HeldPC =>
            (pc[w] \in HeldPC /\ pc'[w] \in HeldPC) \/ pc'[w] = pc[w]
    BY <1>2 DEF Pool, Open, AllEnsured, Opened, Close, HalPC, HeldPC
  <2> QED
    BY <2>1, <2>2, <2>3 DEF CleanInv, ImageClean, HalPC, HeldPC, Content
<1>3. CASE UNCHANGED vars
  BY <1>3 DEF CleanInv, Shape, ImageClean, vars, poolVars, contVars, taskData, Excused
<1> QED
  BY <1>1, <1>2, <1>3 DEF Next, Act, Pool

(* The image that workers are recreated from holds traces of a session     *)
(* only through a container that was not seen to exist or to have the HAL, *)
(* or was used out of service, whatever tasks, crashes and lost answers    *)
(* come together: _commit_sensor_hal_and_recreate of docker.py commits     *)
(* whole containers.                                                       *)
THEOREM CleanImages == ASSUME HalModes \subseteq {TRUE} PROVE Spec => []ImageClean
<1>1. Init => CleanInv
  BY CleanInit
<1>2. CleanInv /\ [Next]_vars => CleanInv'
  BY CleanStep
<1>3. CleanInv => ImageClean
  BY DEF CleanInv
<1> QED
  BY <1>1, <1>2, <1>3, PTL DEF Spec

-----------------------------------------------------------------------------
(* Equipped slots.                                                         *)

(* In an open pool only a recovery is under way.  A task that checks root  *)
(* or is done has a Chrome, or was a recovery without one to install.      *)
EquipInv ==
    /\ Shape
    /\ \A w \in Worker :
          /\ pool = "open" => pc[w] \in {"slot", "dead"} \/ restarts[w] > 0
          /\ pc[w] \in {"root", "slot"} =>
                fs[w].chrome # "none" \/ (bundle = "nothing" /\ restarts[w] > 0)

OwnEquip(w) ==
    /\ pool = "open" => pc'[w] \in {"slot", "dead"} \/ restarts'[w] > 0
    /\ pc'[w] \in {"root", "slot"} =>
          fs'[w].chrome # "none" \/ (bundle = "nothing" /\ restarts'[w] > 0)

LEMMA OwnEquips ==
    ASSUME EquipInv, restarts \in [Worker -> Nat], NEW w \in Worker, Act(w)
    PROVE  OwnEquip(w)
<1>0. /\ Shape /\ restarts[w] \in Nat
      /\ pool = "open" => pc[w] \in {"slot", "dead"} \/ restarts[w] > 0
      /\ pc[w] \in {"root", "slot"} =>
            fs[w].chrome # "none" \/ (bundle = "nothing" /\ restarts[w] > 0)
      /\ restarts'[w] = restarts[w] \/ (pc'[w] = "image" /\ restarts'[w] = restarts[w] + 1)
  BY TaskFrame DEF EquipInv, Tasks
<1>a. restarts[w] > 0 => restarts'[w] > 0
  BY <1>0
<1>b. pc[w] = "slot" /\ Recover(w) /\ pc'[w] = "image" => restarts'[w] > 0
  BY <1>0 DEF Recover, Goto, Shape
<1>1. CASE Inspect(w)
  BY <1>1, <1>0, <1>a, <1>b, InspectSteps
  DEF Untouched, Gone, Content, MarkedWith, Stays, Booted, Made, Raised, OwnEquip
<1>2. CASE Boot(w)
  BY <1>2, <1>0, <1>a, <1>b, BootSteps
  DEF Untouched, Gone, Content, MarkedWith, Stays, Booted, Made, Raised, OwnEquip
<1>3. CASE Probe(w)
  BY <1>3, <1>0, <1>a, <1>b, ProbeSteps
  DEF Untouched, Gone, Content, MarkedWith, Stays, Booted, Made, Raised, Equipped, Installation, OwnEquip
<1>4. CASE Install(w)
  BY <1>4, <1>0, <1>a, <1>b, InstallSteps
  DEF Untouched, Gone, Content, MarkedWith, Stays, Booted, Made, Raised, OwnEquip
<1>5. CASE Commit(w)
  BY <1>5, <1>0, <1>a, <1>b, CommitSteps
  DEF Untouched, Gone, Content, MarkedWith, Stays, Booted, Made, Raised, OwnEquip
<1>6. CASE Remove(w)
  BY <1>6, <1>0, <1>a, <1>b, RemoveSteps
  DEF Untouched, Gone, Content, MarkedWith, Stays, Booted, Made, Raised, OwnEquip
<1>7. CASE EnsureImage(w)
  BY <1>7, <1>0, <1>a, <1>b, EnsureImageSteps
  DEF Untouched, Gone, Content, MarkedWith, Stays, Booted, Made, Raised, OwnEquip
<1>8. CASE Pull(w)
  BY <1>8, <1>0, <1>a, <1>b, PullSteps
  DEF Untouched, Gone, Content, MarkedWith, Stays, Booted, Made, Raised, OwnEquip
<1>9. CASE Run(w)
  BY <1>9, <1>0, <1>a, <1>b, RunSteps
  DEF Untouched, Gone, Content, MarkedWith, Stays, Booted, Made, Raised, OwnEquip
<1>10. CASE Version(w)
  BY <1>10, <1>0, <1>a, <1>b, VersionSteps
  DEF Untouched, Gone, Content, MarkedWith, Stays, Booted, Made, Raised, OwnEquip
<1>11. CASE ReplaceWebView(w)
  BY <1>11, <1>0, <1>a, <1>b, ReplaceSteps
  DEF Untouched, Gone, Content, MarkedWith, Stays, Booted, Made, Raised, OwnEquip
<1>12. CASE InstallPackage(w)
  BY <1>12, <1>0, <1>a, <1>b, PackageSteps
  DEF Untouched, Gone, Content, MarkedWith, Stays, Booted, Made, Raised, OwnEquip
<1>13. CASE InstallSingle(w)
  BY <1>13, <1>0, <1>a, <1>b, SingleSteps
  DEF Untouched, Gone, Content, MarkedWith, Stays, Booted, Made, Raised, OwnEquip
<1>14. CASE CheckRoot(w)
  BY <1>14, <1>0, <1>a, <1>b, RootSteps
  DEF Untouched, Gone, Content, MarkedWith, Stays, Booted, Made, Raised, OwnEquip
<1>15. CASE UseSlot(w)
  BY <1>15, <1>0, <1>a, <1>b, UseSteps
  DEF Untouched, Gone, Content, MarkedWith, Stays, Booted, Made, Raised, OwnEquip
<1>16. CASE Recover(w)
  BY <1>16, <1>0, <1>a, <1>b, RecoverSteps
  DEF Untouched, Gone, Content, MarkedWith, Stays, Booted, Made, Raised, OwnEquip
<1>17. CASE Crash(w)
  BY <1>17, <1>0, <1>a, <1>b, CrashSteps
  DEF Untouched, Gone, Content, MarkedWith, Stays, Booted, Made, Raised, OwnEquip
<1>18. CASE DaemonRestarts(w)
  BY <1>18, <1>0, <1>a, <1>b, DaemonSteps
  DEF Untouched, Gone, Content, MarkedWith, Stays, Booted, Made, Raised, OwnEquip
<1> QED
  BY <1>1, <1>2, <1>3, <1>4, <1>5, <1>6, <1>7, <1>8, <1>9,
     <1>10, <1>11, <1>12, <1>13, <1>14, <1>15, <1>16, <1>17, <1>18
  DEF Act, TaskStep

LEMMA EquipStep ==
    ASSUME EquipInv, OffInv, restarts \in [Worker -> Nat], [Next]_vars
    PROVE  EquipInv'
<1>1. CASE \E w \in Worker : Act(w)
  <2>1. PICK w \in Worker : Act(w)
    BY <1>1
  <2>2. /\ Shape' /\ OwnEquip(w) /\ bundle' = bundle /\ (pool' = "open" => pool = "open")
        /\ \A v \in Worker \ {w} : Same(v)
    BY <2>1, Frame, OwnEquips DEF EquipInv, Tasks
  <2> QED
    BY <2>2 DEF EquipInv, OwnEquip, Same
<1>2. CASE Pool
  <2>1. Shape' /\ \A w \in Worker : fs'[w].chrome = fs[w].chrome
    BY <1>2, PoolFrame DEF EquipInv, Content
  <2>2. pool' = "open" => \A w \in Worker : pc'[w] = "slot"
    BY <1>2 DEF Pool, Open, AllEnsured, Opened, Close, poolVars
  <2> QED
    BY <1>2, <2>1, <2>2, PoolEnds DEF EquipInv
<1>3. CASE UNCHANGED vars
  BY <1>3 DEF EquipInv, Shape, vars, poolVars, contVars, taskData
<1> QED
  BY <1>1, <1>2, <1>3 DEF Next, Act, Pool

(* A slot in service has the HAL and a Chrome, whatever an earlier         *)
(* process, a crash or a commit left, unless it was recovered in a process *)
(* with no Chrome to install: _init_auto and _recover_slot.                *)
THEOREM EquippedSlots == ASSUME HalModes \subseteq {TRUE} PROVE Spec => []SlotsEquipped
<1>1. Init => CleanInv /\ EquipInv
  BY CleanInit, InitShape DEF Init, EquipInv
<1>2. CleanInv /\ [Next]_vars => CleanInv'
  BY CleanStep
<1>3. CleanInv /\ EquipInv => SlotsEquipped
  BY DEF CleanInv, EquipInv, SlotsEquipped, InService, HeldPC
<1>4. TypeOK /\ EquipInv /\ OffInv /\ [Next]_vars => EquipInv'
  <2>1. TypeOK => restarts \in [Worker -> Nat]
    BY DEF TypeOK
  <2> QED BY <2>1, EquipStep
<1> QED
  BY <1>1, <1>2, <1>3, <1>4, OffAlways, TypeCorrect, PTL DEF Spec

-----------------------------------------------------------------------------
(* Versions.                                                               *)

Sound(rootfs) ==
    rootfs.chrome \in {"none", rootfs.web, "single"} \/ "before" \in rootfs.marks

(* Where an installation of this process may have been broken off.         *)
BrokenPC == {"webview", "single", "off", "dead"}

AlignedAt(l, rootfs) ==
    \/ l = "package" /\ rootfs.web = "split"
    \/ l \in BrokenPC /\ "web" \in rootfs.marks
    \/ l # "package" /\ Sound(rootfs)

AlignedInv ==
    /\ Shape
    /\ image # None => Sound(image)
    /\ \A w \in Worker : AlignedAt(pc[w], fs[w])

OwnAligned(w) == (image' # None => Sound(image')) /\ AlignedAt(pc'[w], fs'[w])

LEMMA OwnAlignments ==
    ASSUME AlignedInv, NEW w \in Worker, Act(w)
    PROVE  OwnAligned(w)
<1> USE DEF BrokenPC, Sound, AlignedAt
<1>0. /\ Shape /\ (image # None => Sound(image)) /\ AlignedAt(pc[w], fs[w])
      /\ Raw.chrome = "none"
  BY RawShape DEF AlignedInv
<1>1. CASE Inspect(w)
  BY <1>1, <1>0, InspectSteps
  DEF Untouched, Gone, Content, MarkedWith, Stays, Booted, Made, Raised, OwnAligned
<1>2. CASE Boot(w)
  BY <1>2, <1>0, BootSteps
  DEF Untouched, Gone, Content, MarkedWith, Stays, Booted, Made, Raised, OwnAligned
<1>3. CASE Probe(w)
  BY <1>3, <1>0, ProbeSteps
  DEF Untouched, Gone, Content, MarkedWith, Stays, Booted, Made, Raised, Equipped, Installation, OwnAligned
<1>4. CASE Install(w)
  BY <1>4, <1>0, InstallSteps
  DEF Untouched, Gone, Content, MarkedWith, Stays, Booted, Made, Raised, OwnAligned
<1>5. CASE Commit(w)
  BY <1>5, <1>0, CommitSteps
  DEF Untouched, Gone, Content, MarkedWith, Stays, Booted, Made, Raised, OwnAligned
<1>6. CASE Remove(w)
  BY <1>6, <1>0, RemoveSteps
  DEF Untouched, Gone, Content, MarkedWith, Stays, Booted, Made, Raised, OwnAligned
<1>7. CASE EnsureImage(w)
  BY <1>7, <1>0, EnsureImageSteps
  DEF Untouched, Gone, Content, MarkedWith, Stays, Booted, Made, Raised, OwnAligned
<1>8. CASE Pull(w)
  BY <1>8, <1>0, PullSteps, ImagesShape, ContainersAssumption
  DEF Untouched, Gone, Content, MarkedWith, Stays, Booted, Made, Raised, ContainersAssumption, OwnAligned
<1>9. CASE Run(w)
  BY <1>9, <1>0, RunSteps
  DEF Untouched, Gone, Content, MarkedWith, Stays, Booted, Made, Raised, OwnAligned
<1>10. CASE Version(w)
  BY <1>10, <1>0, VersionSteps
  DEF Untouched, Gone, Content, MarkedWith, Stays, Booted, Made, Raised, OwnAligned
<1>11. CASE ReplaceWebView(w)
  BY <1>11, <1>0, ReplaceSteps
  DEF Untouched, Gone, Content, MarkedWith, Stays, Booted, Made, Raised, OwnAligned
<1>12. CASE InstallPackage(w)
  BY <1>12, <1>0, PackageSteps
  DEF Untouched, Gone, Content, MarkedWith, Stays, Booted, Made, Raised, OwnAligned
<1>13. CASE InstallSingle(w)
  BY <1>13, <1>0, SingleSteps
  DEF Untouched, Gone, Content, MarkedWith, Stays, Booted, Made, Raised, OwnAligned
<1>14. CASE CheckRoot(w)
  BY <1>14, <1>0, RootSteps
  DEF Untouched, Gone, Content, MarkedWith, Stays, Booted, Made, Raised, OwnAligned
<1>15. CASE UseSlot(w)
  BY <1>15, <1>0, UseSteps
  DEF Untouched, Gone, Content, MarkedWith, Stays, Booted, Made, Raised, OwnAligned
<1>16. CASE Recover(w)
  BY <1>16, <1>0, RecoverSteps
  DEF Untouched, Gone, Content, MarkedWith, Stays, Booted, Made, Raised, OwnAligned
<1>17. CASE Crash(w)
  BY <1>17, <1>0, CrashSteps
  DEF Untouched, Gone, Content, MarkedWith, Stays, Booted, Made, Raised, OwnAligned
<1>18. CASE DaemonRestarts(w)
  BY <1>18, <1>0, DaemonSteps
  DEF Untouched, Gone, Content, MarkedWith, Stays, Booted, Made, Raised, OwnAligned
<1> QED
  BY <1>1, <1>2, <1>3, <1>4, <1>5, <1>6, <1>7, <1>8, <1>9,
     <1>10, <1>11, <1>12, <1>13, <1>14, <1>15, <1>16, <1>17, <1>18
  DEF Act, TaskStep

LEMMA AlignedStep ==
    ASSUME AlignedInv, OffInv, [Next]_vars
    PROVE  AlignedInv'
<1>1. CASE \E w \in Worker : Act(w)
  <2>1. PICK w \in Worker : Act(w)
    BY <1>1
  <2>2. Shape' /\ OwnAligned(w) /\ \A v \in Worker \ {w} : Same(v)
    BY <2>1, Frame, OwnAlignments DEF AlignedInv
  <2> QED
    BY <2>2 DEF AlignedInv, OwnAligned, Same
<1>2. CASE Pool
  <2>1. Shape' /\ image' = image
    BY <1>2, PoolFrame DEF AlignedInv
  <2>2. ASSUME NEW w \in Worker
        PROVE  AlignedAt(pc'[w], fs'[w])
    <3>1. /\ fs'[w].chrome = fs[w].chrome /\ fs'[w].web = fs[w].web
          /\ fs[w].marks \ {"web"} \subseteq fs'[w].marks
          /\ "web" \in fs[w].marks => fs'[w].marks \cap {"web", "before"} # {}
          /\ AlignedAt(pc[w], fs[w])
      BY <1>2, PoolFrame DEF AlignedInv, Content
    <3>2. CASE pc[w] = "package"
      BY <1>2, <3>2, PoolEnds DEF AlignedAt, BrokenPC
    <3>3. CASE pc[w] # "package"
      BY <1>2, <3>1, <3>3, PoolEnds DEF AlignedAt, BrokenPC, Sound
    <3> QED
      BY <3>2, <3>3
  <2> QED
    BY <2>1, <2>2 DEF AlignedInv
<1>3. CASE UNCHANGED vars
  BY <1>3 DEF AlignedInv, Shape, vars, poolVars, contVars, taskData
<1> QED
  BY <1>1, <1>2, <1>3 DEF Next, Act, Pool

(* Chrome and the WebView of a slot in service are of one version, unless  *)
(* Chrome came from a single APK or another process broke an installation  *)
(* off: install_chrome of docker.py, its retries and its recoveries.       *)
THEOREM AlignedVersions == Spec => []VersionsAligned
<1>1. Init => AlignedInv
  BY InitShape DEF Init, AlignedInv, AlignedAt, Sound, Raw
<1>2. AlignedInv /\ OffInv /\ [Next]_vars => AlignedInv'
  BY AlignedStep
<1>3. AlignedInv => VersionsAligned
  BY DEF AlignedInv, AlignedAt, BrokenPC, Sound, VersionsAligned, InService
<1> QED
  BY <1>1, <1>2, <1>3, OffAlways, PTL DEF Spec

-----------------------------------------------------------------------------
(* The running HAL.                                                        *)

RunsHal(l, rootfs, booted) ==
    rootfs.hal => booted \/ "hal" \in rootfs.marks \/ l \in {"commit", "remove"}

ActiveInv == Shape /\ \A w \in Worker : RunsHal(pc[w], fs[w], active[w])

OwnActive(w) == RunsHal(pc'[w], fs'[w], active'[w])

LEMMA OwnActives ==
    ASSUME ActiveInv, NEW w \in Worker, Act(w)
    PROVE  OwnActive(w)
<1> USE DEF RunsHal
<1>0. Shape /\ RunsHal(pc[w], fs[w], active[w]) /\ ~Raw.hal
  BY RawShape DEF ActiveInv
<1>1. CASE Inspect(w)
  BY <1>1, <1>0, InspectSteps
  DEF Untouched, Gone, Content, MarkedWith, Stays, Booted, Made, Raised, OwnActive
<1>2. CASE Boot(w)
  BY <1>2, <1>0, BootSteps
  DEF Untouched, Gone, Content, MarkedWith, Stays, Booted, Made, Raised, OwnActive
<1>3. CASE Probe(w)
  BY <1>3, <1>0, ProbeSteps
  DEF Untouched, Gone, Content, MarkedWith, Stays, Booted, Made, Raised, OwnActive
<1>4. CASE Install(w)
  BY <1>4, <1>0, InstallSteps
  DEF Untouched, Gone, Content, MarkedWith, Stays, Booted, Made, Raised, OwnActive
<1>5. CASE Commit(w)
  BY <1>5, <1>0, CommitSteps
  DEF Untouched, Gone, Content, MarkedWith, Stays, Booted, Made, Raised, OwnActive
<1>6. CASE Remove(w)
  BY <1>6, <1>0, RemoveSteps
  DEF Untouched, Gone, Content, MarkedWith, Stays, Booted, Made, Raised, OwnActive
<1>7. CASE EnsureImage(w)
  BY <1>7, <1>0, EnsureImageSteps
  DEF Untouched, Gone, Content, MarkedWith, Stays, Booted, Made, Raised, OwnActive
<1>8. CASE Pull(w)
  BY <1>8, <1>0, PullSteps
  DEF Untouched, Gone, Content, MarkedWith, Stays, Booted, Made, Raised, OwnActive
<1>9. CASE Run(w)
  BY <1>9, <1>0, RunSteps
  DEF Untouched, Gone, Content, MarkedWith, Stays, Booted, Made, Raised, OwnActive
<1>10. CASE Version(w)
  BY <1>10, <1>0, VersionSteps
  DEF Untouched, Gone, Content, MarkedWith, Stays, Booted, Made, Raised, OwnActive
<1>11. CASE ReplaceWebView(w)
  BY <1>11, <1>0, ReplaceSteps
  DEF Untouched, Gone, Content, MarkedWith, Stays, Booted, Made, Raised, OwnActive
<1>12. CASE InstallPackage(w)
  BY <1>12, <1>0, PackageSteps
  DEF Untouched, Gone, Content, MarkedWith, Stays, Booted, Made, Raised, OwnActive
<1>13. CASE InstallSingle(w)
  BY <1>13, <1>0, SingleSteps
  DEF Untouched, Gone, Content, MarkedWith, Stays, Booted, Made, Raised, OwnActive
<1>14. CASE CheckRoot(w)
  BY <1>14, <1>0, RootSteps
  DEF Untouched, Gone, Content, MarkedWith, Stays, Booted, Made, Raised, OwnActive
<1>15. CASE UseSlot(w)
  BY <1>15, <1>0, UseSteps
  DEF Untouched, Gone, Content, MarkedWith, Stays, Booted, Made, Raised, OwnActive
<1>16. CASE Recover(w)
  BY <1>16, <1>0, RecoverSteps
  DEF Untouched, Gone, Content, MarkedWith, Stays, Booted, Made, Raised, OwnActive
<1>17. CASE Crash(w)
  BY <1>17, <1>0, CrashSteps
  DEF Untouched, Gone, Content, MarkedWith, Stays, Booted, Made, Raised, OwnActive
<1>18. CASE DaemonRestarts(w)
  BY <1>18, <1>0, DaemonSteps
  DEF Untouched, Gone, Content, MarkedWith, Stays, Booted, Made, Raised, OwnActive
<1> QED
  BY <1>1, <1>2, <1>3, <1>4, <1>5, <1>6, <1>7, <1>8, <1>9,
     <1>10, <1>11, <1>12, <1>13, <1>14, <1>15, <1>16, <1>17, <1>18
  DEF Act, TaskStep

LEMMA ActiveStep ==
    ASSUME ActiveInv, OffInv, [Next]_vars
    PROVE  ActiveInv'
<1>1. CASE \E w \in Worker : Act(w)
  <2>1. PICK w \in Worker : Act(w)
    BY <1>1
  <2>2. Shape' /\ OwnActive(w) /\ \A v \in Worker \ {w} : Same(v)
    BY <2>1, Frame, OwnActives DEF ActiveInv
  <2> QED
    BY <2>2 DEF ActiveInv, OwnActive, Same
<1>2. CASE Pool
  <2>1. /\ Shape' /\ active' = active
        /\ \A w \in Worker : Content(w) /\ fs[w].marks \ {"web"} \subseteq fs'[w].marks
    BY <1>2, PoolFrame DEF ActiveInv
  <2> QED
    BY <1>2, <2>1, PoolEnds DEF ActiveInv, RunsHal, Content
<1>3. CASE UNCHANGED vars
  BY <1>3 DEF ActiveInv, Shape, vars, poolVars, contVars, taskData
<1> QED
  BY <1>1, <1>2, <1>3 DEF Next, Act, Pool

(* A slot in service was booted with the HAL it has, unless the            *)
(* installation of the HAL was broken off in this very container.          *)
THEOREM RunningHal == ASSUME HalModes \subseteq {TRUE} PROVE Spec => []HalActive
<1>1. Init => CleanInv /\ ActiveInv
  <2>1. Init => CleanInv
    BY CleanInit
  <2>2. Init => ActiveInv
    BY InitShape DEF Init, ActiveInv, RunsHal, Raw
  <2> QED BY <2>1, <2>2
<1>2. CleanInv /\ [Next]_vars => CleanInv'
  BY CleanStep
<1>3. ActiveInv /\ OffInv /\ [Next]_vars => ActiveInv'
  BY ActiveStep
<1>4. CleanInv /\ ActiveInv => HalActive
  BY DEF CleanInv, ActiveInv, RunsHal, HalActive, InService, HeldPC
<1> QED
  BY <1>1, <1>2, <1>3, <1>4, OffAlways, PTL DEF Spec

-----------------------------------------------------------------------------
(* What sessions leave in a container.                                     *)

CreatePC == {"image", "pull", "run"}

(* The exceptions of DataKept while a pool is opened.                      *)
Spent(s, rootfs) == s \in {"ill", "sigint"} \/ Excused(rootfs)

(* While no pool is open, a container that is about to be created anew     *)
(* holds nothing or is spent, and so is one created for a task.            *)
KeptAt(l, new, s, rootfs) ==
    /\ l \in CreatePC => ~rootfs.used \/ Spent(s, rootfs)
    /\ new => \/ l \in CreatePC
              \/ l \in {"boot", "hal"} \cup HalPC /\ (~rootfs.used \/ Excused(rootfs))

KeptInv == pool # "open" => \A w \in Worker : KeptAt(pc[w], fresh[w], state[w], fs[w])

OwnKept(w) ==
    /\ KeptAt(pc'[w], fresh'[w], state'[w], fs'[w])
    /\ fs[w].used /\ ~fs'[w].used => Spent(state[w], fs[w])

LEMMA OwnKepts ==
    ASSUME CleanInv, KeptInv, pool # "open", NEW w \in Worker, Act(w)
    PROVE  OwnKept(w)
<1> USE DEF CreatePC, HalPC, HeldPC, Spent, Excused, KeptAt
<1>0. /\ Shape /\ halOn = TRUE /\ (image # None /\ image.used => Excused(image))
      /\ fs[w].used => fs[w].hal \/ Excused(fs[w])
      /\ pc[w] \in HalPC => ~fs[w].used \/ Excused(fs[w])
      /\ KeptAt(pc[w], fresh[w], state[w], fs[w])
      /\ ~Raw.used
  BY RawShape DEF CleanInv, ImageClean, KeptInv
<1>1. CASE Inspect(w)
  BY <1>1, <1>0, InspectSteps
  DEF Untouched, Gone, Content, MarkedWith, Stays, Booted, Made, Raised, Unseen, OwnKept
<1>2. CASE Boot(w)
  BY <1>2, <1>0, BootSteps
  DEF Untouched, Gone, Content, MarkedWith, Stays, Booted, Made, Raised, OwnKept
<1>3. CASE Probe(w)
  BY <1>3, <1>0, ProbeSteps
  DEF Untouched, Gone, Content, MarkedWith, Stays, Booted, Made, Raised, Equipped, Installation, Unseen, OwnKept
<1>4. CASE Install(w)
  BY <1>4, <1>0, InstallSteps
  DEF Untouched, Gone, Content, MarkedWith, Stays, Booted, Made, Raised, OwnKept
<1>5. CASE Commit(w)
  BY <1>5, <1>0, CommitSteps
  DEF Untouched, Gone, Content, MarkedWith, Stays, Booted, Made, Raised, OwnKept
<1>6. CASE Remove(w)
  BY <1>6, <1>0, RemoveSteps
  DEF Untouched, Gone, Content, MarkedWith, Stays, Booted, Made, Raised, OwnKept
<1>7. CASE EnsureImage(w)
  BY <1>7, <1>0, EnsureImageSteps
  DEF Untouched, Gone, Content, MarkedWith, Stays, Booted, Made, Raised, OwnKept
<1>8. CASE Pull(w)
  BY <1>8, <1>0, PullSteps, ImagesShape, ContainersAssumption
  DEF Untouched, Gone, Content, MarkedWith, Stays, Booted, Made, Raised, ContainersAssumption, OwnKept
<1>9. CASE Run(w)
  BY <1>9, <1>0, RunSteps
  DEF Untouched, Gone, Content, MarkedWith, Stays, Booted, Made, Raised, OwnKept
<1>10. CASE Version(w)
  BY <1>10, <1>0, VersionSteps
  DEF Untouched, Gone, Content, MarkedWith, Stays, Booted, Made, Raised, OwnKept
<1>11. CASE ReplaceWebView(w)
  BY <1>11, <1>0, ReplaceSteps
  DEF Untouched, Gone, Content, MarkedWith, Stays, Booted, Made, Raised, OwnKept
<1>12. CASE InstallPackage(w)
  BY <1>12, <1>0, PackageSteps
  DEF Untouched, Gone, Content, MarkedWith, Stays, Booted, Made, Raised, OwnKept
<1>13. CASE InstallSingle(w)
  BY <1>13, <1>0, SingleSteps
  DEF Untouched, Gone, Content, MarkedWith, Stays, Booted, Made, Raised, OwnKept
<1>14. CASE CheckRoot(w)
  BY <1>14, <1>0, RootSteps
  DEF Untouched, Gone, Content, MarkedWith, Stays, Booted, Made, Raised, OwnKept
<1>15. CASE UseSlot(w)
  BY <1>15, <1>0, UseSteps
  DEF Untouched, Gone, Content, MarkedWith, Stays, Booted, Made, Raised, OwnKept
<1>16. CASE Recover(w)
  BY <1>16, <1>0, RecoverSteps
  DEF Untouched, Gone, Content, MarkedWith, Stays, Booted, Made, Raised, OwnKept
<1>17. CASE Crash(w)
  BY <1>17, <1>0, CrashSteps
  DEF Untouched, Gone, Content, MarkedWith, Stays, Booted, Made, Raised, OwnKept
<1>18. CASE DaemonRestarts(w)
  BY <1>18, <1>0, DaemonSteps
  DEF Untouched, Gone, Content, MarkedWith, Stays, Booted, Made, Raised, OwnKept
<1> QED
  BY <1>1, <1>2, <1>3, <1>4, <1>5, <1>6, <1>7, <1>8, <1>9,
     <1>10, <1>11, <1>12, <1>13, <1>14, <1>15, <1>16, <1>17, <1>18
  DEF Act, TaskStep

LEMMA KeptStep ==
    ASSUME CleanInv, OffInv, KeptInv, [Next]_vars
    PROVE  KeptInv' /\ KeepsData
<1>1. ASSUME NEW w \in Worker, Act(w) PROVE KeptInv' /\ KeepsData
  <2>1. (pool' # "open") = (pool # "open") /\ \A v \in Worker \ {w} : Same(v)
    BY <1>1, Frame DEF CleanInv, Tasks
  <2>2. CASE pool # "open"
    <3>1. OwnKept(w)
      BY <1>1, <2>2, OwnKepts
    <3>2. KeptInv'
      BY <2>1, <2>2, <3>1 DEF KeptInv, OwnKept, Same
    <3>3. \A v \in Worker : fs[v].used /\ ~fs'[v].used => Spent(state[v], fs[v])
      BY <2>1, <3>1 DEF OwnKept, Same
    <3> QED
      BY <3>2, <3>3 DEF KeepsData, Spent, Excused
  <2>3. CASE pool = "open"
    <3>1. Recover(w) \/ pc[w] \in TaskPC \/ (fs[w].used => fs'[w].used)
      <4>1. CASE TaskStep(w)
        BY <4>1 DEF TaskStep, Inspect, Boot, Probe, Install, Commit, Remove, EnsureImage, Pull,
           Run, Version, ReplaceWebView, InstallPackage, InstallSingle, CheckRoot, TaskPC,
           InstallPC
      <4>2. CASE UseSlot(w) \/ Crash(w) \/ DaemonRestarts(w)
        BY <4>2, UseSteps, CrashSteps, DaemonSteps DEF CleanInv, Booted, Content
      <4> QED BY <1>1, <4>1, <4>2 DEF Act
    <3>2. \A v \in Worker \ {w} : fs'[v] = fs[v]
      BY <2>1 DEF Same
    <3> QED
      BY <2>1, <2>3, <3>1, <3>2 DEF KeptInv, KeepsData
  <2> QED
    BY <2>2, <2>3
<1>2. ASSUME Pool PROVE KeptInv' /\ KeepsData
  <2>1. UNCHANGED state /\ \A w \in Worker : fs'[w].used = fs[w].used
    BY <1>2, PoolFrame DEF CleanInv, Content
  <2>2. ASSUME NEW w \in Worker, pool' # "open" PROVE KeptAt(pc'[w], fresh'[w], state'[w], fs'[w])
    <3>1. CASE Open
      <4>1. pc'[w] = "inspect" /\ fresh' = fresh /\ pc[w] = "off" /\ pool # "open"
        BY <3>1 DEF Open, taskData, OffInv
      <4>2. ~fresh[w]
        BY <4>1 DEF KeptInv, KeptAt, CreatePC, HalPC
      <4> QED BY <4>1, <4>2 DEF KeptAt, CreatePC
    <3>2. CASE AllEnsured
      <4>1. pc'[w] = "version" /\ fresh' = fresh /\ pc[w] = "ensured" /\ pool # "open"
        BY <3>2 DEF AllEnsured, taskData
      <4>2. ~fresh[w]
        BY <4>1 DEF KeptInv, KeptAt, CreatePC, HalPC
      <4> QED BY <4>1, <4>2 DEF KeptAt, CreatePC
    <3>3. CASE Opened
      BY <2>2, <3>3 DEF Opened
    <3>4. CASE Close
      BY <3>4 DEF Close, KeptAt, CreatePC
    <3> QED
      BY <1>2, <3>1, <3>2, <3>3, <3>4 DEF Pool
  <2> QED
    BY <2>1, <2>2 DEF KeptInv, KeepsData
<1>3. CASE UNCHANGED vars
  BY <1>3 DEF KeptInv, KeepsData, vars, poolVars, contVars, taskData
<1> QED
  BY <1>1, <1>2, <1>3 DEF Next, Act, Pool

(* What sessions left in a container is deleted by nothing but a recovery, *)
(* unless the container is ill or stopped by a SIGINT, was not seen to     *)
(* exist or to have the HAL, or was used out of service: ensure_container  *)
(* of docker.py, with any answers lost and wherever tasks break off.       *)
THEOREM DataIsKept == ASSUME HalModes \subseteq {TRUE} PROVE Spec => DataKept
<1>1. Init => CleanInv /\ KeptInv
  <2>1. Init => CleanInv
    BY CleanInit
  <2>2. Init => KeptInv
    BY DEF Init, KeptInv, KeptAt, CreatePC
  <2> QED BY <2>1, <2>2
<1>2. CleanInv /\ [Next]_vars => CleanInv'
  BY CleanStep
<1>3. CleanInv /\ OffInv /\ KeptInv /\ [Next]_vars => KeptInv' /\ [KeepsData]_vars
  BY KeptStep
<1> QED
  BY <1>1, <1>2, <1>3, OffAlways, PTL DEF Spec, DataKept
=============================================================================
