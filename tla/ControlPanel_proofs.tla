------------------------ MODULE ControlPanel_proofs ------------------------
(***************************************************************************)
(* Proofs about ControlPanel for any number of processes and workers, from *)
(* whatever host a user starts.  Neither property depends on the host, so  *)
(* of the types only the shapes of the records are needed.                 *)
(***************************************************************************)
EXTENDS ControlPanel, TLAPS

JobFields == {"status", "cmd", "todo", "listed"}
EntryFields == {"kept", "fails", "behind"}
HealthFields == {"pc", "fresh", "fails", "behind"}
ProcFields == {"cmd", "pc", "todo", "apk", "text", "set"}
ConfFields == {"file", "wanted", "backups", "writers", "clash"}
UiFields == {"view", "hint", "apk", "text"}

JobShape == DOMAIN job = Procs /\ \A p \in Procs : DOMAIN job[p] = JobFields
CacheShape == DOMAIN cache = Keys /\ \A k \in Keys : DOMAIN cache[k] = EntryFields
HealthShape == DOMAIN health = HealthFields
ProcShape == DOMAIN proc = Procs /\ \A p \in Procs : DOMAIN proc[p] = ProcFields
ConfShape == DOMAIN conf = ConfFields /\ conf.clash \in BOOLEAN
UiShape == DOMAIN ui = UiFields

Shape == JobShape /\ CacheShape /\ HealthShape /\ ProcShape /\ ConfShape /\ UiShape

-----------------------------------------------------------------------------
(* The cache.                                                              *)

(* Somebody is about to clear the cache.                                   *)
Clearing == \E p \in Procs : job[p].status = "ended" /\ Invalidating(job[p].cmd)

StaleInv == /\ \A k \in Keys : cache[k].behind => Clearing
            /\ health.behind => Clearing

CacheInv == JobShape /\ CacheShape /\ HealthShape /\ StaleInv

(* A step of the jobs that lets nobody forget to clear the cache.          *)
LEMMA ClearingStays ==
    ASSUME StaleInv, CacheShape, HealthShape, UNCHANGED <<cache, health>>,
           Clearing => Clearing'
    PROVE  CacheShape' /\ HealthShape' /\ StaleInv'
  BY DEF StaleInv, CacheShape, HealthShape

LEMMA ClearedIsFresh ==
    ASSUME HealthShape, ClearProbes
    PROVE  CacheShape' /\ HealthShape' /\ StaleInv'
  BY DEF HealthShape, ClearProbes, CacheShape, StaleInv, NoCache, NoEntry, Keys,
         EntryFields, HealthFields

LEMMA JobInit == Init => JobShape
<1> SUFFICES ASSUME Init PROVE JobShape
  OBVIOUS
<1>1. DOMAIN NoJob = JobFields
  BY DEF NoJob, JobFields
<1>2. DOMAIN job = Procs
  BY DEF Init
<1>3. ASSUME NEW p \in Procs
      PROVE  DOMAIN job[p] = JobFields
  <2>1. job[p] = [NoJob EXCEPT !.status = IF proc[p] = NoProc THEN "free" ELSE "running",
                               !.cmd = proc[p].cmd]
    BY DEF Init
  <2> QED
    BY <1>1, <2>1
<1> QED
  BY <1>2, <1>3 DEF JobShape

LEMMA CacheInit == Init => CacheInv
<1> SUFFICES ASSUME Init PROVE CacheInv
  OBVIOUS
<1>1. CacheShape /\ \A k \in Keys : ~cache[k].behind
  BY DEF Init, CacheShape, NoCache, NoEntry, EntryFields
<1>2. HealthShape /\ ~health.behind
  BY DEF Init, HealthShape, NoHealth, HealthFields
<1> QED
  BY <1>1, <1>2, JobInit DEF CacheInv, StaleInv

LEMMA CacheJobs ==
    ASSUME CacheInv, NEW p \in Procs,
           RunJob(p) \/ EndJob(p) \/ FinishJob(p) \/ TimeOut(p) \/ Follow(p)
    PROVE  CacheInv'
<1> USE DEF CacheInv
<1>1. CASE RunJob(p)
  <2>1. JobShape' /\ (Clearing => Clearing')
    BY <1>1 DEF RunJob, JobShape, Clearing
  <2> QED
    BY <1>1, <2>1, ClearingStays DEF RunJob
<1>2. CASE EndJob(p)
  <2>1. /\ JobShape' /\ (Clearing => Clearing')
        /\ job'[p].status = "ended" /\ job'[p].cmd = job[p].cmd
    BY <1>2 DEF EndJob, JobShape, Clearing, JobFields
  <2>2. CASE Invalidating(job[p].cmd)
    <3>1. Clearing'
      BY <2>1, <2>2 DEF Clearing, Invalidating
    <3>2. Outdate
      BY <1>2, <2>2 DEF EndJob
    <3> QED
      BY <2>1, <3>1, <3>2
         DEF Outdate, CacheShape, HealthShape, StaleInv, EntryFields, HealthFields
  <2>3. CASE ~Invalidating(job[p].cmd)
    BY <1>2, <2>1, <2>3, ClearingStays DEF EndJob
  <2> QED
    BY <2>2, <2>3
<1>3. CASE FinishJob(p)
  <2>1. JobShape' /\ \A q \in Procs \ {p} : job'[q] = job[q]
    BY <1>3 DEF FinishJob, JobShape, NoJob, JobFields
  <2>2. CASE Invalidating(job[p].cmd)
    BY <1>3, <2>1, <2>2, ClearedIsFresh DEF FinishJob
  <2>3. CASE ~Invalidating(job[p].cmd)
    <3>1. Clearing => Clearing'
      BY <2>1, <2>3 DEF Clearing
    <3> QED
      BY <1>3, <2>1, <2>3, <3>1, ClearingStays DEF FinishJob
  <2> QED
    BY <2>2, <2>3
<1>4. CASE TimeOut(p)
  <2>1. UNCHANGED <<job, cache, health>>
    BY <1>4 DEF TimeOut
  <2> QED
    BY <2>1 DEF JobShape, CacheShape, HealthShape, StaleInv, Clearing
<1>5. CASE Follow(p)
  <2>1. PICK cmd \in Advice : AddJob(p, cmd)
    BY <1>5 DEF Follow
  <2>2. JobShape' /\ job[p].status = "free" /\ \A q \in Procs \ {p} : job'[q] = job[q]
    BY <2>1 DEF AddJob, FirstFree, JobShape, JobFields
  <2>3. Clearing => Clearing'
    BY <2>2 DEF Clearing
  <2> QED
    BY <2>1, <2>2, <2>3, ClearedIsFresh, ClearingStays DEF AddJob
<1> QED
  BY <1>1, <1>2, <1>3, <1>4, <1>5

LEMMA CacheStep == ASSUME CacheInv, [Next]_vars PROVE CacheInv'
<1> USE DEF CacheInv
<1>1. ASSUME NEW k \in Keys, Expire(k)
      PROVE  CacheInv'
  BY <1>1 DEF Expire, NoEntry, JobShape, CacheShape, HealthShape, StaleInv, Clearing, EntryFields
<1>2. CASE HealthBegin
  <2>1. /\ UNCHANGED <<job, cache>> /\ HealthShape'
        /\ health'.behind => health.behind \/ cache["commands"].behind
    BY <1>2 DEF HealthBegin, HealthShape, HealthFields
  <2> QED
    BY <2>1 DEF JobShape, CacheShape, StaleInv, Clearing, Keys
<1>3. CASE HealthProbes
  <2>1. UNCHANGED job /\ HealthShape' /\ health'.behind = health.behind
    BY <1>3 DEF HealthProbes, HealthShape, HealthFields
  <2>2. CacheShape' /\ \A k \in Keys : cache'[k].behind => cache[k].behind \/ health.behind
    BY <1>3 DEF HealthProbes, CacheShape, EntryFields
  <2> QED
    BY <2>1, <2>2 DEF JobShape, StaleInv, Clearing
<1>4. CASE HealthStore
  <2>1. /\ UNCHANGED job /\ HealthShape' /\ CacheShape' /\ ~health'.behind
        /\ \A k \in Keys : cache'[k].behind => cache[k].behind \/ health.behind
    BY <1>4 DEF HealthStore, HealthShape, HealthFields, CacheShape, EntryFields, NoHealth
  <2> QED
    BY <2>1 DEF JobShape, StaleInv, Clearing
<1>5. ASSUME NEW p \in Procs,
             RunJob(p) \/ EndJob(p) \/ FinishJob(p) \/ TimeOut(p) \/ Follow(p)
      PROVE  CacheInv'
  BY <1>5, CacheJobs
<1>6. CASE ClearJobs
  <2>1. JobShape' /\ (Clearing => Clearing') /\ UNCHANGED <<cache, health>>
    BY <1>6 DEF ClearJobs, JobShape, JobFields, Clearing
  <2> QED
    BY <2>1, ClearingStays
<1>7. CASE PostBackup \/ PostRead \/ PostTruncate \/ PostFill \/ Restore \/ Commands
           \/ UNCHANGED vars
  <2>1. UNCHANGED <<job, cache, health>>
    BY <1>7 DEF PostBackup, PostRead, PostTruncate, PostFill, Restore, Commands, panelVars, vars
  <2> QED
    BY <2>1 DEF JobShape, CacheShape, HealthShape, StaleInv, Clearing
<1> QED
  BY <1>1, <1>2, <1>3, <1>4, <1>5, <1>6, <1>7 DEF Next, Panel

(* No check that is served from the cache was made before a job ended,     *)
(* unless that job is about to clear the cache (add_job, _run_job,         *)
(* clear_probe_cache, cached_value).                                       *)
THEOREM ChecksAreCurrent == Spec => []NoStaleCheck
<1>1. CacheInv => NoStaleCheck
  BY DEF CacheInv, StaleInv, Clearing, NoStaleCheck
<1> QED
  BY <1>1, CacheInit, CacheStep, PTL DEF Spec

-----------------------------------------------------------------------------
(* The configuration.                                                      *)

Writing == {"truncate", "fill"}
NoCommand == {"idle", "ok", "failed"}

(* A process works only while its job runs.                                *)
JobInv == \A p \in Procs :
    /\ job[p].status \in {"free", "queued"} => proc[p].pc = "idle"
    /\ job[p].status = "ended" => Ended(p)

(* Who is writing the file.                                                *)
WriterInv ==
    /\ \A w \in conf.writers : w \in Procs \/ w = "post"
    /\ \A p \in Procs : /\ p \in conf.writers => proc[p].pc \in Writing \cup {"confread"}
                        /\ proc[p].pc \in Writing => p \in conf.writers
    /\ "post" \in conf.writers <=> post \in Writing \cup {"read"}
    /\ post \in Writing \cup {"read", "idle"}

(* A writer that nobody has overlapped: alone, it finds what is wanted and *)
(* holds it while the file is empty.                                       *)
LoneWriter(w, pc, text) ==
    /\ \A v \in conf.writers : v = w
    /\ pc # "fill" => conf.file = conf.wanted
    /\ pc = "fill" => conf.file = Torn
    /\ pc \in Writing => text = conf.wanted

(* Every backup holds what the file should have held when it was made.     *)
Honest(c) == \A b \in c.backups : b.text = b.meant

(* What the file and its backups hold unless writers have overlapped.      *)
FileInv ==
    /\ conf.writers = {} => ~conf.clash
    /\ ~conf.clash =>
         /\ conf.writers = {} => conf.file = conf.wanted
         /\ \A p \in Procs : p \in conf.writers => LoneWriter(p, proc[p].pc, proc[p].text)
         /\ post # "idle" => LoneWriter("post", post, ui.text)
         /\ Honest(conf)

HostShape == ProcShape /\ ConfShape /\ UiShape
ConfInv == JobShape /\ HostShape /\ JobInv /\ WriterInv /\ FileInv

(* Where no command begins and none goes on by itself.                     *)
LEMMA FirstQuiet == \A cmd : First(cmd) \notin Writing
  BY Zenon DEF First, Writing

LEMMA FirstOfSetup == First("setup") = "confread"
  BY Zenon DEF First

LEMMA DoneQuiet == \A p : Done(p) \notin Writing
  BY DEF Done, Writing

(* A step of p that leaves the configuration alone.                        *)
Quiet(p) ==
    /\ UNCHANGED conf
    /\ proc[p].pc \notin NoCommand \cup Writing \cup {"confread"}
    /\ proc'[p].pc \notin Writing
    /\ DOMAIN proc' = Procs /\ DOMAIN proc'[p] = ProcFields
    /\ \A q \in Procs \ {p} : proc'[q] = proc[q]

LEMMA ToQuiet ==
    ASSUME ProcShape, NEW p \in Procs, UNCHANGED conf,
           proc[p].pc \notin NoCommand \cup Writing \cup {"confread"},
           NEW pc, pc \notin Writing, To(p, pc)
    PROVE  Quiet(p)
  BY DEF ProcShape, To, Quiet, ProcFields

Install(p) ==
    \/ Packages(p) \/ Runtime(p) \/ Verify(p) \/ Pip(p)
    \/ ImageCheck(p) \/ DownloadTar(p) \/ LoadImage(p)
    \/ ApkCheck(p) \/ DownloadZip(p) \/ Unpack(p) \/ Unpacked(p)

Work(p) ==
    \/ CheckEnv(p) \/ InstallKernel(p)
    \/ CheckDocker(p) \/ InstallEngine(p) \/ List(p) \/ EnsureWorker(p) \/ StopWorkers(p)

LEMMA InstallQuiet ==
    ASSUME ProcShape, NEW p \in Procs, Install(p)
    PROVE  Quiet(p)
<1> USE DEF NoCommand, Writing
<1>1. CASE Packages(p)
  BY <1>1, ToQuiet DEF Packages
<1>2. CASE Runtime(p)
  BY <1>2, ToQuiet DEF Runtime
<1>3. CASE Verify(p)
  BY <1>3, ToQuiet DEF Verify
<1>4. CASE Pip(p)
  <2>1. \E pc : pc \notin Writing /\ To(p, pc)
    <3>1. (CASE Reaches(host) /\ host.image -> Done(p)
             [] host.tar # "none" -> "imagecheck"
             [] OTHER -> "apkcheck") \notin Writing
      BY DoneQuiet, Zenon
    <3> QED
      BY <1>4, <3>1, Zenon DEF Pip
  <2> QED
    BY <1>4, <2>1, ToQuiet DEF Pip
<1>5. CASE ImageCheck(p)
  BY <1>5, ToQuiet DEF ImageCheck
<1>6. CASE DownloadTar(p)
  BY <1>6, ToQuiet DEF DownloadTar
<1>7. CASE LoadImage(p)
  BY <1>7, ToQuiet, DoneQuiet DEF LoadImage
<1>8. CASE ApkCheck(p)
  BY <1>8, ToQuiet, DoneQuiet DEF ApkCheck
<1>9. CASE DownloadZip(p)
  BY <1>9, ToQuiet DEF DownloadZip
<1>10. CASE Unpack(p)
  BY <1>10, ToQuiet DEF Unpack
<1>11. CASE Unpacked(p)
  <2>1. (IF Output = "far" THEN "confread" ELSE Done(p)) \notin Writing
    BY DoneQuiet
  <2> QED
    BY <1>11, <2>1 DEF Unpacked, Quiet, ProcShape, ProcFields
<1> QED
  BY <1>1, <1>2, <1>3, <1>4, <1>5, <1>6, <1>7, <1>8, <1>9, <1>10, <1>11 DEF Install

LEMMA WorkQuiet ==
    ASSUME ProcShape, NEW p \in Procs, Work(p)
    PROVE  Quiet(p)
<1> USE DEF NoCommand, Writing
<1>1. CASE CheckEnv(p)
  BY <1>1, ToQuiet DEF CheckEnv
<1>2. CASE InstallKernel(p)
  BY <1>2, ToQuiet DEF InstallKernel
<1>3. CASE CheckDocker(p)
  BY <1>3, ToQuiet DEF CheckDocker
<1>4. CASE InstallEngine(p)
  BY <1>4, ToQuiet DEF InstallEngine
<1>5. CASE List(p)
  BY <1>5 DEF List, Quiet, ProcShape, ProcFields
<1>6. CASE EnsureWorker(p)
  <2>1. To(p, "ok") \/ To(p, "failed") \/ \E i : proc' = [proc EXCEPT ![p].todo = @ \ {i}]
    BY <1>6 DEF EnsureWorker
  <2> QED
    BY <1>6, <2>1, ToQuiet DEF EnsureWorker, Quiet, ProcShape, ProcFields
<1>7. CASE StopWorkers(p)
  BY <1>7, ToQuiet DEF StopWorkers
<1> QED
  BY <1>1, <1>2, <1>3, <1>4, <1>5, <1>6, <1>7 DEF Work

(* A quiet step keeps everything.                                          *)
LEMMA QuietKeeps ==
    ASSUME ConfInv, NEW p \in Procs, Quiet(p), UNCHANGED panelVars
    PROVE  ConfInv'
<1> USE DEF ConfInv, HostShape
<1>1. UNCHANGED <<conf, job, ui, post>>
  BY DEF Quiet, panelVars
<1>2. JobShape' /\ ConfShape' /\ UiShape' /\ ProcShape'
  BY <1>1 DEF JobShape, ConfShape, UiShape, ProcShape, Quiet
<1>3. JobInv'
  BY <1>1 DEF JobInv, Quiet, NoCommand, Ended
<1>4. p \notin conf.writers
  BY DEF WriterInv, Quiet
<1>5. WriterInv'
  BY <1>1, <1>4 DEF WriterInv, Quiet
<1>6. FileInv'
  BY <1>1, <1>4 DEF FileInv, Quiet, LoneWriter
<1> QED
  BY <1>2, <1>3, <1>5, <1>6

LEMMA ConfInit == Init => ConfInv
<1> SUFFICES ASSUME Init PROVE ConfInv
  OBVIOUS
<1> DEFINE text == [form |-> "first", apk |-> "none", own |-> "own"]
<1>1. PICK start \in Starts : \E todo \in Named(start.runs) :
        LET p == CHOOSE q \in Procs : TRUE IN
        /\ host = start.host
        /\ luck = start.luck
        /\ conf = [file |-> text, wanted |-> text, backups |-> Copies(start.kept),
                   writers |-> IF start.runs = "setup" THEN {p} ELSE {}, clash |-> FALSE]
        /\ proc = [q \in Procs |-> IF start.runs # "none" /\ q = p
                     THEN [NoProc EXCEPT !.cmd = start.runs, !.pc = First(start.runs), !.todo = todo,
                                         !.set = [form |-> "setup", apk |-> "none"]]
                     ELSE NoProc]
        /\ orphan = "none"
  BY DEF Init, HostInit
<1> DEFINE one == CHOOSE q \in Procs : TRUE
<1>2. one \in Procs
  BY HostSetupAssumption
<1> HIDE DEF one, text
<1>3. PICK todo \in Named(start.runs) :
        proc = [q \in Procs |-> IF start.runs # "none" /\ q = one
                  THEN [NoProc EXCEPT !.cmd = start.runs, !.pc = First(start.runs), !.todo = todo,
                                      !.set = [form |-> "setup", apk |-> "none"]]
                  ELSE NoProc]
  BY <1>1 DEF one
<1>4. conf = [file |-> text, wanted |-> text, backups |-> Copies(start.kept),
              writers |-> IF start.runs = "setup" THEN {one} ELSE {}, clash |-> FALSE]
  BY <1>1 DEF one
<1>5. DOMAIN NoProc = ProcFields /\ NoProc.pc = "idle"
  BY DEF NoProc, ProcFields
<1>6. \A q \in Procs : /\ DOMAIN proc[q] = ProcFields
                       /\ proc[q].pc = IF start.runs # "none" /\ q = one
                                       THEN First(start.runs) ELSE "idle"
  <2> SUFFICES ASSUME NEW q \in Procs
               PROVE  /\ DOMAIN proc[q] = ProcFields
                      /\ proc[q].pc = IF start.runs # "none" /\ q = one
                                      THEN First(start.runs) ELSE "idle"
    OBVIOUS
  <2>1. CASE start.runs # "none" /\ q = one
    <3>1. proc[q] = [NoProc EXCEPT !.cmd = start.runs, !.pc = First(start.runs), !.todo = todo,
                                   !.set = [form |-> "setup", apk |-> "none"]]
      BY <1>3, <2>1
    <3> QED
      BY <1>5, <2>1, <3>1 DEF ProcFields
  <2>2. CASE ~(start.runs # "none" /\ q = one)
    BY <1>3, <1>5, <2>2
  <2> QED
    BY <2>1, <2>2
<1>7. ProcShape
  BY <1>3, <1>6 DEF ProcShape
<1>8. ConfShape /\ UiShape
  BY <1>4 DEF Init, ConfShape, UiShape, ConfFields, UiFields
<1>9. JobInv
  <2> SUFFICES ASSUME NEW p \in Procs
               PROVE  /\ job[p].status \in {"free", "queued"} => proc[p].pc = "idle"
                      /\ job[p].status # "ended"
    BY DEF JobInv
  <2>1. job[p].status = IF proc[p] = NoProc THEN "free" ELSE "running"
    <3>1. job[p] = [NoJob EXCEPT !.status = IF proc[p] = NoProc THEN "free" ELSE "running",
                                 !.cmd = proc[p].cmd]
      BY DEF Init
    <3> QED
      BY <3>1 DEF NoJob
  <2> QED
    BY <1>5, <2>1
<1>10. WriterInv
  <2>1. post = "idle" /\ "post" \notin Procs
    BY HostSetupAssumption DEF Init
  <2>2. \A p \in Procs : p \in conf.writers => p = one /\ start.runs = "setup"
    BY <1>4
  <2>3. \A p \in Procs : proc[p].pc \notin Writing
    BY <1>6, FirstQuiet DEF Writing
  <2> QED
    BY <1>2, <1>4, <1>6, <2>1, <2>2, <2>3, FirstOfSetup DEF WriterInv, Writing
<1>11. FileInv
  <2>0. \A b \in Copies(start.kept) : b.text = b.meant
    BY DEF Copies
  <2>1. post = "idle" /\ ~conf.clash /\ conf.file = conf.wanted /\ Honest(conf)
    BY <1>4, <2>0 DEF Init, Honest
  <2>2. \A p \in Procs : p \in conf.writers => LoneWriter(p, proc[p].pc, proc[p].text)
    BY <1>4, <1>6, <2>1, FirstOfSetup DEF LoneWriter, Writing
  <2> QED
    BY <2>1, <2>2 DEF FileInv
<1> QED
  BY <1>7, <1>8, <1>9, <1>10, <1>11, JobInit DEF ConfInv, HostShape

(* What an end of writing does to the file's invariant: either the writer  *)
(* was alone and left what is wanted, or the last of those who overlapped  *)
(* settles what is wanted.                                                 *)
Settled(c) ==
    /\ c.writers = {} => ~c.clash
    /\ ~c.clash => c.writers = {} /\ c.file = c.wanted /\ Honest(c)

LEMMA EndSettles ==
    ASSUME NEW c, DOMAIN c = ConfFields, c.clash \in BOOLEAN, NEW w,
           ~c.clash => /\ \A v \in c.writers : v = w
                       /\ c.file = c.wanted
                       /\ Honest(c)
    PROVE  /\ Settled(EndWrite(c, w)) /\ DOMAIN EndWrite(c, w) = ConfFields
           /\ EndWrite(c, w).clash \in BOOLEAN
           /\ EndWrite(c, w).writers = c.writers \ {w}
           /\ EndWrite(c, w).file = c.file
<1> DEFINE left == c.writers \ {w}
           forgive == c.clash /\ left = {}
           e == [c EXCEPT !.writers = left,
                          !.wanted = IF forgive THEN c.file ELSE @,
                          !.backups = IF forgive THEN Copies({b.text : b \in @}) ELSE @,
                          !.clash = @ /\ left # {}]
<1>1. EndWrite(c, w) = e
  BY DEF EndWrite
<1>2. /\ DOMAIN e = ConfFields
      /\ e.writers = left /\ e.file = c.file
      /\ e.wanted = (IF forgive THEN c.file ELSE c.wanted)
      /\ e.backups = (IF forgive THEN Copies({b.text : b \in c.backups}) ELSE c.backups)
      /\ e.clash = (c.clash /\ left # {})
  BY DEF ConfFields
<1> HIDE DEF e
<1>3. forgive => Honest(e)
  BY <1>2 DEF Honest, Copies
<1>4. ~forgive /\ Honest(c) => Honest(e)
  BY <1>2 DEF Honest
<1>5. Settled(e)
  BY <1>2, <1>3, <1>4 DEF Settled
<1> QED
  BY <1>1, <1>2, <1>5

(* After it, with p gone from the writers and everybody else where it was. *)
LEMMA SettledKeeps ==
    ASSUME Settled(conf)', WriterInv', post' = "idle" \/ conf'.clash
    PROVE  FileInv'
  BY DEF Settled, FileInv, WriterInv, Writing

(* The processes' own writes.                                              *)
LEMMA ConfigStep ==
    ASSUME ConfInv, NEW p \in Procs, ConfigRead(p) \/ ConfigTruncate(p) \/ ConfigFill(p),
           UNCHANGED panelVars
    PROVE  ConfInv'
<1> USE DEF ConfInv, HostShape
<1>0. UNCHANGED <<job, ui, post>> /\ "post" \notin Procs /\ p # "post"
  BY HostSetupAssumption DEF panelVars
<1>1. JobShape' /\ UiShape'
  BY <1>0 DEF JobShape, UiShape
<1>2. proc[p].pc \notin NoCommand
  BY DEF ConfigRead, ConfigTruncate, ConfigFill, NoCommand
<1>3. ProcShape' /\ \A q \in Procs \ {p} : proc'[q] = proc[q]
  BY DEF ConfigRead, ConfigTruncate, ConfigFill, To, ProcShape, ProcFields
<1>4. JobInv'
  BY <1>0, <1>2, <1>3 DEF JobInv, NoCommand, Ended
<1>5. CASE ConfigRead(p)
  <2>1. /\ proc'[p].pc = "truncate" /\ proc'[p].text = conf.file /\ proc[p].pc = "confread"
    BY <1>5 DEF ConfigRead, ProcShape, ProcFields
  <2>2. CASE p \in conf.writers
    <3>1. conf' = conf
      BY <1>5, <2>2 DEF ConfigRead
    <3>2. ConfShape'
      BY <3>1 DEF ConfShape
    <3>3. WriterInv'
      BY <1>0, <1>3, <2>1, <2>2, <3>1 DEF WriterInv, Writing
    <3>4. FileInv'
      BY <1>0, <1>3, <2>1, <2>2, <3>1 DEF FileInv, LoneWriter, Writing
    <3> QED
      BY <1>1, <1>3, <1>4, <3>2, <3>3, <3>4
  <2>3. CASE p \notin conf.writers
    <3>1. conf' = [conf EXCEPT !.writers = @ \union {p}, !.clash = @ \/ conf.writers # {}]
      BY <1>5, <2>3 DEF ConfigRead, BeginWrite
    <3>2. /\ ConfShape' /\ conf'.writers = conf.writers \union {p}
          /\ conf'.clash = (conf.clash \/ conf.writers # {})
          /\ conf'.file = conf.file /\ conf'.wanted = conf.wanted
          /\ conf'.backups = conf.backups
      BY <3>1 DEF ConfShape, ConfFields
    <3>3. WriterInv'
      BY <1>0, <1>3, <2>1, <3>2 DEF WriterInv, Writing
    <3>4. FileInv'
      <4>1. conf'.writers # {}
        BY <3>2
      <4>2. SUFFICES ASSUME ~conf'.clash
                     PROVE  /\ \A q \in Procs : q \in conf'.writers =>
                                 LoneWriter(q, proc[q].pc, proc[q].text)'
                            /\ post = "idle"
                            /\ Honest(conf)'
        BY <1>0, <4>1 DEF FileInv
      <4>3. conf.writers = {} /\ ~conf.clash
        BY <3>2, <4>2
      <4>4. post = "idle"
        BY <4>3 DEF WriterInv, Writing
      <4> QED
        BY <2>1, <3>2, <4>3, <4>4 DEF FileInv, LoneWriter, Writing, Honest
    <3> QED
      BY <1>1, <1>3, <1>4, <3>2, <3>3, <3>4
  <2> QED
    BY <2>2, <2>3
<1>6. CASE ConfigTruncate(p)
  <2>1. proc[p].pc = "truncate" /\ proc'[p].pc = "fill" /\ proc'[p].text = proc[p].text
    BY <1>6 DEF ConfigTruncate, To, ProcShape, ProcFields
  <2>2. /\ ConfShape' /\ conf'.writers = conf.writers /\ conf'.clash = conf.clash
        /\ conf'.file = Torn /\ conf'.wanted = conf.wanted
        /\ conf'.backups = conf.backups
    BY <1>6 DEF ConfigTruncate, Truncate, ConfShape, ConfFields
  <2>3. p \in conf.writers
    BY <2>1 DEF WriterInv, Writing
  <2>4. WriterInv'
    BY <1>0, <1>3, <2>1, <2>2, <2>3 DEF WriterInv, Writing
  <2>5. FileInv'
    <3>1. conf'.writers # {}
      BY <2>2, <2>3
    <3>2. SUFFICES ASSUME ~conf.clash
                   PROVE  /\ \A q \in Procs : q \in conf'.writers =>
                               LoneWriter(q, proc[q].pc, proc[q].text)'
                          /\ post = "idle"
                          /\ Honest(conf)'
      BY <1>0, <2>2, <3>1 DEF FileInv
    <3>3. LoneWriter(p, proc[p].pc, proc[p].text)
      BY <2>3, <3>2 DEF FileInv
    <3>4. post = "idle"
      BY <1>0, <3>3 DEF LoneWriter, WriterInv
    <3> QED
      BY <2>1, <2>2, <3>2, <3>3, <3>4 DEF FileInv, LoneWriter, Writing, Honest
  <2> QED
    BY <1>1, <1>3, <1>4, <2>2, <2>4, <2>5
<1>7. CASE ConfigFill(p)
  <2>1. proc[p].pc = "fill" /\ proc'[p].pc \notin Writing
    <3>1. "packages" \notin Writing /\ "envcheck" \notin Writing
      BY DEF Writing
    <3>2. PICK next : /\ next \in {"packages", "envcheck", Done(p)}
                      /\ proc' = [proc EXCEPT ![p].pc = next, ![p].text = Torn]
      BY <1>7 DEF ConfigFill
    <3>3. next \notin Writing
      BY <3>1, <3>2, DoneQuiet
    <3>4. proc'[p].pc = next
      BY <3>2 DEF ProcShape, ProcFields
    <3> QED
      BY <1>7, <3>3, <3>4 DEF ConfigFill
  <2> DEFINE u == proc[p].set
             c == [conf EXCEPT !.file = Update(proc[p].text, u), !.wanted = Update(@, u)]
  <2>2. /\ DOMAIN c = ConfFields /\ c.clash = conf.clash /\ c.writers = conf.writers
        /\ c.file = Update(proc[p].text, u) /\ c.wanted = Update(conf.wanted, u)
        /\ c.backups = conf.backups
    BY DEF ConfShape, ConfFields
  <2>3. conf' = EndWrite(c, p)
    BY <1>7 DEF ConfigFill, Fill
  <2> HIDE DEF c, u
  <2>4. p \in conf.writers
    BY <2>1 DEF WriterInv, Writing
  <2>5. ~conf.clash => /\ \A v \in conf.writers : v = p
                       /\ proc[p].text = conf.wanted /\ post = "idle"
                       /\ Honest(conf)
    <3>1. SUFFICES ASSUME ~conf.clash
                   PROVE  /\ \A v \in conf.writers : v = p
                          /\ proc[p].text = conf.wanted /\ post = "idle"
                          /\ Honest(conf)
      OBVIOUS
    <3>2. LoneWriter(p, proc[p].pc, proc[p].text)
      BY <2>4, <3>1 DEF FileInv
    <3>3. post = "idle"
      BY <1>0, <3>2 DEF LoneWriter, WriterInv
    <3> QED
      BY <2>1, <3>1, <3>2, <3>3 DEF FileInv, LoneWriter, Writing
  <2>6. /\ Settled(conf') /\ ConfShape' /\ conf'.writers = conf.writers \ {p}
    <3>1. c.clash \in BOOLEAN
      BY <2>2 DEF ConfShape
    <3>2. ~c.clash => /\ \A v \in c.writers : v = p
                      /\ c.file = c.wanted
                      /\ Honest(c)
      BY <2>2, <2>5 DEF Honest
    <3> QED
      BY <2>2, <2>3, <3>1, <3>2, EndSettles DEF ConfShape
  <2>7. WriterInv'
    BY <1>0, <1>3, <2>1, <2>6 DEF WriterInv
  <2>8. post' = "idle" \/ conf'.clash
    <3>1. SUFFICES ASSUME post # "idle" PROVE conf'.clash
      BY <1>0
    <3>2. "post" \in conf'.writers
      BY <1>0, <2>6, <3>1 DEF WriterInv
    <3> QED
      BY <2>6, <3>2 DEF Settled
  <2>9. FileInv'
    BY <2>6, <2>7, <2>8, SettledKeeps
  <2> QED
    BY <1>1, <1>3, <1>4, <2>6, <2>7, <2>9
<1> QED
  BY <1>5, <1>6, <1>7

(* A killed command: what it leaves of the file is settled with the others *)
(* who were writing.                                                       *)
LEMMA ConfTimeOut ==
    ASSUME ConfInv, NEW p \in Procs, TimeOut(p)
    PROVE  ConfInv'
<1> USE DEF ConfInv, HostShape
<1>0. /\ UNCHANGED <<job, ui, post>> /\ "post" \notin Procs /\ p # "post"
      /\ job[p].status = "running" /\ To(p, "failed") /\ conf' = Abort(conf, p)
  BY HostSetupAssumption DEF TimeOut
<1>1. JobShape' /\ UiShape'
  BY <1>0 DEF JobShape, UiShape
<1>2. /\ ProcShape' /\ proc'[p].pc = "failed"
      /\ \A q \in Procs \ {p} : proc'[q] = proc[q]
  BY <1>0 DEF To, ProcShape, ProcFields
<1>3. JobInv'
  BY <1>0, <1>2 DEF JobInv, Ended
<1>4. CASE p \notin conf.writers
  <2>1. conf' = conf
    BY <1>0, <1>4 DEF Abort
  <2>2. WriterInv' /\ ConfShape'
    BY <1>0, <1>2, <1>4, <2>1 DEF WriterInv, Writing, ConfShape
  <2>3. FileInv'
    BY <1>0, <1>2, <1>4, <2>1 DEF FileInv, LoneWriter
  <2> QED
    BY <1>1, <1>2, <1>3, <2>2, <2>3
<1>5. CASE p \in conf.writers
  <2> DEFINE c == [conf EXCEPT !.clash = @ \/ conf.file = Torn]
  <2>1. conf' = EndWrite(c, p)
    BY <1>0, <1>5 DEF Abort
  <2>2. /\ DOMAIN c = ConfFields /\ c.clash = (conf.clash \/ conf.file = Torn)
        /\ c.writers = conf.writers /\ c.file = conf.file /\ c.wanted = conf.wanted
        /\ c.backups = conf.backups
    BY DEF ConfShape, ConfFields
  <2> HIDE DEF c
  <2>3. ~c.clash => /\ \A v \in c.writers : v = p
                    /\ c.file = c.wanted
                    /\ Honest(c)
    <3>1. SUFFICES ASSUME ~c.clash
                   PROVE  /\ \A v \in conf.writers : v = p
                          /\ conf.file = conf.wanted
                          /\ Honest(conf)
      BY <2>2 DEF Honest
    <3>2. ~conf.clash /\ conf.file # Torn
      BY <2>2, <3>1
    <3>3. LoneWriter(p, proc[p].pc, proc[p].text)
      BY <1>5, <3>2 DEF FileInv
    <3>4. post = "idle"
      BY <1>0, <3>3 DEF LoneWriter, WriterInv
    <3> QED
      BY <3>2, <3>3, <3>4 DEF FileInv, LoneWriter
  <2>4. /\ Settled(conf') /\ ConfShape' /\ conf'.writers = conf.writers \ {p}
    <3>1. c.clash \in BOOLEAN
      BY <2>2 DEF ConfShape
    <3> QED
      BY <2>1, <2>2, <2>3, <3>1, EndSettles DEF ConfShape
  <2>5. WriterInv'
    BY <1>0, <1>2, <2>4 DEF WriterInv, Writing
  <2>6. post' = "idle" \/ conf'.clash
    <3>1. SUFFICES ASSUME post # "idle" PROVE conf'.clash
      BY <1>0
    <3>2. "post" \in conf'.writers
      BY <1>0, <2>4, <3>1 DEF WriterInv
    <3> QED
      BY <2>4, <3>2 DEF Settled
  <2>7. FileInv'
    BY <2>4, <2>5, <2>6, SettledKeeps
  <2> QED
    BY <1>1, <1>2, <1>3, <2>4, <2>5, <2>7
<1> QED
  BY <1>4, <1>5

(* The steps of the settings page.                                         *)
LEMMA PostStep ==
    ASSUME ConfInv, PostBackup \/ PostRead \/ PostTruncate \/ PostFill \/ Restore
    PROVE  ConfInv'
<1> USE DEF ConfInv, HostShape
<1>0. UNCHANGED <<job, proc>> /\ "post" \notin Procs
  BY HostSetupAssumption DEF PostBackup, PostRead, PostTruncate, PostFill, Restore, hostVars
<1>1. JobShape' /\ ProcShape' /\ JobInv'
  BY <1>0 DEF JobShape, ProcShape, JobInv, Ended
<1>2. CASE PostBackup
  <2>1. /\ post = "idle" /\ post' = "read" /\ UNCHANGED ui
        /\ conf' = [BeginWrite(conf, "post") EXCEPT
                      !.backups = @ \union {[text |-> conf.file, meant |-> conf.wanted]}]
    BY <1>2 DEF PostBackup
  <2> DEFINE b == BeginWrite(conf, "post")
             new == [text |-> conf.file, meant |-> conf.wanted]
  <2>2. /\ DOMAIN b = ConfFields /\ b.writers = conf.writers \union {"post"}
        /\ b.clash = (conf.clash \/ conf.writers # {})
        /\ b.file = conf.file /\ b.wanted = conf.wanted /\ b.backups = conf.backups
    BY DEF BeginWrite, ConfShape, ConfFields
  <2>3. conf' = [b EXCEPT !.backups = @ \union {new}]
    BY <2>1
  <2> HIDE DEF b, new
  <2>4. /\ ConfShape' /\ conf'.writers = conf.writers \union {"post"}
        /\ conf'.clash = (conf.clash \/ conf.writers # {})
        /\ conf'.file = conf.file /\ conf'.wanted = conf.wanted
        /\ conf'.backups = conf.backups \union {new}
    BY <2>2, <2>3 DEF ConfShape, ConfFields
  <2>5. WriterInv' /\ UiShape'
    BY <1>0, <2>1, <2>4 DEF WriterInv, Writing, UiShape
  <2>6. FileInv'
    <3>1. SUFFICES ASSUME ~conf'.clash
                   PROVE  /\ \A q \in Procs : q \notin conf'.writers
                          /\ LoneWriter("post", post, ui.text)'
                          /\ Honest(conf)'
      BY <2>1, <2>4 DEF FileInv
    <3>2. conf.writers = {} /\ ~conf.clash /\ conf.file = conf.wanted /\ Honest(conf)
      BY <2>4, <3>1 DEF FileInv
    <3>3. new.text = new.meant
      BY <3>2 DEF new
    <3>4. Honest(conf)'
      BY <2>4, <3>2, <3>3 DEF Honest
    <3> QED
      BY <1>0, <2>1, <2>4, <3>2, <3>4 DEF LoneWriter, Writing
  <2> QED
    BY <1>1, <2>4, <2>5, <2>6
<1>3. CASE PostRead
  <2>1. /\ post = "read" /\ post' = "truncate" /\ UNCHANGED conf
        /\ UiShape' /\ ui'.text = conf.file
    BY <1>3 DEF PostRead, hostVars, UiShape, UiFields
  <2>2. WriterInv' /\ ConfShape'
    BY <1>0, <2>1 DEF WriterInv, Writing, ConfShape
  <2>3. FileInv'
    BY <1>0, <2>1 DEF FileInv, LoneWriter, WriterInv, Writing
  <2> QED
    BY <1>1, <2>1, <2>2, <2>3
<1>4. CASE PostTruncate
  <2>1. post = "truncate" /\ post' = "fill" /\ UNCHANGED ui
    BY <1>4 DEF PostTruncate
  <2>2. /\ ConfShape' /\ conf'.writers = conf.writers /\ conf'.clash = conf.clash
        /\ conf'.file = Torn /\ conf'.wanted = conf.wanted
        /\ conf'.backups = conf.backups
    BY <1>4 DEF PostTruncate, Truncate, ConfShape, ConfFields
  <2>3. WriterInv' /\ UiShape'
    BY <1>0, <2>1, <2>2 DEF WriterInv, Writing, UiShape
  <2>4. FileInv'
    <3>1. conf.writers # {}
      BY <2>1 DEF WriterInv, Writing
    <3>2. SUFFICES ASSUME ~conf.clash
                   PROVE  /\ \A q \in Procs : q \notin conf'.writers
                          /\ LoneWriter("post", post, ui.text)'
                          /\ Honest(conf)'
      BY <2>1, <2>2, <3>1 DEF FileInv
    <3>3. LoneWriter("post", post, ui.text) /\ Honest(conf)
      BY <2>1, <3>2 DEF FileInv
    <3> QED
      BY <1>0, <2>1, <2>2, <3>3 DEF LoneWriter, Writing, Honest
  <2> QED
    BY <1>1, <2>2, <2>3, <2>4
<1>5. CASE PostFill
  <2> DEFINE u == [form |-> "saved", apk |-> ui.apk]
             c == [conf EXCEPT !.file = Update(ui.text, u), !.wanted = Update(@, u)]
  <2>1. /\ post = "fill" /\ post' = "idle" /\ UiShape'
    BY <1>5 DEF PostFill, UiShape, UiFields
  <2>2. conf' = EndWrite(c, "post")
    BY <1>5 DEF PostFill, Fill
  <2> HIDE DEF u
  <2>4. /\ DOMAIN c = ConfFields /\ c.clash = conf.clash /\ c.writers = conf.writers
        /\ c.file = Update(ui.text, u) /\ c.wanted = Update(conf.wanted, u)
        /\ c.backups = conf.backups
    BY DEF ConfShape, ConfFields
  <2> HIDE DEF c
  <2>5. ~c.clash => /\ \A v \in c.writers : v = "post"
                    /\ c.file = c.wanted
                    /\ Honest(c)
    <3>1. SUFFICES ASSUME ~conf.clash
                   PROVE  /\ \A v \in conf.writers : v = "post"
                          /\ ui.text = conf.wanted /\ Honest(conf)
      BY <2>4 DEF Honest
    <3>2. LoneWriter("post", post, ui.text) /\ Honest(conf)
      BY <2>1, <3>1 DEF FileInv
    <3> QED
      BY <2>1, <3>2 DEF LoneWriter, Writing
  <2>6. /\ Settled(conf') /\ ConfShape' /\ conf'.writers = conf.writers \ {"post"}
    <3>1. c.clash \in BOOLEAN
      BY <2>4 DEF ConfShape
    <3> QED
      BY <2>2, <2>4, <2>5, <3>1, EndSettles DEF ConfShape
  <2>7. WriterInv'
    BY <1>0, <2>1, <2>6 DEF WriterInv, Writing
  <2>8. FileInv'
    BY <2>1, <2>6, <2>7, SettledKeeps
  <2> QED
    BY <1>1, <2>1, <2>6, <2>7, <2>8
<1>6. CASE Restore
  <2>1. PICK b \in conf.backups :
             conf' = [conf EXCEPT !.file = b.text, !.wanted = b.meant,
                        !.clash = @ \/ conf.writers # {}]
    BY <1>6 DEF Restore
  <2>2. UNCHANGED post /\ UiShape'
    BY <1>6 DEF Restore, UiShape, UiFields
  <2>3. /\ ConfShape' /\ conf'.writers = conf.writers /\ conf'.backups = conf.backups
        /\ conf'.clash = (conf.clash \/ conf.writers # {})
        /\ conf'.file = b.text /\ conf'.wanted = b.meant
    BY <2>1 DEF ConfShape, ConfFields
  <2>4. WriterInv'
    BY <1>0, <2>2, <2>3 DEF WriterInv
  <2>5. FileInv'
    <3>1. SUFFICES ASSUME ~conf'.clash
                   PROVE  /\ conf'.writers = {} /\ conf'.file = conf'.wanted
                          /\ Honest(conf)' /\ post' = "idle"
      BY <2>3, <2>4 DEF FileInv, WriterInv, Writing
    <3>2. conf.writers = {} /\ ~conf.clash
      BY <2>3, <3>1
    <3>3. Honest(conf) /\ post = "idle"
      BY <3>2 DEF FileInv, WriterInv, Writing
    <3> QED
      BY <2>2, <2>3, <3>2, <3>3 DEF Honest
  <2> QED
    BY <1>1, <2>2, <2>3, <2>4, <2>5
<1> QED
  BY <1>2, <1>3, <1>4, <1>5, <1>6

(* Jobs come and go; WSL takes the scripts with it.                        *)
LEMMA ConfJobs ==
    ASSUME ConfInv, NEW p \in Procs, RunJob(p) \/ EndJob(p) \/ FinishJob(p) \/ Follow(p)
    PROVE  ConfInv'
<1> USE DEF ConfInv, HostShape
<1>0. /\ UNCHANGED <<conf, post>> /\ \A q \in Procs \ {p} : proc'[q] = proc[q]
      /\ UiShape' /\ ui'.text = ui.text
  BY DEF RunJob, EndJob, FinishJob, Follow, AddJob, hostVars, UiShape, UiFields, ProcShape
<1>1. /\ ProcShape' /\ proc'[p].pc \notin Writing
      /\ p \notin conf.writers \/ proc'[p] = proc[p]
  <2>1. CASE RunJob(p)
    <3>1. proc[p].pc = "idle" /\ p \notin conf.writers
      BY <2>1 DEF RunJob, JobInv, WriterInv, Writing
    <3>2. LET new == Process(job[p].cmd, job[p].todo) IN
          DOMAIN new = ProcFields /\ new.pc = First(job[p].cmd)
      BY DEF Process, NoProc, ProcFields
    <3> QED
      BY <2>1, <3>1, <3>2, FirstQuiet DEF RunJob, ProcShape
  <2>2. CASE EndJob(p)
    BY <2>2 DEF EndJob, hostVars, Ended, Writing, ProcShape
  <2>3. CASE FinishJob(p)
    <3>1. Ended(p) /\ p \notin conf.writers
      BY <2>3 DEF FinishJob, JobInv, Ended, WriterInv, Writing
    <3>2. DOMAIN NoProc = ProcFields /\ NoProc.pc = "idle"
      BY DEF NoProc, ProcFields
    <3> QED
      BY <2>3, <3>1, <3>2 DEF FinishJob, ProcShape, Writing
  <2>4. CASE Follow(p)
    <3>1. proc[p].pc = "idle" /\ UNCHANGED proc
      BY <2>4 DEF Follow, AddJob, FirstFree, JobInv, hostVars
    <3> QED
      BY <3>1 DEF ProcShape, Writing
  <2> QED
    BY <2>1, <2>2, <2>3, <2>4
<1>2. JobShape' /\ \A q \in Procs \ {p} : job'[q] = job[q]
  BY DEF RunJob, EndJob, FinishJob, Follow, AddJob, NoJob, JobShape, JobFields
<1>3. /\ job'[p].status \in {"free", "queued"} => proc'[p].pc = "idle"
      /\ job'[p].status = "ended" => proc'[p].pc \in {"ok", "failed"}
  <2>1. CASE RunJob(p)
    BY <2>1 DEF RunJob, JobShape, JobFields
  <2>2. CASE EndJob(p)
    BY <2>2 DEF EndJob, hostVars, Ended, JobShape, JobFields
  <2>3. CASE FinishJob(p)
    BY <2>3 DEF FinishJob, NoJob, NoProc, JobShape, ProcShape
  <2>4. CASE Follow(p)
    BY <2>4 DEF Follow, AddJob, FirstFree, JobInv, JobShape, hostVars
  <2> QED
    BY <2>1, <2>2, <2>3, <2>4
<1>4. JobInv'
  BY <1>0, <1>2, <1>3 DEF JobInv, Ended
<1>5. WriterInv' /\ ConfShape'
  BY <1>0, <1>1 DEF WriterInv, ConfShape
<1>6. FileInv'
  BY <1>0, <1>1 DEF FileInv, LoneWriter
<1> QED
  BY <1>0, <1>1, <1>2, <1>4, <1>5, <1>6

LEMMA ConfShutdown ==
    ASSUME ConfInv, WslShutdown \/ OrphanEnds, UNCHANGED panelVars
    PROVE  ConfInv'
<1> USE DEF ConfInv, HostShape
<1>1. UNCHANGED <<conf, job, ui, post>>
  BY DEF WslShutdown, OrphanEnds, panelVars
<1>2. \A q \in Procs : \/ proc'[q] = proc[q]
                       \/ /\ proc[q].pc \in ScriptSteps /\ proc'[q].pc = "failed"
                          /\ DOMAIN proc'[q] = ProcFields
  BY DEF WslShutdown, OrphanEnds, ProcShape, ProcFields
<1>3. DOMAIN proc' = Procs
  BY DEF WslShutdown, OrphanEnds, ProcShape
<1>4. ProcShape'
  BY <1>2, <1>3 DEF ProcShape
<1>5. JobShape' /\ ConfShape' /\ UiShape'
  BY <1>1 DEF JobShape, ConfShape, UiShape
<1>6. JobInv'
  BY <1>1, <1>2 DEF JobInv, Ended, ScriptSteps
<1>7. WriterInv'
  BY <1>1, <1>2 DEF WriterInv, ScriptSteps, Writing
<1>8. \A q \in Procs : q \in conf.writers => proc'[q] = proc[q]
  BY <1>2 DEF WriterInv, ScriptSteps, Writing
<1>9. FileInv'
  BY <1>1, <1>8 DEF FileInv, LoneWriter
<1> QED
  BY <1>4, <1>5, <1>6, <1>7, <1>9

LEMMA ConfStep == ASSUME ConfInv, [Next]_vars PROVE ConfInv'
<1>1. ASSUME NEW p \in Procs, Step(p), UNCHANGED panelVars
      PROVE  ConfInv'
  <2>1. \/ Quiet(p) \/ ConfigRead(p) \/ ConfigTruncate(p) \/ ConfigFill(p)
    BY <1>1, InstallQuiet, WorkQuiet DEF Step, Install, Work, ConfInv, HostShape
  <2> QED
    BY <1>1, <2>1, QuietKeeps, ConfigStep
<1>2. CASE Commands
  BY <1>1, <1>2, ConfShutdown DEF Commands
<1>3. CASE \E p \in Procs : RunJob(p) \/ EndJob(p) \/ FinishJob(p) \/ TimeOut(p) \/ Follow(p)
  BY <1>3, ConfJobs, ConfTimeOut
<1>4. CASE PostBackup \/ PostRead \/ PostTruncate \/ PostFill \/ Restore
  BY <1>4, PostStep
<1>5. CASE \/ \E k \in Keys : Expire(k)
           \/ HealthBegin \/ HealthProbes \/ HealthStore \/ ClearJobs \/ UNCHANGED vars
  <2>1. /\ UNCHANGED <<proc, conf, post>> /\ ui'.text = ui.text
        /\ UiShape'
    BY <1>5 DEF Expire, HealthBegin, HealthProbes, HealthStore, ClearJobs, hostVars, vars,
                ConfInv, HostShape, UiShape, UiFields
  <2>2. /\ JobShape' /\ \A p \in Procs : job'[p].status = job[p].status
    BY <1>5 DEF Expire, HealthBegin, HealthProbes, HealthStore, ClearJobs, hostVars, vars,
                ConfInv, JobShape, JobFields
  <2>3. ProcShape' /\ ConfShape' /\ JobInv' /\ WriterInv' /\ FileInv'
    BY <2>1, <2>2 DEF ConfInv, HostShape, ProcShape, ConfShape, JobInv, Ended, WriterInv,
                      FileInv, LoneWriter
  <2> QED
    BY <2>1, <2>2, <2>3 DEF ConfInv, HostShape
<1> QED
  BY <1>2, <1>3, <1>4, <1>5 DEF Next, Panel

(* When nobody is writing the configuration, it holds what was last saved  *)
(* or restored, unless writers overlapped or one was killed between        *)
(* emptying the file and filling it (_write_config, _update_config_values, *)
(* the save and the restore of the settings page).                         *)
THEOREM ConfigIsKept == Spec => []ConfigKept
<1>1. ConfInv => ConfigKept
  BY DEF ConfInv, FileInv, ConfigKept
<1> QED
  BY <1>1, ConfInit, ConfStep, PTL DEF Spec
=============================================================================
