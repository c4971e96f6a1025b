---------------------------- MODULE PageOverrides ----------------------------
(***************************************************************************)
(* The CDP overrides of one session from AsyncDamru.__aenter__ on: the     *)
(* overrides install themselves on Chrome's first page and register        *)
(* handlers for pages to come; while the caller's block runs, pages are    *)
(* opened (by the caller through the wrapped new_page, or by a site),      *)
(* navigate and start workers, and the handlers' tasks run on the event    *)
(* loop next to all that.                                                  *)
(*                                                                         *)
(* Overrides differ by how their handlers are written, so the model has    *)
(* three kinds of them.  A send over CDP takes effect in Chrome and its    *)
(* reply resumes the coroutine: only an event that was read in the same    *)
(* batch as the reply is handled in between.                               *)
(***************************************************************************)
EXTENDS Naturals, Sequences, Functions

CONSTANTS
    Page,
    Main,        \* the page Chrome started with
    BindFirst,   \* "cores", "workers": on a new page, bound to its navigations, then applied
    BindLast,    \* "touch", "network": applied, then bound
    Once,        \* "ua" (with the locale), "sensors": applied once to a page, not bound to it
    Direct,      \* what the wrapped new_page sends itself, in order, before the time zone
    CoresDiffer, \* the device's number of cores is not the profile's
    MayFail,     \* the kinds of which a send may fail; the handlers swallow it
    MayLose,     \* "plain", "pausing": the worker handlers of which a message may fail
    MaxNavs      \* bound on the navigations of all pages, those of new_page apart

Kind == BindFirst \cup BindLast \cup Once

ASSUME PageAssumption == Main \in Page
ASSUME KindAssumption ==
    /\ BindFirst \cap BindLast = {} /\ (BindFirst \cup BindLast) \cap Once = {}
    /\ {"cores", "workers"} = BindFirst /\ {"ua", "sensors"} = Once
    /\ Direct \in Seq(Kind) /\ "tz" \notin Kind
ASSUME FlagAssumption == CoresDiffer \in BOOLEAN /\ MayFail \subseteq Kind /\ MaxNavs \in Nat
ASSUME LoseAssumption == MayLose \subseteq {"plain", "pausing"}

VARIABLES
    phase,      \* where the session is
    handlers,   \* the kinds whose "page" handler the context has
    page,       \* of each page: "none", "open", "closed", and inside new_page "asked", "blank"
    navs,       \* the navigations so far
    todo,       \* its tasks that have not sent yet
    bound,      \* the kinds bound to its navigations
    on,         \* what is in force in Chrome
    failed,     \* the kinds whose last send failed
    dressed,    \* history: pages to which new_page sent all it sends
    resuming,   \* the page and kind whose coroutine is about to resume after its send
    missed,     \* history: pages and kinds a commit reset before they were bound
    listening,  \* pages whose targets a session of the cores override is told of
    worker      \* of each page, the target its document started: a worker or a frame

pageVars == <<page, navs, todo, bound, on, failed, dressed, resuming, missed, listening>>
overrideVars == <<phase, handlers, page, navs, todo, bound, on, failed, dressed, resuming, missed,
                  listening, worker>>

NoWorker == [st |-> "none", cores |-> FALSE, ua |-> FALSE, plain |-> "none", pausing |-> "none"]

PagesTypeOK ==
    /\ phase \in {"install", "workers", "user", "over"}
    /\ handlers \subseteq Kind
    /\ page \in [Page -> {"none", "open", "asked", "blank", "closed"}]
    /\ navs \in 0..MaxNavs
    /\ todo \in [Page -> SUBSET Kind] /\ bound \in [Page -> SUBSET Kind]
    /\ on \in [Page -> SUBSET (Kind \cup {"tz"})] /\ failed \in [Page -> SUBSET Kind]
    /\ dressed \subseteq Page
    /\ resuming \in (Page \X Kind) \cup {<<>>}
    /\ missed \subseteq Page \X Kind
    /\ listening \subseteq Page
    /\ worker \in [Page -> [st : {"none", "started", "paused", "plain", "pausing"},
                            cores : BOOLEAN, ua : BOOLEAN,
                            plain : {"none", "cores", "run", "done"},
                            pausing : {"none", "cores", "ua", "run", "done"}]]

(* CDP is connected, the stale tabs are closed and the geo page is gone.   *)
PagesInit ==
    /\ phase = "install"
    /\ handlers = {}
    /\ page = [p \in Page |-> IF p = Main THEN "open" ELSE "none"]
    /\ navs = 0
    /\ todo = [p \in Page |-> {}] /\ bound = [p \in Page |-> {}]
    /\ on = [p \in Page |-> {}] /\ failed = [p \in Page |-> {}]
    /\ dressed = {} /\ resuming = <<>> /\ missed = {} /\ listening = {}
    /\ worker = [p \in Page |-> NoWorker]

Idle == resuming = <<>>
Alive(p) == page[p] \in {"open", "asked", "blank"}

-----------------------------------------------------------------------------
(* What an override does to a page.                                        *)

(* A send succeeds, or fails and is swallowed.                             *)
Sent(p, k) ==
    \/ /\ on' = [on EXCEPT ![p] = @ \cup {k}]
       /\ failed' = [failed EXCEPT ![p] = @ \ {k}]
    \/ /\ k \in MayFail
       /\ failed' = [failed EXCEPT ![p] = @ \cup {k}]
       /\ UNCHANGED on

(* In the same try as the cores, a session is told of the page's targets   *)
(* from then on; the sessions of earlier tries go on being told.           *)
Listens(p, k) ==
    listening' = IF k = "cores" /\ k \notin failed'[p] THEN listening \cup {p} ELSE listening

(* The number of cores is overridden only where it differs.                *)
Wanted == IF CoresDiffer THEN Kind ELSE Kind \ {"cores"}

(* Each override applies itself to the first page, binds itself to that    *)
(* page's navigations, and registers its handler.                          *)
Install(k) ==
    /\ phase = "install" /\ Idle
    /\ k \in Wanted \ handlers
    /\ Sent(Main, k) /\ Listens(Main, k)
    /\ bound' = [bound EXCEPT ![Main] = IF k \in Once THEN @ ELSE @ \cup {k}]
    /\ handlers' = handlers \cup {k}
    /\ UNCHANGED <<phase, page, navs, todo, dressed, resuming, missed, worker>>

(* The members of the gather come in any order, the sensors after them.    *)
InstallCores == Install("cores")

InstallTouch == \E k \in BindLast : Install(k)

(* The locale's override, at its end, is written alike and goes with it.   *)
InstallUserAgent == Install("ua")

Gathered == Wanted \ {"workers", "sensors"} \subseteq handlers

InstallSensors == Gathered /\ Install("sensors")

Installed ==
    /\ phase = "install" /\ Idle
    /\ "sensors" \in handlers
    /\ phase' = "workers"
    /\ UNCHANGED <<handlers, pageVars, worker>>

(* _arm_worker_core_override, the time zone, and new_page is wrapped.      *)
ArmWorkers ==
    /\ phase = "workers"
    /\ Sent(Main, "workers")
    /\ bound' = [bound EXCEPT ![Main] = @ \cup {"workers"}]
    /\ handlers' = handlers \cup {"workers"}
    /\ phase' = "user"
    /\ UNCHANGED <<page, navs, todo, dressed, resuming, missed, listening, worker>>

-----------------------------------------------------------------------------
(* Pages while the caller's block runs.                                    *)

(* Mutant: no handler binds before it applies.                             *)
BoundAtOnceLate == {}

(* The kinds whose page handler binds before it applies.                   *)
BoundAtOnce == handlers \cap BindFirst

(* The context's "page" event: every registered handler starts its task.   *)
PageEvent(p) ==
    /\ todo' = [todo EXCEPT ![p] = handlers]
    /\ bound' = [bound EXCEPT ![p] = BoundAtOnce]

PopUp(p) ==
    /\ phase = "user" /\ Idle /\ page[p] = "none"
    /\ page' = [page EXCEPT ![p] = "open"]
    /\ PageEvent(p)
    /\ UNCHANGED <<phase, handlers, navs, on, failed, dressed, resuming, missed, listening, worker>>

NewPage(p) ==
    /\ phase = "user" /\ Idle /\ page[p] = "none"
    /\ page' = [page EXCEPT ![p] = "asked"]
    /\ PageEvent(p)
    /\ UNCHANGED <<phase, handlers, navs, on, failed, dressed, resuming, missed, listening, worker>>

(* framenavigated starts a task of every kind bound to it.                 *)
Reapply(p) == todo[p] \cup bound[p]

(* A document commits: what is bound to navigations may be reset (some     *)
(* Android builds do), and the old document's worker is gone.              *)
Commit(p) ==
    /\ \E reset \in {{}, BindFirst \cup BindLast} :
          /\ on' = [on EXCEPT ![p] = @ \ reset]
          /\ missed' = missed \cup {r \in {resuming} : r # <<>> /\ r[1] = p /\ r[2] \in reset}
          /\ listening' = IF reset = {} THEN listening ELSE listening \ {p}
    /\ todo' = [todo EXCEPT ![p] = Reapply(p)]
    /\ worker' = [worker EXCEPT ![p] = NoWorker]
    /\ UNCHANGED <<phase, handlers, bound, failed, resuming>>

Navigate(p) ==
    /\ phase = "user" /\ page[p] = "open" /\ navs < MaxNavs
    /\ Commit(p)
    /\ navs' = navs + 1
    /\ UNCHANGED <<page, dressed>>

(* new_page goes to about:blank ...                                        *)
WrapGoto(p) ==
    /\ phase = "user" /\ page[p] = "asked"
    /\ Commit(p)
    /\ page' = [page EXCEPT ![p] = "blank"]
    /\ UNCHANGED <<navs, dressed>>

(* ... sends its overrides one after the other up to the first that fails, *)
(* and returns the page.                                                   *)
WrapSend(p) ==
    /\ phase = "user" /\ Idle /\ page[p] = "blank"
    /\ \/ /\ on' = [on EXCEPT ![p] = @ \cup Range(Direct) \cup {"tz"}]
          /\ failed' = [failed EXCEPT ![p] = @ \ Range(Direct)]
          /\ dressed' = dressed \cup {p}
       \/ \E n \in DOMAIN Direct :
             LET done == Range(SubSeq(Direct, 1, n - 1)) IN
             /\ Direct[n] \in MayFail
             /\ on' = [on EXCEPT ![p] = @ \cup done]
             /\ failed' = [failed EXCEPT ![p] = (@ \ done) \cup {Direct[n]}]
             /\ UNCHANGED dressed
    /\ page' = [page EXCEPT ![p] = "open"]
    /\ UNCHANGED <<phase, handlers, navs, todo, bound, resuming, missed, listening, worker>>

(* A task sends its override.  The first one of a BindLast kind goes on to *)
(* bind itself to the page's navigations.                                  *)
Apply(p, k) ==
    /\ phase = "user" /\ Idle /\ Alive(p) /\ k \in todo[p]
    /\ Sent(p, k) /\ Listens(p, k)
    /\ todo' = [todo EXCEPT ![p] = @ \ {k}]
    /\ resuming' = IF k \in BindLast \ bound[p] THEN <<p, k>> ELSE <<>>
    /\ UNCHANGED <<phase, handlers, page, navs, bound, dressed, missed, worker>>

Resume ==
    /\ ~Idle
    /\ bound' = [bound EXCEPT ![resuming[1]] = @ \cup {resuming[2]}]
    /\ resuming' = <<>>
    /\ UNCHANGED <<phase, handlers, page, navs, todo, on, failed, dressed, missed, listening, worker>>

(* A page that is closed takes what was in force on it along.              *)
Forget(ps) ==
    /\ page' = [q \in Page |-> IF q \in ps THEN "closed" ELSE page[q]]
    /\ worker' = [q \in Page |-> IF q \in ps THEN NoWorker ELSE worker[q]]
    /\ LET Clear(f) == [q \in Page |-> IF q \in ps THEN {} ELSE f[q]] IN
       todo' = Clear(todo) /\ bound' = Clear(bound) /\ on' = Clear(on) /\ failed' = Clear(failed)
    /\ dressed' = dressed \ ps
    /\ missed' = {m \in missed : m[1] \notin ps}
    /\ listening' = listening \ ps
    /\ UNCHANGED <<navs, resuming>>

ClosePage(p) ==
    /\ phase = "user" /\ Idle /\ page[p] = "open" /\ p # Main
    /\ Forget({p})
    /\ UNCHANGED <<phase, handlers>>

-----------------------------------------------------------------------------
(* Workers.  A page's document starts a worker, or another target of the   *)
(* page; each CDP session of the page that has auto-attach on is told.     *)
(* The one of the cores override (plain) sends a worker of any kind the    *)
(* cores and lets it run.  The one of _arm_worker_core_override (pausing)  *)
(* makes every target wait, and sends those of type "worker" the cores and *)
(* the user agent and lets them run.  Each handler is one try: the first   *)
(* message that fails is its last.  `plain' and `pausing' are the messages *)
(* the handlers send next, "none" if one was not told or has given up;     *)
(* `st' says which of them let the target run.                             *)
(* The sessions of a page that a re-application adds are written alike and *)
(* count as one.                                                           *)
TakenBy(type) == CASE type = "worker"  -> {"plain", "pausing"}
                   [] type = "service" -> {"plain"}  \* and "shared_worker"
                   [] type = "frame"   -> {}

StartWorker(p) ==
    /\ phase = "user" /\ Idle /\ page[p] = "open"
    /\ \A q \in Page : worker[q].st = "none"
    /\ \E type \in {"worker", "service", "frame"} :
          worker' = [worker EXCEPT ![p] =
             [st |-> IF "workers" \in on[p] THEN "paused" ELSE "started",
              cores |-> FALSE, ua |-> FALSE,
              plain |-> IF p \in listening /\ "plain" \in TakenBy(type)
                           THEN "cores" ELSE "none",
              pausing |-> IF "workers" \in on[p] /\ "pausing" \in TakenBy(type)
                             THEN "cores" ELSE "none"]]
    /\ UNCHANGED <<phase, handlers, pageVars>>

(* runIfWaitingForDebugger: the first handler to send it lets it run.      *)
LetRun(w, who) == IF w.st = "paused" THEN who ELSE w.st

(* Mutant: the plain handler lets the worker run first.                    *)
PlainMessageSwapped(p) ==
    LET w == worker[p] IN
    /\ w.plain \in {"cores", "run"} /\ Idle
    /\ worker' = [worker EXCEPT ![p] =
          IF w.plain = "cores" THEN [w EXCEPT !.st = LetRun(w, "plain"), !.plain = "run"]
                               ELSE [w EXCEPT !.cores = TRUE, !.plain = "done"]]
    /\ UNCHANGED <<phase, handlers, pageVars>>

(* setHardwareConcurrencyOverride, then runIfWaitingForDebugger.           *)
PlainMessage(p) ==
    LET w == worker[p] IN
    /\ Idle
    /\ \/ /\ w.plain = "cores"
          /\ worker' = [worker EXCEPT ![p] = [w EXCEPT !.cores = TRUE, !.plain = "run"]]
       \/ /\ w.plain = "run"
          /\ worker' = [worker EXCEPT ![p] = [w EXCEPT !.st = LetRun(w, "plain"), !.plain = "done"]]
       \/ /\ w.plain \in {"cores", "run"} /\ "plain" \in MayLose
          /\ worker' = [worker EXCEPT ![p] = [w EXCEPT !.plain = "none"]]
    /\ UNCHANGED <<phase, handlers, pageVars>>

(* Mutant: the pausing handler never lets the worker run.                  *)
PausingMessageWithoutRun(p) ==
    LET w == worker[p] IN
    /\ w.pausing \in {"cores", "ua"} /\ Idle
    /\ worker' = [worker EXCEPT ![p] =
          IF w.pausing = "cores" THEN [w EXCEPT !.cores = TRUE, !.pausing = "ua"]
                                 ELSE [w EXCEPT !.ua = TRUE, !.pausing = "run"]]
    /\ UNCHANGED <<phase, handlers, pageVars>>

(* Cores, user agent, and run.                                             *)
PausingMessage(p) ==
    LET w == worker[p] IN
    /\ Idle
    /\ \/ /\ w.pausing = "cores"
          /\ worker' = [worker EXCEPT ![p] = [w EXCEPT !.cores = TRUE, !.pausing = "ua"]]
       \/ /\ w.pausing = "ua"
          /\ worker' = [worker EXCEPT ![p] = [w EXCEPT !.ua = TRUE, !.pausing = "run"]]
       \/ /\ w.pausing = "run"
          /\ worker' = [worker EXCEPT ![p] = [w EXCEPT !.st = LetRun(w, "pausing"), !.pausing = "done"]]
       \/ /\ w.pausing \in {"cores", "ua", "run"} /\ "pausing" \in MayLose
          /\ worker' = [worker EXCEPT ![p] = [w EXCEPT !.pausing = "none"]]
    /\ UNCHANGED <<phase, handlers, pageVars>>

(* __aexit__ disconnects CDP and stops Chrome.                             *)
Exit ==
    /\ phase = "user" /\ Idle
    /\ phase' = "over"
    /\ Forget(Page)
    /\ UNCHANGED handlers

-----------------------------------------------------------------------------
Task(p) == PlainMessage(p) \/ PausingMessage(p) \/ \E k \in Kind : Apply(p, k)

PagesNext ==
    \/ InstallCores \/ InstallTouch \/ InstallUserAgent \/ InstallSensors
    \/ Installed \/ ArmWorkers \/ Resume \/ Exit
    \/ \E p \in Page :
          \/ PopUp(p) \/ NewPage(p) \/ WrapGoto(p) \/ WrapSend(p) \/ Navigate(p)
          \/ ClosePage(p) \/ StartWorker(p) \/ Task(p)
    \/ phase = "over" /\ UNCHANGED overrideVars

(* The event loop runs every task; the caller and the sites do as they     *)
(* please.                                                                 *)
Fairness ==
    /\ WF_overrideVars(Resume)
    /\ \A p \in Page : WF_overrideVars(PlainMessage(p)) /\ WF_overrideVars(PausingMessage(p))

PagesSpec == PagesInit /\ [][PagesNext]_overrideVars /\ Fairness

-----------------------------------------------------------------------------
(* On a page whose tasks have all run every override is in force, except   *)
(* where its last send failed or where a commit reset it in the gap        *)
(* between its first send and its binding.  A page that new_page could     *)
(* send everything to has its time zone as well.                           *)
PagesComplete ==
    \A p \in Page : page[p] = "open" /\ phase = "user" /\ todo[p] = {} /\ Idle =>
        /\ \A k \in Wanted : k \in on[p] \/ k \in failed[p] \/ <<p, k>> \in missed
        /\ p \in dressed => "tz" \in on[p]

(* A worker that was made to wait is let run only once it has the profile's *)
(* cores, and its user agent as well unless the handler of the cores       *)
(* override was the one to let it run.                                     *)
WorkersMasked ==
    \A p \in Page : LET w == worker[p] IN
        /\ w.st \in {"plain", "pausing"} => w.cores
        /\ w.st = "pausing" => w.ua

(* It waits for a debugger, and a handler that was told of it has not lost *)
(* a message.                                                              *)
Waits(w) == w.st = "paused" /\ (w.plain # "none" \/ w.pausing # "none")

(* A worker that waits for a debugger is let run, unless each of the       *)
(* handlers told of it lost a message or no handler takes its type.  (No   *)
(* two are in the model at a time, see StartWorker.)                       *)
EveryWorkerRuns == (\E p \in Page : Waits(worker[p])) ~> (\A p \in Page : ~Waits(worker[p]))
=============================================================================
