----------------------------- MODULE Application -----------------------------
(***************************************************************************)
(* The window of KeySwitch (desktop_ui.py, DesktopApplication) with the    *)
(* engine that loads while the window comes up (EngineLoader), the updates *)
(* (Updates) and the queue through which both reach the window's thread    *)
(* (WindowEvents): from the first subscription to the end of the program.  *)
(***************************************************************************)
EXTENDS EngineLoader, Updates

CONSTANT MaxBacklog     \* bound: actions that wait in the window's queue

VARIABLES
    stage,      \* where run() stands: "build", "start", "loop"
    toSubscribe,\* subscriptions the window is yet to make
    leaving,    \* has the tray asked the window to quit?
    shownEngine,\* the engine's state the window shows
    shownPhase, \* the update phase it shows
    launched    \* installers started

appVars == <<stage, toSubscribe, leaving, shownEngine, shownPhase, launched>>

vars == <<windowVars, loaderVars, updateVars, appVars>>

TypeOK ==
    /\ LoaderTypeOK
    /\ UpdatesTypeOK
    /\ closing \in BOOLEAN /\ draining \in BOOLEAN /\ leaving \in BOOLEAN
    /\ \A i \in 1..Len(events) :
         \/ events[i].do \in {"attach", "report", "install", "quit"}
         \/ events[i].do = "snapshot" /\ events[i].with \in EngineStates
         \/ events[i].do = "phase" /\ events[i].with \in Phases
    /\ stage \in {"build", "start", "loop"}
    /\ toSubscribe \subseteq Subscriptions
    /\ shownEngine \in EngineStates
    /\ shownPhase \in Phases
    /\ launched \in Nat

Init ==
    /\ WindowInit /\ LoaderInit /\ UpdatesInit
    /\ stage = "build"
    /\ toSubscribe = Subscriptions
    /\ leaving = FALSE
    /\ shownEngine = "none"
    /\ shownPhase = "idle"
    /\ launched = 0

-----------------------------------------------------------------------------
(* The window comes up.                                                    *)

WindowSubscribes(s) ==
    /\ s \in toSubscribe
    /\ toSubscribe' = toSubscribe \ {s}
    /\ Subscribe(s)
    /\ UNCHANGED <<closing, draining, updateVars,
                   stage, leaving, shownEngine, shownPhase, launched>>

\* The last subscription is to the updates, which greet with their state.
WindowBuilt ==
    /\ stage = "build" /\ toSubscribe = {}
    /\ stage' = "start"
    /\ Post(Phase(phase))
    /\ UNCHANGED <<closing, draining, loaderVars, updateVars,
                   toSubscribe, leaving, shownEngine, shownPhase, launched>>

\* run(): the engine is started, unless the program runs without (--no-engine).
RunStarts ==
    /\ stage = "start"
    /\ stage' = "loop"
    /\ \/ Start
       \/ UNCHANGED <<events, loaderVars>>
    /\ UNCHANGED <<closing, draining, updateVars,
                   toSubscribe, leaving, shownEngine, shownPhase, launched>>

-----------------------------------------------------------------------------
(* The window's thread in its main loop.                                   *)

\* No action of the queue is under way: the user and the timers get their turn.
Idle == stage = "loop" /\ ~closing /\ ~draining

Shutdown ==
    /\ closing' = TRUE
    /\ Close
    /\ Stop

\* _window_close, when there is no tray to go to.
CloseWindow ==
    /\ Idle
    /\ Shutdown
    /\ UNCHANGED <<events, draining, appVars>>

StartDrain ==
    /\ stage = "loop"
    /\ DrainBegin
    /\ UNCHANGED <<loaderVars, updateVars, appVars>>

EndDrain ==
    /\ DrainEnd
    /\ UNCHANGED <<loaderVars, updateVars, appVars>>

\* _automatic_update_check, at the timer. Updates are installed unasked if the settings say so.
CheckInTime ==
    /\ Idle
    /\ \E silent \in BOOLEAN : Check(silent)
    /\ UNCHANGED <<closing, draining, loaderVars, appVars>>

\* _check_updates: its button is disabled while the window shows a check or a download.
CheckAsked ==
    /\ Idle
    /\ shownPhase \notin {"checking", "downloading"}
    /\ Check(FALSE)
    /\ UNCHANGED <<closing, draining, loaderVars, appVars>>

\* _install_available_update: its button is enabled while the window shows a new version.
InstallAsked ==
    /\ Idle
    /\ shownPhase = "available"
    /\ InstallAvailable
    /\ UNCHANGED <<closing, draining, loaderVars, appVars>>

-----------------------------------------------------------------------------
(* The actions of the queue.                                               *)

DoAttach ==
    /\ Takes("attach")
    /\ Attach(Tail(events))
    /\ UNCHANGED <<closing, updateVars, appVars>>

DoReport ==
    /\ Takes("report")
    /\ ReportError(Tail(events))
    /\ UNCHANGED <<closing, updateVars, appVars>>

\* _apply_snapshot
DoSnapshot ==
    /\ Takes("snapshot")
    /\ shownEngine' = Head(events).with
    /\ events' = Tail(events)
    /\ UNCHANGED <<closing, loaderVars, updateVars,
                   stage, toSubscribe, leaving, shownPhase, launched>>

\* _apply_update_snapshot
DoPhase ==
    /\ Takes("phase")
    /\ shownPhase' = Head(events).with
    /\ events' = Tail(events)
    /\ UNCHANGED <<closing, loaderVars, updateVars,
                   stage, toSubscribe, leaving, shownEngine, launched>>

\* shutdown(), asked for by the tray; a second one does nothing.
DoQuit ==
    /\ Takes("quit")
    /\ events' = Tail(events)
    /\ IF closing THEN UNCHANGED <<closing, loaderVars, updateVars>> ELSE Shutdown
    /\ UNCHANGED appVars

\* _install_update: the installer is started and the program ends, or it cannot be started.
DoInstall ==
    /\ Takes("install")
    /\ \/ /\ launched' = launched + 1
          /\ events' = Tail(events)
          /\ IF closing THEN UNCHANGED <<closing, loaderVars, updateVars>> ELSE Shutdown
       \/ /\ InstallationFailed(Tail(events))
          /\ UNCHANGED <<launched, closing, loaderVars>>
    /\ UNCHANGED <<stage, toSubscribe, leaving, shownEngine, shownPhase>>

-----------------------------------------------------------------------------
(* The other threads: the tray, the loader, the jobs.                      *)

TrayQuits ==
    /\ stage = "loop" /\ ~leaving
    /\ leaving' = TRUE
    /\ Post(Action("quit", ""))
    /\ UNCHANGED <<closing, draining, loaderVars, updateVars,
                   stage, toSubscribe, shownEngine, shownPhase, launched>>

LoaderStep ==
    /\ Build \/ PostLoaded
    /\ UNCHANGED <<closing, draining, updateVars, appVars>>

JobsStep(j) ==
    /\ JobStep(j)
    /\ UNCHANGED <<closing, draining, loaderVars, appVars>>

DrainStep == DoAttach \/ DoReport \/ DoSnapshot \/ DoPhase \/ DoQuit \/ DoInstall

Next ==
    \/ \E s \in Subscriptions : WindowSubscribes(s)
    \/ WindowBuilt \/ RunStarts
    \/ CloseWindow \/ StartDrain \/ EndDrain \/ CheckInTime \/ CheckAsked \/ InstallAsked
    \/ DrainStep
    \/ TrayQuits \/ LoaderStep
    \/ \E j \in JobNumbers : JobsStep(j)

Spec == Init /\ [][Next]_vars

\* The window comes up and empties its queue again and again (root.after), the loader's
\* thread and the jobs go on: every request to the network ends, in an answer or a time-out.
Fairness ==
    /\ WF_vars(\E s \in Subscriptions : WindowSubscribes(s))
    /\ WF_vars(WindowBuilt)
    /\ WF_vars(RunStarts)
    /\ WF_vars(StartDrain)
    /\ WF_vars(EndDrain)
    /\ WF_vars(DrainStep)
    /\ WF_vars(LoaderStep)
    /\ \A j \in JobNumbers : WF_vars(JobsStep(j))

FairSpec == Spec /\ Fairness

\* Bounds of the runs. The main loop ends with the closing, or with the emptying of the
\* queue in which it happened, and the process with it: the threads are daemons.
Running == closing => draining

\* Updates are begun once the engine is loaded (of the two only the queue is common), and no
\* more than so many actions wait in the queue.
Followed == Running /\ (begun > 0 => loader = "done") /\ Len(events) <= MaxBacklog

-----------------------------------------------------------------------------
(* Properties.                                                             *)

\* The program is over once it closes: an engine that was loaded meanwhile is not started
\* afterwards, no check or installation begins, and what a job does to the end of it changes
\* neither the state the manager was left in nor gives it work again (DeferredEngine._attach
\* and stop, UpdateManager.close, check, install_available and _transition).
NothingAfterClosing ==
    [][closing => /\ engine' # "running"
                  /\ ~busy' /\ phase' = phase
                  /\ \A j \in JobNumbers : At(j, "new") => jobs'[j].at = "new"]_vars

\* What the window asks of the engine while it is loaded is handed over once, none of it
\* lost and none of it twice, and an error that kept the engine from being built or from
\* starting is told once, whichever of the two threads comes first (_subscribe, _attach,
\* start, _report_error).
HandedOverOnce ==
    /\ \A s \in Subscriptions :
         LET waits == IF s \in toSubscribe \cup waiting THEN 0 ELSE 1
         IN  attached[s] = waits
    /\ told <= 1
    /\ told = 1 => engine \in {"none", "failed", "closed"}
    /\ engine # "none" /\ loader = "done" /\ ~closing
         /\ (\A i \in 1..Len(events) : events[i].do # "attach") => waiting = {}

\* _busy says that a job is at work, and there is one only: two loads into one file would
\* spoil it, a flag left standing would end all updates until the next start. It is so until
\* the program closes, unless an installer that could not be started took the flag from the
\* job that had begun after the one it came from (check, install_available, _transition,
\* _fail).
Serialized ==
    closed \/ overruled \/
        /\ busy <=> \E j \in JobNumbers : AtWork(j)
        /\ \A i, j \in JobNumbers : AtWork(i) /\ AtWork(j) => i = j

\* Is there a job that has yet to tell the window of a state?
Telling == \E j \in JobNumbers : At(j, "tell")

\* When the queue is empty and nothing is on its way to it, the window shows the engine as
\* it is and the phase the updates are in, so that its buttons offer what can be done;
\* unless a job told of its state after the next one had changed it (_subscribe, late,
\* _update_from_thread, _notify).
ShowsTheState ==
    events = <<>> /\ stage = "loop" /\ ~closing /\ loader = "done" =>
        /\ shownEngine = engine
        /\ outrun \/ Telling \/ shownPhase = phase

\* A start that was asked for is answered: the engine runs, the window is told why it does
\* not, or the program closes first (start, _load, _attach, _report_error).
StartAnswered == startAsked ~> (engine = "running" \/ told > 0 \/ closing)

\* A check or an installation ends, in whatever way (_check_worker, _download_worker): the
\* next one can be asked for.
JobsEnd == busy ~> ~busy

\* Neither the start nor an update is left hanging.
WorkEnds == StartAnswered /\ JobsEnd

============================================================
