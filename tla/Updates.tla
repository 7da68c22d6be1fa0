------------------------------- MODULE Updates -------------------------------
(***************************************************************************)
(* Looking for a new version, loading it and asking the window to install  *)
(* it (updates.py, UpdateManager). The window asks for a check or an       *)
(* installation, a thread of its own does each, and _busy is to keep a     *)
(* second one from beginning meanwhile. Who changes the state tells the    *)
(* window of it after giving up the lock.                                  *)
(***************************************************************************)
EXTENDS WindowEvents

CONSTANTS
    Installs,       \* target.windows_installer: can this build install an update?
    MaxJobs         \* bound: checks and installations begun

ASSUME JobsAssumption == Installs \in BOOLEAN /\ MaxJobs \in Nat

VARIABLES
    busy,       \* _busy
    closed,     \* _closed
    release,    \* _release: has a new version been found?
    phase,      \* _snapshot.phase
    jobs,       \* the threads of run_in_background
    begun,      \* how many of them were asked for
    overruled,  \* was _busy taken from a job at work? (installation_failed)
    outrun      \* was the window told of a state that was no longer the last?

updateVars == <<busy, closed, release, phase, jobs, begun, overruled, outrun>>

Phases == {"idle", "checking", "current", "available", "downloading", "installing", "error"}

\* Where a job stands in _check_worker and _download_worker; the worker loads a found update
\* unasked if it is silent. "tell": it has changed the state to says, has to tell the
\* window, and goes on at then.
Places == {"new", "look", "current", "available", "free", "begin", "load", "install",
           "request", "fail", "tell", "done"}

JobNumbers == 1..MaxJobs

UpdatesTypeOK ==
    /\ busy \in BOOLEAN /\ closed \in BOOLEAN /\ release \in BOOLEAN
    /\ overruled \in BOOLEAN /\ outrun \in BOOLEAN
    /\ phase \in Phases
    /\ jobs \in [JobNumbers -> [at : Places, silent : BOOLEAN, says : Phases, then : Places]]
    /\ begun \in 0..MaxJobs

At(j, place) == jobs[j].at = place

\* Has job j begun its work, and has it yet to give up _busy?
AtWork(j) ==
    \/ jobs[j].at \in {"look", "current", "available", "free", "begin", "load", "install", "fail"}
    \/ jobs[j].at = "tell" /\ jobs[j].then \in {"free", "begin", "load"}

Phase(p) == Action("phase", p)

-----------------------------------------------------------------------------
(* The window's thread.                                                    *)

\* A thread is started that begins at a place.
Run(place, silent) ==
    jobs' = [jobs EXCEPT ![begun + 1] = [@ EXCEPT !.at = place, !.silent = silent]]

\* A job that is announced to the window as p and begins at a place; the thread may fail to start.
Begin(p, place, silent) ==
    /\ begun < MaxJobs
    /\ begun' = begun + 1
    /\ \/ /\ Run(place, silent)
          /\ busy' = TRUE
          /\ phase' = p
          /\ events' = Posted(events, <<Phase(p)>>)
       \/ /\ Run("done", silent)
          /\ busy' = FALSE
          /\ phase' = "error"
          /\ events' = Posted(events, <<Phase(p), Phase("error")>>)
    /\ UNCHANGED <<closed, release, overruled, outrun>>

\* Mutant: a check does not wait for the one at work.
CheckAnyway(silent) ==
    /\ ~closed
    /\ Begin("checking", "look", silent)

Check(silent) ==
    /\ ~closed /\ ~busy
    /\ Begin("checking", "look", silent)

InstallAvailable ==
    /\ ~closed /\ ~busy /\ release /\ Installs
    /\ Begin("downloading", "begin", FALSE)

\* installation_failed: the installer could not be started. It gives up _busy, whosever it is.
InstallationFailed(queue) ==
    /\ IF closed
         THEN events' = queue /\ UNCHANGED <<busy, phase, overruled>>
         ELSE /\ busy' = FALSE
              /\ phase' = "error"
              /\ overruled' = (overruled \/ \E j \in JobNumbers : AtWork(j))
              /\ events' = Posted(queue, <<Phase("error")>>)
    /\ UNCHANGED <<closed, release, jobs, begun, outrun>>

Close ==
    /\ closed' = TRUE
    /\ busy' = FALSE
    /\ UNCHANGED <<release, phase, jobs, begun, overruled, outrun>>

-----------------------------------------------------------------------------
(* The jobs.                                                               *)

\* A job at a place, with nothing to tell; and one that is over.
Now(job, place) == [at |-> place, silent |-> job.silent /\ place # "done",
                    says |-> "idle", then |-> "done"]

Goes(j, place) == jobs' = [jobs EXCEPT ![j] = Now(@, place)]

\* _transition: to a phase, giving up _busy or not, to tell and go on at then; a manager
\* that is closed changes nothing, and the job goes on at otherwise.
Transition(j, p, frees, then, otherwise) ==
    /\ IF closed
         THEN Goes(j, otherwise) /\ UNCHANGED <<busy, phase>>
         ELSE /\ phase' = p
              /\ busy' = (busy /\ ~frees)
              /\ jobs' = [jobs EXCEPT ![j] = [@ EXCEPT !.at = "tell", !.says = p, !.then = then]]
    /\ UNCHANGED <<events, closed, release, begun, overruled, outrun>>

\* _notify: the observers were counted before the lock was given up, so one is told still
\* after the manager was closed.
Tell(j) ==
    /\ At(j, "tell")
    /\ Post(Phase(jobs[j].says))
    /\ Goes(j, jobs[j].then)
    /\ outrun' = (outrun \/ jobs[j].says # phase)
    /\ UNCHANGED <<busy, closed, release, phase, begun, overruled>>

\* latest_release: it fails, finds nothing newer, or a new version.
Look(j) ==
    /\ At(j, "look")
    /\ \/ Goes(j, "fail") /\ UNCHANGED release
       \/ Goes(j, "current") /\ release' = FALSE
       \/ Goes(j, "available") /\ release' = TRUE
    /\ UNCHANGED <<events, busy, closed, phase, begun, overruled, outrun>>

\* Mutant: a check that finds nothing newer keeps _busy.
SettleBusy(j) ==
    /\ At(j, "current")
    /\ Transition(j, "current", FALSE, "done", "done")

Settle(j) ==
    /\ At(j, "current")
    /\ Transition(j, "current", TRUE, "done", "done")

Offer(j) ==
    /\ At(j, "available")
    /\ Transition(j, "available", FALSE,
                  IF jobs[j].silent /\ Installs THEN "begin" ELSE "free", "done")

\* _set_busy(False)
Free(j) ==
    /\ At(j, "free")
    /\ Goes(j, "done")
    /\ busy' = (busy /\ closed)
    /\ UNCHANGED <<events, closed, release, phase, begun, overruled, outrun>>

\* _download_worker does not look whether the manager is closed before it has loaded.
BeginLoad(j) ==
    /\ At(j, "begin")
    /\ Transition(j, "downloading", FALSE, "load", "load")

Load(j) ==
    /\ At(j, "load")
    /\ Goes(j, "install") \/ Goes(j, "fail")
    /\ UNCHANGED <<events, busy, closed, release, phase, begun, overruled, outrun>>

\* The busy flag is given up before the window is asked to start the installer.
Install(j) ==
    /\ At(j, "install")
    /\ Transition(j, "installing", TRUE, "request", "done")

Request(j) ==
    /\ At(j, "request")
    /\ Post(Action("install", ""))
    /\ Goes(j, "done")
    /\ UNCHANGED <<busy, closed, release, phase, begun, overruled, outrun>>

\* Mutant: a job that failed does not tell the window.
FailSilently(j) ==
    /\ At(j, "fail")
    /\ Goes(j, "done")
    /\ busy' = (busy /\ closed)
    /\ phase' = IF closed THEN phase ELSE "error"
    /\ UNCHANGED <<events, closed, release, begun, overruled, outrun>>

Fail(j) ==
    /\ At(j, "fail")
    /\ Transition(j, "error", TRUE, "done", "done")

JobStep(j) ==
    \/ Tell(j) \/ Look(j) \/ Settle(j) \/ Offer(j) \/ Free(j)
    \/ BeginLoad(j) \/ Load(j) \/ Install(j) \/ Request(j) \/ Fail(j)

UpdatesInit ==
    /\ busy = FALSE /\ closed = FALSE /\ release = FALSE
    /\ phase = "idle"
    /\ jobs = [j \in JobNumbers |->
                 [at |-> "new", silent |-> FALSE, says |-> "idle", then |-> "done"]]
    /\ begun = 0
    /\ overruled = FALSE /\ outrun = FALSE

=============================================================================
