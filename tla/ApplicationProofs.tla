-------------------------- MODULE ApplicationProofs --------------------------
(***************************************************************************)
(* Proofs about Application, for every number of subscriptions and jobs:   *)
(* the updates do one thing at a time, nothing begins after closing, what  *)
(* was asked of the engine while it was loaded is handed over once, and    *)
(* the window comes to show the state of both.                             *)
(***************************************************************************)
EXTENDS Application, TLAPS

-----------------------------------------------------------------------------
(* The busy flag.                                                          *)

\* The jobs, as far as the flag depends on them: what they are, and where one goes on.
Jobs == [at : Places, silent : BOOLEAN, says : Phases, then : Places]

JobsTyped ==
    /\ jobs \in [JobNumbers -> Jobs]
    /\ \A j \in JobNumbers : At(j, "tell") =>
         jobs[j].then \in {"free", "begin", "load", "request", "done"}

\* Inductive: a job that tells goes on where it keeps the flag or has given it up.
SerializedInv ==
    /\ busy \in BOOLEAN /\ closed \in BOOLEAN /\ overruled \in BOOLEAN
    /\ begun \in 0..MaxJobs
    /\ JobsTyped
    /\ Serialized

\* The variables SerializedInv depends on.
flagVars == <<busy, closed, overruled, begun, jobs>>

USE DEF JobNumbers

LEMMA SerializedInit == Init => SerializedInv
  <1> SUFFICES ASSUME Init PROVE SerializedInv
    OBVIOUS
  <1> DEFINE fresh == [at |-> "new", silent |-> FALSE, says |-> "idle", then |-> "done"]
  <1>1. jobs = [j \in JobNumbers |-> fresh]
    BY DEF Init, UpdatesInit
  <1>2. fresh \in Jobs
    BY DEF Jobs, Places, Phases
  <1>3. JobsTyped
    BY <1>1, <1>2 DEF JobsTyped, At
  <1>4. Serialized
    BY <1>1 DEF Init, UpdatesInit, Serialized, AtWork
  <1>5. begun \in 0..MaxJobs
    BY JobsAssumption DEF Init, UpdatesInit
  <1> QED
    BY <1>3, <1>4, <1>5 DEF Init, UpdatesInit, SerializedInv

\* A job that changes its place, between two at which it has the flag or two at which it has not.
LEMMA SameWork ==
  ASSUME SerializedInv, NEW j \in JobNumbers,
         NEW place \in Places, place # "tell",
         Goes(j, place),
         AtWork(j) <=> place \in {"look", "current", "available", "free", "begin", "load",
                                  "install", "fail"},
         UNCHANGED <<busy, closed, overruled, begun>>
  PROVE  SerializedInv'
  <1>1. jobs' = [jobs EXCEPT ![j] = Now(jobs[j], place)]
    BY DEF Goes
  <1>2. Now(jobs[j], place) \in Jobs
    BY DEF Jobs, Now, Places, Phases, SerializedInv, JobsTyped
  <1>3. jobs'[j].at = place
    BY <1>1 DEF Now, SerializedInv, JobsTyped
  <1>4. \A i \in JobNumbers : i # j => jobs'[i] = jobs[i]
    BY <1>1 DEF SerializedInv, JobsTyped
  <1>5. JobsTyped'
    BY <1>1, <1>2, <1>3, <1>4 DEF SerializedInv, JobsTyped, At
  <1>6. \A i \in JobNumbers : AtWork(i)' <=> AtWork(i)
    BY <1>3, <1>4 DEF AtWork
  <1>7. Serialized'
    BY <1>6 DEF SerializedInv, Serialized
  <1> QED
    BY <1>5, <1>7 DEF SerializedInv

\* A transition of the job that has the flag: it keeps it, or gives it up for good.
LEMMA TransitionSerial ==
  ASSUME SerializedInv, NEW j \in JobNumbers, NEW p \in Phases, NEW frees \in BOOLEAN,
         NEW then \in Places, NEW otherwise \in Places \ {"tell"},
         AtWork(j), jobs[j].at # "tell",
         IF frees THEN then \in {"request", "done"} ELSE then \in {"free", "begin", "load"},
         Transition(j, p, frees, then, otherwise)
  PROVE  SerializedInv'
  <1> USE DEF SerializedInv
  <1>0. UNCHANGED <<closed, overruled, begun>>
    BY DEF Transition
  <1>1. CASE closed
    <2>1. jobs' = [jobs EXCEPT ![j] = Now(jobs[j], otherwise)] /\ busy' = busy
      BY <1>1 DEF Transition, Goes
    <2>2. Now(jobs[j], otherwise) \in Jobs
      BY DEF Jobs, Now, Places, Phases, JobsTyped
    <2>3. jobs'[j].at = otherwise /\ \A i \in JobNumbers : i # j => jobs'[i] = jobs[i]
      BY <2>1 DEF Now, JobsTyped
    <2>4. JobsTyped'
      BY <2>1, <2>2, <2>3 DEF JobsTyped, At
    <2> QED
      BY <1>0, <1>1, <2>1, <2>4 DEF Serialized
  <1>2. CASE ~closed
    <2>1. jobs' = [jobs EXCEPT ![j] =
                     [jobs[j] EXCEPT !.at = "tell", !.says = p, !.then = then]]
          /\ busy' = (busy /\ ~frees)
      BY <1>2 DEF Transition
    <2>2. jobs'[j].at = "tell" /\ jobs'[j].then = then
          /\ \A i \in JobNumbers : i # j => jobs'[i] = jobs[i]
      BY <2>1 DEF JobsTyped
    <2>3. JobsTyped'
      <3>1. jobs[j] \in Jobs
        BY DEF JobsTyped
      <3>2. [jobs[j] EXCEPT !.at = "tell", !.says = p, !.then = then] \in Jobs
        BY <3>1 DEF Jobs, Places
      <3>3. jobs' \in [JobNumbers -> Jobs]
        BY <2>1, <3>2 DEF JobsTyped
      <3> QED
        BY <2>2, <3>3 DEF JobsTyped, At
    <2>4. AtWork(j)' <=> ~frees
      BY <2>2 DEF AtWork
    <2>5. \A i \in JobNumbers : i # j => (AtWork(i)' <=> AtWork(i))
      BY <2>2 DEF AtWork
    <2>6. Serialized'
      BY <1>0, <1>2, <2>1, <2>4, <2>5 DEF Serialized
    <2> QED
      BY <1>0, <2>1, <2>3, <2>6
  <1> QED
    BY <1>1, <1>2

\* A check or an installation that begins while none is at work.
LEMMA BeginSerial ==
  ASSUME SerializedInv, ~closed, ~busy, NEW p \in Phases,
         NEW place \in {"look", "begin"}, NEW silent \in BOOLEAN,
         Begin(p, place, silent)
  PROVE  SerializedInv'
  <1> USE DEF SerializedInv
  <1>0. begun < MaxJobs /\ begun' = begun + 1 /\ UNCHANGED <<closed, overruled>>
    BY DEF Begin
  <1>1. begun' \in 0..MaxJobs
    BY <1>0, JobsAssumption
  <1>j. PICK j \in JobNumbers : j = begun + 1
    BY <1>0, JobsAssumption
  <1>2. ASSUME NEW at \in {place, "done"}, Run(at, silent), busy' = (at = place)
        PROVE  SerializedInv'
    <2>1. jobs' = [jobs EXCEPT ![j] =
                     [jobs[j] EXCEPT !.at = at, !.silent = silent]]
      BY <1>2, <1>j DEF Run
    <2>2. jobs'[j].at = at
          /\ \A i \in JobNumbers : i # j => jobs'[i] = jobs[i]
      BY <2>1 DEF JobsTyped
    <2>3. JobsTyped'
      <3>1. jobs[j] \in Jobs
        BY DEF JobsTyped
      <3>2. [jobs[j] EXCEPT !.at = at, !.silent = silent] \in Jobs
        BY <3>1 DEF Jobs, Places
      <3>3. jobs' \in [JobNumbers -> Jobs]
        BY <2>1, <3>2 DEF JobsTyped
      <3> QED
        BY <1>2, <2>2, <3>3 DEF JobsTyped, At
    <2>4. AtWork(j)' <=> at = place
      BY <2>2 DEF AtWork
    <2>5. \A i \in JobNumbers : i # j => (AtWork(i)' <=> AtWork(i))
      BY <2>2 DEF AtWork
    <2>6. Serialized'
      BY <1>0, <1>2, <2>4, <2>5 DEF Serialized
    <2> QED
      BY <1>0, <1>1, <1>2, <2>3, <2>6
  <1> QED
    BY <1>2 DEF Begin

LEMMA JobSerial ==
  ASSUME SerializedInv, NEW j \in JobNumbers, JobStep(j)
  PROVE  SerializedInv'
  <1> USE DEF SerializedInv
  <1>1. CASE Tell(j)
    <2>1. jobs[j].then \in {"free", "begin", "load", "request", "done"}
      BY <1>1 DEF Tell, JobsTyped
    <2> QED
      BY <1>1, <2>1, SameWork DEF Tell, At, AtWork, Places
  <1>2. CASE Look(j)
    BY <1>2, SameWork DEF Look, At, AtWork, Places
  <1>3. CASE Settle(j)
    BY <1>3, TransitionSerial DEF Settle, At, AtWork, Places, Phases
  <1>4. CASE Offer(j)
    <2>1. (IF jobs[j].silent /\ Installs THEN "begin" ELSE "free") \in {"begin", "free"}
      OBVIOUS
    <2> QED
      BY <1>4, <2>1, TransitionSerial DEF Offer, At, AtWork, Places, Phases
  <1>5. CASE Free(j)
    <2>1. Goes(j, "done") /\ AtWork(j) /\ busy' = (busy /\ closed)
          /\ UNCHANGED <<closed, overruled, begun>>
      BY <1>5 DEF Free, At, AtWork
    <2>2. Now(jobs[j], "done") \in Jobs
      BY DEF Jobs, Now, Places, Phases, JobsTyped
    <2>3. jobs'[j].at = "done" /\ \A i \in JobNumbers : i # j => jobs'[i] = jobs[i]
      BY <2>1 DEF Goes, Now, JobsTyped
    <2>4. JobsTyped'
      BY <2>1, <2>2, <2>3 DEF JobsTyped, Goes, At
    <2>5. ~AtWork(j)' /\ \A i \in JobNumbers : i # j => (AtWork(i)' <=> AtWork(i))
      BY <2>3 DEF AtWork
    <2>6. Serialized'
      BY <2>1, <2>5 DEF Serialized
    <2> QED
      BY <2>1, <2>4, <2>6
  <1>6. CASE BeginLoad(j)
    BY <1>6, TransitionSerial DEF BeginLoad, At, AtWork, Places, Phases
  <1>7. CASE Load(j)
    BY <1>7, SameWork DEF Load, At, AtWork, Places
  <1>8. CASE Install(j)
    BY <1>8, TransitionSerial DEF Install, At, AtWork, Places, Phases
  <1>9. CASE Request(j)
    BY <1>9, SameWork DEF Request, At, AtWork, Places
  <1>10. CASE Fail(j)
    BY <1>10, TransitionSerial DEF Fail, At, AtWork, Places, Phases
  <1> QED
    BY <1>1, <1>2, <1>3, <1>4, <1>5, <1>6, <1>7, <1>8, <1>9, <1>10 DEF JobStep

\* The flag is given up by installation_failed, or by closing: Serialized says so.
LEMMA FailedSerial ==
  ASSUME SerializedInv, NEW queue, InstallationFailed(queue)
  PROVE  SerializedInv'
  BY DEF InstallationFailed, SerializedInv, JobsTyped, Serialized, At, AtWork

LEMMA CloseSerial ==
  ASSUME SerializedInv, Close
  PROVE  SerializedInv'
  BY DEF Close, SerializedInv, JobsTyped, Serialized, At, AtWork

LEMMA OthersSerial ==
  ASSUME SerializedInv, UNCHANGED flagVars
  PROVE  SerializedInv'
  BY DEF flagVars, SerializedInv, JobsTyped, Serialized, At, AtWork

LEMMA SerializedNext == SerializedInv /\ [Next]_vars => SerializedInv'
  <1> SUFFICES ASSUME SerializedInv, [Next]_vars PROVE SerializedInv'
    OBVIOUS
  <1>1. CASE \E j \in JobNumbers : JobsStep(j)
    BY <1>1, JobSerial DEF JobsStep
  <1>2. CASE CheckInTime \/ CheckAsked
    <2>1. PICK silent \in BOOLEAN : Check(silent)
      BY <1>2 DEF CheckInTime, CheckAsked
    <2> QED
      BY <2>1, BeginSerial DEF Check, Phases
  <1>3. CASE InstallAsked
    BY <1>3, BeginSerial DEF InstallAsked, InstallAvailable, Phases
  <1>4. CASE CloseWindow
    BY <1>4, CloseSerial DEF CloseWindow, Shutdown
  <1>5. CASE DoQuit
    BY <1>5, CloseSerial, OthersSerial DEF DoQuit, Shutdown, flagVars, updateVars
  <1>6. CASE DoInstall
    BY <1>6, CloseSerial, FailedSerial, OthersSerial
       DEF DoInstall, Shutdown, flagVars, updateVars
  <1>7. CASE \/ \E s \in Subscriptions : WindowSubscribes(s)
             \/ WindowBuilt \/ RunStarts \/ StartDrain \/ EndDrain
             \/ DoAttach \/ DoReport \/ DoSnapshot \/ DoPhase
             \/ TrayQuits \/ LoaderStep \/ UNCHANGED vars
    BY <1>7, OthersSerial
       DEF WindowSubscribes, WindowBuilt, RunStarts, StartDrain, EndDrain, DoAttach, DoReport,
           DoSnapshot, DoPhase, TrayQuits, LoaderStep, vars, flagVars, updateVars
  <1> QED
    BY <1>1, <1>2, <1>3, <1>4, <1>5, <1>6, <1>7 DEF Next, DrainStep

\* Until the program closes or a failed installation took the flag from another job, _busy
\* stands exactly while a job is at work, and never two are (UpdateManager).
THEOREM OneJobAtATime == Spec => []Serialized
  <1>1. SerializedInv => Serialized
    BY DEF SerializedInv
  <1> QED
    BY <1>1, SerializedInit, SerializedNext, PTL DEF Spec

-----------------------------------------------------------------------------
(* After the closing.                                                      *)

\* Inductive: shutdown leaves the updates closed and the engine stopped, or told to stop once
\* it is built; it comes from the main loop, in which nothing is started any more.
ClosingInv ==
    /\ draining => stage = "loop"
    /\ closing => /\ stage = "loop"
                  /\ closed /\ ~busy
                  /\ stopped /\ engine \in {"none", "built", "closed"}

\* What every step does of which the property speaks, once the program is closing.
StaysClosed ==
    closing => /\ engine' # "running"
               /\ ~busy' /\ phase' = phase
               /\ \A j \in JobNumbers : At(j, "new") => jobs'[j].at = "new"

LEMMA ClosingInit == Init => ClosingInv
  BY DEF Init, WindowInit, ClosingInv

\* A job of a closed manager goes on, but says nothing of it.
LEMMA JobAfterClosing ==
  ASSUME SerializedInv, ClosingInv, closing, NEW j \in JobNumbers, JobStep(j)
  PROVE  /\ UNCHANGED <<closed, phase>> /\ ~busy'
         /\ \A i \in JobNumbers : At(i, "new") => jobs'[i].at = "new"
  <1>1. UNCHANGED <<closed, phase>> /\ ~busy'
    BY DEF ClosingInv, JobStep, Tell, Look, Settle, Offer, Free, BeginLoad, Load, Install,
           Request, Fail, Transition
  <1>2. PICK place \in Places : Goes(j, place)
    BY DEF ClosingInv, SerializedInv, JobsTyped, Jobs, JobStep, Tell, Look, Settle, Offer, Free,
           BeginLoad, Load, Install, Request, Fail, Transition, Places
  <1>3. \A i \in JobNumbers : i # j => jobs'[i] = jobs[i]
    BY <1>2 DEF Goes, SerializedInv, JobsTyped
  <1>4. ~At(j, "new")
    BY DEF At, JobStep, Tell, Look, Settle, Offer, Free, BeginLoad, Load, Install, Request, Fail
  <1> QED
    BY <1>1, <1>3, <1>4 DEF At

LEMMA ClosingNext == SerializedInv /\ ClosingInv /\ [Next]_vars => ClosingInv' /\ StaysClosed
  <1> SUFFICES ASSUME SerializedInv, ClosingInv, [Next]_vars PROVE ClosingInv' /\ StaysClosed
    OBVIOUS
  <1> USE DEF ClosingInv, StaysClosed
  <1>1. CASE \E j \in JobNumbers : JobsStep(j)
    <2>1. PICK j \in JobNumbers : JobsStep(j)
      BY <1>1
    <2>2. UNCHANGED <<closing, draining, stage, stopped, engine>>
      BY <2>1 DEF JobsStep, loaderVars, appVars
    <2> QED
      BY <2>1, <2>2, JobAfterClosing DEF JobsStep
  <1>2. CASE CheckInTime \/ CheckAsked \/ InstallAsked
    <2>1. ~closing /\ UNCHANGED <<closing, draining, appVars>>
      BY <1>2 DEF CheckInTime, CheckAsked, InstallAsked, Idle
    <2> QED
      BY <2>1 DEF appVars
  <1>3. CASE CloseWindow
    BY <1>3 DEF CloseWindow, Idle, Shutdown, Close, Stop, appVars
  <1>4. CASE StartDrain \/ EndDrain
    BY <1>4 DEF StartDrain, EndDrain, DrainBegin, DrainEnd, loaderVars, updateVars, appVars, At
  <1>5. CASE \E s \in Subscriptions : WindowSubscribes(s)
    BY <1>5 DEF WindowSubscribes, Subscribe, updateVars, At
  <1>6. CASE WindowBuilt \/ RunStarts
    BY <1>6 DEF WindowBuilt, RunStarts, loaderVars, updateVars, At
  <1>7. CASE LoaderStep
    <2>1. UNCHANGED <<closing, draining, stage, stopped, updateVars>>
      BY <1>7 DEF LoaderStep, Build, PostLoaded, appVars
    <2>2. engine' \in {engine, "built"}
      BY <1>7 DEF LoaderStep, Build, PostLoaded
    <2> QED
      BY <2>1, <2>2 DEF updateVars, At
  <1>8. CASE TrayQuits \/ DoSnapshot \/ DoPhase
    <2>1. UNCHANGED <<closing, draining, stage, loaderVars, updateVars>>
      BY <1>8 DEF TrayQuits, DoSnapshot, DoPhase, Takes
    <2> QED
      BY <2>1 DEF loaderVars, updateVars, At
  <1>9. CASE DoReport
    <2>1. UNCHANGED <<closing, draining, stage, stopped, engine, updateVars>>
      BY <1>9 DEF DoReport, ReportError, Takes, appVars
    <2> QED
      BY <2>1 DEF updateVars, At
  <1>10. CASE DoAttach
    BY <1>10 DEF DoAttach, Attach, StartEngine, Takes, updateVars, appVars, At
  <1>11. CASE DoQuit
    BY <1>11 DEF DoQuit, Shutdown, Close, Stop, Takes, loaderVars, updateVars, appVars, At
  <1>12. CASE DoInstall
    BY <1>12 DEF DoInstall, InstallationFailed, Shutdown, Close, Stop, Takes, loaderVars,
                updateVars, At
  <1>13. CASE UNCHANGED vars
    BY <1>13 DEF vars, windowVars, loaderVars, updateVars, appVars, At
  <1> QED
    BY <1>1, <1>2, <1>3, <1>4, <1>5, <1>6, <1>7, <1>8, <1>9, <1>10, <1>11, <1>12, <1>13
       DEF Next, DrainStep

\* Once the program closes the engine does not run, also if it is built afterwards, the
\* updates do not change their state and no job is begun (DeferredEngine, UpdateManager).
THEOREM NothingBeginsAfterClosing == Spec => NothingAfterClosing
  <1>1. SerializedInv /\ ClosingInv /\ [Next]_vars => [StaysClosed]_vars
    BY ClosingNext
  <1>2. Spec => []SerializedInv
    BY SerializedInit, SerializedNext, PTL DEF Spec
  <1>3. Spec => []ClosingInv
    BY <1>2, ClosingInit, ClosingNext, PTL DEF Spec
  <1> QED
    BY <1>1, <1>2, <1>3, PTL DEF Spec, NothingAfterClosing, StaysClosed

-----------------------------------------------------------------------------
(* Types.                                                                  *)

\* What may wait in the window's queue.
Actions ==
    [do : {"attach", "report", "install", "quit"}, with : {""}]
      \cup [do : {"snapshot"}, with : EngineStates]
      \cup [do : {"phase"}, with : Phases]

\* Inductive, with SerializedInv for the types of the jobs.
AppTyped ==
    /\ events \in Seq(Actions)
    /\ LoaderTypeOK
    /\ release \in BOOLEAN /\ outrun \in BOOLEAN /\ phase \in Phases
    /\ closing \in BOOLEAN /\ draining \in BOOLEAN /\ leaving \in BOOLEAN
    /\ stage \in {"build", "start", "loop"}
    /\ toSubscribe \subseteq Subscriptions
    /\ shownEngine \in EngineStates
    /\ shownPhase \in Phases
    /\ launched \in Nat

\* What the engine publishes: so many snapshots of its state.
LEMMA PublishedIs ==
  ASSUME NEW state \in EngineStates, NEW n \in Nat
  PROVE  /\ Published(state, n) \in Seq(Actions)
         /\ Len(Published(state, n)) = n
         /\ \A i \in 1..n : /\ Published(state, n)[i].do = "snapshot"
                            /\ Published(state, n)[i].with = state
  <1>1. Action("snapshot", state) \in Actions
    BY DEF Action, Actions
  <1> QED
    BY <1>1 DEF Published, Action

LEMMA PostedTyped ==
  ASSUME NEW queue \in Seq(Actions), NEW more \in Seq(Actions)
  PROVE  Posted(queue, more) \in Seq(Actions)
  BY DEF Posted

LEMMA PhaseTyped ==
  ASSUME NEW p \in Phases
  PROVE  <<Phase(p)>> \in Seq(Actions)
  BY DEF Phase, Action, Actions

LEMMA PlainTyped ==
  ASSUME NEW do \in {"attach", "report", "install", "quit"}
  PROVE  <<Action(do, "")>> \in Seq(Actions)
  <1>1. PICK a \in Actions : a = Action(do, "")
    BY DEF Action, Actions
  <1>2. <<a>> \in Seq(Actions)
    OBVIOUS
  <1> QED
    BY <1>1, <1>2

\* The action at hand, and what is left of the queue.
LEMMA TakenTyped ==
  ASSUME AppTyped, NEW do, Takes(do)
  PROVE  /\ Head(events) \in Actions /\ Tail(events) \in Seq(Actions)
         /\ Head(events) = events[1] /\ 1 \in 1..Len(events)
         /\ do = "snapshot" => Head(events).with \in EngineStates
         /\ do = "phase" => Head(events).with \in Phases
         /\ UNCHANGED draining
  <1>0. UNCHANGED draining
    BY DEF Takes
  <1>1. events \in Seq(Actions) /\ events # <<>> /\ Head(events).do = do
    BY DEF AppTyped, Takes
  <1>2. Head(events) \in Actions /\ Tail(events) \in Seq(Actions)
        /\ Head(events) = events[1] /\ 1 \in 1..Len(events)
    BY <1>1
  <1> QED
    BY <1>0, <1>1, <1>2 DEF Actions

LEMMA AppTypedInit == Init => AppTyped
  <1> SUFFICES ASSUME Init PROVE AppTyped
    OBVIOUS
  <1>1. events \in Seq(Actions)
    BY DEF Init, WindowInit
  <1>2. LoaderTypeOK
    BY DEF Init, LoaderInit, LoaderTypeOK, EngineStates
  <1> QED
    BY <1>1, <1>2 DEF Init, WindowInit, UpdatesInit, AppTyped, EngineStates, Phases

LEMMA StartTyped ==
  ASSUME AppTyped, NEW queue \in Seq(Actions), attached' \in [Subscriptions -> Nat],
         StartEngine(queue)
  PROVE  events' \in Seq(Actions) /\ engine' \in EngineStates /\ told' \in Nat
  <1>1. attached'[Snapshots] \in Nat
    BY SubscriptionsAssumption
  <1>2. PICK state \in {"running", "failed"} :
          engine' = state /\ events' = Posted(queue, Published(state, attached'[Snapshots]))
    BY DEF StartEngine
  <1>3. state \in EngineStates
    BY DEF EngineStates
  <1>4. events' \in Seq(Actions)
    BY <1>1, <1>2, <1>3, PublishedIs, PostedTyped
  <1> QED
    BY <1>2, <1>3, <1>4 DEF StartEngine, AppTyped, LoaderTypeOK

\* The end of the program, unless it has ended already.
LEMMA EndTyped ==
  ASSUME AppTyped,
         IF closing THEN UNCHANGED <<closing, loaderVars, updateVars>> ELSE Shutdown
  PROVE  LoaderTypeOK' /\ closing' \in BOOLEAN /\ UNCHANGED <<release, outrun, phase>>
  <1>1. CASE closing
    BY <1>1 DEF AppTyped, LoaderTypeOK, loaderVars, updateVars
  <1>2. CASE ~closing
    BY <1>2 DEF Shutdown, Close, Stop, AppTyped, LoaderTypeOK, EngineStates
  <1> QED
    BY <1>1, <1>2

LEMMA JobTyped ==
  ASSUME SerializedInv, AppTyped, NEW j \in JobNumbers, JobStep(j)
  PROVE  events' \in Seq(Actions) /\ release' \in BOOLEAN /\ outrun' \in BOOLEAN
         /\ phase' \in Phases
  <1>1. CASE Tell(j)
    <2>1. jobs[j].says \in Phases
      BY DEF SerializedInv, JobsTyped, Jobs
    <2>2. events' \in Seq(Actions)
      BY <1>1, <2>1, PhaseTyped, PostedTyped DEF Tell, Post, AppTyped
    <2> QED
      BY <1>1, <2>2 DEF Tell, AppTyped
  <1>2. CASE Request(j)
    <2>1. events' \in Seq(Actions)
      BY <1>2, PlainTyped, PostedTyped DEF Request, Post, AppTyped
    <2> QED
      BY <1>2, <2>1 DEF Request, AppTyped
  <1>3. CASE Settle(j) \/ Offer(j) \/ BeginLoad(j) \/ Install(j) \/ Fail(j)
    <2>1. PICK p \in Phases, frees \in BOOLEAN, then \in Places, otherwise \in Places :
            Transition(j, p, frees, then, otherwise)
      BY <1>3 DEF Settle, Offer, BeginLoad, Install, Fail, Phases, Places
    <2> QED
      BY <2>1 DEF Transition, AppTyped
  <1>4. CASE Look(j) \/ Free(j) \/ Load(j)
    BY <1>4 DEF Look, Free, Load, AppTyped
  <1> QED
    BY <1>1, <1>2, <1>3, <1>4 DEF JobStep

LEMMA BeginTyped ==
  ASSUME AppTyped, NEW p \in Phases, NEW place, NEW silent, Begin(p, place, silent)
  PROVE  events' \in Seq(Actions) /\ release' = release /\ outrun' = outrun /\ phase' \in Phases
  <1>1. <<Phase(p)>> \in Seq(Actions) /\ <<Phase(p), Phase("error")>> \in Seq(Actions)
    BY DEF Phase, Action, Actions, Phases
  <1>2. events' \in Seq(Actions)
    BY <1>1, PostedTyped DEF Begin, AppTyped
  <1> QED
    BY <1>2 DEF Begin, Phases

LEMMA AppTypedNext == SerializedInv /\ AppTyped /\ [Next]_vars => AppTyped'
  <1> SUFFICES ASSUME SerializedInv, AppTyped, [Next]_vars PROVE AppTyped'
    OBVIOUS
  <1>t. events \in Seq(Actions) /\ engine \in EngineStates
        /\ attached \in [Subscriptions -> Nat] /\ waiting \subseteq Subscriptions
        /\ told \in Nat
    BY DEF AppTyped, LoaderTypeOK
  <1>1. CASE \E j \in JobNumbers : JobsStep(j)
    BY <1>1, JobTyped DEF JobsStep, AppTyped, LoaderTypeOK, loaderVars, appVars
  <1>2. CASE CheckInTime \/ CheckAsked \/ InstallAsked
    <2>1. events' \in Seq(Actions) /\ UNCHANGED <<release, outrun>> /\ phase' \in Phases
      <3>1. CASE InstallAsked
        BY <3>1, BeginTyped DEF InstallAsked, InstallAvailable, Phases
      <3>2. CASE CheckInTime \/ CheckAsked
        <4>1. PICK silent : Check(silent)
          BY <3>2 DEF CheckInTime, CheckAsked
        <4> QED
          BY <4>1, BeginTyped DEF Check, Phases
      <3> QED
        BY <1>2, <3>1, <3>2
    <2>2. UNCHANGED <<closing, draining, loaderVars, appVars>>
      BY <1>2 DEF CheckInTime, CheckAsked, InstallAsked
    <2> QED
      BY <2>1, <2>2 DEF AppTyped, LoaderTypeOK, loaderVars, appVars
  <1>3. CASE CloseWindow
    BY <1>3 DEF CloseWindow, Shutdown, Close, Stop, AppTyped, LoaderTypeOK, EngineStates, appVars
  <1>4. CASE StartDrain \/ EndDrain
    <2>1. /\ draining' \in BOOLEAN /\ closing' \in BOOLEAN
          /\ UNCHANGED <<events, loaderVars, updateVars, appVars>>
      BY <1>4, Zenon DEF StartDrain, EndDrain, DrainBegin, DrainEnd, AppTyped
    <2>2. LoaderTypeOK'
      BY <2>1 DEF AppTyped, LoaderTypeOK, loaderVars
    <2> QED
      BY <2>1, <2>2 DEF AppTyped, updateVars, appVars
  <1>5. CASE \E s \in Subscriptions : WindowSubscribes(s)
    <2>1. PICK s \in Subscriptions : WindowSubscribes(s)
      BY <1>5
    <2>2. waiting' \subseteq Subscriptions /\ attached' \in [Subscriptions -> Nat]
      BY <1>t, <2>1 DEF WindowSubscribes, Subscribe
    <2>3. events' \in Seq(Actions)
      <3>1. PICK n \in Nat : n = IF s = Snapshots THEN 1 ELSE 0
        OBVIOUS
      <3> QED
        BY <1>t, <2>1, <3>1, PublishedIs, PostedTyped DEF WindowSubscribes, Subscribe
    <2> QED
      BY <2>1, <2>2, <2>3 DEF WindowSubscribes, Subscribe, AppTyped, LoaderTypeOK, updateVars
  <1>6. CASE WindowBuilt
    <2>1. events' \in Seq(Actions)
      BY <1>t, <1>6, PhaseTyped, PostedTyped DEF WindowBuilt, Post, AppTyped
    <2> QED
      BY <1>6, <2>1 DEF WindowBuilt, AppTyped, LoaderTypeOK, loaderVars, updateVars
  <1>7. CASE RunStarts
    <2>1. events' \in Seq(Actions) /\ LoaderTypeOK'
      <3>1. CASE Start /\ engine # "none"
        <4>1. StartEngine(events) /\ UNCHANGED <<loader, error, waiting, attached, stopped,
                                                 startAsked>>
          BY <3>1 DEF Start
        <4> QED
          BY <1>t, <4>1, StartTyped DEF AppTyped, LoaderTypeOK
      <3>2. CASE Start /\ engine = "none"
        BY <1>t, <3>2, PlainTyped, PostedTyped DEF Start, AppTyped, LoaderTypeOK
      <3>3. CASE UNCHANGED <<events, loaderVars>>
        BY <1>t, <3>3 DEF AppTyped, LoaderTypeOK, loaderVars
      <3> QED
        BY <1>7, <3>1, <3>2, <3>3 DEF RunStarts
    <2> QED
      BY <1>7, <2>1 DEF RunStarts, AppTyped, updateVars
  <1>8. CASE LoaderStep
    <2>1. events' \in Seq(Actions) /\ LoaderTypeOK'
      BY <1>t, <1>8, PlainTyped, PostedTyped
         DEF LoaderStep, Build, PostLoaded, Post, AppTyped, LoaderTypeOK, EngineStates
    <2> QED
      BY <1>8, <2>1 DEF LoaderStep, AppTyped, updateVars, appVars
  <1>9. CASE TrayQuits
    <2>1. events' \in Seq(Actions)
      BY <1>t, <1>9, PlainTyped, PostedTyped DEF TrayQuits, Post
    <2> QED
      BY <1>9, <2>1 DEF TrayQuits, AppTyped, LoaderTypeOK, loaderVars, updateVars
  <1>10. CASE DoSnapshot \/ DoPhase
    <2>1. CASE DoSnapshot
      <3>1. shownEngine' \in EngineStates /\ events' \in Seq(Actions) /\ UNCHANGED draining
        BY <2>1, TakenTyped DEF DoSnapshot
      <3> QED
        BY <2>1, <3>1 DEF DoSnapshot, AppTyped, LoaderTypeOK, loaderVars, updateVars
    <2>2. CASE DoPhase
      <3>1. shownPhase' \in Phases /\ events' \in Seq(Actions) /\ UNCHANGED draining
        BY <2>2, TakenTyped DEF DoPhase
      <3> QED
        BY <2>2, <3>1 DEF DoPhase, AppTyped, LoaderTypeOK, loaderVars, updateVars
    <2> QED
      BY <1>10, <2>1, <2>2
  <1>11. CASE DoReport
    <2>1. Tail(events) \in Seq(Actions) /\ UNCHANGED draining
      BY <1>11, TakenTyped DEF DoReport
    <2>2. told' \in Nat
      BY <1>t, <1>11 DEF DoReport, ReportError
    <2>3. LoaderTypeOK'
      BY <1>11, <2>2 DEF DoReport, ReportError, AppTyped, LoaderTypeOK
    <2>4. events' \in Seq(Actions)
      BY <1>11, <2>1 DEF DoReport, ReportError
    <2> QED
      BY <1>11, <2>1, <2>3, <2>4 DEF DoReport, AppTyped, updateVars, appVars
  <1>12. CASE DoAttach
    <2>1. Tail(events) \in Seq(Actions) /\ UNCHANGED draining
      BY <1>12, TakenTyped DEF DoAttach
    <2>2. PICK n \in Nat : n = IF Snapshots \in waiting THEN 2 ELSE 0
      OBVIOUS
    <2>3. PICK queue \in Seq(Actions) : queue = Posted(Tail(events), Greeting)
      BY <1>t, <2>1, <2>2, PublishedIs, PostedTyped DEF Greeting
    <2>4. attached' \in [Subscriptions -> Nat] /\ waiting' \subseteq Subscriptions
      BY <1>t, <1>12 DEF DoAttach, Attach
    <2>5. UNCHANGED <<loader, error, startAsked, stopped>>
      BY <1>12 DEF DoAttach, Attach
    <2>6. events' \in Seq(Actions) /\ engine' \in EngineStates /\ told' \in Nat
      <3>1. CASE startAsked /\ ~stopped
        BY <1>12, <2>3, <2>4, <3>1, StartTyped DEF DoAttach, Attach
      <3>2. CASE ~(startAsked /\ ~stopped)
        BY <1>t, <1>12, <2>3, <3>2 DEF DoAttach, Attach, EngineStates
      <3> QED
        BY <3>1, <3>2
    <2>7. LoaderTypeOK'
      BY <2>4, <2>5, <2>6 DEF AppTyped, LoaderTypeOK
    <2> QED
      BY <1>12, <2>1, <2>6, <2>7 DEF DoAttach, AppTyped, updateVars, appVars
  <1>13. CASE DoQuit
    <2>1. Tail(events) \in Seq(Actions) /\ UNCHANGED draining
      BY <1>13, TakenTyped DEF DoQuit
    <2>2. LoaderTypeOK' /\ closing' \in BOOLEAN /\ UNCHANGED <<release, outrun, phase>>
      BY <1>13, EndTyped DEF DoQuit
    <2>3. events' = Tail(events)
      BY <1>13 DEF DoQuit
    <2> QED
      BY <1>13, <2>1, <2>2, <2>3 DEF DoQuit, AppTyped, appVars
  <1>14. CASE DoInstall
    <2>1. Tail(events) \in Seq(Actions) /\ UNCHANGED draining
      BY <1>14, TakenTyped DEF DoInstall
    <2>2. CASE InstallationFailed(Tail(events)) /\ UNCHANGED <<launched, closing, loaderVars>>
      <3>1. events' \in Seq(Actions) /\ phase' \in Phases
            /\ UNCHANGED <<release, outrun>>
        BY <2>1, <2>2, PhaseTyped, PostedTyped DEF InstallationFailed, AppTyped, Phases
      <3> QED
        BY <1>14, <2>1, <2>2, <3>1 DEF DoInstall, AppTyped, LoaderTypeOK, loaderVars
    <2>3. CASE /\ launched' = launched + 1
               /\ events' = Tail(events)
               /\ IF closing THEN UNCHANGED <<closing, loaderVars, updateVars>> ELSE Shutdown
      <3>1. LoaderTypeOK' /\ closing' \in BOOLEAN /\ UNCHANGED <<release, outrun, phase>>
        BY <2>3, EndTyped
      <3> QED
        BY <1>14, <2>1, <2>3, <3>1 DEF DoInstall, AppTyped
    <2> QED
      BY <1>14, <2>2, <2>3 DEF DoInstall
  <1>15. CASE UNCHANGED vars
    BY <1>15 DEF vars, windowVars, loaderVars, updateVars, appVars, AppTyped, LoaderTypeOK
  <1> QED
    BY <1>1, <1>2, <1>3, <1>4, <1>5, <1>6, <1>7, <1>8, <1>9, <1>10, <1>11, <1>12, <1>13, <1>14,
       <1>15 DEF Next, DrainStep

LEMMA AppTypedAlways == Spec => []AppTyped
  <1>1. Spec => []SerializedInv
    BY SerializedInit, SerializedNext, PTL DEF Spec
  <1> QED
    BY <1>1, AppTypedInit, AppTypedNext, PTL DEF Spec

\* Every variable keeps its type: what waits in the queue says what is to be done with, and
\* each job is at a place of its work (DesktopApplication, DeferredEngine, UpdateManager).
THEOREM ApplicationTypes == Spec => []TypeOK
  <1>1. SerializedInv /\ AppTyped => TypeOK
    <2> SUFFICES ASSUME SerializedInv, AppTyped PROVE TypeOK
      OBVIOUS
    <2>1. \A i \in 1..Len(events) : events[i] \in Actions
      BY DEF AppTyped
    <2>2. UpdatesTypeOK
      BY DEF SerializedInv, JobsTyped, Jobs, AppTyped, UpdatesTypeOK
    <2> QED
      BY <2>1, <2>2 DEF AppTyped, TypeOK, Actions
  <1>2. Spec => []SerializedInv
    BY SerializedInit, SerializedNext, PTL DEF Spec
  <1> QED
    BY <1>1, <1>2, AppTypedAlways, PTL

-----------------------------------------------------------------------------
(* What was asked of the engine while it was loaded.                       *)

\* Does the queue hold an action of this kind, and does it hold one at most?
Has(queue, do) == \E i \in 1..Len(queue) : queue[i].do = do

Once(queue, do) ==
    \A i, j \in 1..Len(queue) : queue[i].do = do /\ queue[j].do = do => i = j

\* Is the window's thread yet to be told that there is an engine?
AttachDue == loader \in {"build", "attach"} \/ Has(events, "attach")

\* Inductive: one action to attach comes of a build that succeeded and none of one that
\* failed; until it is done no start is told of; who subscribes is in one place at a time.
HandedOverInv ==
    /\ stage # "build" => toSubscribe = {}
    /\ stage # "loop" => ~startAsked
    /\ waiting \cap toSubscribe = {}
    /\ \A s \in Subscriptions :
         /\ s \in toSubscribe \cup waiting => attached[s] = 0
         /\ s \notin toSubscribe \cup waiting => attached[s] = 1
    /\ loader = "build" => engine = "none" /\ ~error
    /\ loader = "attach" => engine # "none"
    /\ loader = "report" => error
    /\ error => engine = "none" /\ loader \in {"report", "done"}
    /\ Has(events, "attach") => loader = "done" /\ engine # "none"
    /\ Once(events, "attach")
    /\ engine # "none" /\ waiting # {} /\ ~closing => AttachDue
    /\ told \in {0, 1}
    /\ told = 1 => /\ stage = "loop"
                   /\ engine \in {"none", "failed", "closed"}
                   /\ engine = "none" => error
                   /\ startAsked => ~error /\ ~AttachDue

LEMMA PostedHas ==
  ASSUME NEW queue \in Seq(Actions), NEW more \in Seq(Actions), NEW do
  PROVE  /\ Has(Posted(queue, more), do) => Has(queue, do) \/ Has(more, do)
         /\ Has(queue, do) => Has(Posted(queue, more), do)
         /\ ~closing /\ Has(more, do) => Has(Posted(queue, more), do)
         /\ Once(queue, do) /\ ~Has(more, do) => Once(Posted(queue, more), do)
  <1>1. CASE closing
    BY <1>1 DEF Posted
  <1>2. CASE ~closing
    <2> DEFINE all == queue \o more
    <2>1. /\ Len(all) = Len(queue) + Len(more)
          /\ \A i \in 1..Len(queue) : all[i] = queue[i]
          /\ \A i \in 1..Len(more) : all[Len(queue) + i] = more[i]
          /\ Len(queue) \in Nat /\ Len(more) \in Nat
      OBVIOUS
    <2>2. \A i \in 1..Len(all) : i \in 1..Len(queue) \/ i - Len(queue) \in 1..Len(more)
      BY <2>1
    <2>3. \A i \in 1..Len(all) : i \in 1..Len(queue) \/ all[i] = more[i - Len(queue)]
      BY <2>1, <2>2
    <2>4. \A i \in 1..Len(more) : Len(queue) + i \in 1..Len(all)
      BY <2>1
    <2>5. \A i \in 1..Len(queue) : i \in 1..Len(all)
      BY <2>1
    <2> HIDE DEF all
    <2>6. Has(all, do) => Has(queue, do) \/ Has(more, do)
      BY <2>1, <2>2, <2>3 DEF Has
    <2>7. (Has(queue, do) \/ Has(more, do)) => Has(all, do)
      BY <2>1, <2>4, <2>5 DEF Has
    <2>8. ASSUME Once(queue, do), ~Has(more, do) PROVE Once(all, do)
      <3>1. ASSUME NEW i \in 1..Len(all), all[i].do = do
            PROVE  i \in 1..Len(queue) /\ queue[i].do = do
        BY <2>1, <2>2, <2>3, <2>8, <3>1 DEF Has
      <3> QED
        BY <2>8, <3>1 DEF Once
    <2> QED
      BY <1>2, <2>6, <2>7, <2>8 DEF Posted, all
  <1> QED
    BY <1>1, <1>2

\* The first of its kind.
LEMMA OneOfTwo ==
  ASSUME NEW queue \in Seq(Actions), NEW more \in Seq(Actions), NEW do,
         ~Has(queue, do), Once(more, do)
  PROVE  Once(Posted(queue, more), do)
  <1>1. CASE closing
    BY <1>1 DEF Posted, Has, Once
  <1>2. CASE ~closing
    <2> DEFINE all == queue \o more
    <2>1. /\ Len(queue) \in Nat /\ Len(more) \in Nat /\ Len(all) = Len(queue) + Len(more)
          /\ \A i \in 1..Len(all) :
               \/ i \in 1..Len(queue) /\ all[i] = queue[i]
               \/ i - Len(queue) \in 1..Len(more) /\ all[i] = more[i - Len(queue)]
      OBVIOUS
    <2> HIDE DEF all
    <2>2. \A i \in 1..Len(all) : all[i].do = do =>
            i - Len(queue) \in 1..Len(more) /\ more[i - Len(queue)].do = do
      BY <2>1 DEF Has
    <2>3. Once(all, do)
      <3> SUFFICES ASSUME NEW i \in 1..Len(all), NEW k \in 1..Len(all),
                          all[i].do = do, all[k].do = do
                   PROVE  i = k
        BY DEF Once
      <3>1. i - Len(queue) = k - Len(queue)
        BY <2>2 DEF Once
      <3> QED
        BY <2>1, <3>1
    <2> QED
      BY <1>2, <2>3 DEF Posted, all
  <1> QED
    BY <1>1, <1>2

LEMMA TailHas ==
  ASSUME NEW queue \in Seq(Actions), queue # <<>>, NEW do
  PROVE  /\ Has(Tail(queue), do) => Has(queue, do)
         /\ Has(queue, do) => Head(queue).do = do \/ Has(Tail(queue), do)
         /\ Once(queue, do) => Once(Tail(queue), do)
         /\ Once(queue, do) /\ Head(queue).do = do => ~Has(Tail(queue), do)
  <1> DEFINE rest == Tail(queue)
  <1>1. /\ Len(queue) \in Nat /\ Len(queue) >= 1 /\ Len(rest) = Len(queue) - 1
        /\ \A i \in 1..Len(rest) : rest[i] = queue[i + 1]
        /\ Head(queue) = queue[1]
    OBVIOUS
  <1>2. \A i \in 1..Len(rest) : i + 1 \in 1..Len(queue) /\ i + 1 # 1
    BY <1>1
  <1>3. \A i \in 1..Len(queue) : i = 1 \/ (i - 1 \in 1..Len(rest) /\ rest[i - 1] = queue[i])
    BY <1>1
  <1>4. 1 \in 1..Len(queue)
    BY <1>1
  <1> HIDE DEF rest
  <1>5. Has(rest, do) => Has(queue, do)
    BY <1>1, <1>2 DEF Has
  <1>6. Has(queue, do) => Head(queue).do = do \/ Has(rest, do)
    BY <1>1, <1>3 DEF Has
  <1>7. Once(queue, do) => Once(rest, do)
    <2> SUFFICES ASSUME Once(queue, do), NEW i \in 1..Len(rest), NEW j \in 1..Len(rest),
                        rest[i].do = do, rest[j].do = do
                 PROVE  i = j
      BY DEF Once
    <2>1. i + 1 = j + 1
      BY <1>1, <1>2 DEF Once
    <2> QED
      BY <1>1, <2>1
  <1>8. Once(queue, do) /\ Head(queue).do = do => ~Has(rest, do)
    BY <1>1, <1>2, <1>4 DEF Has, Once
  <1> QED
    BY <1>5, <1>6, <1>7, <1>8 DEF rest

LEMMA PublishedHas ==
  ASSUME NEW state \in EngineStates, NEW n \in Nat, NEW do, do # "snapshot"
  PROVE  ~Has(Published(state, n), do)
  BY PublishedIs DEF Has

LEMMA SingleHas ==
  ASSUME NEW a \in Actions, NEW do
  PROVE  <<a>> \in Seq(Actions) /\ (Has(<<a>>, do) <=> a.do = do)
  BY DEF Has

\* Posting something else than an attachment.
LEMMA OtherPosted ==
  ASSUME NEW queue \in Seq(Actions), NEW a \in Actions, a.do # "attach"
  PROVE  /\ Has(Posted(queue, <<a>>), "attach") <=> Has(queue, "attach")
         /\ Once(queue, "attach") => Once(Posted(queue, <<a>>), "attach")
  BY SingleHas, PostedHas

LEMMA PublishedPosted ==
  ASSUME NEW queue \in Seq(Actions), NEW state \in EngineStates, NEW n \in Nat
  PROVE  /\ Posted(queue, Published(state, n)) \in Seq(Actions)
         /\ Has(Posted(queue, Published(state, n)), "attach") <=> Has(queue, "attach")
         /\ Once(queue, "attach") => Once(Posted(queue, Published(state, n)), "attach")
  BY PublishedIs, PublishedHas, PostedHas, PostedTyped

LEMMA StartPosts ==
  ASSUME NEW queue \in Seq(Actions), attached'[Snapshots] \in Nat, StartEngine(queue)
  PROVE  /\ Has(events', "attach") <=> Has(queue, "attach")
         /\ Once(queue, "attach") => Once(events', "attach")
  <1>1. PICK state \in {"running", "failed"} :
          events' = Posted(queue, Published(state, attached'[Snapshots]))
    BY DEF StartEngine
  <1>2. state \in EngineStates
    BY DEF EngineStates
  <1>3. PICK n \in Nat : n = attached'[Snapshots]
    OBVIOUS
  <1> QED
    BY <1>1, <1>2, <1>3, PublishedPosted

\* Who subscribes and who starts is not touched, and the queue keeps its attachments.
LEMMA OthersHanded ==
  ASSUME HandedOverInv, UNCHANGED <<loaderVars, stage, toSubscribe>>, closing => closing',
         Has(events', "attach") <=> Has(events, "attach"), Once(events', "attach")
  PROVE  HandedOverInv'
  BY DEF HandedOverInv, AttachDue, loaderVars

LEMMA HandedInit == Init => HandedOverInv
  <1> SUFFICES ASSUME Init PROVE HandedOverInv
    OBVIOUS
  <1>1. ~Has(events, "attach") /\ Once(events, "attach")
    BY DEF Init, WindowInit, Has, Once
  <1> QED
    BY <1>1 DEF Init, LoaderInit, HandedOverInv

\* What the jobs and the user's requests to the updates post.
LEMMA JobPosts ==
  ASSUME SerializedInv, AppTyped, NEW j \in JobNumbers, JobStep(j)
  PROVE  \/ events' = events
         \/ \E a \in Actions : a.do \in {"phase", "install"} /\ events' = Posted(events, <<a>>)
  <1>1. CASE Tell(j)
    <2>1. jobs[j].says \in Phases
      BY DEF SerializedInv, JobsTyped, Jobs
    <2>2. Phase(jobs[j].says) \in Actions /\ Phase(jobs[j].says).do = "phase"
      BY <2>1 DEF Phase, Action, Actions
    <2> QED
      BY <1>1, <2>2 DEF Tell, Post
  <1>2. CASE Request(j)
    <2>1. Action("install", "") \in Actions /\ Action("install", "").do = "install"
      BY DEF Action, Actions
    <2> QED
      BY <1>2, <2>1 DEF Request, Post
  <1>3. CASE ~Tell(j) /\ ~Request(j)
    BY <1>3 DEF JobStep, Settle, Offer, BeginLoad, Install, Fail, Look, Free, Load, Transition
  <1> QED
    BY <1>1, <1>2, <1>3

LEMMA BeginHanded ==
  ASSUME AppTyped, HandedOverInv, NEW p \in Phases, NEW place, NEW silent,
         Begin(p, place, silent)
  PROVE  (Has(events', "attach") <=> Has(events, "attach")) /\ Once(events', "attach")
  <1>0. /\ Phase(p) \in Actions /\ Phase(p).do = "phase"
        /\ Phase("error") \in Actions /\ Phase("error").do = "phase"
    BY DEF Phase, Action, Actions, Phases
  <1>1. PICK a \in Actions : a = Phase(p) /\ a.do = "phase"
    BY <1>0
  <1>2. PICK b \in Actions : b = Phase("error") /\ b.do = "phase"
    BY <1>0
  <1>3. events \in Seq(Actions) /\ Once(events, "attach")
    BY DEF AppTyped, HandedOverInv
  <1>4. <<a, b>> \in Seq(Actions) /\ ~Has(<<a, b>>, "attach")
    BY <1>1, <1>2 DEF Has
  <1>5. CASE events' = Posted(events, <<a>>)
    BY <1>1, <1>3, <1>5, OtherPosted
  <1>6. CASE events' = Posted(events, <<a, b>>)
    BY <1>3, <1>4, <1>6, PostedHas
  <1> QED
    BY <1>1, <1>2, <1>5, <1>6 DEF Begin

LEMMA SubscribeHanded ==
  ASSUME AppTyped, HandedOverInv, NEW s \in Subscriptions, WindowSubscribes(s)
  PROVE  HandedOverInv'
  <1>1. /\ s \in toSubscribe /\ toSubscribe' = toSubscribe \ {s}
        /\ UNCHANGED <<loader, engine, error, startAsked, stopped, told, closing, stage>>
        /\ stage = "build" /\ attached[s] = 0 /\ s \notin waiting
    BY DEF WindowSubscribes, Subscribe, HandedOverInv
  <1>t. attached \in [Subscriptions -> Nat] /\ engine \in EngineStates /\ events \in Seq(Actions)
    BY DEF AppTyped, LoaderTypeOK
  <1>2. CASE engine = "none"
    BY <1>1, <1>2 DEF WindowSubscribes, Subscribe, HandedOverInv, AttachDue
  <1>3. CASE engine # "none"
    <2>1. PICK n \in Nat : n = IF s = Snapshots THEN 1 ELSE 0
      OBVIOUS
    <2>2. /\ attached' = [attached EXCEPT ![s] = @ + 1] /\ waiting' = waiting
          /\ events' = Posted(events, Published(engine, n))
      BY <1>3, <2>1 DEF WindowSubscribes, Subscribe
    <2>3. (Has(events', "attach") <=> Has(events, "attach")) /\ Once(events', "attach")
      BY <1>t, <2>2, PublishedPosted DEF HandedOverInv
    <2>4. attached'[s] = 1 /\ \A q \in Subscriptions : q # s => attached'[q] = attached[q]
      BY <1>t, <1>1, <2>2
    <2> QED
      BY <1>1, <2>2, <2>3, <2>4 DEF HandedOverInv, AttachDue
  <1> QED
    BY <1>2, <1>3

\* The start fails at most once, and not of an engine that is yet to be attached.
LEMMA StartHanded ==
  ASSUME AppTyped, HandedOverInv, RunStarts
  PROVE  HandedOverInv'
  <1>1. /\ stage = "start" /\ stage' = "loop" /\ told = 0 /\ ~startAsked
        /\ UNCHANGED <<closing, toSubscribe>>
    BY DEF RunStarts, HandedOverInv
  <1>t. events \in Seq(Actions) /\ attached \in [Subscriptions -> Nat]
    BY DEF AppTyped, LoaderTypeOK
  <1>2. CASE UNCHANGED <<events, loaderVars>>
    BY <1>1, <1>2 DEF HandedOverInv, AttachDue, loaderVars
  <1>3. CASE Start /\ engine = "none"
    <2>1. UNCHANGED <<loader, engine, error, waiting, attached, stopped, told>> /\ startAsked'
      BY <1>3 DEF Start
    <2>2. (Has(events', "attach") <=> Has(events, "attach")) /\ Once(events', "attach")
      <3>1. Action("report", "") \in Actions /\ Action("report", "").do # "attach"
        BY DEF Action, Actions
      <3>2. \/ events' = events
            \/ events' = Posted(events, <<Action("report", "")>>)
        BY <1>3 DEF Start
      <3> QED
        <4>1. PICK a \in Actions : a = Action("report", "") /\ a.do # "attach"
          BY <3>1
        <4>2. CASE events' = Posted(events, <<a>>)
          BY <1>t, <4>1, <4>2, OtherPosted DEF HandedOverInv
        <4>3. CASE events' = events
          BY <4>3 DEF HandedOverInv
        <4> QED
          BY <3>2, <4>1, <4>2, <4>3
    <2> QED
      BY <1>1, <2>1, <2>2 DEF HandedOverInv, AttachDue
  <1>4. CASE Start /\ engine # "none"
    <2>1. UNCHANGED <<loader, error, waiting, attached, stopped, startAsked>>
          /\ StartEngine(events)
      BY <1>4 DEF Start
    <2>2. attached'[Snapshots] \in Nat
      BY <1>t, <2>1, SubscriptionsAssumption
    <2>3. (Has(events', "attach") <=> Has(events, "attach")) /\ Once(events', "attach")
      BY <1>t, <2>1, <2>2, StartPosts DEF HandedOverInv
    <2>4. \/ engine' = "running" /\ told' = 0
          \/ engine' = "failed" /\ told' = 1
      BY <1>1, <2>1 DEF StartEngine
    <2> QED
      BY <1>1, <1>4, <2>1, <2>3, <2>4 DEF HandedOverInv, AttachDue
  <1> QED
    BY <1>2, <1>3, <1>4 DEF RunStarts

\* The loader builds the engine or fails to, and posts which.
LEMMA LoaderHanded ==
  ASSUME AppTyped, HandedOverInv, LoaderStep
  PROVE  HandedOverInv'
  <1>1. UNCHANGED <<closing, stage, toSubscribe, waiting, attached, startAsked, stopped, told>>
    BY DEF LoaderStep, Build, PostLoaded, appVars
  <1>2. CASE Build
    BY <1>1, <1>2 DEF Build, HandedOverInv, AttachDue
  <1>3. CASE PostLoaded
    <2>1. PICK a \in Actions : a.do = loader /\ events' = Posted(events, <<a>>)
      <3>1. Action(loader, "") \in Actions /\ Action(loader, "").do = loader
        BY <1>3 DEF PostLoaded, Action, Actions
      <3> QED
        BY <1>3, <3>1 DEF PostLoaded, Post
    <2>2. loader \in {"attach", "report"} /\ loader' = "done" /\ UNCHANGED <<engine, error>>
      BY <1>3 DEF PostLoaded
    <2>3. ~Has(events, "attach") /\ events \in Seq(Actions)
      BY <2>2 DEF HandedOverInv, AppTyped
    <2>4. CASE loader = "attach"
      <3>1. Has(events', "attach") \/ closing
        BY <2>1, <2>3, <2>4, SingleHas, PostedHas
      <3>2. Once(events', "attach")
        <4>1. Once(<<a>>, "attach")
          BY DEF Once
        <4> QED
          BY <2>1, <2>3, <4>1, OneOfTwo, SingleHas
      <3> QED
        BY <1>1, <2>2, <2>4, <3>1, <3>2 DEF HandedOverInv, AttachDue
    <2>5. CASE loader = "report"
      <3>1. ~Has(events', "attach") /\ Once(events', "attach")
        BY <2>1, <2>3, <2>5, OtherPosted DEF HandedOverInv
      <3> QED
        BY <1>1, <2>2, <2>5, <3>1 DEF HandedOverInv, AttachDue
    <2> QED
      BY <2>2, <2>4, <2>5
  <1> QED
    BY <1>2, <1>3 DEF LoaderStep

\* What waited is handed over, and what was asked to start is started.
LEMMA AttachHanded ==
  ASSUME AppTyped, ClosingInv, HandedOverInv, DoAttach
  PROVE  HandedOverInv'
  <1>1. /\ events \in Seq(Actions) /\ events # <<>> /\ Head(events).do = "attach"
        /\ stage = "loop" /\ toSubscribe = {}
        /\ UNCHANGED <<closing, stage, toSubscribe, loader, error, startAsked, stopped>>
    BY DEF AppTyped, ClosingInv, HandedOverInv, DoAttach, Takes, Attach, appVars
  <1>2. Tail(events) \in Seq(Actions) /\ Has(events, "attach")
    BY <1>1 DEF Has
  <1>3. ~Has(Tail(events), "attach") /\ Once(Tail(events), "attach")
    BY <1>1, TailHas DEF HandedOverInv
  <1>4. loader = "done" /\ engine # "none" /\ ~error /\ (startAsked => told = 0)
    BY <1>2 DEF HandedOverInv, AttachDue
  <1>t. attached \in [Subscriptions -> Nat] /\ engine \in EngineStates
    BY DEF AppTyped, LoaderTypeOK
  <1>5. waiting' = {} /\ \A s \in Subscriptions : attached'[s] = 1
    <2>1. \A s \in Subscriptions : attached'[s] = attached[s] + (IF s \in waiting THEN 1 ELSE 0)
      BY DEF DoAttach, Attach
    <2> QED
      BY <1>1, <1>t, <2>1 DEF DoAttach, Attach, HandedOverInv
  <1>6. PICK queue \in Seq(Actions) :
          /\ queue = Posted(Tail(events), Greeting)
          /\ ~Has(queue, "attach") /\ Once(queue, "attach")
    <2>1. PICK n \in Nat : n = IF Snapshots \in waiting THEN 2 ELSE 0
      OBVIOUS
    <2> QED
      BY <1>t, <1>2, <1>3, <2>1, PublishedPosted DEF Greeting
  <1>7. CASE startAsked /\ ~stopped
    <2>1. StartEngine(queue)
      BY <1>6, <1>7 DEF DoAttach, Attach
    <2>2. attached'[Snapshots] \in Nat
      BY <1>5, SubscriptionsAssumption
    <2>3. ~Has(events', "attach") /\ Once(events', "attach")
      BY <1>6, <2>1, <2>2, StartPosts
    <2>4. \/ engine' = "running" /\ told' = 0
          \/ engine' = "failed" /\ told' = 1
      BY <1>4, <1>7, <2>1 DEF StartEngine
    <2> QED
      BY <1>1, <1>4, <1>5, <2>3, <2>4 DEF HandedOverInv, AttachDue
  <1>8. CASE ~(startAsked /\ ~stopped)
    <2>1. /\ engine' = (IF stopped THEN "closed" ELSE engine) /\ told' = told
          /\ events' = queue
      BY <1>6, <1>8 DEF DoAttach, Attach
    <2> QED
      BY <1>1, <1>4, <1>5, <1>6, <2>1 DEF HandedOverInv, AttachDue
  <1> QED
    BY <1>7, <1>8

\* The next action is something else than an attachment: the queue keeps its own.
LEMMA TakenHanded ==
  ASSUME AppTyped, HandedOverInv, NEW do, do # "attach", Takes(do)
  PROVE  /\ Tail(events) \in Seq(Actions)
         /\ Has(Tail(events), "attach") <=> Has(events, "attach")
         /\ Once(Tail(events), "attach")
  BY TakenTyped, TailHas DEF AppTyped, HandedOverInv, Takes

\* The end of the program, unless it has ended already.
LEMMA EndHanded ==
  ASSUME HandedOverInv, UNCHANGED <<stage, toSubscribe>>,
         Has(events', "attach") <=> Has(events, "attach"), Once(events', "attach"),
         IF closing THEN UNCHANGED <<closing, loaderVars, updateVars>> ELSE Shutdown
  PROVE  HandedOverInv'
  <1>1. CASE closing
    BY <1>1, OthersHanded
  <1>2. CASE ~closing
    <2>1. /\ closing' /\ engine' = (IF engine = "none" THEN "none" ELSE "closed")
          /\ UNCHANGED <<loader, error, waiting, attached, startAsked, told>>
      BY <1>2 DEF Shutdown, Stop
    <2> QED
      BY <2>1 DEF HandedOverInv, AttachDue
  <1> QED
    BY <1>1, <1>2

LEMMA HandedNext ==
  SerializedInv /\ AppTyped /\ ClosingInv /\ HandedOverInv /\ [Next]_vars => HandedOverInv'
  <1> SUFFICES ASSUME SerializedInv, AppTyped, ClosingInv, HandedOverInv, [Next]_vars
               PROVE  HandedOverInv'
    OBVIOUS
  <1>t. events \in Seq(Actions) /\ Once(events, "attach")
    BY DEF AppTyped, HandedOverInv
  <1>1. CASE \E j \in JobNumbers : JobsStep(j)
    <2>1. PICK j \in JobNumbers : JobsStep(j)
      BY <1>1
    <2>2. (Has(events', "attach") <=> Has(events, "attach")) /\ Once(events', "attach")
      <3>1. \/ events' = events
            \/ \E a \in Actions : a.do # "attach" /\ events' = Posted(events, <<a>>)
        BY <2>1, JobPosts DEF JobsStep
      <3> QED
        BY <1>t, <3>1, OtherPosted
    <2> QED
      BY <2>1, <2>2, OthersHanded DEF JobsStep, appVars
  <1>2. CASE CheckInTime \/ CheckAsked \/ InstallAsked
    <2>1. (Has(events', "attach") <=> Has(events, "attach")) /\ Once(events', "attach")
      <3>1. CASE InstallAsked
        BY <3>1, BeginHanded DEF InstallAsked, InstallAvailable, Phases
      <3>2. CASE CheckInTime \/ CheckAsked
        <4>1. PICK silent : Check(silent)
          BY <3>2 DEF CheckInTime, CheckAsked
        <4> QED
          BY <4>1, BeginHanded DEF Check, Phases
      <3> QED
        BY <1>2, <3>1, <3>2
    <2>2. UNCHANGED <<closing, loaderVars, appVars>>
      BY <1>2 DEF CheckInTime, CheckAsked, InstallAsked
    <2> QED
      BY <2>1, <2>2, OthersHanded DEF appVars
  <1>3. CASE CloseWindow
    BY <1>t, <1>3, EndHanded DEF CloseWindow, Idle, appVars
  <1>4. CASE StartDrain \/ EndDrain
    BY <1>t, <1>4, OthersHanded DEF StartDrain, EndDrain, DrainBegin, DrainEnd, appVars
  <1>5. CASE \E s \in Subscriptions : WindowSubscribes(s)
    BY <1>5, SubscribeHanded
  <1>6. CASE WindowBuilt
    <2>1. Phase(phase) \in Actions /\ Phase(phase).do # "attach"
      BY DEF Phase, Action, Actions, AppTyped
    <2>2. (Has(events', "attach") <=> Has(events, "attach")) /\ Once(events', "attach")
      BY <1>t, <1>6, <2>1, OtherPosted DEF WindowBuilt, Post
    <2> QED
      BY <1>6, <2>2 DEF WindowBuilt, HandedOverInv, AttachDue, loaderVars
  <1>7. CASE RunStarts
    BY <1>7, StartHanded
  <1>8. CASE LoaderStep
    BY <1>8, LoaderHanded
  <1>9. CASE TrayQuits
    <2>1. Action("quit", "") \in Actions /\ Action("quit", "").do # "attach"
      BY DEF Action, Actions
    <2>2. (Has(events', "attach") <=> Has(events, "attach")) /\ Once(events', "attach")
      BY <1>t, <1>9, <2>1, OtherPosted DEF TrayQuits, Post
    <2> QED
      BY <1>9, <2>2, OthersHanded DEF TrayQuits
  <1>10. CASE DoSnapshot \/ DoPhase
    <2>1. /\ events' = Tail(events)
          /\ UNCHANGED <<closing, loaderVars, stage, toSubscribe>>
          /\ Takes("snapshot") \/ Takes("phase")
      BY <1>10 DEF DoSnapshot, DoPhase
    <2>2. (Has(events', "attach") <=> Has(events, "attach")) /\ Once(events', "attach")
      BY <2>1, TakenHanded
    <2> QED
      BY <2>1, <2>2, OthersHanded
  <1>11. CASE DoReport
    <2>1. /\ events' = Tail(events) /\ ~startAsked'
          /\ told' = told + (IF startAsked /\ error THEN 1 ELSE 0)
          /\ UNCHANGED <<closing, stage, toSubscribe, loader, engine, error, waiting, attached,
                         stopped>>
      BY <1>11 DEF DoReport, ReportError, appVars
    <2>2. (Has(events', "attach") <=> Has(events, "attach")) /\ Once(events', "attach")
      BY <1>11, <2>1, TakenHanded DEF DoReport
    <2>3. stage = "loop"
      BY <1>11 DEF DoReport, Takes, ClosingInv
    <2> QED
      BY <2>1, <2>2, <2>3 DEF HandedOverInv, AttachDue
  <1>12. CASE DoAttach
    BY <1>12, AttachHanded
  <1>13. CASE DoQuit
    BY <1>13, TakenHanded, EndHanded DEF DoQuit, appVars
  <1>14. CASE DoInstall
    <2>1. CASE InstallationFailed(Tail(events)) /\ UNCHANGED <<launched, closing, loaderVars>>
      <3>1. Phase("error") \in Actions /\ Phase("error").do # "attach"
        BY DEF Phase, Action, Actions, Phases
      <3>2. (Has(events', "attach") <=> Has(events, "attach")) /\ Once(events', "attach")
        BY <1>14, <2>1, <3>1, TakenHanded, OtherPosted DEF DoInstall, InstallationFailed
      <3> QED
        BY <1>14, <2>1, <3>2, OthersHanded DEF DoInstall
    <2>2. CASE /\ events' = Tail(events)
               /\ IF closing THEN UNCHANGED <<closing, loaderVars, updateVars>> ELSE Shutdown
      BY <1>14, <2>2, TakenHanded, EndHanded DEF DoInstall
    <2> QED
      BY <1>14, <2>1, <2>2 DEF DoInstall
  <1>15. CASE UNCHANGED vars
    BY <1>t, <1>15, OthersHanded DEF vars, windowVars, appVars
  <1> QED
    BY <1>1, <1>2, <1>3, <1>4, <1>5, <1>6, <1>7, <1>8, <1>9, <1>10, <1>11, <1>12, <1>13, <1>14,
       <1>15 DEF Next, DrainStep

LEMMA HandedAlways == Spec => []HandedOverInv
  <1>1. Spec => []SerializedInv
    BY SerializedInit, SerializedNext, PTL DEF Spec
  <1>2. Spec => []ClosingInv
    BY <1>1, ClosingInit, ClosingNext, PTL DEF Spec
  <1> QED
    BY <1>1, <1>2, AppTypedAlways, HandedInit, HandedNext, PTL DEF Spec

\* Whatever the window asks of the engine while it is loaded is handed over once, and a
\* failure is told once: also if the engine is built between two subscriptions, if the start
\* comes before the attachment, or if the program closes (DeferredEngine).
THEOREM RequestsHandedOver == Spec => []HandedOverOnce
  <1>1. AppTyped /\ HandedOverInv => HandedOverOnce
    <2> SUFFICES ASSUME AppTyped, HandedOverInv PROVE HandedOverOnce
      OBVIOUS
    <2>1. (\A i \in 1..Len(events) : events[i].do # "attach") <=> ~Has(events, "attach")
      BY DEF Has
    <2>2. told <= 1
      BY DEF HandedOverInv
    <2> QED
      BY <2>1, <2>2 DEF HandedOverInv, HandedOverOnce, AttachDue
  <1> QED
    BY <1>1, AppTypedAlways, HandedAlways, PTL

-----------------------------------------------------------------------------
(* What the window shows.                                                  *)

\* Once the queue is done with, is the last of its kind the value, or is there none and the
\* window shows the value already?
ComesTo(queue, do, shown, value) ==
    \/ \E i \in 1..Len(queue) :
         /\ queue[i].do = do /\ queue[i].with = value
         /\ \A k \in i + 1 .. Len(queue) : queue[k].do # do
    \/ shown = value /\ ~Has(queue, do)

\* Inductive: while the program runs the queue comes to the engine's state, if it is
\* subscribed to, and to the phase of the updates, unless a job has yet to tell of it.
ShownInv ==
    /\ stopped => closing
    /\ loader = "done" => engine # "none" \/ error
    /\ engine = "none" => \A s \in Subscriptions : attached[s] = 0
    /\ attached[Snapshots] = 0 => shownEngine = "none" /\ ~Has(events, "snapshot")
    /\ ~closing =>
         /\ attached[Snapshots] = 0 \/ ComesTo(events, "snapshot", shownEngine, engine)
         /\ outrun \/ Telling \/ ComesTo(events, "phase", shownPhase, phase)

\* Other actions do not change what the queue comes to, and one of the kind settles it.
LEMMA PostedComes ==
  ASSUME NEW queue \in Seq(Actions), NEW more \in Seq(Actions), NEW do, NEW shown, NEW value
  PROVE  /\ ComesTo(queue, do, shown, value) /\ ~Has(more, do)
              => ComesTo(Posted(queue, more), do, shown, value)
         /\ ~closing /\ Len(more) > 0 /\ more[Len(more)].do = do /\ more[Len(more)].with = value
              => ComesTo(Posted(queue, more), do, shown, value)
  <1>1. CASE closing
    BY <1>1 DEF Posted
  <1>2. CASE ~closing
    <2> DEFINE all == queue \o more
    <2>1. /\ Len(queue) \in Nat /\ Len(more) \in Nat /\ Len(all) = Len(queue) + Len(more)
          /\ \A i \in 1..Len(queue) : all[i] = queue[i]
          /\ \A i \in 1..Len(more) : all[Len(queue) + i] = more[i]
          /\ \A i \in 1..Len(all) :
               \/ i \in 1..Len(queue) /\ all[i] = queue[i]
               \/ i - Len(queue) \in 1..Len(more) /\ all[i] = more[i - Len(queue)]
      OBVIOUS
    <2> HIDE DEF all
    <2>2. ASSUME ComesTo(queue, do, shown, value), ~Has(more, do)
          PROVE  ComesTo(all, do, shown, value)
      <3>1. CASE shown = value /\ ~Has(queue, do)
        BY <2>1, <2>2, <3>1 DEF ComesTo, Has
      <3>2. CASE ~(shown = value /\ ~Has(queue, do))
        <4>1. PICK i \in 1..Len(queue) :
                /\ queue[i].do = do /\ queue[i].with = value
                /\ \A k \in i + 1 .. Len(queue) : queue[k].do # do
          BY <2>2, <3>2 DEF ComesTo
        <4>2. i \in 1..Len(all) /\ all[i].do = do /\ all[i].with = value
          BY <2>1, <4>1
        <4>3. ASSUME NEW k \in i + 1 .. Len(all), all[k].do = do PROVE FALSE
          <5>1. k \in 1..Len(all)
            BY <2>1
          <5>2. CASE k \in 1..Len(queue) /\ all[k] = queue[k]
            BY <4>1, <4>3, <5>2
          <5>3. CASE k - Len(queue) \in 1..Len(more) /\ all[k] = more[k - Len(queue)]
            BY <2>2, <4>3, <5>3 DEF Has
          <5> QED
            BY <2>1, <5>1, <5>2, <5>3
        <4> QED
          BY <4>2, <4>3 DEF ComesTo
      <3> QED
        BY <3>1, <3>2
    <2>3. ASSUME Len(more) > 0, more[Len(more)].do = do, more[Len(more)].with = value
          PROVE  ComesTo(all, do, shown, value)
      <3>1. Len(more) \in 1..Len(more) /\ Len(all) \in 1..Len(all)
        BY <2>1, <2>3
      <3>2. all[Len(all)] = more[Len(more)]
        BY <2>1, <3>1
      <3>3. \A k \in Len(all) + 1 .. Len(all) : FALSE
        BY <2>1
      <3> QED
        BY <2>3, <3>1, <3>2, <3>3 DEF ComesTo
    <2> QED
      BY <1>2, <2>2, <2>3 DEF Posted, all
  <1> QED
    BY <1>1, <1>2

\* Doing the next action: the window shows what it says, or it is not of the kind.
LEMMA TailComes ==
  ASSUME NEW queue \in Seq(Actions), queue # <<>>, NEW do, NEW shown, NEW value,
         ComesTo(queue, do, shown, value)
  PROVE  /\ Head(queue).do = do => ComesTo(Tail(queue), do, Head(queue).with, value)
         /\ Head(queue).do # do => ComesTo(Tail(queue), do, shown, value)
  <1> DEFINE rest == Tail(queue)
  <1>1. /\ Len(queue) \in Nat /\ Len(queue) >= 1 /\ Len(rest) = Len(queue) - 1
        /\ \A i \in 1..Len(rest) : rest[i] = queue[i + 1]
        /\ Head(queue) = queue[1]
    OBVIOUS
  <1> HIDE DEF rest
  <1>2. ASSUME NEW i \in 1..Len(queue), queue[i].do = do, queue[i].with = value,
               \A k \in i + 1 .. Len(queue) : queue[k].do # do
        PROVE  IF i = 1 THEN Head(queue).do = do /\ Head(queue).with = value /\ ~Has(rest, do)
                        ELSE \A any : ComesTo(rest, do, any, value)
    <2>1. CASE i = 1
      BY <1>1, <1>2, <2>1 DEF Has
    <2>2. CASE i # 1
      <3>1. i - 1 \in 1..Len(rest) /\ rest[i - 1] = queue[i]
        BY <1>1, <2>2
      <3>2. ASSUME NEW k \in (i - 1) + 1 .. Len(rest) PROVE rest[k].do # do
        BY <1>1, <1>2
      <3> QED
        BY <1>2, <2>2, <3>1, <3>2 DEF ComesTo
    <2> QED
      BY <2>1, <2>2
  <1>3. CASE shown = value /\ ~Has(queue, do)
    <2>1. Head(queue).do # do /\ ~Has(rest, do)
      BY <1>1, <1>3 DEF Has
    <2> QED
      BY <1>3, <2>1 DEF ComesTo, rest
  <1>4. CASE ~(shown = value /\ ~Has(queue, do))
    <2>1. PICK i \in 1..Len(queue) :
            /\ queue[i].do = do /\ queue[i].with = value
            /\ \A k \in i + 1 .. Len(queue) : queue[k].do # do
      BY <1>4 DEF ComesTo
    <2>2. CASE i = 1
      BY <1>2, <2>1, <2>2 DEF ComesTo, rest
    <2>3. CASE i # 1
      BY <1>2, <2>1, <2>3 DEF rest
    <2> QED
      BY <2>2, <2>3
  <1> QED
    BY <1>3, <1>4

\* The queue comes to the engine's state once that is published.
LEMMA PublishedComes ==
  ASSUME NEW queue \in Seq(Actions), NEW state \in EngineStates, NEW n \in Nat, NEW shown
  PROVE  /\ n > 0 /\ ~closing
              => ComesTo(Posted(queue, Published(state, n)), "snapshot", shown, state)
         /\ n = 0 => Posted(queue, Published(state, n)) = queue
         /\ \A value : ComesTo(queue, "phase", shown, value)
              => ComesTo(Posted(queue, Published(state, n)), "phase", shown, value)
  <1>1. Published(state, n) \in Seq(Actions) /\ Len(Published(state, n)) = n
    BY PublishedIs
  <1>2. n > 0 => n \in 1..n
    OBVIOUS
  <1>3. CASE n > 0
    <2>1. /\ Published(state, n)[n].do = "snapshot" /\ Published(state, n)[n].with = state
      BY <1>2, <1>3, PublishedIs
    <2> QED
      BY <1>1, <1>3, <2>1, PublishedHas, PostedComes
  <1>4. CASE n = 0
    <2>1. Published(state, n) = <<>>
      BY <1>1, <1>4
    <2>2. queue \o <<>> = queue
      OBVIOUS
    <2>3. Posted(queue, Published(state, n)) = queue
      BY <2>1, <2>2 DEF Posted
    <2> QED
      BY <1>4, <2>3
  <1> QED
    BY <1>3, <1>4

LEMMA ShownInit == Init => ShownInv
  <1> SUFFICES ASSUME Init PROVE ShownInv
    OBVIOUS
  <1>1. events = <<>> /\ \A do : ~Has(events, do)
    BY DEF Init, WindowInit, Has
  <1>2. shownEngine = "none" /\ shownPhase = phase
    BY DEF Init, UpdatesInit
  <1>3. \A s \in Subscriptions : attached[s] = 0
    BY DEF Init, LoaderInit
  <1> QED
    BY <1>1, <1>2, <1>3, SubscriptionsAssumption
       DEF Init, LoaderInit, ShownInv, ComesTo

\* The engine and who subscribed to it are not touched, nor what the window shows.
LEMMA OthersShown ==
  ASSUME ShownInv, UNCHANGED <<loaderVars, shownEngine, shownPhase>>, closing => closing',
         Has(events', "snapshot") => Has(events, "snapshot"),
         ~closing' /\ ComesTo(events, "snapshot", shownEngine, engine)
           => ComesTo(events', "snapshot", shownEngine, engine),
         ~closing' => outrun' \/ Telling' \/ ComesTo(events', "phase", shownPhase, phase')
  PROVE  ShownInv'
  BY DEF ShownInv, loaderVars

\* The same with the jobs and the phase as they are.
LEMMA QueueShown ==
  ASSUME ShownInv, UNCHANGED <<loaderVars, shownEngine, shownPhase>>, closing => closing',
         UNCHANGED <<outrun, jobs, phase>>,
         Has(events', "snapshot") => Has(events, "snapshot"),
         \A shown, value : ComesTo(events, "snapshot", shown, value)
                             => ComesTo(events', "snapshot", shown, value),
         \A shown, value : ComesTo(events, "phase", shown, value)
                             => ComesTo(events', "phase", shown, value)
  PROVE  ShownInv'
  <1>1. Telling' <=> Telling
    BY DEF Telling, At
  <1> QED
    BY <1>1 DEF ShownInv, loaderVars

\* One more action that is neither a snapshot nor a phase.
LEMMA PlainPosted ==
  ASSUME NEW queue \in Seq(Actions), NEW a \in Actions, NEW do, a.do # do
  PROVE  /\ Has(Posted(queue, <<a>>), do) => Has(queue, do)
         /\ \A shown, value : ComesTo(queue, do, shown, value)
                               => ComesTo(Posted(queue, <<a>>), do, shown, value)
  BY SingleHas, PostedHas, PostedComes

LEMMA SequencesOfOneAndTwo ==
  ASSUME NEW a \in Actions, NEW b \in Actions
  PROVE  /\ \E more \in Seq(Actions) : more = <<a>> /\ Len(more) = 1 /\ more[1] = a
         /\ \E more \in Seq(Actions) : more = <<a, b>> /\ Len(more) = 2 /\ more[2] = b
  <1>1. <<a>> \in Seq(Actions) /\ Len(<<a>>) = 1 /\ <<a>>[1] = a
    OBVIOUS
  <1>2. <<a, b>> \in Seq(Actions) /\ Len(<<a, b>>) = 2 /\ <<a, b>>[2] = b
    OBVIOUS
  <1>3. \E more \in Seq(Actions) : more = <<a>> /\ Len(more) = 1 /\ more[1] = a
    BY <1>1, Zenon
  <1>4. \E more \in Seq(Actions) : more = <<a, b>> /\ Len(more) = 2 /\ more[2] = b
    BY <1>2, Zenon
  <1> QED
    BY <1>3, <1>4

\* A phase that is posted is what the queue comes to.
LEMMA PhasePosted ==
  ASSUME NEW queue \in Seq(Actions), NEW p \in Phases, NEW shown
  PROVE  /\ ~closing => ComesTo(Posted(queue, <<Phase(p)>>), "phase", shown, p)
         /\ Has(Posted(queue, <<Phase(p)>>), "snapshot") => Has(queue, "snapshot")
         /\ \A any, value : ComesTo(queue, "snapshot", any, value)
                              => ComesTo(Posted(queue, <<Phase(p)>>), "snapshot", any, value)
  <1>1. /\ Phase(p) \in Actions /\ Phase(p).do = "phase" /\ Phase(p).with = p
    BY DEF Phase, Action, Actions
  <1>2. PICK a \in Actions : a = Phase(p) /\ a.do = "phase" /\ a.with = p
    BY <1>1
  <1>3. PICK more \in Seq(Actions) : more = <<a>> /\ Len(more) = 1 /\ more[1] = a
    BY SequencesOfOneAndTwo
  <1>4. ~closing => ComesTo(Posted(queue, <<a>>), "phase", shown, p)
    <2>1. /\ Len(more) > 0 /\ more[Len(more)].do = "phase" /\ more[Len(more)].with = p
      BY <1>2, <1>3
    <2>2. ~closing => ComesTo(Posted(queue, more), "phase", shown, p)
      BY <2>1, PostedComes
    <2> QED
      BY <1>3, <2>2
  <1>5. Has(Posted(queue, <<a>>), "snapshot") => Has(queue, "snapshot")
    BY <1>2, PlainPosted
  <1>6. \A any, value : ComesTo(queue, "snapshot", any, value)
                        => ComesTo(Posted(queue, <<a>>), "snapshot", any, value)
    BY <1>2, PlainPosted
  <1> QED
    BY <1>2, <1>4, <1>5, <1>6

\* What begins is announced, and shown as it is then.
LEMMA BeginShown ==
  ASSUME AppTyped, ShownInv, ~closing, NEW p \in Phases, NEW place, NEW silent,
         Begin(p, place, silent), UNCHANGED <<closing, loaderVars, shownEngine, shownPhase>>
  PROVE  ShownInv'
  <1>0. /\ Phase(p) \in Actions /\ Phase(p).do = "phase" /\ Phase(p).with = p
        /\ Phase("error") \in Actions /\ Phase("error").do = "phase"
        /\ Phase("error").with = "error"
    BY DEF Phase, Action, Actions, Phases
  <1>1. PICK a \in Actions : a = Phase(p) /\ a.do = "phase" /\ a.with = p
    BY <1>0
  <1>2. PICK b \in Actions : b = Phase("error") /\ b.do = "phase" /\ b.with = "error"
    BY <1>0
  <1>3. events \in Seq(Actions)
    BY DEF AppTyped
  <1>4. \/ events' = Posted(events, <<a>>) /\ phase' = a.with
        \/ events' = Posted(events, <<a, b>>) /\ phase' = b.with
    BY <1>1, <1>2 DEF Begin
  <1>5. PICK more \in Seq(Actions) :
          /\ events' = Posted(events, more) /\ Len(more) > 0
          /\ more[Len(more)].do = "phase" /\ more[Len(more)].with = phase'
          /\ ~Has(more, "snapshot")
    <2>1. /\ <<a>> \in Seq(Actions) /\ <<a, b>> \in Seq(Actions)
          /\ ~Has(<<a>>, "snapshot") /\ ~Has(<<a, b>>, "snapshot")
      BY <1>1, <1>2 DEF Has
    <2>2. CASE events' = Posted(events, <<a>>) /\ phase' = a.with
      <3>1. PICK more \in Seq(Actions) : more = <<a>> /\ Len(more) = 1 /\ more[1] = a
        BY SequencesOfOneAndTwo
      <3> QED
        <4>1. more[Len(more)].do = "phase" /\ more[Len(more)].with = phase' /\ Len(more) > 0
          BY <1>1, <2>2, <3>1
        <4>2. events' = Posted(events, more) /\ ~Has(more, "snapshot")
          BY <2>1, <2>2, <3>1
        <4> QED
          BY <4>1, <4>2
    <2>3. CASE events' = Posted(events, <<a, b>>) /\ phase' = b.with
      <3>1. PICK more \in Seq(Actions) : more = <<a, b>> /\ Len(more) = 2 /\ more[2] = b
        BY SequencesOfOneAndTwo
      <3> QED
        <4>1. more[Len(more)].do = "phase" /\ more[Len(more)].with = phase' /\ Len(more) > 0
          BY <1>2, <2>3, <3>1
        <4>2. events' = Posted(events, more) /\ ~Has(more, "snapshot")
          BY <2>1, <2>3, <3>1
        <4> QED
          BY <4>1, <4>2
    <2> QED
      BY <1>4, <2>2, <2>3
  <1>6. Has(events', "snapshot") => Has(events, "snapshot")
    BY <1>3, <1>5, PostedHas
  <1>7. ComesTo(events, "snapshot", shownEngine, engine)
          => ComesTo(events', "snapshot", shownEngine, engine)
    BY <1>3, <1>5, PostedComes
  <1>8. ComesTo(events', "phase", shownPhase, phase')
    BY <1>3, <1>5, PostedComes
  <1> QED
    BY <1>6, <1>7, <1>8, OthersShown

\* A job tells of the phase, or that it has changed is yet to be told.
LEMMA JobShown ==
  ASSUME SerializedInv, AppTyped, ShownInv, NEW j \in JobNumbers, JobsStep(j)
  PROVE  ShownInv'
  <1>0. /\ JobStep(j) /\ UNCHANGED <<closing, loaderVars, shownEngine, shownPhase>>
        /\ events \in Seq(Actions)
    BY DEF JobsStep, appVars, AppTyped
  <1>1. CASE Tell(j)
    <2>1. PICK p \in Phases : p = jobs[j].says
      BY DEF SerializedInv, JobsTyped, Jobs
    <2>2. events' = Posted(events, <<Phase(p)>>) /\ phase' = phase
          /\ outrun' = (outrun \/ p # phase)
      BY <1>1, <2>1 DEF Tell, Post
    <2>3. ~closing => outrun' \/ ComesTo(events', "phase", shownPhase, phase')
      BY <1>0, <2>2, PhasePosted
    <2>4. /\ Has(events', "snapshot") => Has(events, "snapshot")
          /\ ComesTo(events, "snapshot", shownEngine, engine)
               => ComesTo(events', "snapshot", shownEngine, engine)
      BY <1>0, <2>2, PhasePosted
    <2> QED
      BY <1>0, <2>3, <2>4, OthersShown
  <1>2. CASE ~Tell(j)
    <2>1. UNCHANGED outrun /\ ~At(j, "tell")
      BY <1>0, <1>2 DEF JobStep, Look, Settle, Offer, Free, BeginLoad, Load, Install, Request,
                        Fail, Transition, At
    <2>2. \A i \in JobNumbers : i # j => jobs'[i] = jobs[i]
      <3>1. PICK job : jobs' = [jobs EXCEPT ![j] = job]
        BY <1>0, <1>2 DEF JobStep, Look, Settle, Offer, Free, BeginLoad, Load, Install, Request,
                          Fail, Transition, Goes
      <3> QED
        BY <3>1 DEF SerializedInv, JobsTyped
    <2>3. Telling => Telling'
      BY <2>1, <2>2 DEF Telling, At
    <2>4. phase' = phase \/ Telling'
      <3>1. phase' = phase \/ \E job : job.at = "tell" /\ jobs' = [jobs EXCEPT ![j] = job]
        <4>1. CASE Look(j) \/ Free(j) \/ Load(j) \/ Request(j)
          BY <4>1 DEF Look, Free, Load, Request
        <4>2. CASE Settle(j) \/ Offer(j) \/ BeginLoad(j) \/ Install(j) \/ Fail(j)
          <5>1. PICK p, frees, then, otherwise : Transition(j, p, frees, then, otherwise)
            BY <4>2 DEF Settle, Offer, BeginLoad, Install, Fail
          <5>2. [jobs[j] EXCEPT !.at = "tell", !.says = p, !.then = then].at = "tell"
            BY DEF SerializedInv, JobsTyped, Jobs
          <5> QED
            BY <5>1, <5>2 DEF Transition
        <4> QED
          BY <1>0, <1>2, <4>1, <4>2 DEF JobStep
      <3> QED
        BY <3>1 DEF Telling, At, SerializedInv, JobsTyped
    <2>5. \/ events' = events
          \/ \E a \in Actions : a.do = "install" /\ events' = Posted(events, <<a>>)
      <3>1. CASE Request(j)
        <4>1. Action("install", "") \in Actions /\ Action("install", "").do = "install"
          BY DEF Action, Actions
        <4> QED
          BY <3>1, <4>1 DEF Request, Post
      <3>2. CASE ~Request(j)
        BY <1>0, <1>2, <3>2 DEF JobStep, Settle, Offer, BeginLoad, Install, Fail, Look, Free,
                                Load, Transition
      <3> QED
        BY <3>1, <3>2
    <2>6. /\ Has(events', "snapshot") => Has(events, "snapshot")
          /\ ComesTo(events, "snapshot", shownEngine, engine)
               => ComesTo(events', "snapshot", shownEngine, engine)
          /\ ComesTo(events, "phase", shownPhase, phase)
               => ComesTo(events', "phase", shownPhase, phase)
      BY <1>0, <2>5, PlainPosted
    <2>7. ~closing' => outrun' \/ Telling' \/ ComesTo(events', "phase", shownPhase, phase')
      <3>1. ~closing => outrun \/ Telling \/ ComesTo(events, "phase", shownPhase, phase)
        BY DEF ShownInv
      <3>2. shownPhase' = shownPhase /\ closing' = closing
        BY <1>0
      <3>3. ComesTo(events, "phase", shownPhase, phase)
              => ComesTo(events', "phase", shownPhase, phase)
        BY <2>6
      <3> QED
        BY <2>1, <2>3, <2>4, <3>1, <3>2, <3>3
    <2> QED
      BY <1>0, <2>6, <2>7, OthersShown
  <1> QED
    BY <1>1, <1>2

LEMMA SubscribeShown ==
  ASSUME AppTyped, HandedOverInv, ShownInv, NEW s \in Subscriptions, WindowSubscribes(s)
  PROVE  ShownInv'
  <1>1. /\ UNCHANGED <<closing, phase, outrun, jobs, shownEngine, shownPhase, loader, engine,
                       error, stopped>>
        /\ s \in toSubscribe /\ attached[s] = 0
    BY DEF WindowSubscribes, Subscribe, updateVars, HandedOverInv
  <1>t. attached \in [Subscriptions -> Nat] /\ engine \in EngineStates /\ events \in Seq(Actions)
    BY DEF AppTyped, LoaderTypeOK
  <1>2. CASE engine = "none"
    <2>1. UNCHANGED <<attached, events>>
      BY <1>2 DEF WindowSubscribes, Subscribe
    <2> QED
      BY <1>1, <2>1 DEF ShownInv, Telling, At
  <1>3. CASE engine # "none"
    <2>1. PICK n \in Nat : n = IF s = Snapshots THEN 1 ELSE 0
      OBVIOUS
    <2>2. /\ attached' = [attached EXCEPT ![s] = @ + 1]
          /\ events' = Posted(events, Published(engine, n))
      BY <1>3, <2>1 DEF WindowSubscribes, Subscribe
    <2>3. ComesTo(events, "phase", shownPhase, phase)
            => ComesTo(events', "phase", shownPhase, phase)
      BY <1>t, <2>2, PublishedComes
    <2>4. CASE s = Snapshots
      <3>1. attached'[Snapshots] = 1 /\ n = 1
        BY <1>t, <1>1, <2>1, <2>2, <2>4
      <3>2. ~closing => ComesTo(events', "snapshot", shownEngine, engine)
        BY <1>t, <2>2, <3>1, PublishedComes
      <3> QED
        BY <1>1, <1>3, <2>3, <3>1, <3>2 DEF ShownInv, Telling, At
    <2>5. CASE s # Snapshots
      <3>1. attached'[Snapshots] = attached[Snapshots] /\ events' = events
        BY <1>t, <2>1, <2>2, <2>5, PublishedComes, SubscriptionsAssumption
      <3> QED
        BY <1>1, <1>3, <3>1 DEF ShownInv, Telling, At
    <2> QED
      BY <2>4, <2>5
  <1> QED
    BY <1>2, <1>3

\* An engine that is started is published to whoever subscribed to its snapshots.
LEMMA StartShown ==
  ASSUME NEW queue \in Seq(Actions), NEW n \in Nat, n = attached'[Snapshots], StartEngine(queue)
  PROVE  /\ engine' \in {"running", "failed"}
         /\ n > 0 /\ ~closing => ComesTo(events', "snapshot", shownEngine, engine')
         /\ n = 0 => events' = queue
         /\ \A shown, value : ComesTo(queue, "phase", shown, value)
                               => ComesTo(events', "phase", shown, value)
  <1>1. PICK state \in {"running", "failed"} :
          engine' = state /\ events' = Posted(queue, Published(state, n))
    BY DEF StartEngine
  <1>2. state \in EngineStates
    BY DEF EngineStates
  <1> QED
    BY <1>1, <1>2, PublishedComes

LEMMA RunShown ==
  ASSUME AppTyped, HandedOverInv, ShownInv, RunStarts
  PROVE  ShownInv'
  <1>1. UNCHANGED <<closing, phase, outrun, jobs, shownEngine, shownPhase>>
    BY DEF RunStarts, updateVars
  <1>t. attached \in [Subscriptions -> Nat] /\ events \in Seq(Actions)
    BY DEF AppTyped, LoaderTypeOK
  <1>2. CASE UNCHANGED <<events, loaderVars>>
    BY <1>1, <1>2 DEF ShownInv, loaderVars, Telling, At
  <1>3. CASE Start /\ engine = "none"
    <2>1. UNCHANGED <<loader, engine, error, attached, stopped>>
      BY <1>3 DEF Start
    <2>2. PICK a \in Actions : a.do = "report"
            /\ (events' = events \/ events' = Posted(events, <<a>>))
      <3>1. Action("report", "") \in Actions /\ Action("report", "").do = "report"
        BY DEF Action, Actions
      <3> QED
        BY <1>3, <3>1 DEF Start
    <2>3. /\ Has(events', "snapshot") => Has(events, "snapshot")
          /\ ComesTo(events, "phase", shownPhase, phase)
               => ComesTo(events', "phase", shownPhase, phase)
      BY <1>t, <2>2, PlainPosted
    <2> QED
      BY <1>1, <1>3, <2>1, <2>3, SubscriptionsAssumption DEF ShownInv, Telling, At
  <1>4. CASE Start /\ engine # "none"
    <2>1. UNCHANGED <<loader, error, attached, stopped>> /\ StartEngine(events)
      BY <1>4 DEF Start
    <2>2. PICK n \in Nat : n = attached'[Snapshots]
      BY <1>t, <2>1, SubscriptionsAssumption
    <2>3. /\ engine' \in {"running", "failed"}
          /\ n > 0 /\ ~closing => ComesTo(events', "snapshot", shownEngine, engine')
          /\ n = 0 => events' = events
          /\ ComesTo(events, "phase", shownPhase, phase)
               => ComesTo(events', "phase", shownPhase, phase)
      BY <1>t, <2>1, <2>2, StartShown
    <2>4. n = attached[Snapshots]
      BY <2>1, <2>2
    <2> QED
      BY <1>1, <2>1, <2>2, <2>3, <2>4 DEF ShownInv, Telling, At
  <1> QED
    BY <1>2, <1>3, <1>4 DEF RunStarts

LEMMA LoaderShown ==
  ASSUME AppTyped, HandedOverInv, ShownInv, LoaderStep
  PROVE  ShownInv'
  <1>1. UNCHANGED <<closing, phase, outrun, jobs, shownEngine, shownPhase, attached, stopped>>
    BY DEF LoaderStep, Build, PostLoaded, updateVars, appVars
  <1>2. CASE Build
    <2>1. engine = "none" /\ loader' # "done" /\ UNCHANGED events
      BY <1>2 DEF Build, HandedOverInv
    <2>2. attached[Snapshots] = 0
      BY <2>1, SubscriptionsAssumption DEF ShownInv
    <2>3. engine' = "none" => engine = "none"
      BY <2>1
    <2> QED
      BY <1>1, <2>1, <2>2 DEF ShownInv, Telling, At
  <1>3. CASE PostLoaded
    <2>1. PICK a \in Actions : a.do \in {"attach", "report"} /\ events' = Posted(events, <<a>>)
      <3>1. Action(loader, "") \in Actions /\ Action(loader, "").do = loader
        BY <1>3 DEF PostLoaded, Action, Actions
      <3> QED
        BY <1>3, <3>1 DEF PostLoaded, Post
    <2>2. /\ Has(events', "snapshot") => Has(events, "snapshot")
          /\ ComesTo(events, "snapshot", shownEngine, engine)
               => ComesTo(events', "snapshot", shownEngine, engine)
          /\ ComesTo(events, "phase", shownPhase, phase)
               => ComesTo(events', "phase", shownPhase, phase)
      BY <2>1, PlainPosted DEF AppTyped
    <2>3. engine # "none" \/ error
      BY <1>3 DEF PostLoaded, HandedOverInv
    <2>4. UNCHANGED <<engine, error>>
      BY <1>3 DEF PostLoaded
    <2>5. Telling' <=> Telling
      BY <1>1 DEF Telling, At
    <2>6. UNCHANGED attached[Snapshots]
      BY <1>1
    <2> QED
      BY <1>1, <2>2, <2>3, <2>4, <2>5, <2>6 DEF ShownInv
  <1> QED
    BY <1>2, <1>3 DEF LoaderStep

\* What is left of the queue once an action of another kind is done.
LEMMA TakenShown ==
  ASSUME AppTyped, NEW do, Takes(do)
  PROVE  /\ Tail(events) \in Seq(Actions)
         /\ \A kind : Has(Tail(events), kind) => Has(events, kind)
         /\ \A kind, shown, value : kind # do /\ ComesTo(events, kind, shown, value)
                                    => ComesTo(Tail(events), kind, shown, value)
         /\ \A shown, value : ComesTo(events, do, shown, value)
                              => ComesTo(Tail(events), do, Head(events).with, value)
  BY TakenTyped, TailHas, TailComes DEF AppTyped, Takes

LEMMA AttachShown ==
  ASSUME AppTyped, ClosingInv, HandedOverInv, ShownInv, DoAttach
  PROVE  ShownInv'
  <1>1. /\ stage = "loop" /\ toSubscribe = {}
        /\ UNCHANGED <<closing, loader, error, stopped, phase, outrun, jobs, shownEngine,
                       shownPhase>>
        /\ Takes("attach")
    BY DEF ClosingInv, HandedOverInv, DoAttach, Takes, Attach, updateVars, appVars
  <1>2. Tail(events) \in Seq(Actions) /\ engine # "none" /\ loader = "done"
    <2>1. Has(events, "attach")
      BY <1>1, TakenTyped DEF Takes, Has
    <2> QED
      BY <1>1, <2>1, TakenTyped DEF HandedOverInv
  <1>t. attached \in [Subscriptions -> Nat] /\ engine \in EngineStates
    BY DEF AppTyped, LoaderTypeOK
  <1>3. attached'[Snapshots] = 1
    <2>1. attached'[Snapshots] = attached[Snapshots] + (IF Snapshots \in waiting THEN 1 ELSE 0)
      BY SubscriptionsAssumption DEF DoAttach, Attach
    <2> QED
      BY <1>1, <1>t, <2>1, SubscriptionsAssumption DEF HandedOverInv
  <1>4. PICK queue \in Seq(Actions) :
          /\ queue = Posted(Tail(events), Greeting)
          /\ ~closing => ComesTo(queue, "snapshot", shownEngine, engine)
          /\ ComesTo(events, "phase", shownPhase, phase)
               => ComesTo(queue, "phase", shownPhase, phase)
    <2>1. PICK n \in Nat : n = IF Snapshots \in waiting THEN 2 ELSE 0
      OBVIOUS
    <2>2. PICK queue \in Seq(Actions) :
            queue = Posted(Tail(events), Published(engine, n)) /\ queue = Posted(Tail(events), Greeting)
      BY <1>t, <1>2, <2>1, PublishedPosted DEF Greeting
    <2>3. ~closing => ComesTo(queue, "snapshot", shownEngine, engine)
      <3>1. CASE Snapshots \in waiting
        <4>1. n > 0
          BY <2>1, <3>1
        <4> QED
          BY <1>t, <1>2, <2>2, <4>1, PublishedComes
      <3>2. CASE Snapshots \notin waiting
        <4>1. attached[Snapshots] # 0
          BY <1>1, <3>2, SubscriptionsAssumption DEF HandedOverInv
        <4>2. queue = Tail(events)
          BY <1>t, <1>2, <2>1, <2>2, <3>2, PublishedComes
        <4> QED
          BY <1>1, <4>1, <4>2, TakenShown DEF ShownInv
      <3> QED
        BY <3>1, <3>2
    <2>4. ComesTo(events, "phase", shownPhase, phase) => ComesTo(queue, "phase", shownPhase, phase)
      <3>1. ComesTo(events, "phase", shownPhase, phase)
              => ComesTo(Tail(events), "phase", shownPhase, phase)
        BY <1>1, TakenShown
      <3>2. ComesTo(Tail(events), "phase", shownPhase, phase)
              => ComesTo(queue, "phase", shownPhase, phase)
        BY <1>t, <1>2, <2>2, PublishedComes
      <3> QED
        BY <3>1, <3>2
    <2> QED
      BY <2>2, <2>3, <2>4
  <1>5. CASE startAsked /\ ~stopped
    <2>1. StartEngine(queue)
      BY <1>4, <1>5 DEF DoAttach, Attach
    <2>2. PICK n \in Nat : n = attached'[Snapshots] /\ n = 1
      BY <1>3
    <2>3. /\ engine' \in {"running", "failed"}
          /\ ~closing => ComesTo(events', "snapshot", shownEngine, engine')
          /\ ComesTo(queue, "phase", shownPhase, phase)
               => ComesTo(events', "phase", shownPhase, phase)
      BY <2>1, <2>2, StartShown
    <2> QED
      BY <1>1, <1>3, <1>4, <2>3 DEF ShownInv, Telling, At
  <1>6. CASE ~(startAsked /\ ~stopped)
    <2>1. engine' = (IF stopped THEN "closed" ELSE engine) /\ events' = queue
      BY <1>4, <1>6 DEF DoAttach, Attach
    <2> QED
      BY <1>1, <1>2, <1>3, <1>4, <2>1 DEF ShownInv, Telling, At
  <1> QED
    BY <1>5, <1>6

\* Once the program closes the window shows nothing more.
LEMMA EndShown ==
  ASSUME ShownInv, UNCHANGED <<shownEngine, shownPhase>>,
         Has(events', "snapshot") => Has(events, "snapshot"), Shutdown
  PROVE  ShownInv'
  BY DEF ShownInv, Shutdown, Stop

LEMMA ShownNext ==
  SerializedInv /\ AppTyped /\ ClosingInv /\ HandedOverInv /\ ShownInv /\ [Next]_vars => ShownInv'
  <1> SUFFICES ASSUME SerializedInv, AppTyped, ClosingInv, HandedOverInv, ShownInv, [Next]_vars
               PROVE  ShownInv'
    OBVIOUS
  <1>t. events \in Seq(Actions)
    BY DEF AppTyped
  <1>1. CASE \E j \in JobNumbers : JobsStep(j)
    BY <1>1, JobShown
  <1>2. CASE CheckInTime \/ CheckAsked \/ InstallAsked
    <2>1. ~closing /\ UNCHANGED <<closing, loaderVars, shownEngine, shownPhase>>
      BY <1>2 DEF CheckInTime, CheckAsked, InstallAsked, Idle, appVars
    <2>2. CASE InstallAsked
      BY <2>1, <2>2, BeginShown DEF InstallAsked, InstallAvailable, Phases
    <2>3. CASE CheckInTime \/ CheckAsked
      <3>1. PICK silent : Check(silent)
        BY <2>3 DEF CheckInTime, CheckAsked
      <3> QED
        BY <2>1, <3>1, BeginShown DEF Check, Phases
    <2> QED
      BY <1>2, <2>2, <2>3
  <1>3. CASE CloseWindow
    BY <1>3, EndShown DEF CloseWindow, appVars
  <1>4. CASE StartDrain \/ EndDrain
    BY <1>4, QueueShown DEF StartDrain, EndDrain, DrainBegin, DrainEnd, updateVars, appVars
  <1>5. CASE \E s \in Subscriptions : WindowSubscribes(s)
    BY <1>5, SubscribeShown
  <1>6. CASE WindowBuilt
    <2>1. /\ events' = Posted(events, <<Phase(phase)>>) /\ phase \in Phases
          /\ UNCHANGED <<closing, loaderVars, phase, shownEngine, shownPhase>>
      BY <1>6 DEF WindowBuilt, Post, updateVars, AppTyped
    <2> QED
      BY <1>t, <2>1, PhasePosted, OthersShown
  <1>7. CASE RunStarts
    BY <1>7, RunShown
  <1>8. CASE LoaderStep
    BY <1>8, LoaderShown
  <1>9. CASE TrayQuits
    <2>1. Action("quit", "") \in Actions /\ Action("quit", "").do = "quit"
      BY DEF Action, Actions
    <2>2. PICK a \in Actions : a.do = "quit" /\ events' = Posted(events, <<a>>)
      BY <1>9, <2>1 DEF TrayQuits, Post
    <2> QED
      BY <1>t, <1>9, <2>2, PlainPosted, QueueShown DEF TrayQuits, updateVars
  <1>10. CASE DoSnapshot
    <2>1. /\ shownEngine' = Head(events).with /\ events' = Tail(events) /\ Takes("snapshot")
          /\ UNCHANGED <<closing, loaderVars, updateVars, shownPhase>>
      BY <1>10 DEF DoSnapshot
    <2>2. attached[Snapshots] # 0
      <3>1. Has(events, "snapshot")
        BY <2>1, TakenTyped DEF Takes, Has
      <3> QED
        BY <3>1 DEF ShownInv
    <2>3. /\ ComesTo(events, "snapshot", shownEngine, engine)
               => ComesTo(events', "snapshot", shownEngine', engine)
          /\ ComesTo(events, "phase", shownPhase, phase)
               => ComesTo(events', "phase", shownPhase, phase)
      BY <2>1, TakenShown
    <2> QED
      BY <2>1, <2>2, <2>3 DEF ShownInv, loaderVars, updateVars, Telling, At
  <1>11. CASE DoPhase
    <2>1. /\ shownPhase' = Head(events).with /\ events' = Tail(events) /\ Takes("phase")
          /\ UNCHANGED <<closing, loaderVars, updateVars, shownEngine>>
      BY <1>11 DEF DoPhase
    <2>2. /\ ComesTo(events, "snapshot", shownEngine, engine)
               => ComesTo(events', "snapshot", shownEngine, engine)
          /\ ComesTo(events, "phase", shownPhase, phase)
               => ComesTo(events', "phase", shownPhase', phase)
          /\ Has(events', "snapshot") => Has(events, "snapshot")
      BY <2>1, TakenShown
    <2> QED
      BY <2>1, <2>2 DEF ShownInv, loaderVars, updateVars, Telling, At
  <1>12. CASE DoReport
    <2>1. /\ events' = Tail(events) /\ Takes("report")
          /\ UNCHANGED <<closing, loader, engine, error, attached, stopped, updateVars,
                         shownEngine, shownPhase>>
      BY <1>12 DEF DoReport, ReportError, appVars
    <2>2. /\ ComesTo(events, "snapshot", shownEngine, engine)
               => ComesTo(events', "snapshot", shownEngine, engine)
          /\ ComesTo(events, "phase", shownPhase, phase)
               => ComesTo(events', "phase", shownPhase, phase)
          /\ Has(events', "snapshot") => Has(events, "snapshot")
      BY <2>1, TakenShown
    <2> QED
      BY <2>1, <2>2 DEF ShownInv, updateVars, Telling, At
  <1>13. CASE DoAttach
    BY <1>13, AttachShown
  <1>14. CASE DoQuit
    <2>1. Takes("quit") /\ events' = Tail(events) /\ UNCHANGED <<shownEngine, shownPhase>>
      BY <1>14 DEF DoQuit, appVars
    <2>2. CASE closing
      BY <1>14, <2>1, <2>2, TakenShown, QueueShown DEF DoQuit, updateVars
    <2>3. CASE ~closing
      BY <1>14, <2>1, <2>3, TakenShown, EndShown DEF DoQuit
    <2> QED
      BY <2>2, <2>3
  <1>15. CASE DoInstall
    <2>0. Takes("install") /\ UNCHANGED <<shownEngine, shownPhase>>
      BY <1>15 DEF DoInstall
    <2>1. CASE InstallationFailed(Tail(events)) /\ UNCHANGED <<launched, closing, loaderVars>>
      <3>1. CASE closed
        <4>1. events' = Tail(events) /\ UNCHANGED <<phase, jobs, outrun>>
          BY <2>1, <3>1 DEF InstallationFailed
        <4> QED
          BY <2>0, <2>1, <4>1, TakenShown, QueueShown
      <3>2. CASE ~closed
        <4>1. /\ phase' = "error" /\ events' = Posted(Tail(events), <<Phase("error")>>)
              /\ "error" \in Phases
          BY <2>1, <3>2 DEF InstallationFailed, Phases
        <4>2. Tail(events) \in Seq(Actions)
          BY <2>0, TakenShown
        <4>3. /\ Has(events', "snapshot") => Has(events, "snapshot")
              /\ ComesTo(events, "snapshot", shownEngine, engine)
                   => ComesTo(events', "snapshot", shownEngine, engine)
              /\ ~closing => ComesTo(events', "phase", shownPhase, phase')
          <5>1. /\ Has(Tail(events), "snapshot") => Has(events, "snapshot")
                /\ ComesTo(events, "snapshot", shownEngine, engine)
                     => ComesTo(Tail(events), "snapshot", shownEngine, engine)
            BY <2>0, TakenShown
          <5>2. /\ Has(events', "snapshot") => Has(Tail(events), "snapshot")
                /\ ComesTo(Tail(events), "snapshot", shownEngine, engine)
                     => ComesTo(events', "snapshot", shownEngine, engine)
                /\ ~closing => ComesTo(events', "phase", shownPhase, phase')
            BY <4>1, <4>2, PhasePosted
          <5> QED
            BY <5>1, <5>2
        <4> QED
          BY <2>0, <2>1, <4>3, OthersShown
      <3> QED
        BY <3>1, <3>2
    <2>2. CASE /\ events' = Tail(events)
               /\ IF closing THEN UNCHANGED <<closing, loaderVars, updateVars>> ELSE Shutdown
      <3>1. CASE closing
        BY <2>0, <2>2, <3>1, TakenShown, QueueShown DEF updateVars
      <3>2. CASE ~closing
        BY <2>0, <2>2, <3>2, TakenShown, EndShown
      <3> QED
        BY <3>1, <3>2
    <2> QED
      BY <1>15, <2>1, <2>2 DEF DoInstall
  <1>16. CASE UNCHANGED vars
    BY <1>16, QueueShown DEF vars, windowVars, updateVars, appVars
  <1> QED
    BY <1>1, <1>2, <1>3, <1>4, <1>5, <1>6, <1>7, <1>8, <1>9, <1>10, <1>11, <1>12, <1>13, <1>14,
       <1>15, <1>16 DEF Next, DrainStep

\* When the queue is empty the window shows the engine and the phase of the updates as they
\* are, whatever order the loader, the jobs, the tray and the user took; only a job that told
\* of a state when it was no longer the last may leave an older one (_update_from_thread).
THEOREM WindowShowsTheState == Spec => []ShowsTheState
  <1>1. AppTyped /\ HandedOverInv /\ ShownInv => ShowsTheState
    <2> SUFFICES ASSUME AppTyped, HandedOverInv, ShownInv,
                        events = <<>>, stage = "loop", ~closing, loader = "done"
                 PROVE  shownEngine = engine /\ (outrun \/ Telling \/ shownPhase = phase)
      BY DEF ShowsTheState
    <2>1. \A do : ~Has(events, do)
      BY DEF Has
    <2>2. \A do, shown, value : ComesTo(events, do, shown, value) => shown = value
      BY DEF ComesTo
    <2>3. CASE engine = "none"
      BY <2>2, <2>3, SubscriptionsAssumption DEF ShownInv
    <2>4. CASE engine # "none"
      <3>1. waiting = {} /\ toSubscribe = {}
        BY <2>1, <2>4 DEF HandedOverInv, AttachDue
      <3>2. attached[Snapshots] = 1
        BY <3>1, SubscriptionsAssumption DEF HandedOverInv
      <3> QED
        BY <2>2, <3>2 DEF ShownInv
    <2> QED
      BY <2>3, <2>4
  <1>2. Spec => []SerializedInv
    BY SerializedInit, SerializedNext, PTL DEF Spec
  <1>3. Spec => []ClosingInv
    BY <1>2, ClosingInit, ClosingNext, PTL DEF Spec
  <1>4. Spec => []ShownInv
    BY <1>2, <1>3, AppTypedAlways, HandedAlways, ShownInit, ShownNext, PTL DEF Spec
  <1> QED
    BY <1>1, <1>4, AppTypedAlways, HandedAlways, PTL

=============================================================================
