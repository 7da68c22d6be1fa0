---------------------------- MODULE EngineLoader ----------------------------
(***************************************************************************)
(* The keyboard engine built on a thread of its own while the window comes *)
(* up (engine_loader.py, DeferredEngine). What the window asks of the      *)
(* engine before it is built, to be told of its state and to start it,     *)
(* waits and is handed over on the window's thread once the engine is      *)
(* there; a build or a start that fails is told to the window.             *)
(***************************************************************************)
EXTENDS WindowEvents

CONSTANTS
    Subscriptions,  \* what the window subscribes to
    Snapshots       \* one of them: the engine's snapshots

ASSUME SubscriptionsAssumption == Snapshots \in Subscriptions

VARIABLES
    loader,     \* where the thread of _load stands
    engine,     \* _engine and what became of it
    error,      \* _error: did the build fail?
    waiting,    \* _subscriptions
    attached,   \* how often the engine was subscribed to for each
    startAsked, \* _start_failed: is there a start to be told of?
    stopped,    \* _stopped
    told        \* how often start_failed was called

loaderVars == <<loader, engine, error, waiting, attached, startAsked, stopped, told>>

EngineStates == {"none", "built", "running", "failed", "closed"}

LoaderTypeOK ==
    /\ loader \in {"build", "attach", "report", "done"}
    /\ engine \in EngineStates
    /\ error \in BOOLEAN /\ startAsked \in BOOLEAN /\ stopped \in BOOLEAN
    /\ waiting \subseteq Subscriptions
    /\ attached \in [Subscriptions -> Nat]
    /\ told \in Nat

\* Mutant: what is published is not the engine's state.
PublishedLoader(state, subscribers) == [i \in 1..subscribers |-> Action("snapshot", loader)]

\* The snapshots the engine publishes when it gets into a state, to so many subscribers.
Published(state, subscribers) == [i \in 1..subscribers |-> Action("snapshot", state)]

-----------------------------------------------------------------------------
(* The loader's thread.                                                    *)

Build ==
    /\ loader = "build"
    /\ \/ engine' = "built" /\ loader' = "attach" /\ UNCHANGED error
       \/ error' = TRUE /\ loader' = "report" /\ UNCHANGED engine
    /\ UNCHANGED <<events, waiting, attached, startAsked, stopped, told>>

\* The posts of _load: attach to a new engine, or report that there is none.
PostLoaded ==
    /\ loader \in {"attach", "report"}
    /\ Post(Action(loader, ""))
    /\ loader' = "done"
    /\ UNCHANGED <<engine, error, waiting, attached, startAsked, stopped, told>>

-----------------------------------------------------------------------------
(* The window's thread. queue is what waits to be done besides the action  *)
(* at hand.                                                                *)

\* _subscribe: now, or once the engine is built. The engine greets who subscribes to its
\* snapshots with the one of that moment.
Subscribe(s) ==
    /\ IF engine = "none"
         THEN waiting' = waiting \cup {s} /\ UNCHANGED <<attached, events>>
         ELSE /\ attached' = [attached EXCEPT ![s] = @ + 1]
              /\ events' = Posted(events, Published(engine, IF s = Snapshots THEN 1 ELSE 0))
              /\ UNCHANGED waiting
    /\ UNCHANGED <<loader, engine, error, startAsked, stopped, told>>

\* engine.start(), which may fail: the hook cannot be set.
StartEngine(queue) ==
    \/ /\ engine' = "running"
       /\ events' = Posted(queue, Published("running", attached'[Snapshots]))
       /\ UNCHANGED told
    \/ /\ engine' = "failed"
       /\ events' = Posted(queue, Published("failed", attached'[Snapshots]))
       /\ told' = told + 1

Start ==
    /\ UNCHANGED <<loader, error, waiting, attached, stopped>>
    /\ IF engine = "none"
         THEN /\ startAsked' = TRUE
              /\ events' = IF error THEN Posted(events, <<Action("report", "")>>) ELSE events
              /\ UNCHANGED <<engine, told>>
         ELSE StartEngine(events) /\ UNCHANGED startAsked

\* Whoever waited to hear of the snapshots is greeted twice: by the engine, and by late.
Greeting == Published(engine, IF Snapshots \in waiting THEN 2 ELSE 0)

\* Mutant: _attach does not look whether the engine was stopped meanwhile.
AttachAfterAll(queue) ==
    /\ waiting' = {}
    /\ attached' = [s \in Subscriptions |-> attached[s] + (IF s \in waiting THEN 1 ELSE 0)]
    /\ LET then == Posted(queue, Greeting)
       IN  IF startAsked
             THEN StartEngine(then)
             ELSE /\ events' = then
                  /\ UNCHANGED <<engine, told>>
    /\ UNCHANGED <<loader, error, startAsked, stopped>>

Attach(queue) ==
    /\ waiting' = {}
    /\ attached' = [s \in Subscriptions |-> attached[s] + (IF s \in waiting THEN 1 ELSE 0)]
    /\ LET then == Posted(queue, Greeting)
       IN  IF startAsked /\ ~stopped
             THEN StartEngine(then)
             ELSE /\ engine' = IF stopped THEN "closed" ELSE engine
                  /\ events' = then
                  /\ UNCHANGED told
    /\ UNCHANGED <<loader, error, startAsked, stopped>>

\* Mutant: a report leaves the start to be told of once more.
ReportErrorAgain(queue) ==
    /\ told' = told + (IF startAsked /\ error THEN 1 ELSE 0)
    /\ events' = queue
    /\ UNCHANGED <<loader, engine, error, waiting, attached, startAsked, stopped>>

\* _report_error is posted by the failed build and by a start asked for after it.
ReportError(queue) ==
    /\ told' = told + (IF startAsked /\ error THEN 1 ELSE 0)
    /\ startAsked' = FALSE
    /\ events' = queue
    /\ UNCHANGED <<loader, engine, error, waiting, attached, stopped>>

Stop ==
    /\ stopped' = TRUE
    /\ engine' = IF engine = "none" THEN "none" ELSE "closed"
    /\ UNCHANGED <<loader, error, waiting, attached, startAsked, told>>

LoaderInit ==
    /\ loader = "build"
    /\ engine = "none"
    /\ error = FALSE
    /\ waiting = {}
    /\ attached = [s \in Subscriptions |-> 0]
    /\ startAsked = FALSE
    /\ stopped = FALSE
    /\ told = 0

=============================================================================
