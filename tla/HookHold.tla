------------------------------ MODULE HookHold ------------------------------
(***************************************************************************)
(* The keyboard half of keyswitch/windows_backend.py: the low-level hook,  *)
(* the buffer that keeps the user's keys back while text is replaced, the  *)
(* Enter or Tab withheld until the word before it is decided, and the      *)
(* replay that gives the kept keys back.                                   *)
(*                                                                         *)
(* Three threads meet here. The hook thread answers one native event at a  *)
(* time (variable hook). Two callers run complete_action and               *)
(* release_input: the engine's worker, and the thread that stops the       *)
(* program. SendInput runs the hook for each event it sends and returns    *)
(* when the hook has answered, so a caller that replays a key waits at     *)
(* "sent" until the hook is done with it.                                  *)
(*                                                                         *)
(* A key is one of a few values; the text of a window is the sequence of   *)
(* the presses that reached it, numbered in the order they were typed.     *)
(***************************************************************************)
EXTENDS Integers, Sequences, FiniteSets

CONSTANTS
    Letters,        \* keys that type a letter
    Boundaries,     \* keys that end a word (the space)
    ActionKeys,     \* Enter and Tab: keys the filter defers
    Windows,        \* windows the user types into
    None,
    QueueSize,      \* ENGINE_EVENT_QUEUE_MAX_SIZE
    MaxEvents,      \* bound: key events the user makes
    MaxMoves,       \* bound: clicks and changes of window
    MaxFailures,    \* bound: SendInput calls that send nothing
    RuleEditor,     \* may the rule window get the keyboard?
    MayStop         \* may the program be stopped?

Keys == Letters \cup Boundaries \cup ActionKeys
Pointer == "Pointer"        \* the event of a mouse click (virtual key 0)
OwnWindow == "own"          \* the rule window of KeySwitch itself
Threads == {"worker", "stop"}
Places == Windows \cup {OwnWindow}

ASSUME KeysAssumption ==
    /\ Pointer \notin Keys
    /\ Letters \cap (Boundaries \cup ActionKeys) = {}
    /\ Boundaries \cap ActionKeys = {}
    /\ IsFiniteSet(Keys)
ASSUME WindowsAssumption == Windows # {} /\ OwnWindow \notin Windows
ASSUME BoundsAssumption ==
    /\ QueueSize \in Nat \ {0}
    /\ MaxEvents \in Nat /\ MaxMoves \in Nat /\ MaxFailures \in Nat
    /\ RuleEditor \in BOOLEAN /\ MayStop \in BOOLEAN

KeyEvent == [key : Keys, down : BOOLEAN, n : Nat, deferred : BOOLEAN]
Event == [key : Keys \cup {Pointer}, down : BOOLEAN, n : Nat, deferred : BOOLEAN]
ASSUME NoneAssumption == None \notin Event

VARIABLES
    \* the backend's own attributes
    holding,        \* _holding
    held,           \* _held
    deferred,       \* _deferred_action
    prior,          \* _action_prior_keys
    consumed,       \* _consumed_keys
    pressed,        \* _pressed
    epoch,          \* _pointer_epoch
    holdAt,         \* _hold_window and _hold_pointer_epoch
    filtering,      \* a key filter is set (set_key_filter)
    hooked,         \* the hook is installed
    hook,           \* what the hook thread is doing
    \* the callers of complete_action and release_input
    pc, then, releases, item, outcome,
    \* the world: the keyboard, the windows, the engine's queue
    phys,           \* keys the user has down
    events, presses, moves, failures,
    focus, text, winDown, dropped,
    suspended,      \* the engine's _input_suspended, read by the filter
    inbox, overflow,\* the engine's event queue and _input_overflow
    typedAt,        \* history: the place in front when the withheld action was withheld
    odd             \* history: the rare things that happened (see README)

hookVars == <<hooked, hook, filtering>>
holdVars == <<holding, held, holdAt>>
actionVars == <<deferred, prior, consumed>>
callerVars == <<pc, then, releases, item, outcome>>
userVars == <<phys, events, presses, moves, typedAt>>
windowVars == <<focus, text, winDown, dropped>>
queueVars == <<inbox, overflow>>
backendVars == <<hookVars, holdVars, actionVars, callerVars, userVars, windowVars,
                 queueVars, pressed, epoch, failures, suspended, odd>>

-----------------------------------------------------------------------------
(* Helpers *)

IdleHook == [at |-> "idle", ev |-> None, by |-> None]
HookAt(place) == [at |-> place, ev |-> hook.ev, by |-> hook.by]
Here == [window |-> focus, epoch |-> epoch]
Goto(t, label) == pc' = [pc EXCEPT ![t] = label]
Remember(what) == odd' = odd \cup what

\* The release of key k, as the hook sees it.
ReleaseOf(k) == [key |-> k, down |-> FALSE, n |-> 0, deferred |-> FALSE]

\* Is a press of k kept back?
PressHeld(k) == \E i \in DOMAIN held : held[i].down /\ held[i].key = k

\* Mutant: one event too many.
QueueFullLate == Len(inbox) > QueueSize

\* The listener: engine.enqueue. A full queue loses the event and sets a flag.
QueueFull == Len(inbox) >= QueueSize
Lost == IF QueueFull THEN {"overflowed"} ELSE {}
Enqueue(ev) ==
    /\ inbox' = IF QueueFull THEN inbox ELSE Append(inbox, ev)
    /\ overflow' = (overflow \/ QueueFull)

\* The window in front gets a key: a press adds to its text.
Reach(ev) ==
    /\ text' = IF ev.down THEN [text EXCEPT ![focus] = Append(@, ev.n)] ELSE text
    /\ winDown' = IF ev.down THEN winDown \cup {ev.key} ELSE winDown \ {ev.key}

\* SendInput needs the hook's answer: not while the hook is answering another key.
HookFree == hooked => hook.at = "idle"

-----------------------------------------------------------------------------
(* The user *)

\* A key goes down (again, for auto-repeat) or up. The hook gets it first; a
\* keyboard without a hook types straight into the window.
TypeKey(k, down) ==
    LET ev == [key |-> k, down |-> down, n |-> IF down THEN presses + 1 ELSE 0,
               deferred |-> FALSE]
    IN  /\ events < MaxEvents
        /\ HookFree
        /\ down \/ k \in phys
        /\ events' = events + 1
        /\ presses' = IF down THEN presses + 1 ELSE presses
        /\ phys' = IF down THEN phys \cup {k} ELSE phys \ {k}
        /\ \/ /\ hooked
              /\ hook' = [at |-> "lock", ev |-> ev, by |-> "user"]
              /\ UNCHANGED <<text, winDown>>
           \/ /\ ~hooked
              /\ Reach(ev)
              /\ UNCHANGED hook
        /\ UNCHANGED <<holdVars, actionVars, callerVars, queueVars, hooked, filtering, moves, typedAt,
                       focus, dropped, pressed, epoch, failures, suspended, odd>>

\* The place has been checked, and its text is changed next.
BetweenCheckAndInput ==
    \/ \E t \in Threads : pc[t] = "submit"
    \/ pc["worker"] \in {"erase", "type", "retype", "restore"}

\* A press the hook let through and has not queued yet.
PressInFlight == hook.at \in {"track", "answer", "defer"} /\ hook.ev.down

\* A press the engine has not handled yet, or takes out of its queue just now.
PressUnhandled ==
    \/ PressInFlight
    \/ pc["worker"] = "refill"
    \/ \E i \in DOMAIN inbox : inbox[i].down

\* Another window comes to the front.
FocusMoves(w) ==
    /\ moves < MaxMoves
    /\ w # focus
    /\ w = OwnWindow => RuleEditor
    /\ moves' = moves + 1
    /\ focus' = w
    /\ Remember((IF BetweenCheckAndInput \/ pc["worker"] = "hold" THEN {"moved"} ELSE {})
                \cup (IF PressUnhandled \/ w = OwnWindow THEN {"strayed"} ELSE {}))
    /\ UNCHANGED <<hookVars, holdVars, actionVars, callerVars, queueVars, phys, events, presses,
                   typedAt, text, winDown, dropped, pressed, epoch, failures, suspended>>

\* A click: the hook counts it and tells the engine; the caret is elsewhere
\* afterwards, which the text shows as a 0.
Click ==
    /\ moves < MaxMoves
    /\ hooked /\ hook.at = "idle"
    /\ moves' = moves + 1
    /\ epoch' = epoch + 1
    /\ text' = [text EXCEPT ![focus] = Append(@, 0)]
    /\ Enqueue([key |-> Pointer, down |-> TRUE, n |-> 0, deferred |-> FALSE])
    /\ Remember(Lost \cup (IF BetweenCheckAndInput THEN {"moved"} ELSE {})
                \cup (IF pc["worker"] = "refill" THEN {"raced"} ELSE {}))
    /\ UNCHANGED <<hookVars, holdVars, actionVars, callerVars, phys, events, presses, typedAt,
                   focus, winDown, dropped, pressed, failures, suspended>>

\* The rule window reports, a moment later, that it gained or lost the keyboard.
RuleWindowReports ==
    /\ suspended # (focus = OwnWindow)
    /\ suspended' = (focus = OwnWindow)
    /\ UNCHANGED <<hookVars, holdVars, actionVars, callerVars, userVars, windowVars, queueVars,
                   pressed, epoch, failures, odd>>

-----------------------------------------------------------------------------
(* The hook thread: _answer_native *)

\* The condition under _hold_lock: is this key kept back?
KeptBack(ev) ==
    LET priorRelease == ~ev.down /\ ev.key \in prior
        actionKey == deferred # None /\ ev.key \in consumed
    IN  holding /\ ~priorRelease /\ ~actionKey

HookLock ==
    /\ hook.at = "lock"
    /\ \/ /\ KeptBack(hook.ev)
          /\ held' = Append(held, hook.ev)
          /\ hook' = IdleHook
       \/ /\ ~KeptBack(hook.ev)
          /\ hook' = HookAt("track")
          /\ UNCHANGED held
    /\ UNCHANGED <<actionVars, callerVars, userVars, windowVars, queueVars, hooked, filtering,
                   holding, holdAt, pressed, epoch, failures, suspended, odd>>

\* Mutant: the key-up does not follow its replay.
TrackReleaseForgets(k) ==
    /\ pressed' = pressed \ {k}
    /\ prior' = prior \ {k}
    /\ UNCHANGED held

\* _track_key_state of a release: the key-up of an auto-repeat that is kept
\* back has to follow that replay.
TrackRelease(k) ==
    /\ pressed' = pressed \ {k}
    /\ held' = IF k \in prior /\ PressHeld(k) THEN Append(held, ReleaseOf(k)) ELSE held
    /\ prior' = prior \ {k}

HookTrack ==
    /\ hook.at = "track"
    /\ \/ /\ hook.ev.down
          /\ pressed' = pressed \cup {hook.ev.key}
          /\ UNCHANGED <<held, prior>>
       \/ /\ ~hook.ev.down
          /\ TrackRelease(hook.ev.key)
    /\ hook' = HookAt("answer")
    /\ UNCHANGED <<callerVars, userVars, windowVars, queueVars, hooked, filtering, holding, holdAt,
                   deferred, consumed, epoch, failures, suspended, odd>>

\* The callback returns: a caller that replayed the event goes on.
Answered ==
    /\ hook' = IdleHook
    /\ pc' = IF hook.by \in Threads THEN [pc EXCEPT ![hook.by] = "loop"] ELSE pc

\* hold_input: where the text goes is remembered when the holding begins.
Hold ==
    /\ holding' = TRUE
    /\ holdAt' = IF holding THEN holdAt ELSE Here

\* engine.consumes_key, as far as it defers.
FilterDefers(ev) == filtering /\ ~suspended /\ ev.key \in ActionKeys

\* _consumes: the release of a key the window did not get is not for it either.
AnswerRelease ==
    /\ hook.at = "answer" /\ ~hook.ev.down
    /\ Enqueue(hook.ev) /\ Remember(Lost)
    /\ IF hook.ev.key \in consumed
       THEN consumed' = consumed \ {hook.ev.key} /\ UNCHANGED <<text, winDown>>
       ELSE Reach(hook.ev) /\ UNCHANGED consumed
    /\ Answered
    /\ UNCHANGED <<holdVars, userVars, then, releases, item, outcome, hooked, filtering, deferred, prior,
                   focus, dropped, pressed, epoch, failures, suspended>>

\* The auto-repeat of a key that was taken from the window: swallowed silently.
AnswerRepeat ==
    /\ hook.at = "answer" /\ hook.ev.down
    /\ hook.ev.key \in consumed
    /\ dropped' = dropped \cup {hook.ev.n}
    /\ Answered
    /\ UNCHANGED <<holdVars, actionVars, userVars, queueVars, then, releases, item, outcome, hooked,
                   filtering, focus, text, winDown, pressed, epoch, failures, suspended, odd>>

AnswerPress ==
    /\ hook.at = "answer" /\ hook.ev.down
    /\ hook.ev.key \notin consumed
    /\ ~FilterDefers(hook.ev)
    /\ Enqueue(hook.ev) /\ Remember(Lost)
    /\ Reach(hook.ev)
    /\ Answered
    /\ UNCHANGED <<holdVars, actionVars, userVars, then, releases, item, outcome, hooked, filtering,
                   focus, dropped, pressed, epoch, failures, suspended>>

\* hold_input leaves the place of the holding that is under way, wherever the user is now.
Stale == IF holding /\ holdAt # Here THEN {"stale"} ELSE {}

\* Enter or Tab: the window does not get it, and what follows is kept back.
AnswerDefers ==
    /\ hook.at = "answer" /\ hook.ev.down
    /\ hook.ev.key \notin consumed
    /\ FilterDefers(hook.ev)
    /\ consumed' = consumed \cup {hook.ev.key}
    /\ Hold
    /\ typedAt' = Here
    /\ Remember(Stale)
    /\ hook' = HookAt("defer")
    /\ UNCHANGED <<callerVars, phys, events, presses, moves, windowVars, queueVars, hooked,
                   filtering, held, deferred, prior, pressed, epoch, failures, suspended>>

HookDefer ==
    /\ hook.at = "defer"
    /\ deferred' = hook.ev
    /\ prior' = pressed
    /\ Enqueue([hook.ev EXCEPT !.deferred = TRUE]) /\ Remember(Lost)
    /\ Answered
    /\ UNCHANGED <<holdVars, userVars, windowVars, then, releases, item, outcome, hooked, filtering,
                   consumed, pressed, epoch, failures, suspended>>

HookStep == HookLock \/ HookTrack \/ AnswerRelease \/ AnswerRepeat \/ AnswerPress
            \/ AnswerDefers \/ HookDefer

-----------------------------------------------------------------------------
(* release_input and complete_action, run by caller t *)

\* Where a caller goes from its last release_input. The worker catches the exception of a
\* failed SendInput. In the stopping thread it leaves complete_action, WindowsBackend.stop and
\* KeyboardEngine.stop, so that nothing of them is done any more: the hook stays installed.
Back(t) == IF t = "stop" /\ outcome[t] = "failed" THEN "raised" ELSE then[t]

\* The end of one release_input: the next one, or what the caller does then.
EndRelease(t) ==
    IF releases[t] > 1
    THEN /\ releases' = [releases EXCEPT ![t] = @ - 1]
         /\ Goto(t, "release")
    ELSE /\ releases' = [releases EXCEPT ![t] = 0]
         /\ Goto(t, Back(t))

\* release_input leaves the keys alone while an action is withheld.
Release(t) ==
    /\ pc[t] = "release"
    /\ IF deferred # None
       THEN EndRelease(t)
       ELSE Goto(t, "loop") /\ UNCHANGED releases
    /\ UNCHANGED <<hookVars, holdVars, actionVars, userVars, windowVars, queueVars, then, item, outcome,
                   pressed, epoch, failures, suspended, odd>>

\* Keys that may go on while an action is withheld: the key-ups before it.
PriorReleases == {i \in DOMAIN held : ~held[i].down /\ held[i].key \in prior}

Take(t, i) ==
    /\ item' = [item EXCEPT ![t] = held[i]]
    /\ held' = SubSeq(held, 1, i - 1) \o SubSeq(held, i + 1, Len(held))
    /\ Goto(t, "send")

\* What happens when holding ends between the hook's hold_input and its note
\* of the withheld action: the action stays withheld and nothing is kept back.
Slips == IF hook.at = "defer" THEN {"slipped"} ELSE {}

\* One turn of the loop under _hold_lock, while an action is withheld.
LoopBehindAction(t) ==
    /\ pc[t] = "loop"
    /\ deferred # None
    /\ \/ /\ PriorReleases = {}
          /\ Goto(t, "finally")
          /\ UNCHANGED <<item, held>>
       \/ \E i \in PriorReleases :
            /\ \A j \in PriorReleases : i <= j
            /\ Take(t, i)
    /\ UNCHANGED <<hookVars, actionVars, userVars, windowVars, queueVars, then, releases, outcome,
                   holding, holdAt, pressed, epoch, failures, suspended, odd>>

\* Mutant: the key typed last is replayed first.
LoopBackwards(t) ==
    /\ pc[t] = "loop"
    /\ deferred = None
    /\ \/ /\ held # <<>>
          /\ Take(t, Len(held))
          /\ UNCHANGED <<holding, odd>>
       \/ /\ held = <<>>
          /\ holding' = FALSE
          /\ Remember(Slips)
          /\ Goto(t, "finally")
          /\ UNCHANGED <<item, held>>
    /\ UNCHANGED <<hookVars, actionVars, userVars, windowVars, queueVars, then, releases, outcome,
                   holdAt, pressed, epoch, failures, suspended>>

\* The same turn with no action withheld: the next key, or the end of holding.
Loop(t) ==
    /\ pc[t] = "loop"
    /\ deferred = None
    /\ \/ /\ held # <<>>
          /\ Take(t, 1)
          /\ UNCHANGED <<holding, odd>>
       \/ /\ held = <<>>
          /\ holding' = FALSE
          /\ Remember(Slips)
          /\ Goto(t, "finally")
          /\ UNCHANGED <<item, held>>
    /\ UNCHANGED <<hookVars, actionVars, userVars, windowVars, queueVars, then, releases, outcome,
                   holdAt, pressed, epoch, failures, suspended>>

\* SendInput of a kept key, marked as replayed: the hook answers it as a fresh
\* key, except that it is never kept back again.
Send(t) ==
    /\ pc[t] = "send"
    /\ HookFree
    /\ item' = [item EXCEPT ![t] = None]
    /\ IF hooked
       THEN /\ hook' = [at |-> "track", ev |-> item[t], by |-> t]
            /\ Goto(t, "sent")
            /\ UNCHANGED <<text, winDown>>
       ELSE /\ Reach(item[t])
            /\ Goto(t, "loop")
            /\ UNCHANGED hook
    /\ UNCHANGED <<holdVars, actionVars, userVars, queueVars, then, releases, outcome, hooked, filtering,
                   focus, dropped, pressed, epoch, failures, suspended, odd>>

\* SendInput sends nothing: the key taken from the buffer is gone, and the exception leaves
\* release_input by its finally clause.
SendFails(t) ==
    /\ pc[t] = "send"
    /\ failures < MaxFailures
    /\ failures' = failures + 1
    /\ Remember({"failed"})
    /\ dropped' = dropped \cup {item[t].n}
    /\ item' = [item EXCEPT ![t] = None]
    /\ outcome' = [outcome EXCEPT ![t] = "failed"]
    /\ Goto(t, "finally")
    /\ UNCHANGED <<hookVars, holdVars, actionVars, userVars, queueVars, then, releases,
                   focus, text, winDown, pressed, epoch, suspended>>

\* Mutant: every release ends the holding.
FinallyAlways(t) ==
    /\ pc[t] = "finally"
    /\ holding' = FALSE
    /\ Remember(IF deferred = None THEN Slips ELSE {})
    /\ EndRelease(t)
    /\ UNCHANGED <<hookVars, actionVars, userVars, windowVars, queueVars, held, holdAt, then, item,
                   outcome, pressed, epoch, failures, suspended>>

\* Mutant: no finally clause, a failed replay leaves the holding as it is.
FinallyNever(t) ==
    /\ pc[t] = "finally"
    /\ EndRelease(t)
    /\ UNCHANGED <<hookVars, actionVars, userVars, windowVars, queueVars, holdVars, then, item,
                   outcome, pressed, epoch, failures, suspended, odd>>

\* The finally clause: holding goes on only for a withheld action.
Finally(t) ==
    /\ pc[t] = "finally"
    /\ holding' = (deferred # None /\ holding)
    /\ Remember(IF deferred = None THEN Slips ELSE {})
    /\ EndRelease(t)
    /\ UNCHANGED <<hookVars, actionVars, userVars, windowVars, queueVars, held, holdAt, then, item,
                   outcome, pressed, epoch, failures, suspended>>

ReleaseStep(t) ==
    \/ Release(t) \/ LoopBehindAction(t) \/ Loop(t) \/ Send(t) \/ SendFails(t) \/ Finally(t)

\* Mutant: the action goes to whatever window is in front.
DeliverAnywhere(t) ==
    /\ pc[t] = "deliver"
    /\ IF deferred = None
       THEN Goto(t, then[t]) /\ UNCHANGED item
       ELSE Goto(t, "submit") /\ item' = [item EXCEPT ![t] = deferred]
    /\ UNCHANGED <<hookVars, holdVars, actionVars, userVars, windowVars, queueVars, then, releases,
                   outcome, pressed, epoch, failures, suspended, odd>>

\* complete_action(True): only where the action was typed.
Deliver(t) ==
    /\ pc[t] = "deliver"
    /\ IF deferred = None
       THEN Goto(t, then[t]) /\ UNCHANGED item
       ELSE IF Here # holdAt
            THEN Goto(t, "clear") /\ UNCHANGED item
            ELSE /\ item' = [item EXCEPT ![t] = deferred]
                 /\ Goto(t, "submit")
    /\ UNCHANGED <<hookVars, holdVars, actionVars, userVars, windowVars, queueVars, then, releases,
                   outcome, pressed, epoch, failures, suspended, odd>>

\* The key-down and key-up of the action, in one SendInput. The hook only
\* follows the keys of an injected event.
Submit(t) ==
    /\ pc[t] = "submit"
    /\ HookFree
    /\ text' = [text EXCEPT ![focus] = Append(@, item[t].n)]
    /\ winDown' = winDown \ {item[t].key}
    /\ IF hooked THEN TrackRelease(item[t].key) ELSE UNCHANGED <<pressed, held, prior>>
    /\ item' = [item EXCEPT ![t] = None]
    /\ Goto(t, "clear")
    /\ UNCHANGED <<hookVars, userVars, queueVars, then, releases, outcome, holding, holdAt, deferred,
                   consumed, focus, dropped, epoch, failures, suspended, odd>>

SubmitFails(t) ==
    /\ pc[t] = "submit"
    /\ failures < MaxFailures
    /\ failures' = failures + 1
    /\ Remember({"failed"})
    /\ item' = [item EXCEPT ![t] = None]
    /\ Goto(t, "clear")
    /\ UNCHANGED <<hookVars, holdVars, actionVars, userVars, windowVars, queueVars, then, releases,
                   outcome, pressed, epoch, suspended>>

\* complete_action(False).
Cancel(t) ==
    /\ pc[t] = "cancel"
    /\ Goto(t, IF deferred = None THEN then[t] ELSE "clear")
    /\ UNCHANGED <<hookVars, holdVars, actionVars, userVars, windowVars, queueVars, then, releases,
                   item, outcome, pressed, epoch, failures, suspended, odd>>

\* Presses some window got.
Shown == UNION {{text[w][i] : i \in DOMAIN text[w]} : w \in Places} \ {0}

\* A key-up that passed the lock as a release before the action, and is not
\* followed any more: the kept auto-repeat of its key is replayed after it.
Orphans == IF /\ hook.at = "track" /\ ~hook.ev.down
              /\ hook.ev.key \in prior /\ PressHeld(hook.ev.key)
           THEN {"orphaned"} ELSE {}

\* The finally clause of complete_action; a release_input follows.
Clear(t) ==
    /\ pc[t] = "clear"
    /\ deferred' = None
    /\ prior' = {}
    /\ dropped' = IF deferred = None \/ deferred.n \in Shown THEN dropped
                  ELSE dropped \cup {deferred.n}
    /\ releases' = [releases EXCEPT ![t] = 1]
    /\ Goto(t, "release")
    /\ Remember(Orphans)
    /\ UNCHANGED <<hookVars, holdVars, userVars, queueVars, then, item, outcome, consumed,
                   focus, text, winDown, pressed, epoch, failures, suspended>>

ActionStep(t) ==
    Deliver(t) \/ Submit(t) \/ SubmitFails(t) \/ Cancel(t) \/ Clear(t)

-----------------------------------------------------------------------------
(* Types *)

\* Where the callers can be; the labels of the worker's own steps are among them.
Labels == {"ready", "handle", "focus", "hold", "collect", "refill", "check", "erase", "type",
           "retype", "restore", "release", "loop", "send", "sent", "finally", "landed", "acted",
           "deliver", "submit", "clear", "cancel", "running", "unhook", "stopped", "raised"}

\* Where a caller goes on after its releases.
Returns == {"ready", "handle", "landed", "acted", "unhook", "stopped"}

HookState ==
    {IdleHook} \cup [at : {"lock", "track", "answer", "defer"}, ev : KeyEvent,
                     by : Threads \cup {"user"}]

Oddities == {"slipped", "raced", "moved", "strayed", "failed", "cut", "orphaned", "overflowed",
             "stale"}

\* Types of the hook, the buffer, its callers and the user; no caller is ever told
\* to make more releases than an injection has, or fewer than none.
HoldTypeOK ==
    /\ holding \in BOOLEAN /\ held \in Seq(KeyEvent) /\ deferred \in KeyEvent \cup {None}
    /\ prior \subseteq Keys /\ consumed \subseteq Keys /\ pressed \subseteq Keys
    /\ epoch \in Nat /\ holdAt \in [window : Places, epoch : Nat]
    /\ typedAt \in [window : Places, epoch : Nat]
    /\ filtering \in BOOLEAN /\ hooked \in BOOLEAN /\ hook \in HookState
    /\ pc \in [Threads -> Labels] /\ then \in [Threads -> Returns]
    /\ releases \in [Threads -> 0..3] /\ item \in [Threads -> KeyEvent \cup {None}]
    /\ outcome \in [Threads -> {"yes", "refused", "failed"}]
    /\ phys \subseteq Keys /\ winDown \subseteq Keys
    /\ events \in Nat /\ presses \in Nat /\ moves \in Nat /\ failures \in Nat
    /\ focus \in Places /\ suspended \in BOOLEAN /\ overflow \in BOOLEAN
    /\ odd \subseteq Oddities
=============================================================================
