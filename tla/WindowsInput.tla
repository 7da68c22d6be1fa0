---------------------------- MODULE WindowsInput ----------------------------
(***************************************************************************)
(* The worker of keyswitch/engine.py on top of the Windows keyboard hook:  *)
(* it takes key events from the queue, keeps the word being typed, and     *)
(* replaces that word when its keys are up - erase, type, give back what   *)
(* was kept. A withheld Enter or Tab goes through after the replacement.   *)
(*                                                                         *)
(* Which words are replaced is the detector's choice and left open: a      *)
(* boundary, an action or a pause may or may not make a plan. What is      *)
(* modelled is the order in which the worker, the hook, the user and the   *)
(* thread that stops the program touch the queue, the buffer and the text. *)
(***************************************************************************)
EXTENDS HookHold

VARIABLES
    running,    \* _running
    waiting,    \* the worker waits for an event although _running was cleared
    cur,        \* the event being handled
    wFocus,     \* _focus_window
    wPressed,   \* _pressed
    wSince,     \* the keys pressed since the action's press (_pressed_since against the deadline)
    wDeferred,  \* the engine's _deferred_action
    strokes,    \* _strokes: the word being typed
    untracked,  \* _untracked_token: keys up to the next boundary are no word
    pauseDue,   \* _pause_correction_pending
    pending,    \* _pending: the strokes of the plan, boundary included; <<>> is none
    plan,       \* the plan being executed
    drained,    \* what _collect_late_input took from the queue
    late        \* the keys erased and typed again with the word

workVars == <<plan, drained, late>>
wordVars == <<strokes, pauseDue, pending>>
keyVars == <<wPressed, wSince>>
wordKeyVars == <<keyVars, untracked>>
runVars == <<running, waiting>>
engineVars == <<runVars, cur, wFocus, wordKeyVars, wDeferred, wordVars, workVars>>
vars == <<backendVars, engineVars>>

Strokes == Seq(Event)

\* What the backend's own steps leave alone.
BackendStep(A) == A /\ UNCHANGED engineVars

\* What the worker's bookkeeping leaves alone.
quietVars == <<hookVars, holdVars, actionVars, userVars, windowVars, pressed, epoch, failures,
               suspended>>
hiddenVars == <<quietVars, odd>>

-----------------------------------------------------------------------------
(* Bookkeeping *)

Worker(label) == pc' = [pc EXCEPT !["worker"] = label]
Ready == pc["worker"] = "ready"

\* The worker runs a routine of the backend and then goes on at label.
Call(routine, label) ==
    /\ Worker(routine)
    /\ then' = [then EXCEPT !["worker"] = label]

NoKeys == wPressed' = {} /\ wSince' = {}
NoWord == strokes' = <<>> /\ pauseDue' = FALSE /\ pending' = <<>>

\* _clear_word: the word and its plan are forgotten, and a withheld action is
\* cancelled; the worker goes on at label.
ClearWord(label) ==
    /\ NoWord
    /\ wDeferred' = None
    /\ IF wDeferred # None THEN Call("cancel", label) ELSE Worker(label) /\ UNCHANGED then

\* _track_focus sees another window; the windows of KeySwitch itself do not count.
FocusChanged == focus # OwnWindow /\ focus # wFocus

Ids(s) == {s[i].n : i \in DOMAIN s}
KeysOf(s) == {s[i].key : i \in DOMAIN s}
Numbers(s) == [i \in DOMAIN s |-> s[i].n]
IsLetterPress(ev) == ev.down /\ ev.key \in Letters
LetterPresses == {ev \in Event : IsLetterPress(ev)}
KeyUps == {ev \in Event : ~ev.down}

\* The events of s that are in S, in their order.
Only(s, S) ==
    LET kept[n \in 0..Len(s)] == IF n = 0 THEN <<>>
                                 ELSE IF s[n] \in S THEN Append(kept[n - 1], s[n])
                                 ELSE kept[n - 1]
    IN  kept[Len(s)]

-----------------------------------------------------------------------------
(* _run and _handle *)

\* The next event. An overflowed queue drops the word and the action before
\* it; so does another window, and with it the keys held there.
GetEvent ==
    /\ Ready /\ (running \/ waiting)
    /\ inbox # <<>>
    /\ waiting' = FALSE
    /\ LET ev == Head(inbox)
           moved == ev.down /\ FocusChanged
       IN  /\ cur' = ev
           /\ inbox' = Tail(inbox)
           /\ overflow' = FALSE
           /\ wFocus' = IF moved THEN focus ELSE wFocus
           /\ IF moved THEN NoKeys ELSE UNCHANGED keyVars
           /\ untracked' = (~moved /\ (overflow \/ untracked))
           /\ IF overflow \/ moved
              THEN /\ NoWord
                   /\ wDeferred' = None
                   /\ IF overflow \/ wDeferred # None
                      THEN Call("cancel", "handle")
                      ELSE Worker("handle") /\ UNCHANGED then
              ELSE /\ Worker("handle")
                   /\ UNCHANGED <<wordVars, wDeferred, then>>
    /\ UNCHANGED <<hiddenVars, releases, item, outcome, running, workVars>>

\* What a handler leaves alone besides the worker's own books.
handled == <<hiddenVars, queueVars, releases, item, runVars, wFocus, drained, late>>

\* The event is done with.
Done == cur' = None

\* A click ends the word.
HandlePointer ==
    /\ pc["worker"] = "handle" /\ cur.key = Pointer
    /\ ClearWord("ready")
    /\ untracked' = FALSE
    /\ Done
    /\ UNCHANGED <<handled, outcome, keyVars, plan>>

\* What is typed into the rule window is a rule, not text.
HandleSuspended ==
    /\ pc["worker"] = "handle" /\ cur.key # Pointer
    /\ suspended
    /\ IF cur.down /\ strokes # <<>>
       THEN ClearWord("ready")
       ELSE Worker("ready") /\ UNCHANGED <<wordVars, wDeferred, then>>
    /\ Done
    /\ UNCHANGED <<handled, outcome, wordKeyVars, plan>>

Handles(ev) == pc["worker"] = "handle" /\ ev.key # Pointer /\ ~suspended

\* The prompt appeared after the hook deferred Enter: Enter is the prompt's.
HandlePromptEnter ==
    /\ Handles(cur) /\ cur.deferred
    /\ Call("cancel", "ready")
    /\ Done
    /\ UNCHANGED <<handled, outcome, wordKeyVars, plan, wordVars, wDeferred>>

Press(k) ==
    /\ wPressed' = wPressed \cup {k}
    /\ wSince' = wSince \cup {k}

HandleLetter ==
    /\ Handles(cur) /\ IsLetterPress(cur)
    /\ Press(cur.key)
    /\ IF untracked
       THEN UNCHANGED <<strokes, pauseDue>>
       ELSE strokes' = Append(strokes, cur) /\ pauseDue' = TRUE
    /\ Worker("ready")
    /\ Done
    /\ UNCHANGED <<handled, outcome, plan, pending, untracked, wDeferred, then>>

\* What the detector, the models and the words before make of a word: a plan or none.
Decided(word) == {<<>>, word}

\* _commit_word: the word ends and is decided; a plan still waiting is dropped.
Commit(tail) ==
    /\ pending' \in Decided(strokes \o tail)
    /\ strokes' = <<>>
    /\ pauseDue' = FALSE

\* A space: the word before it is decided; a second boundary drops the plan.
HandleBoundary ==
    /\ Handles(cur) /\ cur.down /\ cur.key \in Boundaries
    /\ Press(cur.key)
    /\ untracked' = FALSE
    /\ CASE untracked -> UNCHANGED wordVars
         [] ~untracked /\ strokes # <<>> -> Commit(<<cur>>)
         [] OTHER -> pending' = <<>> /\ UNCHANGED <<strokes, pauseDue>>
    /\ Worker("ready")
    /\ Done
    /\ UNCHANGED <<handled, outcome, plan, wDeferred, then>>

\* A withheld Enter or Tab: it waits for the word before it, and for its keys.
HandleAction ==
    /\ Handles(cur) /\ cur.down /\ cur.key \in ActionKeys /\ cur.deferred
    /\ wPressed' = wPressed \cup {cur.key}
    /\ wSince' = {}
    /\ wDeferred' = cur
    /\ IF strokes # <<>> /\ ~untracked THEN Commit(<<>>) ELSE UNCHANGED wordVars
    /\ Worker("ready")
    /\ Done
    /\ UNCHANGED <<handled, outcome, plan, untracked, then>>

\* Enter or Tab that the window already has.
HandleDelivered ==
    /\ Handles(cur) /\ cur.down /\ cur.key \in ActionKeys /\ ~cur.deferred
    /\ Press(cur.key)
    /\ untracked' = FALSE
    /\ ClearWord("ready")
    /\ Done
    /\ UNCHANGED <<handled, outcome, plan>>

\* _maybe_execute_pending: a plan, or a withheld action, waits until every key
\* is up. An action without a plan goes straight through.
MaybeExecute(down) ==
    \/ /\ down # {} \/ (wDeferred = None /\ pending = <<>>)
       /\ Worker("ready")
       /\ UNCHANGED <<wordVars, wDeferred, plan, then, outcome>>
    \/ /\ down = {} /\ pending # <<>>
       /\ plan' = pending
       /\ pending' = <<>>
       /\ outcome' = [outcome EXCEPT !["worker"] = "yes"]
       /\ Call("focus", IF wDeferred = None THEN "landed" ELSE "acted")
       /\ UNCHANGED <<strokes, pauseDue, wDeferred>>
    \/ /\ down = {} /\ pending = <<>> /\ wDeferred # None
       /\ NoWord
       /\ wDeferred' = None
       /\ Call("deliver", "ready")
       /\ UNCHANGED <<plan, outcome>>

HandleRelease ==
    /\ Handles(cur) /\ ~cur.down
    /\ wPressed' = wPressed \ {cur.key}
    /\ wSince' = wSince \ {cur.key}
    /\ MaybeExecute(wPressed')
    /\ Done
    /\ UNCHANGED <<handled, untracked>>

HandleEvent == HandlePointer \/ HandleSuspended \/ HandlePromptEnter \/ HandleLetter
               \/ HandleBoundary \/ HandleAction \/ HandleDelivered \/ HandleRelease

-----------------------------------------------------------------------------
(* _run_timers: only when the queue is empty *)

Idle == Ready /\ (running \/ waiting) /\ inbox = <<>>

\* A timer that ran after _running was cleared ends the loop.
TimersRan == waiting' = FALSE
timed == <<hiddenVars, queueVars, releases, item, running, cur, drained, late>>

\* Keys that are still down for the action: its own, and those pressed after it.
Awaited == wPressed \cap (wSince \cup {wDeferred.key})

\* Mutant: the timeout waits on for a key that is still down.
ExpireActionWaits ==
    /\ Idle /\ wDeferred # None
    /\ wPressed' = Awaited
    /\ Awaited = {}
    /\ MaybeExecute({})
    /\ TimersRan
    /\ UNCHANGED <<timed, wFocus, wSince, untracked>>

\* _expire_deferred_action: keys held since before the action are forgotten; a
\* key that is still awaited cancels the action.
ExpireAction ==
    /\ Idle /\ wDeferred # None
    /\ wPressed' = Awaited
    /\ IF Awaited # {}
       THEN ClearWord("ready") /\ UNCHANGED <<plan, outcome>>
       ELSE MaybeExecute({})
    /\ TimersRan
    /\ UNCHANGED <<timed, wFocus, wSince, untracked>>

\* _poll_current_group: between two keys the worker notices another window too.
PollCurrentGroup ==
    /\ Idle /\ FocusChanged
    /\ wFocus' = focus
    /\ NoKeys
    /\ untracked' = FALSE
    /\ ClearWord("ready")
    /\ TimersRan
    /\ UNCHANGED <<timed, outcome, plan>>

\* _prune_stale_presses: keys down for longer than STALE_PRESS_SECONDS (three) are forgotten.
\* Not what a withheld action awaits: the action gives up after two, ACTION_TIMEOUT_SECONDS.
PruneStalePresses ==
    \E stale \in SUBSET (IF wDeferred = None THEN wPressed ELSE wPressed \ Awaited) :
        /\ wPressed' = wPressed \ stale
        /\ wSince' = wSince \ stale

\* _maybe_correct_after_pause: with no key down and no plan waiting, the word so
\* far is decided before it ends: replaced, or left until its next letter.
PauseCorrect ==
    /\ Idle /\ pauseDue
    /\ PruneStalePresses
    /\ IF wPressed' # {} \/ pending # <<>>
       THEN Worker("ready") /\ UNCHANGED <<pauseDue, plan, strokes, outcome, then>>
       ELSE /\ pauseDue' = FALSE
            /\ plan' \in Decided(strokes)
            /\ IF plan' = <<>>
               THEN Worker("ready") /\ UNCHANGED <<strokes, outcome, then>>
               ELSE /\ strokes' = <<>>
                    /\ outcome' = [outcome EXCEPT !["worker"] = "yes"]
                    /\ Call("focus", "landed")
    /\ TimersRan
    /\ UNCHANGED <<timed, wFocus, untracked, pending, wDeferred>>

-----------------------------------------------------------------------------
(* _execute_correction and inject_correction *)

\* Nothing of the word is touched when the focus moved or the queue overflowed.
CheckFocus ==
    /\ pc["worker"] = "focus"
    /\ IF FocusChanged \/ overflow
       THEN /\ ClearWord("ready")
            /\ plan' = <<>>
            /\ wFocus' = IF FocusChanged THEN focus ELSE wFocus
            /\ IF FocusChanged THEN NoKeys /\ untracked' = FALSE ELSE UNCHANGED wordKeyVars
       ELSE /\ Worker("hold")
            /\ UNCHANGED <<plan, wFocus, wordKeyVars, wordVars, wDeferred, then>>
    /\ UNCHANGED <<hiddenVars, queueVars, releases, item, outcome, runVars, cur, drained, late>>

\* The field, read again, shows another text than the plan's.
FieldRefuses ==
    /\ pc["worker"] = "focus" /\ ~FocusChanged /\ ~overflow
    /\ ClearWord("ready")
    /\ plan' = <<>>
    /\ untracked' = (untracked \/ strokes # <<>>)
    /\ UNCHANGED <<handled, cur, outcome, keyVars>>

\* hold_input: from here on the hook keeps the user's keys back.
HoldInput ==
    /\ pc["worker"] = "hold"
    /\ Hold
    /\ Worker("collect")
    /\ UNCHANGED <<hookVars, actionVars, userVars, windowVars, queueVars, held, then, releases,
                   item, outcome, pressed, epoch, failures, suspended, odd, engineVars>>

\* _collect_late_input: the queue is emptied ...
CollectLate ==
    /\ pc["worker"] = "collect"
    /\ drained' = inbox
    /\ inbox' = <<>>
    /\ Remember(IF PressInFlight THEN {"raced"} ELSE {})
    /\ Worker("refill")
    /\ UNCHANGED <<hookVars, holdVars, actionVars, userVars, windowVars, then, releases, item,
                   outcome, overflow, pressed, epoch, failures, suspended, runVars, cur, wFocus,
                   wordKeyVars, wDeferred, wordVars, plan, late>>

\* ... looked through - anything but letters and key-ups is a refusal - and
\* what is not taken along goes back into it.
Refused == \E i \in DOMAIN drained :
              drained[i].key = Pointer \/ (drained[i].down /\ drained[i].key \notin Letters)
InPlan == {ev \in Event : ev.n \in Ids(plan)}
LateKeys == Only(strokes, Event \ InPlan) \o Only(drained, LetterPresses)
Taken == ~Refused /\ LateKeys # <<>>
\* Mutant: the keys taken along stay queued as well.
PutBackAll == drained
PutBack == IF Taken THEN Only(drained, KeyUps) ELSE drained

\* Mutant: a correction that is given up before its input keeps the keyboard.
ReleasesNotRefused(n) ==
    IF n = 1 THEN Worker(then["worker"]) /\ UNCHANGED releases
    ELSE releases' = [releases EXCEPT !["worker"] = n] /\ Worker("release")

\* The releases that follow an injection: its own, inject_correction's, the engine's.
Releases(n) ==
    /\ releases' = [releases EXCEPT !["worker"] = n]
    /\ Worker("release")

Settle(result) == outcome' = [outcome EXCEPT !["worker"] = result]

RefillQueue ==
    /\ pc["worker"] = "refill"
    /\ LET room == QueueSize - Len(inbox)
           full == Len(PutBack) > room
       IN  /\ inbox' = inbox \o (IF full THEN SubSeq(PutBack, 1, room) ELSE PutBack)
           /\ late' = IF Taken THEN LateKeys ELSE <<>>
           /\ strokes' = IF Taken /\ ~full THEN Only(strokes, InPlan) ELSE strokes
           /\ IF full \/ Refused
              THEN Settle(IF full THEN "failed" ELSE "refused") /\ Releases(1)
              ELSE Worker("check") /\ UNCHANGED <<outcome, releases>>
           /\ Remember(IF full THEN {"overflowed"} ELSE {})
    /\ drained' = <<>>
    /\ UNCHANGED <<quietVars, overflow, then, item, runVars, cur, wFocus, wordKeyVars, wDeferred,
                   pauseDue, pending, plan>>

\* Mutant: the place is not checked.
CheckPlaceNot ==
    /\ pc["worker"] = "check"
    /\ Worker("erase")
    /\ UNCHANGED <<hiddenVars, queueVars, outcome, releases, then, item, engineVars>>

\* _inject_correction: the caret must be where it was when the holding began.
CheckPlace ==
    /\ pc["worker"] = "check"
    /\ IF holding /\ Here # holdAt
       THEN Settle("failed") /\ Releases(3)
       ELSE Worker("erase") /\ UNCHANGED <<outcome, releases>>
    /\ UNCHANGED <<hiddenVars, queueVars, then, item, engineVars>>

\* The text without its last n presses; Backspace in an empty field does nothing.
Erased(s, n) == SubSeq(s, 1, Len(s) - n)

\* The hook follows the keys of an injection: each goes down and up.
Orders(S) == {o \in [1..Cardinality(S) -> S] : \A i, j \in 1..Cardinality(S) : o[i] = o[j] => i = j}
FollowKeys(ks) ==
    IF hooked
    THEN /\ pressed' = pressed \ ks
         /\ prior' = prior \ ks
         /\ \E o \in Orders({k \in ks \cap prior : PressHeld(k)}) :
              held' = held \o [i \in DOMAIN o |-> ReleaseOf(o[i])]
    ELSE UNCHANGED <<pressed, prior, held>>

injecting == <<hookVars, holding, holdAt, deferred, consumed, userVars, focus, epoch, suspended,
               then, item, engineVars>>

\* The window in front gets the keys of s, and their key-ups.
TypeInto(base, s) ==
    /\ text' = [text EXCEPT ![focus] = base \o Numbers(s)]
    /\ winDown' = winDown \ KeysOf(s)
    /\ FollowKeys(KeysOf(s))

AfterTyping == IF late = <<>> THEN Releases(3) ELSE Worker("retype") /\ UNCHANGED releases

\* The layout changed: Backspaces first, and the keys after a pause.
Erase ==
    /\ pc["worker"] = "erase" /\ HookFree
    /\ text' = [text EXCEPT ![focus] = Erased(@, Len(plan) + Len(late))]
    /\ Worker("type")
    /\ UNCHANGED <<injecting, queueVars, held, prior, pressed, winDown, dropped, releases, outcome,
                   failures, odd>>

\* The same layout: Backspaces and keys in one SendInput.
EraseAndType ==
    /\ pc["worker"] = "erase" /\ HookFree
    /\ TypeInto(Erased(text[focus], Len(plan) + Len(late)), plan)
    /\ AfterTyping
    /\ UNCHANGED <<injecting, queueVars, dropped, outcome, failures, odd>>

TypeWord ==
    /\ pc["worker"] = "type" /\ HookFree
    /\ TypeInto(text[focus], plan)
    /\ AfterTyping
    /\ UNCHANGED <<injecting, queueVars, dropped, outcome, failures, odd>>

\* A key-down and a key-up for every late key, in the engine's queue again.
Replayed(s) == [i \in 1..2 * Len(s) |->
                  IF i % 2 = 1 THEN s[(i + 1) \div 2] ELSE ReleaseOf(s[i \div 2].key)]

\* The late keys, as the user's own input: the engine gets them as new keys.
Retype ==
    /\ pc["worker"] \in {"retype", "restore"} /\ HookFree
    /\ TypeInto(text[focus], late)
    /\ IF hooked
       THEN LET all == inbox \o Replayed(late)
                full == Len(all) > QueueSize
            IN  /\ inbox' = IF full THEN SubSeq(all, 1, QueueSize) ELSE all
                /\ overflow' = (overflow \/ full)
                /\ Remember(IF full THEN {"overflowed"} ELSE {})
       ELSE UNCHANGED <<queueVars, odd>>
    /\ Releases(3)
    /\ UNCHANGED <<injecting, dropped, outcome, failures>>

\* SendInput sends nothing. Before the Backspaces the text is as it was; after
\* them the late keys are put back; after those it is what it is.
InjectionFails ==
    /\ pc["worker"] \in {"erase", "type", "retype", "restore"}
    /\ failures < MaxFailures
    /\ failures' = failures + 1
    /\ Remember({"failed"})
    /\ Settle("failed")
    /\ CASE pc["worker"] = "erase" -> Releases(3) /\ UNCHANGED dropped
         [] pc["worker"] = "type" ->
              /\ dropped' = dropped \cup Ids(plan)
              /\ IF late = <<>> THEN Releases(3) ELSE Worker("restore") /\ UNCHANGED releases
         [] pc["worker"] = "retype" -> Releases(3) /\ dropped' = dropped \cup Ids(late)
         [] OTHER -> Releases(2) /\ dropped' = dropped \cup Ids(late)
    /\ UNCHANGED <<injecting, queueVars, held, prior, pressed, text, winDown>>

\* A word replaced at a pause goes on: what is typed next belongs to it, unless
\* the keys taken along or let through meanwhile leave the text in doubt.
WordGoesOn ==
    IF outcome["worker"] = "yes" /\ KeysOf(plan) \subseteq Letters
    THEN strokes' \in {strokes, plan}
    ELSE UNCHANGED strokes

\* What _execute_correction returns: a failure forgets the word, an action that
\* waited for the word goes through if it landed.
Landed ==
    /\ pc["worker"] \in {"landed", "acted"}
    /\ IF pc["worker"] = "acted" /\ wDeferred # None
       THEN /\ NoWord
            /\ wDeferred' = None
            /\ Call(IF outcome["worker"] = "yes" THEN "deliver" ELSE "cancel", "ready")
       ELSE IF outcome["worker"] = "failed" \/ pc["worker"] = "acted"
            THEN ClearWord("ready")
            ELSE /\ WordGoesOn
                 /\ Worker("ready")
                 /\ UNCHANGED <<pauseDue, pending, wDeferred, then>>
    /\ plan' = <<>>
    /\ late' = <<>>
    /\ outcome' = [outcome EXCEPT !["worker"] = "yes"]
    /\ UNCHANGED <<hiddenVars, queueVars, releases, item, runVars, cur, wFocus, wordKeyVars, drained>>

Correction == CheckFocus \/ FieldRefuses \/ HoldInput \/ CollectLate \/ RefillQueue \/ CheckPlace
              \/ Erase \/ EraseAndType \/ TypeWord \/ Retype \/ InjectionFails \/ Landed

-----------------------------------------------------------------------------
(* KeyboardEngine.stop and WindowsBackend.stop and close *)

\* Mutant: the loop is told to end only later.
StopKeepsRunning ==
    /\ MayStop
    /\ pc["stop"] = "running"
    /\ filtering' = FALSE
    /\ pc' = [pc EXCEPT !["stop"] = "cancel"]
    /\ then' = [then EXCEPT !["stop"] = "unhook"]
    /\ waiting' \in {FALSE, Ready}
    /\ Remember(IF Ready /\ ~waiting' THEN {} ELSE {"cut"})
    /\ UNCHANGED <<holdVars, actionVars, userVars, windowVars, queueVars, hooked, hook, releases,
                   item, outcome, pressed, epoch, failures, suspended, running, cur, wFocus,
                   wordKeyVars, wDeferred, wordVars, workVars>>

\* The filter is gone and _running cleared; the worker may still be at an event,
\* or wait for one: it looks at _running again only after that.
Stop ==
    /\ MayStop
    /\ pc["stop"] = "running"
    /\ filtering' = FALSE
    /\ running' = FALSE
    /\ pc' = [pc EXCEPT !["stop"] = "cancel"]
    /\ then' = [then EXCEPT !["stop"] = "unhook"]
    /\ waiting' \in {FALSE, Ready}
    /\ Remember(IF Ready /\ ~waiting' THEN {} ELSE {"cut"})
    /\ UNCHANGED <<holdVars, actionVars, userVars, windowVars, queueVars, hooked, hook, releases,
                   item, outcome, pressed, epoch, failures, suspended, cur, wFocus, wordKeyVars,
                   wDeferred, wordVars, workVars>>

\* Mutant: close does not stop again.
UnhookOnce ==
    /\ pc["stop"] = "unhook"
    /\ hook.at = "idle"
    /\ hooked' = FALSE
    /\ Remember(IF holding THEN {"cut"} ELSE {})
    /\ pc' = [pc EXCEPT !["stop"] = "stopped"]
    /\ UNCHANGED <<holdVars, actionVars, userVars, windowVars, queueVars, hook, filtering, releases,
                   then, item, outcome, pressed, epoch, failures, suspended, engineVars>>

\* Reached only if no SendInput failed in the stopping thread's release (Back). The hook's message
\* loop ends between two events; close stops once more.
Unhook ==
    /\ pc["stop"] = "unhook"
    /\ hook.at = "idle"
    /\ hooked' = FALSE
    /\ Remember(IF holding THEN {"cut"} ELSE {})
    /\ pc' = [pc EXCEPT !["stop"] = "cancel"]
    /\ then' = [then EXCEPT !["stop"] = "stopped"]
    /\ UNCHANGED <<holdVars, actionVars, userVars, windowVars, queueVars, hook, filtering, releases,
                   item, outcome, pressed, epoch, failures, suspended, engineVars>>

-----------------------------------------------------------------------------
(* The specification *)

EngineInit ==
    /\ running = TRUE /\ waiting = FALSE /\ cur = None /\ wFocus = focus
    /\ wPressed = {} /\ wSince = {} /\ wDeferred = None
    /\ strokes = <<>> /\ untracked = FALSE /\ pauseDue = FALSE /\ pending = <<>>
    /\ plan = <<>> /\ drained = <<>> /\ late = <<>>

Init ==
    /\ holding = FALSE /\ held = <<>>
    /\ deferred = None /\ prior = {} /\ consumed = {} /\ pressed = {}
    /\ epoch = 0
    /\ filtering = TRUE /\ hooked = TRUE /\ hook = IdleHook
    /\ pc = [t \in Threads |-> IF t = "worker" THEN "ready" ELSE "running"]
    /\ then = [t \in Threads |-> "ready"]
    /\ releases = [t \in Threads |-> 0]
    /\ item = [t \in Threads |-> None]
    /\ outcome = [t \in Threads |-> "yes"]
    /\ phys = {} /\ events = 0 /\ presses = 0 /\ moves = 0 /\ failures = 0
    /\ focus \in Windows
    /\ holdAt = Here /\ typedAt = Here
    /\ text = [w \in Places |-> <<>>] /\ winDown = {} /\ dropped = {}
    /\ suspended = FALSE
    /\ inbox = <<>> /\ overflow = FALSE
    /\ odd = {}
    /\ EngineInit

User == \/ \E k \in Keys, down \in BOOLEAN : TypeKey(k, down)
        \/ \E w \in Places : FocusMoves(w)
        \/ Click

Caller(t) == ReleaseStep(t) \/ ActionStep(t)

WorkerStep == GetEvent \/ HandleEvent \/ Correction

Next ==
    \/ BackendStep(User)
    \/ BackendStep(RuleWindowReports)
    \/ BackendStep(HookStep)
    \/ \E t \in Threads : BackendStep(Caller(t))
    \/ WorkerStep
    \/ ExpireAction
    \/ PollCurrentGroup
    \/ PauseCorrect
    \/ Stop
    \/ Unhook

\* The operating system runs the hook and every thread; the worker's timers
\* fire. The user owes nothing, and neither does a pause.
Fairness ==
    /\ WF_vars(BackendStep(HookStep))
    /\ \A t \in Threads : WF_vars(BackendStep(Caller(t)))
    /\ WF_vars(WorkerStep)
    /\ WF_vars(ExpireAction)
    /\ WF_vars(Unhook)

Spec == Init /\ [][Next]_vars
FairSpec == Spec /\ Fairness

-----------------------------------------------------------------------------
(* Properties *)

\* Types of the hook and the buffer, the queue, the windows' text and the worker's own state;
\* the queue is bounded.
TypeOK ==
    /\ HoldTypeOK
    /\ inbox \in Strokes /\ Len(inbox) <= QueueSize
    /\ text \in [Places -> Seq(Nat)] /\ dropped \subseteq Nat
    /\ running \in BOOLEAN /\ waiting \in BOOLEAN /\ cur \in Event \cup {None} /\ wFocus \in Places
    /\ wPressed \subseteq Keys /\ wSince \subseteq Keys
    /\ wDeferred \in Event \cup {None}
    /\ strokes \in Strokes /\ untracked \in BOOLEAN /\ pauseDue \in BOOLEAN /\ pending \in Strokes
    /\ plan \in Strokes /\ drained \in Strokes /\ late \in Strokes

Increasing(s) == \A i, j \in DOMAIN s : i < j /\ s[i] # 0 /\ s[j] # 0 => s[i] < s[j]

\* While an action is withheld the keys after it are kept back (release_input:
\* "retaining all following text until that action is completed").
DeferredKeepsHold == deferred # None /\ "slipped" \notin odd => holding

\* Between the emptying of the queue and the last key of the replacement the
\* hook keeps the user's keys back, whatever a release in another thread does.
Correcting == {"collect", "refill", "check", "erase", "type", "retype", "restore"}
CorrectionHolds == pc["worker"] \in Correcting /\ "cut" \notin odd => holding

\* The presses a window got stand in the order they were typed, whatever was
\* replaced, withheld and replayed meanwhile.
TextInOrder ==
    odd \subseteq {"orphaned"} =>
        \A w \in Places : Increasing(text[w])

\* No press stands in the windows twice, not even after a failed SendInput.
NoPressTwice ==
    odd \subseteq {"failed", "orphaned"} =>
        \A v, w \in Places : \A i \in DOMAIN text[v], j \in DOMAIN text[w] :
            text[v][i] = text[w][j] /\ text[v][i] # 0 => v = w /\ i = j

\* Presses that are on their way to a window.
NumberOf(ev) == IF ev = None THEN {} ELSE {ev.n}
UnderWay ==
    Ids(held) \cup NumberOf(hook.ev) \cup NumberOf(deferred)
    \cup UNION {NumberOf(item[t]) : t \in Threads}
    \cup (IF pc["worker"] = "type" THEN Ids(plan) ELSE {})
    \cup (IF pc["worker"] \in {"type", "retype", "restore"} THEN Ids(late) ELSE {})

\* Every press the user made is on its way to a window, in one, or was dropped
\* by a named step of the code; none is lost between two of them.
EveryPressAccounted ==
    odd \subseteq {"failed", "orphaned"} =>
        1..presses \subseteq Shown \cup dropped \cup UnderWay

\* No press is lost between two steps of the hook, the worker and the thread that stops them,
\* and none is typed twice (release_input, _collect_late_input, _inject_correction, stop).
EveryPressOnce == EveryPressAccounted /\ NoPressTwice

\* A correction erases its own word and the keys typed after it, nothing else
\* (_collect_late_input, _inject_correction).
TypedLast(n) == SubSeq(text[focus], Len(text[focus]) - n + 1, Len(text[focus]))
ErasesItsWord ==
    /\ Len(text[focus]) >= Len(plan) + Len(late)
    /\ TypedLast(Len(plan) + Len(late)) = Numbers(plan \o late)
Erases == pc["worker"] = "erase" /\ text' # text
ErasesOnlyItsWord == [][Erases /\ odd' \subseteq {"orphaned"} => ErasesItsWord]_vars

\* An action is sent only where it was typed: a change of window or a click
\* before complete_action cancels it.
Submits(t) == pc[t] = "submit" /\ text' # text
ActionWhereTyped ==
    [][\A t \in Threads : Submits(t) /\ odd' \cap {"moved", "slipped", "stale"} = {} => Here = typedAt]_vars

\* Nothing is going on.
Quiet ==
    /\ hook.at = "idle" /\ Ready /\ ~waiting
    /\ (inbox = <<>> /\ wDeferred = None) \/ ~running
    /\ pc["stop"] \in {"running", "stopped", "raised"}

\* At rest every key the windows believe down is down.
NoStuckKey == Quiet /\ odd = {} => winDown \subseteq phys

\* The engine never hears of a withheld action, so that nobody completes it: its event was lost
\* in a full queue, or came up while the rule window had the keyboard (_handle returns at
\* _input_suspended and leaves event.deferred as it is).
Unheard == "overflowed" \in odd \/ (RuleEditor /\ "strayed" \in odd)

\* The hook noted an action while stop gave back what the one before it had kept, and then stop
\* failed. It takes a hook that passes on an action while one is withheld: after a slip, or after
\* a SendInput that had failed before.
NotedTooLate == pc["stop"] = "raised" /\ ("slipped" \in odd \/ failures > 1)

Forgotten == deferred # None /\ (Unheard \/ NotedTooLate)

\* At rest the keyboard is free, even after a SendInput that failed (the finally
\* clause of release_input: "must never leave the keyboard captured"), and even when
\* that failure ended stop and left the hook installed.
NeverCaptured == Quiet => ~holding \/ Forgotten

\* At rest, and after the program has stopped, no key is kept back and no action withheld.
RestIsFree ==
    Quiet /\ "failed" \notin odd => (~holding /\ held = <<>> /\ deferred = None) \/ Forgotten

\* An action that was withheld is delivered or cancelled, and the keyboard is given back.
EveryActionResolved == deferred # None ~> deferred = None
KeyboardFreed == holding ~> ~holding
=============================================================================
