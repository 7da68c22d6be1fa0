---------------------------- MODULE WaylandInput ----------------------------
(***************************************************************************)
(* The Wayland backend (wayland_backend.py and the client half of          *)
(* wayland_helper.py) between the input helper and the engine's worker.    *)
(*                                                                         *)
(* The client's dispatch thread (variable hook) answers the helper's keys  *)
(* one by one: passed on to the engine, kept back, withheld or consumed.   *)
(* The worker replaces words and completes withheld actions by sending     *)
(* batches to the helper. Both send through one socket (down), and what    *)
(* the helper typed on its own is on its way back (up) meanwhile.          *)
(*                                                                         *)
(* The engine's worker is reduced to what the backend sees of it; its      *)
(* whole is in WindowsInput. One window has the focus all the time.        *)
(***************************************************************************)
EXTENDS InputHelper

CONSTANTS
    ActionKeys,     \* Enter and Tab; the other keys are letters
    MaxTroubles     \* bound: verdicts and answers that come too late, deaths of the helper, locks of the session

Letters == Keys \ ActionKeys
Pointer == "Pointer"        \* the event of a reset

ASSUME ParentAssumption == ActionKeys \subseteq Keys /\ MaxTroubles \in Nat /\ Pointer \notin Keys

VARIABLES
    \* WaylandBackend
    hook,           \* what the dispatch thread is doing
    pressed,        \* _pressed
    consumed,       \* _consumed_keys
    holding, broken, holdKnown, holdPrior,  \* _holding, _hold_broken, _hold_known_seq, _hold_prior_keys
    known,          \* _known_seq
    held,           \* _held
    deferred, prior, actionForced,          \* _deferred_action, _action_prior_keys, _action_forced
    answer,         \* _last_answer
    down,           \* commands on their way to the helper
    \* the engine's worker
    pc, next, releases, item, outcome,
    inbox,          \* its event queue
    wPressed, wDeferred, strokes, plan, late,
    \* what the properties look back on
    dropped,        \* presses a named step of the code let go
    troubles, odd

holdVars == <<holding, broken, holdKnown, holdPrior>>
actionVars == <<deferred, prior, actionForced>>
keyVars == <<pressed, consumed, held, answer>>
backendVars == <<hook, keyVars, holdVars, known, actionVars, down>>
stepVars == <<pc, next, releases, item, outcome>>
wordVars == <<wPressed, wDeferred, strokes, plan, late>>
workerVars == <<stepVars, inbox, wordVars>>
pastVars == <<dropped, troubles, odd>>
vars == <<helperVars, backendVars, workerVars, pastVars>>

-----------------------------------------------------------------------------
(* Helpers *)

Remember(what) == odd' = odd \cup what
Shown == {text[i] : i \in DOMAIN text}
Presses(s) == {s[i].n : i \in DOMAIN s} \ {0}
ReleaseOf(k) == [n |-> 0, key |-> k, down |-> FALSE, seq |-> 0]
PressIn(s, k) == \E i \in DOMAIN s : s[i].down /\ s[i].key = k
PressHeld(k) == PressIn(held, k)
IndexOf(s, e) == CHOOSE i \in DOMAIN s : s[i] = e
Removed(s, i) == SubSeq(s, 1, i - 1) \o SubSeq(s, i + 1, Len(s))
EngineEvent(ev, isDeferred) == [n |-> ev.n, key |-> ev.key, down |-> ev.down, deferred |-> isDeferred]
Idle == [at |-> "idle", ev |-> None, how |-> "ask", swallow |-> FALSE]
HookAt(place) == hook' = [hook EXCEPT !.at = place]
Worker(label) == pc' = label

-----------------------------------------------------------------------------
(* What the dispatch thread and the worker's replay share *)

\* hold_input, with the keys of isDown believed down.
Hold(isDown) ==
    /\ holding' = TRUE
    /\ IF holding THEN UNCHANGED <<broken, holdKnown, holdPrior>>
       ELSE broken' = FALSE /\ holdKnown' = known /\ holdPrior' = isDown

\* _track_key_state: a key-up that passes although its press is kept back is kept back as well.
Track(ev, kept) ==
    /\ pressed' = IF ev.down THEN pressed \cup {ev.key} ELSE pressed \ {ev.key}
    /\ held' = IF ~ev.down /\ ev.key \in prior /\ PressIn(kept, ev.key) THEN Append(kept, ev) ELSE kept
PriorAfter(ev) == IF ev.down THEN prior ELSE prior \ {ev.key}

\* What _consumes and the engine's filter (consumes_key) may say of a key.
Decisions(ev) ==
    CASE ev.key \in consumed -> {IF ev.down THEN "again" ELSE "released"}
      [] ev.key \notin consumed /\ ev.down /\ ev.key \in ActionKeys -> {"passed", "deferred", "consumed"}
      [] OTHER -> {"passed"}
Consumes(ev, decision) ==
    consumed' = CASE decision \in {"deferred", "consumed"} -> consumed \cup {ev.key}
                  [] decision = "released" -> consumed \ {ev.key}
                  [] OTHER -> consumed

\* The engine's queue gets the event; an auto-repeat of a consumed key is not told.
Listen(ev, decision) ==
    inbox' = IF decision = "again" THEN inbox ELSE Append(inbox, EngineEvent(ev, decision = "deferred"))

-----------------------------------------------------------------------------
(* The dispatch thread *)

\* input_reset: the keys believed down are unknown; the engine gets the event of a click.
ResetInput ==
    /\ pressed' = {} /\ consumed' = {} /\ holdPrior' = {}
    /\ broken' = (broken \/ holding)
    /\ inbox' = Append(inbox, EngineEvent([n |-> 0, key |-> Pointer, down |-> TRUE], FALSE))

HandleReset ==
    /\ hook.at = "idle" /\ up # <<>> /\ Head(up).how = "reset"
    /\ up' = Tail(up)
    /\ ResetInput
    /\ UNCHANGED <<userVars, askVars, modeVars, passed, reply, text, hook, held, answer, holding, holdKnown,
                   known, actionVars, down, stepVars, wordVars, pastVars>>

\* Mutant: no key-up is kept back.
PassesKeyUps(ev) == ~ev.down \/ (deferred # None /\ ev.key \in consumed)

\* Key-ups that pass although the keyboard is held, and keys of the withheld action.
Passes(ev) ==
    \/ ~ev.down /\ ev.key \in prior
    \/ ~ev.down /\ ev.key \in holdPrior /\ ~PressHeld(ev.key)
    \/ deferred # None /\ ev.key \in consumed

\* A key typed without asking: the text under a hold is not what was known.
HandleTold(ev) ==
    /\ consumed' = consumed \ {ev.key}
    /\ broken' = (broken \/ holding)
    /\ UNCHANGED holdPrior

\* A press kept back that the worker has taken out of _held and not sent yet.
BeingReplayed(k) == pc = "replay" /\ item.down /\ item.key = k

\* _answer_native, to the end of the lock: the key is kept back, or goes on.
HandleKey ==
    /\ hook.at = "idle" /\ up # <<>> /\ Head(up).how \in {"ask", "told"}
    /\ up' = Tail(up)
    /\ LET ev == Head(up).ev
           how == Head(up).how
           keep == how = "ask" /\ holding /\ ~Passes(ev)
       IN  /\ hook' = [at |-> IF keep THEN "send" ELSE "track", ev |-> ev, how |-> how, swallow |-> keep]
           /\ known' = IF keep THEN ev.seq ELSE known
           /\ held' = IF keep THEN Append(held, ev) ELSE held
           /\ answer' = IF keep THEN [kind |-> "held", ev |-> ev] ELSE answer
           /\ CASE how = "told" -> HandleTold(ev)
                [] keep -> UNCHANGED <<consumed, broken, holdPrior>>
                [] OTHER -> holdPrior' = holdPrior \ {ev.key} /\ UNCHANGED <<consumed, broken>>
           /\ Remember(IF how = "ask" /\ ~keep /\ ~ev.down /\ BeingReplayed(ev.key) THEN {"released"} ELSE {})
    /\ UNCHANGED <<userVars, askVars, modeVars, passed, reply, text, pressed, holding, holdKnown,
                   actionVars, down, workerVars, dropped, troubles>>

\* Handled, and in the engine's queue: a correction decided from here knows the key.
Handled(ev) == known' = ev.seq

\* A press goes on as one of the withheld action's, and is none any more.
Overtakes(h) == h.how = "ask" /\ h.ev.down /\ deferred # None /\ h.ev.key \notin consumed

\* ... and its rest, to the engine's queue. To withhold a key is a step more.
TrackKey ==
    /\ hook.at = "track"
    /\ Track(hook.ev, held) /\ prior' = PriorAfter(hook.ev)
    /\ \E decision \in IF hook.how = "told" THEN {"passed"} ELSE Decisions(hook.ev) :
         /\ Consumes(hook.ev, decision)
         /\ hook' = IF hook.how = "told" THEN Idle
                    ELSE [hook EXCEPT !.at = IF decision = "deferred" THEN "defer" ELSE "send",
                                      !.swallow = decision # "passed"]
         /\ IF decision = "deferred" THEN UNCHANGED known ELSE Handled(hook.ev)
         /\ answer' = IF hook.how = "ask" /\ decision # "deferred"
                      THEN [kind |-> IF decision = "passed" THEN "passed" ELSE "consumed", ev |-> hook.ev]
                      ELSE answer
         /\ IF decision = "deferred"
            THEN Hold(pressed') /\ UNCHANGED inbox
            ELSE Listen(hook.ev, decision) /\ UNCHANGED holdVars
         /\ dropped' = IF decision \in {"consumed", "again"} THEN dropped \cup {hook.ev.n} ELSE dropped
    /\ Remember(IF Overtakes(hook) THEN {"slipped"} ELSE {})
    /\ UNCHANGED <<helperVars, deferred, actionForced, down, stepVars, wordVars, troubles>>

\* The action is withheld; by now a release may have ended the hold, or a replay withheld another.
DeferKey ==
    /\ hook.at = "defer"
    /\ deferred' = hook.ev
    /\ prior' = pressed
    /\ answer' = [kind |-> "deferred", ev |-> hook.ev]
    /\ Listen(hook.ev, "deferred")
    /\ HookAt("send")
    /\ Handled(hook.ev)
    /\ Remember(IF holding /\ deferred = None THEN {} ELSE {"slipped"})
    /\ UNCHANGED <<helperVars, pressed, consumed, held, holdVars, actionForced, down, stepVars,
                   wordVars, dropped, troubles>>

SettleDeferred(ev) ==
    /\ consumed' = consumed \ {ev.key}
    /\ IF deferred = ev
       THEN deferred' = None /\ prior' = {} /\ actionForced' = TRUE /\ broken' = TRUE
       ELSE UNCHANGED <<actionVars, broken>>

\* _settle_forced: the helper typed the key it had asked about.
HandleForced ==
    /\ hook.at = "idle" /\ up # <<>> /\ Head(up).how = "forced"
    /\ up' = Tail(up)
    /\ LET ev == Head(up).ev
           mine == answer # None /\ answer.ev.seq = ev.seq
           kind == IF mine THEN answer.kind ELSE "passed"
           at == {i \in DOMAIN held : held[i] = ev}
       IN  /\ hook' = [at |-> "send", ev |-> ev, how |-> "forced", swallow |-> FALSE]
           /\ Handled(ev)
           /\ answer' = IF mine THEN None ELSE answer
           /\ CASE kind = "held" /\ at # {} ->
                     /\ Track(ev, Removed(held, IndexOf(held, ev))) /\ prior' = PriorAfter(ev)
                     /\ broken' = TRUE
                     /\ consumed' = consumed \ {ev.key}
                     /\ Listen(ev, "passed")
                     /\ UNCHANGED <<deferred, actionForced>>
                [] kind = "deferred" ->
                     /\ SettleDeferred(ev)
                     /\ UNCHANGED <<pressed, held, inbox>>
                [] OTHER ->
                     /\ consumed' = IF kind = "consumed" THEN consumed \ {ev.key} ELSE consumed
                     /\ UNCHANGED <<pressed, held, broken, actionVars, inbox>>
    /\ UNCHANGED <<userVars, askVars, modeVars, passed, reply, text, holding, holdKnown, holdPrior,
                   down, stepVars, wordVars, pastVars>>

\* The verdict, or the acknowledgement. The socket of a dead helper ends the thread.
Answer ==
    /\ hook.at = "send"
    /\ hook' = Idle
    /\ IF alive
       THEN /\ down' = Append(down, IF hook.how = "ask"
                                    THEN [cmd |-> "verdict", seq |-> hook.ev.seq, swallow |-> hook.swallow]
                                    ELSE [cmd |-> "ack", seq |-> hook.ev.seq])
            /\ UNCHANGED up
       ELSE up' = <<>> /\ UNCHANGED down
    /\ UNCHANGED <<userVars, askVars, modeVars, passed, reply, text, keyVars, holdVars, known, actionVars,
                   workerVars, pastVars>>

Dispatches == HandleReset \/ HandleKey \/ TrackKey \/ DeferKey \/ HandleForced \/ Answer

-----------------------------------------------------------------------------
(* The worker: events *)

Ready == pc = "ready"
quiet == <<helperVars, backendVars, pastVars>>

\* A routine of the backend, and then label.
Call(routine, label) == pc' = routine /\ next' = label

\* _clear_word, and with it a withheld action.
ClearWord ==
    /\ strokes' = <<>>
    /\ wDeferred' = FALSE
    /\ IF wDeferred THEN Call("cancel", "ready") ELSE UNCHANGED <<pc, next>>

\* _maybe_execute_pending: a withheld action goes through when every key is up,
\* after the word before it, if that is replaced.
MaybeExecute(isDown) ==
    \/ /\ ~wDeferred \/ isDown # {}
       /\ UNCHANGED <<pc, next, plan, strokes, wDeferred>>
    \/ /\ wDeferred /\ isDown = {}
       /\ Call("deliver", "ready")
       /\ strokes' = <<>> /\ wDeferred' = FALSE
       /\ UNCHANGED plan
    \/ /\ wDeferred /\ isDown = {} /\ strokes # <<>>
       /\ plan' = strokes
       /\ strokes' = <<>>
       /\ Call("hold", "landed")
       /\ UNCHANGED wDeferred

HandleEvent ==
    /\ Ready /\ inbox # <<>>
    /\ inbox' = Tail(inbox)
    /\ LET ev == Head(inbox) IN
       CASE ev.key = Pointer -> ClearWord /\ UNCHANGED <<wPressed, plan>>
         [] ev.key # Pointer /\ ~ev.down ->
              /\ wPressed' = wPressed \ {ev.key}
              /\ MaybeExecute(wPressed \ {ev.key})
         [] OTHER ->
              /\ wPressed' = wPressed \cup {ev.key}
              /\ CASE ev.deferred -> wDeferred' = TRUE /\ UNCHANGED <<pc, next, strokes>>
                   [] ~ev.deferred /\ ev.key \in ActionKeys -> ClearWord
                   [] OTHER -> strokes' = Append(strokes, ev) /\ UNCHANGED <<pc, next, wDeferred>>
              /\ UNCHANGED plan
    /\ UNCHANGED <<quiet, releases, item, outcome, late>>

\* With no key down - keys down for long are forgotten - the word so far may be replaced.
PauseCorrect ==
    /\ Ready /\ inbox = <<>> /\ ~wDeferred /\ strokes # <<>>
    /\ wPressed' = {}
    /\ plan' = strokes
    /\ strokes' = <<>>
    /\ Call("hold", "landed")
    /\ UNCHANGED <<quiet, releases, item, outcome, inbox, wDeferred, late>>

\* _expire_deferred_action: a key the action waits for does not come up.
ExpireAction ==
    /\ Ready /\ inbox = <<>> /\ wDeferred
    /\ \E awaited \in SUBSET wPressed :
         /\ wPressed' = awaited
         /\ IF awaited # {} THEN ClearWord /\ UNCHANGED plan ELSE MaybeExecute({})
    /\ UNCHANGED <<quiet, releases, item, outcome, inbox, late>>

-----------------------------------------------------------------------------
(* The worker: a correction *)

Releases(n) == releases' = n /\ Worker("release")

\* post_inputs: the batch goes to the helper, and the worker waits for the answer, until it comes,
\* the helper dies or CommandTimesOut.
Batch(check, seq, erase, items) ==
    [cmd |-> "batch", check |-> check, known |-> seq, erase |-> erase, items |-> items, awaited |-> TRUE]
Post(batch, label) ==
    /\ Worker(label)
    /\ IF alive
       THEN down' = Append(down, batch) /\ reply' = None
       ELSE reply' = "failed" /\ UNCHANGED down
posting == <<userVars, askVars, modeVars, passed, up, text, hook, keyVars, holdVars, known, actionVars>>

HoldInput ==
    /\ pc = "hold"
    /\ Hold(pressed)
    /\ Worker("collect")
    /\ UNCHANGED <<helperVars, hook, keyVars, known, actionVars, down, next, releases, item, outcome, inbox,
                   wordVars, pastVars>>

\* A press on its way to the engine that the helper will not keep back, or an
\* action to be withheld, which the engine will hear of before the letters taken along.
PressInFlight ==
    /\ hook.at # "idle" /\ hook.ev.down
    /\ ~hook.swallow \/ (hook.at = "defer" /\ Downs(inbox) # {})

\* _collect_late_input: letters typed after the word are taken along; anything
\* else but a key-up is a refusal.
CollectLate ==
    /\ pc = "collect"
    /\ IF \E i \in DOMAIN inbox : inbox[i].down /\ inbox[i].key \notin Letters
       THEN outcome' = "refused" /\ Releases(1) /\ UNCHANGED <<inbox, late>>
       ELSE /\ \E o \in InOrder(Downs(inbox)) : late' = Taken(inbox, o)
            /\ \E o \in InOrder(DOMAIN inbox \ Downs(inbox)) : inbox' = Taken(inbox, o)
            /\ Worker("check")
            /\ UNCHANGED <<releases, outcome>>
    /\ Remember(IF PressInFlight THEN {"raced"} ELSE {})
    /\ UNCHANGED <<helperVars, backendVars, next, item, wPressed, wDeferred, strokes, plan, dropped, troubles>>

\* A broken hold is no ground for a correction. The number the text was known at
\* is read before that; the layout is switched before the batch is sent.
CheckHold ==
    /\ pc = "check"
    /\ IF broken
       THEN outcome' = "failed" /\ late' = <<>> /\ Releases(3) /\ UNCHANGED item
       ELSE item' = [known |-> IF holding THEN holdKnown ELSE known] /\ Worker("send")
            /\ UNCHANGED <<outcome, late, releases>>
    /\ Remember(IF actionForced /\ ~broken THEN {"forgotten"} ELSE {})
    /\ UNCHANGED <<helperVars, backendVars, next, inbox, wPressed, wDeferred, strokes, plan, dropped, troubles>>

\* Each key of s goes down and up.
Tapped(ev, isDown) == [n |-> IF isDown THEN ev.n ELSE 0, key |-> ev.key, down |-> isDown, seq |-> 0]
Taps(s) == [i \in 1..2 * Len(s) |-> Tapped(s[(i + 1) \div 2], i % 2 = 1)]

\* Mutant: the keys taken along are not erased.
SendWordOnly ==
    /\ pc = "send"
    /\ Post(Batch("text", item.known, NumbersIn(plan), Taps(plan)), "sent")
    /\ UNCHANGED <<posting, next, releases, item, outcome, inbox, wordVars, pastVars>>

SendWord ==
    /\ pc = "send"
    /\ Post(Batch("text", item.known, NumbersIn(plan \o late), Taps(plan)), "sent")
    /\ UNCHANGED <<posting, next, releases, item, outcome, inbox, wordVars, pastVars>>

\* The backend follows the keys it typed: the key-up of each whose press is kept back comes after that.
Orders(S) == {o \in [1..Cardinality(S) -> S] : \A i, j \in 1..Cardinality(S) : o[i] = o[j] => i = j}
FollowKeys(ks) ==
    /\ pressed' = pressed \ ks
    /\ prior' = prior \ ks
    /\ \E o \in Orders({k \in ks \cap prior : PressHeld(k)}) :
         held' = held \o [i \in DOMAIN o |-> ReleaseOf(o[i])]

\* Without an answer the keys taken along are not typed again, whether they are still there or not.
WordSent ==
    /\ pc = "sent" /\ reply # None
    /\ IF reply = "typed"
       THEN /\ FollowKeys(KeysIn(plan))
            /\ late' = Taps(late)
            /\ IF late = <<>> THEN Releases(3) ELSE Worker("retype") /\ UNCHANGED releases
            /\ UNCHANGED outcome
       ELSE /\ outcome' = "failed" /\ late' = <<>>
            /\ Releases(3)
            /\ UNCHANGED <<pressed, prior, held>>
    /\ item' = None
    /\ reply' = None
    /\ UNCHANGED <<userVars, askVars, modeVars, passed, up, text, hook, consumed, answer, holdVars, known,
                   deferred, actionForced, down, next, inbox, wPressed, wDeferred, strokes, plan, pastVars>>

\* The next of the keys taken along.
Retype ==
    /\ pc = "retype"
    /\ IF late = <<>>
       THEN Releases(3) /\ UNCHANGED <<item, late>>
       ELSE item' = Head(late) /\ late' = Tail(late) /\ Worker("replay") /\ UNCHANGED releases
    /\ UNCHANGED <<quiet, next, outcome, inbox, wPressed, wDeferred, strokes, plan>>

\* What _execute_correction returns decides a withheld action. A word replaced
\* at a pause may go on.
Landed ==
    /\ pc = "landed"
    /\ IF wDeferred
       THEN /\ wDeferred' = FALSE /\ strokes' = <<>>
            /\ Call(IF outcome = "yes" THEN "deliver" ELSE "cancel", "ready")
       ELSE /\ CASE outcome = "yes" -> strokes' \in {strokes, plan}
                 [] outcome = "failed" -> strokes' = <<>>
                 [] OTHER -> UNCHANGED strokes
            /\ Worker("ready")
            /\ UNCHANGED <<wDeferred, next>>
    /\ plan' = <<>>
    /\ outcome' = "yes"
    /\ UNCHANGED <<quiet, releases, item, inbox, wPressed, late>>

-----------------------------------------------------------------------------
(* release_input and complete_action *)

\* release_input is called again where it was to be done in any case; that
\* changes nothing if nothing is kept.
Again == releases > 1 /\ (held # <<>> \/ holding') /\ deferred = None
EndRelease == IF Again THEN Releases(releases - 1) ELSE releases' = 0 /\ Worker(next)

\* The next key kept back; behind a withheld action only key-ups from before it.
PriorReleases == {i \in DOMAIN held : ~held[i].down /\ held[i].key \in prior}
Least(S) == CHOOSE i \in S : \A j \in S : i <= j

\* The helper may have typed the key meanwhile, and the backend has not been told.
TakeHeld(i) ==
    /\ item' = Numbered(held[i], 0)
    /\ held' = Removed(held, i)
    /\ Worker("replay")
    /\ Remember(IF held[i].n \in Shown THEN {"overtaken"} ELSE {})
    /\ UNCHANGED <<holding, releases>>

\* While an action is withheld nothing is released.
Release ==
    /\ \/ /\ pc = "release" /\ deferred # None
          /\ releases' = 0 /\ Worker(next)
          /\ UNCHANGED <<item, held, holding, odd>>
       \/ /\ pc = "loop" /\ deferred # None
          /\ IF PriorReleases # {} THEN TakeHeld(Least(PriorReleases))
             ELSE Worker("finally") /\ UNCHANGED <<item, held, holding, releases, odd>>
       \/ /\ pc \in {"release", "loop"} /\ deferred = None /\ held # <<>>
          /\ TakeHeld(1)
       \/ /\ pc \in {"release", "loop"} /\ deferred = None /\ held = <<>>
          /\ holding' = FALSE
          /\ Worker("finally")
          /\ UNCHANGED <<item, held, releases, odd>>
    /\ UNCHANGED <<helperVars, hook, pressed, consumed, answer, broken, holdKnown, holdPrior, known, actionVars,
                   down, next, outcome, inbox, wordVars, dropped, troubles>>

\* A key goes through the backend again as the user's own, and may be withheld
\* or consumed; else it is typed.
Replay ==
    /\ pc = "replay"
    /\ Track(item, held)
    /\ \E decision \in Decisions(item) :
         /\ Consumes(item, decision)
         /\ Listen(item, decision)
         /\ IF decision = "deferred"
            THEN Hold(pressed') /\ deferred' = item /\ prior' = pressed'
            ELSE prior' = PriorAfter(item) /\ UNCHANGED <<holdVars, deferred>>
         /\ IF decision = "passed"
            THEN Post(Batch("none", 0, <<>>, <<item>>), "posted")
            ELSE Worker(IF releases = 0 THEN "retype" ELSE "loop") /\ UNCHANGED <<down, reply>>
         /\ dropped' = IF decision \in {"consumed", "again"} THEN dropped \cup {item.n} ELSE dropped
    /\ UNCHANGED <<userVars, askVars, modeVars, passed, up, text, hook, answer, known, actionForced, next, releases,
                   item, outcome, wordVars, troubles, odd>>

\* No answer: what is not typed stays in the buffer, or is lost.
Posted ==
    /\ pc = "posted" /\ reply # None
    /\ IF reply = "typed"
       THEN /\ Worker(IF releases = 0 THEN "retype" ELSE "loop")
            /\ UNCHANGED <<outcome, releases, late, dropped>>
       ELSE /\ outcome' = "failed"
            /\ dropped' = dropped \cup Presses(<<item>>) \cup Presses(late)
            /\ late' = <<>>
            /\ IF releases = 0 THEN Releases(3) ELSE Worker("finally") /\ UNCHANGED releases
    /\ reply' = None
    /\ item' = None
    /\ UNCHANGED <<userVars, askVars, modeVars, passed, up, text, backendVars, next, inbox, wPressed, wDeferred,
                   strokes, plan, troubles, odd>>

\* The keyboard is held for an action withheld since the loop ended and typed by the helper.
HeldForForced == deferred = None /\ actionForced /\ holding

\* Mutant: a release that failed leaves the keyboard held.
ReleaseEndsHolding ==
    /\ pc = "finally"
    /\ IF deferred = None
       THEN holdPrior' = {} /\ broken' = FALSE
       ELSE UNCHANGED <<holdPrior, broken>>
    /\ UNCHANGED holding
    /\ EndRelease
    /\ Remember(IF HeldForForced THEN {"forgotten"} ELSE {})
    /\ UNCHANGED <<helperVars, hook, keyVars, holdKnown, known, actionVars, down, next, item, outcome, inbox,
                   wordVars, dropped, troubles>>

\* The finally clause of release_input.
ReleaseEnds ==
    /\ pc = "finally"
    /\ IF deferred = None
       THEN holding' = FALSE /\ holdPrior' = {} /\ broken' = FALSE
       ELSE UNCHANGED <<holding, holdPrior, broken>>
    /\ EndRelease
    /\ Remember(IF HeldForForced THEN {"forgotten"} ELSE {})
    /\ UNCHANGED <<helperVars, hook, keyVars, holdKnown, known, actionVars, down, next, item, outcome, inbox,
                   wordVars, dropped, troubles>>

\* complete_action when the helper typed the action itself, or there is none.
ActionGone ==
    /\ pc \in {"deliver", "cancel"} /\ deferred = None
    /\ actionForced' = FALSE
    /\ IF actionForced THEN Releases(1) ELSE Worker(next) /\ UNCHANGED releases
    /\ UNCHANGED <<helperVars, hook, keyVars, holdVars, known, deferred, prior, down, next, item, outcome, inbox,
                   wordVars, pastVars>>

CancelAction ==
    /\ pc = "cancel" /\ deferred # None
    /\ dropped' = dropped \cup {deferred.n}
    /\ deferred' = None /\ prior' = {}
    /\ Releases(1)
    /\ UNCHANGED <<helperVars, hook, keyVars, holdVars, known, actionForced, down, next, item, outcome, inbox,
                   wordVars, troubles, odd>>

\* The helper types it unless it has typed it.
SendAction ==
    /\ pc = "deliver" /\ deferred # None
    /\ Post(Batch(IF deferred.seq = 0 THEN "none" ELSE "action", deferred.seq, <<>>, Taps(<<deferred>>)), "acting")
    /\ item' = deferred
    /\ UNCHANGED <<posting, next, releases, outcome, inbox, wordVars, pastVars>>

ActionSent ==
    /\ pc = "acting" /\ reply # None
    /\ IF reply = "typed"
       THEN FollowKeys({item.key}) /\ UNCHANGED dropped
       ELSE dropped' = dropped \cup {item.n} /\ UNCHANGED <<pressed, prior, held>>
    /\ reply' = None
    /\ Worker("acted")
    /\ UNCHANGED <<userVars, askVars, modeVars, passed, up, text, hook, consumed, answer, holdVars, known, deferred,
                   actionForced, down, next, releases, item, outcome, inbox, wordVars, troubles, odd>>

ActionEnds ==
    /\ pc = "acted"
    /\ deferred' = None /\ prior' = {}
    /\ item' = None
    /\ Releases(1)
    /\ UNCHANGED <<helperVars, hook, keyVars, holdVars, known, actionForced, down, next, outcome, inbox, wordVars,
                   pastVars>>

WorkerStep ==
    \/ HandleEvent \/ HoldInput \/ CollectLate \/ CheckHold \/ SendWord \/ WordSent \/ Retype \/ Landed
    \/ Release \/ Replay \/ Posted \/ ReleaseEnds
    \/ ActionGone \/ CancelAction \/ SendAction \/ ActionSent \/ ActionEnds

-----------------------------------------------------------------------------
(* The helper, and what may go wrong *)

parentVars == <<hook, keyVars, holdVars, known, actionVars, workerVars, dropped>>

\* Presses the parent keeps: kept back, taken along, withheld or being sent.
NumberOf(ev) == IF ev = None THEN {} ELSE {ev.n}
Kept == Presses(held) \cup Presses(late) \cup NumberOf(deferred)
        \cup (IF pc \in {"replay", "posted", "acting", "acted"} THEN NumberOf(item) \ {0} ELSE {})

\* Presses of a replay or an action the worker gave up on, while the helper has not come to it.
GivenUp == UNION {Presses(down[i].items) :
                    i \in {j \in DOMAIN down : down[j].cmd = "batch" /\ ~down[j].awaited /\ down[j].erase = <<>>}}

\* What happens to the keys of s when they are typed without a verdict.
Unasked(s) ==
    (IF Muted(s) # {} THEN {"muted"} ELSE {})
    \cup (IF (Kept \cup GivenUp) \ Presses(s) # {} THEN {"ahead"} ELSE {})

HandleCommand ==
    /\ alive /\ down # <<>>
    /\ down' = Tail(down)
    /\ LET c == Head(down) IN
       CASE c.cmd = "verdict" -> Verdict(c.seq, c.swallow)
         [] c.cmd = "ack" -> SeqAck(c.seq)
         [] c.cmd = "grab" -> SetGrab(c.on)
         [] OTHER -> EmitBatch(c)
    /\ Remember(IF Head(down).cmd = "verdict" /\ pending # None /\ pending' # pending /\ ~Head(down).swallow
                THEN Unasked(<<pending>>) \ {"ahead"} ELSE {})
    /\ UNCHANGED <<parentVars, troubles>>

\* The time of a key runs out. Its verdict may be on its way, and a key kept
\* back may be on its way as a batch.
TimeRunsOut ==
    /\ troubles < MaxTroubles
    /\ troubles' = troubles + 1
    /\ Expire
    /\ Remember((IF answer # None /\ answer.kind = "held" /\ answer.ev = pending
                   /\ \A i \in DOMAIN held : held[i] # pending
                THEN {"overtaken"} ELSE {})
                \cup Unasked(<<pending>> \o queue))
    /\ UNCHANGED <<parentVars, down>>

\* The session is locked, or unlocked: a thread of the desktop sends SET_GRAB.
LockScreen(on) ==
    /\ troubles < MaxTroubles /\ alive
    /\ troubles' = troubles + 1
    /\ down' = Append(down, [cmd |-> "grab", on |-> on])
    /\ Remember({"locked"})
    /\ UNCHANGED <<helperVars, parentVars>>

Awaiting == pc \in {"sent", "posted", "acting"}
HelperDies ==
    /\ troubles < MaxTroubles
    /\ troubles' = troubles + 1
    /\ Die(Awaiting)
    /\ down' = <<>>
    /\ Remember({"died"})
    /\ UNCHANGED parentVars

\* HelperClient._request: nobody waits for the answers any more. The batch may be carried out yet,
\* or have been; then the keys taken along are erased, and not typed again.
CommandTimesOut ==
    /\ troubles < MaxTroubles
    /\ troubles' = troubles + 1
    /\ Awaiting /\ reply # "failed"
    /\ reply' = "failed"
    /\ down' = [i \in DOMAIN down |-> IF down[i].cmd = "batch" THEN [down[i] EXCEPT !.awaited = FALSE] ELSE down[i]]
    /\ dropped' = IF pc = "sent" THEN dropped \cup Presses(late) ELSE dropped
    /\ Remember({IF pc = "posted" THEN "stranded" ELSE "gaveUp"})
    /\ UNCHANGED <<userVars, askVars, modeVars, passed, up, text, hook, keyVars, holdVars, known, actionVars,
                   workerVars>>

\* run_input_listener: what the dispatch thread still has is handled, the keys
\* down are forgotten, and a new helper is started.
Restart ==
    /\ ~alive /\ hook.at = "idle" /\ up = <<>>
    /\ ResetInput
    /\ alive' = TRUE /\ grabbed' = TRUE
    /\ UNCHANGED <<userVars, askVars, passed, up, reply, text, hook, held, answer, holding, holdKnown, known,
                   actionVars, down, stepVars, wordVars, pastVars>>

Type == \E k \in Keys, isDown \in BOOLEAN :
            /\ PhysicalKey(k, isDown)
            /\ Remember(IF grabbed /\ forced # None
                        THEN Unasked(<<[n |-> IF isDown THEN presses + 1 ELSE 0, key |-> k, down |-> isDown]>>) ELSE {})
            /\ UNCHANGED <<backendVars, workerVars, dropped, troubles>>

Init ==
    /\ HelperInit
    /\ hook = Idle /\ pressed = {} /\ consumed = {}
    /\ holding = FALSE /\ broken = FALSE /\ holdKnown = 0 /\ holdPrior = {} /\ known = 0
    /\ held = <<>> /\ deferred = None /\ prior = {} /\ actionForced = FALSE /\ answer = None
    /\ down = <<>>
    /\ pc = "ready" /\ next = "ready" /\ releases = 0 /\ item = None /\ outcome = "yes"
    /\ inbox = <<>> /\ wPressed = {} /\ wDeferred = FALSE /\ strokes = <<>> /\ plan = <<>> /\ late = <<>>
    /\ dropped = {} /\ troubles = 0 /\ odd = {}

Next ==
    \/ Type
    \/ HandleCommand
    \/ TimeRunsOut
    \/ Dispatches
    \/ WorkerStep
    \/ PauseCorrect
    \/ ExpireAction
    \/ \E on \in BOOLEAN : LockScreen(on)
    \/ HelperDies
    \/ CommandTimesOut
    \/ Restart

Spec == Init /\ [][Next]_vars

-----------------------------------------------------------------------------
(* Properties *)

\* Types of the helper's and the backend's state; keys wait only behind a key
\* that is asked about (_expire_pending_if_due types them all).
TypeOK ==
    /\ pending \in Event \cup {None} /\ queue \in Seq(Event) /\ (pending = None => queue = <<>>)
    /\ passed \subseteq Keys /\ held \in Seq(Event) /\ deferred \in Event \cup {None}
    /\ text \in Seq(Nat) /\ known \in 0..SeqModulus - 1 /\ releases \in 0..3

\* What the code lets happen, and what the properties leave aside:
\*   "raced"     a press was on its way to the engine when the late keys were collected
\*   "slipped"   the hold ended, or the worker's replay changed what is withheld, while the
\*               dispatch thread was between its look at both and its note of an action
\*   "released"  a key-up went on while the worker had its press in hand
\*   "overtaken" the helper typed a key kept back whose replay was on its way
\*   "ahead"     the helper typed a key in front of keys the parent kept
\*   "muted"     the helper typed a press of a key whose key-up the parent kept: the kernel drops it
\*   "forgotten" the end of another release ended the hold of a forced action, or its mark as broken
\*   "gaveUp"    the worker gave up waiting for a word or an action; the helper may type it yet
\*   "stranded"  the same with a key of the user's: those kept back after it stay there for a while
\*   "died", "locked"
Orderly == odd \subseteq {"gaveUp"}
Increasing(s) == \A i, j \in DOMAIN s : i < j => s[i] < s[j]

\* Keys reach the application in the order they were typed, whichever of them
\* were withheld, kept back, replayed or typed by the helper unasked.
TextInOrder == Orderly => Increasing(text)

\* No press reaches the application twice: neither a key both replayed and
\* typed when its time ran out, nor a withheld action typed by both sides.
NoPressTwice == Orderly => \A i, j \in DOMAIN text : text[i] = text[j] => i = j

\* Every press is in the application, or in the hands of one of the two
\* processes, or was let go by a step that says so (a hotkey, a cancelled
\* action, a worker that gave up on its keys) - also when the helper typed it in front of others.
UnderWay == Kept \cup Presses(queue) \cup NumberOf(pending)
EveryPressAccounted == odd \subseteq {"ahead", "gaveUp"} => 1..presses \subseteq Shown \cup dropped \cup UnderWay

\* No press is lost between the helper, its client and the worker, or typed twice.
EveryPressOnce == EveryPressAccounted /\ NoPressTwice

TypedLast(n) == SubSeq(text, Len(text) - n + 1, Len(text))
Erases == down # <<>> /\ down' = Tail(down) /\ Head(down).cmd = "batch" /\ Head(down).erase # <<>> /\ ~Refuses(Head(down))

\* The helper carries out the Backspaces of a correction only where the word
\* and the keys taken along still end the text: _refuses compares numbers of
\* keys, no process sees the text. So it is with a correction the worker gave up on.
ErasesOnlyItsWord ==
    [][Erases /\ Orderly =>
        LET word == Head(down).erase IN Len(word) <= Len(text) /\ TypedLast(Len(word)) = word]_vars

\* _settle_forced: "A correction of this hold can no longer know the text and
\* is refused" - whatever other correction ended meanwhile.
ForcedActionRefuses ==
    [][Erases /\ odd \subseteq {"forgotten"} => TypedLast(Len(Head(down).erase)) = Head(down).erase]_vars

Quiet == Ready /\ inbox = <<>> /\ ~wDeferred /\ up = <<>> /\ down = <<>> /\ hook.at = "idle" /\ pending = None

\* With nothing under way, the virtual keyboard has no key down that the user
\* does not hold: its auto-repeat would never end.
NoStuckKey == Quiet /\ Orderly => passed \subseteq phys

\* With nothing under way the keyboard is free and no action is withheld, also
\* after the helper died, the session was locked or an answer was given up on;
\* keys kept back can stay only after the first two, or if the answer was that
\* for a key of the user's.
NeverCaptured == Quiet => ~holding /\ deferred = None /\ (Orderly => held = <<>>)

\* Bound of the runs: behaviours are followed to the first of the slips above.
Followed == odd \subseteq {"died", "locked", "gaveUp", "stranded"}
FollowedForced == odd \subseteq {"forgotten"}
=============================================================================
