------------------------- MODULE WindowsInputProofs --------------------------
(***************************************************************************)
(* What holds of WindowsInput for every keyboard, every number of windows, *)
(* every queue size and every number of events, clicks and failures: the   *)
(* holding and the withheld action, what the events are that the hook, the *)
(* buffer, the queue and the word hold, who gives the keyboard back; and,  *)
(* while nothing rare happens, who has the next press and who completes the *)
(* withheld action.                                                        *)
(***************************************************************************)
EXTENDS WindowsInput, SequenceTheorems, FiniteSetTheorems, WellFoundedInduction, TLAPS

-----------------------------------------------------------------------------
(* Types *)

\* A caller that is about to send an event has one. HoldTypeOK needs it: without it the
\* hook could be given None.
Carries(t) == pc[t] \in {"send", "submit"} => item[t] \in KeyEvent
TypeInv == HoldTypeOK /\ \A t \in Threads : Carries(t)

\* The hook at work: a record, and what changing its place does to it.
Busy == [at : {"lock", "track", "answer", "defer"}, ev : KeyEvent, by : Threads \cup {"user"}]

LEMMA HookBusy ==
    ASSUME HoldTypeOK, hook.at # "idle"
    PROVE  hook \in Busy
BY DEF HoldTypeOK, HookState, IdleHook, Busy

LEMMA HookMoves ==
    ASSUME HoldTypeOK, hook.at # "idle", NEW l \in {"lock", "track", "answer", "defer"}
    PROVE  HookAt(l) \in HookState
BY HookBusy DEF HookAt, HookState, Busy

LEMMA UserTypes ==
    ASSUME HoldTypeOK, BackendStep(User)
    PROVE  HoldTypeOK'
<1> USE KeysAssumption, WindowsAssumption
<1>1. CASE \E k \in Keys, down \in BOOLEAN : TypeKey(k, down)
  <2> PICK k \in Keys, down \in BOOLEAN : TypeKey(k, down)
    BY <1>1
  <2> DEFINE ev == [key |-> k, down |-> down, n |-> IF down THEN presses + 1 ELSE 0, deferred |-> FALSE]
  <2>1. ev \in KeyEvent /\ ev.key = k /\ ev.down = down
    BY DEF HoldTypeOK, KeyEvent
  <2>2. [at |-> "lock", ev |-> ev, by |-> "user"] \in HookState
    BY <2>1 DEF HookState
  <2>4. hook' \in HookState
    BY <2>2 DEF TypeKey, HoldTypeOK
  <2>3. winDown' \subseteq Keys /\ phys' \subseteq Keys /\ presses' \in Nat /\ events' \in Nat
    BY <2>1 DEF TypeKey, HoldTypeOK, Reach
  <2> QED
    BY <2>4, <2>3 DEF TypeKey, HoldTypeOK, holdVars, actionVars, callerVars, queueVars
<1>2. CASE \E w \in Places : FocusMoves(w)
  BY <1>2 DEF FocusMoves, HoldTypeOK, Remember, Oddities, hookVars, holdVars, actionVars, callerVars,
     queueVars
<1>3. CASE Click
  BY <1>3 DEF Click, HoldTypeOK, Remember, Oddities, Enqueue, Lost, hookVars, holdVars, actionVars,
     callerVars
<1> QED BY <1>1, <1>2, <1>3 DEF BackendStep, User

\* What following a key-up leaves of the buffer and of the keys.
LEMMA TrackReleaseTypes ==
    ASSUME HoldTypeOK, NEW k \in Keys, TrackRelease(k)
    PROVE  held' \in Seq(KeyEvent) /\ prior' \subseteq Keys /\ pressed' \subseteq Keys
<1>1. ReleaseOf(k) \in KeyEvent
  BY DEF ReleaseOf, KeyEvent
<1>2. Append(held, ReleaseOf(k)) \in Seq(KeyEvent)
  BY <1>1 DEF HoldTypeOK
<1>3. held' \in Seq(KeyEvent)
  BY <1>2 DEF TrackRelease, HoldTypeOK
<1> QED
  BY <1>3 DEF TrackRelease, HoldTypeOK

LEMMA HookTypes ==
    ASSUME HoldTypeOK, BackendStep(HookStep)
    PROVE  HoldTypeOK'
<1> USE KeysAssumption, WindowsAssumption
<1>1. CASE HookLock
  <2>1. hook \in Busy
    BY <1>1, HookBusy DEF HookLock
  <2>2. hook' \in HookState
    BY <1>1, HookMoves DEF HookLock, HookState
  <2>3. held' \in Seq(KeyEvent)
    <3>1. held \in Seq(KeyEvent)
      BY DEF HoldTypeOK
    <3>2. hook.ev \in KeyEvent
      BY <2>1 DEF Busy
    <3>3. Append(held, hook.ev) \in Seq(KeyEvent)
      BY <3>1, <3>2
    <3>4. held' = held \/ held' = Append(held, hook.ev)
      BY <1>1 DEF HookLock
    <3> QED
      BY <3>1, <3>3, <3>4
  <2>4. UNCHANGED <<actionVars, callerVars, userVars, windowVars, queueVars, hooked, filtering,
                    holding, holdAt, pressed, epoch, failures, suspended, odd>>
    BY <1>1 DEF HookLock
  <2> QED
    BY <2>2, <2>3, <2>4 DEF HoldTypeOK, actionVars, callerVars, userVars, windowVars, queueVars
<1>2. CASE HookTrack
  <2>1. hook \in Busy
    BY <1>2, HookBusy DEF HookTrack
  <2>2. hook' \in HookState
    BY <1>2, HookMoves DEF HookTrack
  <2>3. hook.ev.key \in Keys
    BY <2>1 DEF Busy, KeyEvent
  <2>5. held' \in Seq(KeyEvent) /\ prior' \subseteq Keys /\ pressed' \subseteq Keys
    BY <1>2, <2>3, TrackReleaseTypes DEF HookTrack, HoldTypeOK
  <2> QED
    BY <1>2, <2>2, <2>5 DEF HookTrack, HoldTypeOK, callerVars, userVars, windowVars, queueVars
<1>3. CASE AnswerRelease
  BY <1>3 DEF AnswerRelease, Answered, Enqueue, Remember, Lost, Reach, Oddities, HoldTypeOK, HookState, KeyEvent, IdleHook, holdVars, userVars, Labels, Threads
<1>4. CASE AnswerRepeat
  BY <1>4 DEF AnswerRepeat, Answered, HoldTypeOK, HookState, KeyEvent, IdleHook, holdVars, actionVars, userVars, queueVars, Labels, Threads
<1>5. CASE AnswerPress
  BY <1>5 DEF AnswerPress, Answered, Enqueue, Remember, Lost, Reach, Oddities, HoldTypeOK, HookState, KeyEvent, IdleHook, holdVars, actionVars, userVars, Labels, Threads
<1>6. CASE AnswerDefers
  <2>1. hook \in Busy
    BY <1>6, HookBusy DEF AnswerDefers
  <2>2. hook' \in HookState
    BY <1>6, HookMoves DEF AnswerDefers
  <2>3. consumed' \subseteq Keys
    BY <1>6, <2>1 DEF AnswerDefers, HoldTypeOK, Busy, KeyEvent
  <2>4. odd' \subseteq Oddities
    BY <1>6 DEF AnswerDefers, Remember, Stale, Oddities, HoldTypeOK
  <2>5. holdAt' \in [window : Places, epoch : Nat] /\ typedAt' \in [window : Places, epoch : Nat]
    BY <1>6 DEF AnswerDefers, Hold, Here, HoldTypeOK
  <2>6. /\ UNCHANGED <<callerVars, phys, events, presses, moves, windowVars, queueVars, hooked, filtering,
                      held, deferred, prior, pressed, epoch, failures, suspended>>
        /\ holding' = TRUE
    BY <1>6 DEF AnswerDefers, Hold
  <2> QED
    BY <2>2, <2>3, <2>4, <2>5, <2>6 DEF HoldTypeOK, callerVars, windowVars, queueVars
<1>7. CASE HookDefer
  BY <1>7 DEF HookDefer, Answered, Enqueue, Remember, Lost, Oddities, HoldTypeOK, HookState, KeyEvent, IdleHook, holdVars, userVars, windowVars, Labels, Threads
<1> QED BY <1>1, <1>2, <1>3, <1>4, <1>5, <1>6, <1>7 DEF BackendStep, HookStep

\* Taking an event out of the buffer.
LEMMA TakeTypes ==
    ASSUME HoldTypeOK, NEW i \in DOMAIN held
    PROVE  /\ held[i] \in KeyEvent
           /\ SubSeq(held, 1, i - 1) \o SubSeq(held, i + 1, Len(held)) \in Seq(KeyEvent)
<1>1. held \in Seq(KeyEvent) /\ i \in 1..Len(held) /\ Len(held) \in Nat
  BY DEF HoldTypeOK
<1>2. held[i] \in KeyEvent
  BY <1>1
<1>3. SubSeq(held, 1, i - 1) \in Seq(KeyEvent) /\ SubSeq(held, i + 1, Len(held)) \in Seq(KeyEvent)
  BY <1>1, SubSeqProperties
<1> QED
  BY <1>2, <1>3, ConcatProperties

LEMMA EndReleaseTypes ==
    ASSUME HoldTypeOK, NEW t \in Threads, EndRelease(t)
    PROVE  /\ pc' \in [Threads -> Labels] /\ releases' \in [Threads -> 0..3]
           /\ \E l \in Returns \cup {"release", "raised"} : pc' = [pc EXCEPT ![t] = l]
BY DEF HoldTypeOK, EndRelease, Back, Goto, Labels, Returns

LEMMA ReleaseTypes ==
    ASSUME TypeInv, NEW t \in Threads, BackendStep(ReleaseStep(t))
    PROVE  HoldTypeOK'
<1> USE DEF TypeInv
<1>1. CASE Release(t)
  BY <1>1, EndReleaseTypes DEF Release, Goto, HoldTypeOK, Labels, hookVars, holdVars, actionVars,
     userVars, windowVars, queueVars
<1>2. CASE LoopBehindAction(t)
  <2>1. CASE PriorReleases = {}
    BY <1>2, <2>1 DEF LoopBehindAction, Goto, HoldTypeOK, Labels, hookVars, holdVars, actionVars,
       userVars, windowVars, queueVars
  <2>2. CASE \E i \in PriorReleases : Take(t, i)
    <3>1. /\ held' \in Seq(KeyEvent)
          /\ item' \in [Threads -> KeyEvent \cup {None}]
          /\ pc' \in [Threads -> Labels]
      BY <2>2, TakeTypes DEF PriorReleases, Take, Goto, HoldTypeOK, Labels
    <3> QED
      BY <1>2, <3>1 DEF LoopBehindAction, HoldTypeOK, hookVars, actionVars, userVars, windowVars,
         queueVars
  <2> QED BY <1>2, <2>1, <2>2 DEF LoopBehindAction
<1>3. CASE Loop(t)
  <2>1. CASE held = <<>>
    BY <1>3, <2>1 DEF Loop, Remember, Slips, Oddities, Goto, HoldTypeOK, Labels, hookVars,
       actionVars, userVars, windowVars, queueVars
  <2>2. CASE held # <<>> /\ Take(t, 1)
    <3>1. 1 \in DOMAIN held
      BY <2>2 DEF HoldTypeOK
    <3>2. /\ held' \in Seq(KeyEvent)
          /\ item' \in [Threads -> KeyEvent \cup {None}]
          /\ pc' \in [Threads -> Labels]
      BY <2>2, <3>1, TakeTypes DEF Take, Goto, HoldTypeOK, Labels
    <3> QED
      BY <1>3, <2>2, <3>2 DEF Loop, HoldTypeOK, hookVars, actionVars, userVars, windowVars, queueVars
  <2> QED BY <1>3, <2>1, <2>2 DEF Loop
<1>4. CASE Send(t)
  <2>1. item[t] \in KeyEvent
    BY <1>4 DEF Send, Carries
  <2>2. [at |-> "track", ev |-> item[t], by |-> t] \in HookState
    BY <2>1 DEF HookState
  <2>3. hook' \in HookState
    BY <1>4, <2>2 DEF Send, HoldTypeOK
  <2>4. winDown' \subseteq Keys
    BY <1>4, <2>1 DEF Send, Reach, HoldTypeOK, KeyEvent
  <2> QED
    BY <1>4, <2>3, <2>4 DEF Send, Reach, Goto, HoldTypeOK, Labels, holdVars, actionVars, userVars,
       queueVars
<1>5. CASE SendFails(t)
  BY <1>5 DEF SendFails, Remember, Oddities, Goto, HoldTypeOK, Labels, hookVars, holdVars,
     actionVars, userVars, queueVars
<1>6. CASE Finally(t)
  BY <1>6, EndReleaseTypes DEF Finally, Remember, Slips, Oddities, HoldTypeOK, hookVars, actionVars,
     userVars, windowVars, queueVars
<1> QED
  BY <1>1, <1>2, <1>3, <1>4, <1>5, <1>6 DEF BackendStep, ReleaseStep

LEMMA ActionTypes ==
    ASSUME TypeInv, NEW t \in Threads, BackendStep(ActionStep(t))
    PROVE  HoldTypeOK'
<1> USE DEF TypeInv
<1>1. CASE Deliver(t)
  BY <1>1 DEF Deliver, Goto, HoldTypeOK, Labels, Returns, hookVars, holdVars, actionVars, userVars,
     windowVars, queueVars
<1>2. CASE Submit(t)
  <2>1. item[t].key \in Keys
    BY <1>2 DEF Submit, TypeInv, Carries, KeyEvent
  <2>2. held' \in Seq(KeyEvent) /\ prior' \subseteq Keys /\ pressed' \subseteq Keys
    BY <1>2, <2>1, TrackReleaseTypes DEF Submit, HoldTypeOK
  <2> QED
    BY <1>2, <2>2 DEF Submit, Goto, HoldTypeOK, Labels, hookVars, userVars, queueVars
<1>3. CASE SubmitFails(t)
  BY <1>3 DEF SubmitFails, Remember, Oddities, Goto, HoldTypeOK, Labels, hookVars, holdVars,
     actionVars, userVars, windowVars, queueVars
<1>4. CASE Cancel(t)
  BY <1>4 DEF Cancel, Goto, HoldTypeOK, Labels, Returns, hookVars, holdVars, actionVars, userVars,
     windowVars, queueVars
<1>5. CASE Clear(t)
  BY <1>5 DEF Clear, Remember, Orphans, Oddities, Goto, HoldTypeOK, Labels, hookVars, holdVars,
     userVars, queueVars
<1> QED
  BY <1>1, <1>2, <1>3, <1>4, <1>5 DEF BackendStep, ActionStep

\* What the worker's corrections do to the buffer.
LEMMA FollowTypes ==
    ASSUME HoldTypeOK, NEW ks, FollowKeys(ks)
    PROVE  held' \in Seq(KeyEvent) /\ prior' \subseteq Keys /\ pressed' \subseteq Keys
<1>1. CASE ~hooked
  BY <1>1 DEF FollowKeys, HoldTypeOK
<1>2. CASE hooked
  <2> DEFINE S == {k \in ks \cap prior : PressHeld(k)}
  <2>1. PICK o \in Orders(S) : held' = held \o [i \in DOMAIN o |-> ReleaseOf(o[i])]
    BY <1>2 DEF FollowKeys
  <2>2. S \subseteq Keys
    BY DEF HoldTypeOK
  <2>3. Cardinality(S) \in Nat
    BY <2>2, KeysAssumption, FS_Subset, FS_CardinalityType
  <2>4. o \in [1..Cardinality(S) -> S]
    BY <2>1 DEF Orders
  <2>5. [i \in DOMAIN o |-> ReleaseOf(o[i])] \in [1..Cardinality(S) -> KeyEvent]
    BY <2>2, <2>4 DEF ReleaseOf, KeyEvent
  <2>6. [i \in DOMAIN o |-> ReleaseOf(o[i])] \in Seq(KeyEvent)
    <3>1. PICK g : g = [i \in DOMAIN o |-> ReleaseOf(o[i])]
      OBVIOUS
    <3>2. g \in [1..Cardinality(S) -> KeyEvent]
      BY <2>5, <3>1
    <3> HIDE DEF S
    <3>3. g \in Seq(KeyEvent)
      BY <2>3, <3>2, SeqDef
    <3> QED
      BY <3>1, <3>3
  <2>7. held' \in Seq(KeyEvent)
    BY <2>1, <2>6, ConcatProperties DEF HoldTypeOK
  <2> QED
    BY <1>2, <2>7 DEF FollowKeys, HoldTypeOK
<1> QED BY <1>1, <1>2

-----------------------------------------------------------------------------
(* What the worker's steps leave alone *)

\* The worker goes on at l, which is no step of the backend's that sends, and is
\* in a correction only if the worker was.
GoesOn(l) ==
    /\ pc' = [pc EXCEPT !["worker"] = l]
    /\ l \in Labels \ {"send", "submit", "sent"}
    /\ l \in Correcting => pc["worker"] \in Correcting

ThenKept == then' = then \/ \E l \in Returns : then' = [then EXCEPT !["worker"] = l]

\* The worker is at an event, or may take one: not after _running was cleared.
Awake == pc["worker"] \in Labels \ {"sent"} /\ (Ready => running \/ waiting)

\* A step on the worker's own books.
Books ==
    /\ Awake
    /\ UNCHANGED <<quietVars, item>>
    /\ \E l \in Labels : GoesOn(l)
    /\ ThenKept
    /\ releases' \in [Threads -> 0..3]
    /\ outcome' \in [Threads -> {"yes", "refused", "failed"}]
    /\ overflow' \in BOOLEAN
    /\ odd \subseteq odd' /\ odd' \subseteq Oddities
    /\ running' = running

\* A call to SendInput with the word or the keys after it.
Injects ==
    /\ pc["worker"] \in Correcting
    /\ UNCHANGED injecting
    /\ \E l \in Correcting \cup {"release"} : pc' = [pc EXCEPT !["worker"] = l]
    /\ held' \in Seq(KeyEvent) /\ prior' \subseteq Keys /\ pressed' \subseteq Keys
    /\ winDown' \subseteq Keys /\ failures' \in Nat
    /\ releases' \in [Threads -> 0..3]
    /\ outcome' \in [Threads -> {"yes", "refused", "failed"}]
    /\ overflow' \in BOOLEAN
    /\ odd \subseteq odd' /\ odd' \subseteq Oddities

WorkerBooks ==
    \/ GetEvent \/ HandleEvent \/ ExpireAction \/ PollCurrentGroup \/ PauseCorrect
    \/ CheckFocus \/ FieldRefuses \/ CollectLate \/ RefillQueue \/ CheckPlace \/ Landed

LEMMA ClearWordGoesOn ==
    ASSUME HoldTypeOK, NEW l \in {"ready", "handle"}, ClearWord(l)
    PROVE  (\E m \in Labels : GoesOn(m)) /\ ThenKept
BY DEF ClearWord, Call, Worker, GoesOn, ThenKept, Labels, Returns, Correcting

LEMMA MaybeExecuteGoesOn ==
    ASSUME HoldTypeOK, NEW down, MaybeExecute(down)
    PROVE  /\ \E m \in Labels : GoesOn(m)
           /\ ThenKept
           /\ outcome' \in [Threads -> {"yes", "refused", "failed"}]
BY DEF MaybeExecute, Call, Worker, GoesOn, ThenKept, Labels, Returns, Correcting, HoldTypeOK

LEMMA GetEventBooks ==
    ASSUME HoldTypeOK, GetEvent
    PROVE  Books
BY DEF GetEvent, Books, Awake, Ready, Call, Worker, GoesOn, ThenKept, Labels, Returns, Correcting,
   HoldTypeOK, hiddenVars, quietVars

LEMMA HandleEventBooks ==
    ASSUME HoldTypeOK, HandleEvent
    PROVE  Books
<1> USE DEF handled, queueVars, hiddenVars, runVars, Awake, Ready
<1>1. CASE HandlePointer
  BY <1>1, ClearWordGoesOn DEF HandlePointer, Books, HoldTypeOK, Labels
<1>2. CASE HandleSuspended
  BY <1>2, ClearWordGoesOn DEF HandleSuspended, Books, HoldTypeOK, Worker, GoesOn, ThenKept, Labels,
     Correcting
<1>3. CASE HandlePromptEnter
  BY <1>3 DEF HandlePromptEnter, Handles, Books, HoldTypeOK, Call, Worker, GoesOn, ThenKept, Labels,
     Returns, Correcting
<1>4. CASE HandleLetter
  BY <1>4 DEF HandleLetter, Handles, Books, HoldTypeOK, Worker, GoesOn, ThenKept, Labels, Correcting
<1>5. CASE HandleBoundary
  BY <1>5 DEF HandleBoundary, Handles, Books, HoldTypeOK, Worker, GoesOn, ThenKept, Labels, Correcting
<1>6. CASE HandleAction
  BY <1>6 DEF HandleAction, Handles, Books, HoldTypeOK, Worker, GoesOn, ThenKept, Labels, Correcting
<1>7. CASE HandleDelivered
  BY <1>7, ClearWordGoesOn DEF HandleDelivered, Handles, Books, HoldTypeOK, Labels
<1>8. CASE HandleRelease
  BY <1>8, MaybeExecuteGoesOn DEF HandleRelease, Handles, Books, HoldTypeOK, Labels
<1> QED
  BY <1>1, <1>2, <1>3, <1>4, <1>5, <1>6, <1>7, <1>8 DEF HandleEvent

LEMMA TimersBooks ==
    ASSUME HoldTypeOK, ExpireAction \/ PollCurrentGroup \/ PauseCorrect
    PROVE  Books
<1> USE DEF timed, queueVars, hiddenVars, Awake, Ready, Idle
<1>1. CASE ExpireAction
  BY <1>1, ClearWordGoesOn, MaybeExecuteGoesOn DEF ExpireAction, Books, HoldTypeOK, Labels
<1>2. CASE PollCurrentGroup
  BY <1>2, ClearWordGoesOn DEF PollCurrentGroup, Books, HoldTypeOK, Labels
<1>3. CASE PauseCorrect
  BY <1>3 DEF PauseCorrect, PruneStalePresses, Books, HoldTypeOK, Call, Worker, GoesOn, ThenKept, Labels, Returns,
     Correcting
<1> QED
  BY <1>1, <1>2, <1>3

LEMMA CorrectionBooks ==
    ASSUME HoldTypeOK,
           CheckFocus \/ FieldRefuses \/ CollectLate \/ RefillQueue \/ CheckPlace \/ Landed
    PROVE  Books
<1> USE DEF Awake, Ready
<1>1. CASE CheckFocus
  BY <1>1, ClearWordGoesOn DEF CheckFocus, Books, HoldTypeOK, Worker, GoesOn, ThenKept, Labels,
     Correcting, hiddenVars, queueVars, runVars
<1>2. CASE FieldRefuses
  BY <1>2, ClearWordGoesOn DEF FieldRefuses, Books, HoldTypeOK, Labels, handled, hiddenVars,
     queueVars, runVars
<1>3. CASE CollectLate
  BY <1>3 DEF CollectLate, Remember, Books, HoldTypeOK, Oddities, Worker, GoesOn, ThenKept, Labels,
     Correcting, quietVars, runVars
<1>4. CASE RefillQueue
  <2>1. \/ (Settle("failed") \/ Settle("refused")) /\ Releases(1)
        \/ Worker("check") /\ UNCHANGED <<outcome, releases>>
    BY <1>4 DEF RefillQueue
  <2>2. \E l \in Labels : GoesOn(l)
    BY <1>4, <2>1 DEF RefillQueue, Releases, Worker, GoesOn, Labels, Correcting
  <2>3. /\ releases' \in [Threads -> 0..3]
        /\ outcome' \in [Threads -> {"yes", "refused", "failed"}]
    BY <2>1 DEF Settle, Releases, HoldTypeOK
  <2>4. odd \subseteq odd' /\ odd' \subseteq Oddities
    BY <1>4 DEF RefillQueue, Remember, Oddities, HoldTypeOK
  <2>5. UNCHANGED <<quietVars, item, then, overflow, running>> /\ pc["worker"] = "refill"
    BY <1>4 DEF RefillQueue, runVars
  <2> QED
    BY <2>2, <2>3, <2>4, <2>5 DEF Books, ThenKept, HoldTypeOK, Labels
<1>5. CASE CheckPlace
  BY <1>5 DEF CheckPlace, Settle, Releases, Books, HoldTypeOK, Worker, GoesOn, ThenKept, Labels,
     Correcting, hiddenVars, queueVars, engineVars, runVars
<1>6. CASE Landed
  BY <1>6, ClearWordGoesOn DEF Landed, Books, HoldTypeOK, Call, Worker, GoesOn, ThenKept, Labels,
     Returns, Correcting, hiddenVars, queueVars, runVars
<1> QED
  BY <1>1, <1>2, <1>3, <1>4, <1>5, <1>6

LEMMA TypingInjects ==
    ASSUME HoldTypeOK, pc["worker"] \in {"erase", "type", "retype", "restore"},
           NEW base, NEW s, TypeInto(base, s)
    PROVE  /\ held' \in Seq(KeyEvent) /\ prior' \subseteq Keys /\ pressed' \subseteq Keys
           /\ winDown' \subseteq Keys
BY FollowTypes DEF TypeInto, HoldTypeOK

LEMMA ReleasesTypes ==
    ASSUME HoldTypeOK, NEW n \in 1..3, Releases(n)
    PROVE  /\ releases' \in [Threads -> 0..3]
           /\ pc' = [pc EXCEPT !["worker"] = "release"]
<1>1. n \in 0..3
  OBVIOUS
<1>2. releases' = [releases EXCEPT !["worker"] = n]
  BY DEF Releases
<1>3. releases' \in [Threads -> 0..3]
  BY <1>1, <1>2 DEF HoldTypeOK
<1> QED
  BY <1>3 DEF Releases, Worker

LEMMA InjectionInjects ==
    ASSUME HoldTypeOK, Erase \/ EraseAndType \/ TypeWord \/ Retype \/ InjectionFails
    PROVE  Injects
<1> USE DEF Injects, Correcting
<1>1. CASE Erase
  BY <1>1 DEF Erase, Worker, HoldTypeOK, queueVars
<1>2. CASE EraseAndType
  BY <1>2, TypingInjects DEF EraseAndType, AfterTyping, Releases, Worker, HoldTypeOK, queueVars
<1>3. CASE TypeWord
  <2>1. /\ held' \in Seq(KeyEvent) /\ prior' \subseteq Keys /\ pressed' \subseteq Keys
        /\ winDown' \subseteq Keys
    BY <1>3, TypingInjects DEF TypeWord
  <2>2. UNCHANGED <<injecting, queueVars, outcome, failures, odd>>
    BY <1>3 DEF TypeWord
  <2>3. /\ \E l \in Correcting \cup {"release"} : pc' = [pc EXCEPT !["worker"] = l]
        /\ releases' \in [Threads -> 0..3]
    BY <1>3 DEF TypeWord, AfterTyping, Releases, Worker, HoldTypeOK
  <2> QED
    BY <1>3, <2>1, <2>2, <2>3 DEF TypeWord, HoldTypeOK, queueVars
<1>4. CASE Retype
  <2>1. /\ held' \in Seq(KeyEvent) /\ prior' \subseteq Keys /\ pressed' \subseteq Keys
        /\ winDown' \subseteq Keys
    BY <1>4, TypingInjects DEF Retype
  <2>2. overflow' \in BOOLEAN /\ odd \subseteq odd' /\ odd' \subseteq Oddities
    BY <1>4 DEF Retype, Remember, HoldTypeOK, Oddities, queueVars
  <2>3. UNCHANGED <<injecting, failures, outcome>>
    BY <1>4 DEF Retype
  <2>4. /\ \E l \in Correcting \cup {"release"} : pc' = [pc EXCEPT !["worker"] = l]
        /\ releases' \in [Threads -> 0..3]
    <3>1. Releases(3)
      BY <1>4 DEF Retype
    <3> QED BY <3>1, ReleasesTypes
  <2> QED
    BY <1>4, <2>1, <2>2, <2>3, <2>4 DEF Retype, HoldTypeOK
<1>5. CASE InjectionFails
  <2>1. \/ Releases(3) \/ Releases(2)
        \/ Worker("restore") /\ UNCHANGED releases
    BY <1>5 DEF InjectionFails
  <2>2. /\ \E l \in Correcting \cup {"release"} : pc' = [pc EXCEPT !["worker"] = l]
        /\ releases' \in [Threads -> 0..3]
    <3>1. CASE Releases(3) \/ Releases(2)
      BY <3>1, ReleasesTypes
    <3>2. CASE Worker("restore") /\ UNCHANGED releases
      BY <3>2 DEF Worker, HoldTypeOK
    <3> QED BY <2>1, <3>1, <3>2
  <2>3. outcome' \in [Threads -> {"yes", "refused", "failed"}] /\ failures' \in Nat
    <3>1. Settle("failed") /\ failures' = failures + 1
      BY <1>5 DEF InjectionFails
    <3>2. failures' \in Nat
      BY <3>1 DEF HoldTypeOK
    <3>3. outcome' \in [Threads -> {"yes", "refused", "failed"}]
      BY <3>1 DEF Settle, HoldTypeOK
    <3> QED BY <3>2, <3>3
  <2>4. odd \subseteq odd' /\ odd' \subseteq Oddities
    BY <1>5 DEF InjectionFails, Remember, HoldTypeOK, Oddities
  <2> QED
    BY <1>5, <2>2, <2>3, <2>4 DEF InjectionFails, HoldTypeOK, queueVars
<1> QED
  BY <1>1, <1>2, <1>3, <1>4, <1>5

-----------------------------------------------------------------------------
(* HoldTypeOK is invariant *)

\* Every step, by what it leaves alone.
LEMMA StepCases ==
    ASSUME HoldTypeOK, [Next]_vars
    PROVE  \/ BackendStep(User) \/ BackendStep(RuleWindowReports) \/ BackendStep(HookStep)
           \/ \E t \in Threads : BackendStep(ReleaseStep(t)) \/ BackendStep(ActionStep(t))
           \/ Books \/ HoldInput \/ Injects \/ Stop \/ Unhook
           \/ UNCHANGED vars
<1>1. CASE Next
  <2>1. CASE \E t \in Threads : BackendStep(Caller(t))
    BY <2>1 DEF BackendStep, Caller
  <2>2. CASE WorkerStep
    BY <2>2, GetEventBooks, HandleEventBooks, CorrectionBooks, InjectionInjects
       DEF WorkerStep, Correction
  <2>3. CASE ExpireAction \/ PollCurrentGroup \/ PauseCorrect
    BY <2>3, TimersBooks
  <2> QED
    BY <1>1, <2>1, <2>2, <2>3 DEF Next
<1> QED
  BY <1>1

\* The hook's answer lets a waiting caller go on; nobody else moves.
LEMMA HookCarries ==
    ASSUME TypeInv, BackendStep(HookStep)
    PROVE  \A t \in Threads : Carries(t)'
<1>1. item' = item /\ (pc' = pc \/ \E t \in Threads : pc' = [pc EXCEPT ![t] = "loop"])
  BY DEF BackendStep, HookStep, HookLock, HookTrack, AnswerRelease, AnswerRepeat, AnswerPress,
     AnswerDefers, HookDefer, Answered, callerVars
<1> QED
  BY <1>1 DEF TypeInv, HoldTypeOK, Carries

LEMMA ReleaseCarries ==
    ASSUME TypeInv, NEW t \in Threads, BackendStep(ReleaseStep(t))
    PROVE  \A u \in Threads : Carries(u)'
<1> SUFFICES ASSUME NEW u \in Threads
             PROVE  Carries(u)'
  OBVIOUS
<1> USE DEF TypeInv
<1>1. CASE u # t
  <2>1. pc'[u] = pc[u] /\ item'[u] = item[u]
    BY <1>1 DEF BackendStep, ReleaseStep, Release, LoopBehindAction, Loop, Send, SendFails, Finally,
       EndRelease, Take, Goto, HoldTypeOK
  <2> QED
    BY <2>1 DEF Carries
<1>2. CASE u = t
  <2>1. CASE Release(t) \/ Finally(t)
    BY <1>2, <2>1, EndReleaseTypes DEF Release, Finally, Goto, Carries, HoldTypeOK, Returns
  <2>2. CASE LoopBehindAction(t) \/ Loop(t)
    <3>1. CASE \E i \in DOMAIN held : Take(t, i)
      BY <1>2, <3>1, TakeTypes DEF Take, Goto, Carries, HoldTypeOK
    <3>2. CASE Goto(t, "finally")
      BY <1>2, <3>2 DEF Goto, Carries, HoldTypeOK
    <3> QED
      BY <2>2, <3>1, <3>2 DEF LoopBehindAction, Loop, PriorReleases, HoldTypeOK
  <2>3. CASE Send(t) \/ SendFails(t)
    BY <1>2, <2>3 DEF Send, SendFails, Goto, Carries, HoldTypeOK
  <2> QED
    BY <2>1, <2>2, <2>3 DEF BackendStep, ReleaseStep
<1> QED BY <1>1, <1>2

LEMMA ActionCarries ==
    ASSUME TypeInv, NEW t \in Threads, BackendStep(ActionStep(t))
    PROVE  \A u \in Threads : Carries(u)'
<1> SUFFICES ASSUME NEW u \in Threads
             PROVE  Carries(u)'
  OBVIOUS
<1> USE DEF TypeInv
<1>1. CASE u # t
  <2>1. pc'[u] = pc[u] /\ item'[u] = item[u]
    BY <1>1 DEF BackendStep, ActionStep, Deliver, Submit, SubmitFails, Cancel, Clear, Goto, HoldTypeOK
  <2> QED
    BY <2>1 DEF Carries
<1>2. CASE u = t
  BY <1>2 DEF BackendStep, ActionStep, Deliver, Submit, SubmitFails, Cancel, Clear, Goto, Carries,
     HoldTypeOK, Returns
<1> QED BY <1>1, <1>2

LEMMA WorkerTypes ==
    ASSUME TypeInv, Books \/ HoldInput \/ Injects \/ Stop \/ Unhook
    PROVE  TypeInv'
<1> USE DEF TypeInv
<1>1. CASE Books
  <2>1. PICK l \in Labels : GoesOn(l)
    BY <1>1 DEF Books
  <2>2. pc' \in [Threads -> Labels] /\ pc'["stop"] = pc["stop"] /\ pc'["worker"] = l
    BY <2>1 DEF GoesOn, HoldTypeOK, Threads
  <2>3. then' \in [Threads -> Returns]
    BY <1>1 DEF Books, ThenKept, HoldTypeOK
  <2>4. HoldTypeOK'
    BY <1>1, <2>2, <2>3 DEF Books, HoldTypeOK, quietVars, hookVars, holdVars, actionVars, userVars,
       windowVars
  <2>5. \A t \in Threads : Carries(t)'
    BY <1>1, <2>1, <2>2 DEF Books, GoesOn, Carries, Threads
  <2> QED BY <2>4, <2>5
<1>2. CASE HoldInput
  BY <1>2 DEF HoldInput, Hold, Here, Worker, Carries, HoldTypeOK, Labels, hookVars, actionVars, userVars,
     windowVars, queueVars
<1>3. CASE Injects
  <2>1. PICK l \in Correcting \cup {"release"} : pc' = [pc EXCEPT !["worker"] = l]
    BY <1>3 DEF Injects
  <2>2. pc' \in [Threads -> Labels] /\ pc'["stop"] = pc["stop"] /\ pc'["worker"] = l
    BY <2>1 DEF HoldTypeOK, Threads, Labels, Correcting
  <2>3. HoldTypeOK'
    BY <1>3, <2>2 DEF Injects, injecting, HoldTypeOK, hookVars, userVars
  <2>4. \A t \in Threads : Carries(t)'
    BY <1>3, <2>2 DEF Injects, injecting, Correcting, Carries, Threads
  <2> QED BY <2>3, <2>4
<1>4. CASE Stop
  BY <1>4 DEF Stop, Remember, Oddities, Carries, HoldTypeOK, Labels, Returns, holdVars, actionVars,
     userVars, windowVars, queueVars
<1>5. CASE Unhook
  BY <1>5 DEF Unhook, Remember, Oddities, Carries, HoldTypeOK, Labels, Returns, holdVars, actionVars,
     userVars, windowVars, queueVars
<1> QED BY <1>1, <1>2, <1>3, <1>4, <1>5

LEMMA TypeInit == Init => TypeInv
<1> SUFFICES ASSUME Init
             PROVE  TypeInv
  OBVIOUS
<1>1. pc \in [Threads -> Labels] /\ then \in [Threads -> Returns]
  BY DEF Init, EngineInit, Labels, Returns
<1>2. releases \in [Threads -> 0..3] /\ item \in [Threads -> KeyEvent \cup {None}]
  BY DEF Init, EngineInit
<1>3. outcome \in [Threads -> {"yes", "refused", "failed"}]
  BY DEF Init, EngineInit
<1>4. focus \in Places /\ holdAt \in [window : Places, epoch : Nat]
  BY DEF Init, EngineInit, Here, Places
<1>5. held \in Seq(KeyEvent) /\ hook \in HookState
  BY DEF Init, EngineInit, HookState
<1>6. HoldTypeOK
  BY <1>1, <1>2, <1>3, <1>4, <1>5 DEF Init, EngineInit, HoldTypeOK
<1>7. \A t \in Threads : Carries(t)
  BY DEF Init, EngineInit, Carries
<1> QED BY <1>6, <1>7 DEF TypeInv

LEMMA TypeStep == TypeInv /\ [Next]_vars => TypeInv'
<1> SUFFICES ASSUME TypeInv, [Next]_vars
             PROVE  TypeInv'
  OBVIOUS
<1> USE DEF TypeInv
<1>1. CASE BackendStep(User)
  <2>1. pc' = pc /\ item' = item
    BY <1>1 DEF BackendStep, User, TypeKey, FocusMoves, Click, callerVars
  <2> QED BY <1>1, <2>1, UserTypes DEF Carries
<1>2. CASE BackendStep(RuleWindowReports)
  BY <1>2 DEF BackendStep, RuleWindowReports, Carries, HoldTypeOK, hookVars, holdVars, actionVars,
     callerVars, userVars, windowVars, queueVars
<1>3. CASE BackendStep(HookStep)
  BY <1>3, HookTypes, HookCarries
<1>4. ASSUME NEW t \in Threads, BackendStep(ReleaseStep(t)) \/ BackendStep(ActionStep(t))
      PROVE  TypeInv'
  BY <1>4, ReleaseTypes, ReleaseCarries, ActionTypes, ActionCarries
<1>5. CASE Books \/ HoldInput \/ Injects \/ Stop \/ Unhook
  BY <1>5, WorkerTypes
<1>6. CASE UNCHANGED vars
  BY <1>6 DEF vars, backendVars, Carries, HoldTypeOK, hookVars, holdVars, actionVars, callerVars,
     userVars, windowVars, queueVars
<1> QED
  BY <1>1, <1>2, <1>3, <1>4, <1>5, <1>6, StepCases

LEMMA TypesHold == Spec => []TypeInv
BY TypeInit, TypeStep, PTL DEF Spec

\* The state of the hook, of the kept keys and of their two callers is well-typed, and
\* no caller is ever told to make more releases than an injection has.
THEOREM HoldTypesHold == Spec => []HoldTypeOK
BY TypesHold, PTL DEF TypeInv

-----------------------------------------------------------------------------
(* What follows a withheld action is kept back *)

LEMMA OddGrows ==
    ASSUME HoldTypeOK, [Next]_vars
    PROVE  odd \subseteq odd'
<1>1. ASSUME BackendStep(User) \/ BackendStep(RuleWindowReports)
      PROVE  odd \subseteq odd'
  BY <1>1 DEF BackendStep, User, TypeKey, FocusMoves, Click, RuleWindowReports, Remember
<1>2. ASSUME BackendStep(HookStep)
      PROVE  odd \subseteq odd'
  BY <1>2 DEF BackendStep, HookStep, HookLock, HookTrack, AnswerRelease, AnswerRepeat, AnswerPress,
     AnswerDefers, HookDefer, Remember
<1>3. ASSUME NEW t \in Threads, BackendStep(ReleaseStep(t)) \/ BackendStep(ActionStep(t))
      PROVE  odd \subseteq odd'
  BY <1>3 DEF BackendStep, ReleaseStep, Release, LoopBehindAction, Loop, Send, SendFails, Finally,
     ActionStep, Deliver, Submit, SubmitFails, Cancel, Clear, Remember
<1>4. ASSUME Books \/ HoldInput \/ Injects \/ Stop \/ Unhook \/ UNCHANGED vars
      PROVE  odd \subseteq odd'
  BY <1>4 DEF Books, HoldInput, Injects, Stop, Unhook, Remember, vars, backendVars
<1> QED
  BY <1>1, <1>2, <1>3, <1>4, StepCases

\* DeferredKeepsHold is not inductive: the hook marks the action only after it began to
\* hold, and the holding must last until then.
DeferInv ==
    "slipped" \notin odd => (deferred # None \/ hook.at = "defer" => holding)

\* The user starts the hook and does nothing else to it.
LEMMA UserHook ==
    ASSUME BackendStep(User) \/ BackendStep(RuleWindowReports)
    PROVE  hook' = hook \/ (hook'.at = "lock" /\ hook'.by = "user")
<1>1. ASSUME NEW k \in Keys, NEW down \in BOOLEAN, TypeKey(k, down)
      PROVE  hook' = hook \/ (hook'.at = "lock" /\ hook'.by = "user")
  <2>1. \/ hook' = hook
        \/ \E ev : hook' = [at |-> "lock", ev |-> ev, by |-> "user"]
    BY <1>1, Zenon DEF TypeKey
  <2> QED BY <2>1
<1>2. CASE Click \/ RuleWindowReports \/ \E w \in Places : FocusMoves(w)
  BY <1>2 DEF Click, RuleWindowReports, FocusMoves, hookVars
<1> QED
  BY <1>1, <1>2 DEF BackendStep, User

LEMMA DeferHook ==
    ASSUME HoldTypeOK, DeferInv, BackendStep(HookStep), odd \subseteq odd'
    PROVE  DeferInv'
<1> USE DEF DeferInv
<1>1. CASE HookLock
  BY <1>1 DEF HookLock, HookAt, IdleHook, actionVars
<1>2. CASE HookTrack
  BY <1>2 DEF HookTrack, HookAt
<1>3. CASE AnswerRelease \/ AnswerRepeat \/ AnswerPress
  BY <1>3 DEF AnswerRelease, AnswerRepeat, AnswerPress, Answered, IdleHook, holdVars, actionVars
<1>4. CASE AnswerDefers
  BY <1>4 DEF AnswerDefers, Hold
<1>5. CASE HookDefer
  BY <1>5 DEF HookDefer, Answered, IdleHook, holdVars
<1> QED
  BY <1>1, <1>2, <1>3, <1>4, <1>5 DEF BackendStep, HookStep

LEMMA DeferCallers ==
    ASSUME HoldTypeOK, DeferInv, odd \subseteq odd', NEW t \in Threads,
           BackendStep(ReleaseStep(t)) \/ BackendStep(ActionStep(t))
    PROVE  DeferInv'
<1> USE DEF DeferInv
<1>1. CASE Release(t) \/ LoopBehindAction(t) \/ SendFails(t)
  BY <1>1 DEF Release, LoopBehindAction, Take, SendFails, hookVars, holdVars, actionVars
<1>2. CASE Loop(t)
  BY <1>2 DEF Loop, Take, Remember, Slips, hookVars, actionVars
<1>3. CASE Send(t)
  BY <1>3 DEF Send, holdVars, actionVars
<1>4. CASE Finally(t)
  BY <1>4 DEF Finally, Remember, Slips, hookVars, actionVars
<1>5. CASE ActionStep(t)
  BY <1>5 DEF ActionStep, Deliver, Submit, SubmitFails, Cancel, Clear, hookVars, holdVars, actionVars
<1> QED
  BY <1>1, <1>2, <1>3, <1>4, <1>5 DEF BackendStep, ReleaseStep

LEMMA DeferStep == TypeInv /\ DeferInv /\ [Next]_vars => DeferInv'
<1> SUFFICES ASSUME TypeInv, DeferInv, [Next]_vars
             PROVE  DeferInv'
  OBVIOUS
<1> HoldTypeOK /\ odd \subseteq odd'
  BY OddGrows DEF TypeInv
<1>1. CASE BackendStep(User) \/ BackendStep(RuleWindowReports)
  <2>1. deferred' = deferred /\ holding' = holding
    BY <1>1 DEF BackendStep, User, TypeKey, FocusMoves, Click, RuleWindowReports, holdVars, actionVars
  <2>2. hook' = hook \/ hook'.at = "lock"
    BY <1>1, UserHook
  <2> QED BY <2>1, <2>2 DEF DeferInv
<1>2. CASE BackendStep(HookStep)
  BY <1>2, DeferHook
<1>3. ASSUME NEW t \in Threads, BackendStep(ReleaseStep(t)) \/ BackendStep(ActionStep(t))
      PROVE  DeferInv'
  BY <1>3, DeferCallers
<1>4. CASE Books \/ Injects \/ UNCHANGED vars
  BY <1>4 DEF Books, Injects, injecting, quietVars, vars, backendVars, DeferInv, hookVars, holdVars,
     actionVars
<1>5. CASE HoldInput \/ Stop \/ Unhook
  BY <1>5 DEF HoldInput, Hold, Stop, Unhook, DeferInv, hookVars, holdVars, actionVars
<1> QED
  BY <1>1, <1>2, <1>3, <1>4, <1>5, StepCases

\* While an action is withheld the keys after it are kept back, in every run in which no
\* release ends the holding between the hook's hold_input and its note of the action.
THEOREM DeferredStaysHeld == Spec => []DeferredKeepsHold
<1>1. Init => DeferInv
  BY DEF Init, EngineInit, DeferInv, IdleHook
<1>2. DeferInv => DeferredKeepsHold
  BY DEF DeferInv, DeferredKeepsHold
<1> QED
  BY <1>1, <1>2, DeferStep, TypesHold, PTL DEF Spec

-----------------------------------------------------------------------------
(* An action is sent only where it was typed *)

PlaceInv == \A t \in Threads : pc[t] = "submit" /\ "moved" \notin odd => Here = holdAt

LEMMA PlaceStep == TypeInv /\ PlaceInv /\ [Next]_vars => PlaceInv'
<1> SUFFICES ASSUME TypeInv, PlaceInv, [Next]_vars, NEW t \in Threads,
                    pc'[t] = "submit", "moved" \notin odd'
             PROVE  Here' = holdAt'
  BY DEF PlaceInv
<1> HoldTypeOK /\ "moved" \notin odd
  BY OddGrows DEF TypeInv
<1>1. CASE BackendStep(User)
  BY <1>1 DEF BackendStep, User, TypeKey, FocusMoves, Click, PlaceInv, BetweenCheckAndInput, Remember,
     Here, holdVars, callerVars
<1>2. CASE BackendStep(RuleWindowReports)
  BY <1>2 DEF BackendStep, RuleWindowReports, PlaceInv, Here, holdVars, callerVars, windowVars
<1>3. CASE BackendStep(HookStep)
  <2>1. pc[t] = "submit" /\ Here' = Here
    BY <1>3 DEF BackendStep, HookStep, HookLock, HookTrack, AnswerRelease, AnswerRepeat, AnswerPress,
       AnswerDefers, HookDefer, Answered, Here, HoldTypeOK, callerVars, windowVars
  <2>2. holdAt' = holdAt \/ holdAt' = Here
    BY <1>3 DEF BackendStep, HookStep, HookLock, HookTrack, AnswerRelease, AnswerRepeat, AnswerPress,
       AnswerDefers, HookDefer, Hold, holdVars
  <2> QED BY <2>1, <2>2 DEF PlaceInv
<1>4. ASSUME NEW u \in Threads, BackendStep(ReleaseStep(u))
      PROVE  Here' = holdAt'
  <2>1. Here' = Here /\ holdAt' = holdAt
    BY <1>4 DEF BackendStep, ReleaseStep, Release, LoopBehindAction, Loop, Take, Send, SendFails,
       Finally, Here, holdVars, windowVars
  <2>2. \E l \in Labels \ {"submit"} : pc' = [pc EXCEPT ![u] = l]
    BY <1>4, EndReleaseTypes DEF BackendStep, ReleaseStep, Release, LoopBehindAction, Loop, Take, Send,
       SendFails, Finally, Goto, Labels, Returns
  <2>3. pc[t] = "submit"
    BY <2>2 DEF HoldTypeOK
  <2> QED BY <2>1, <2>3 DEF PlaceInv
<1>5. ASSUME NEW u \in Threads, BackendStep(ActionStep(u))
      PROVE  Here' = holdAt'
  <2>1. Here' = Here /\ holdAt' = holdAt
    BY <1>5 DEF BackendStep, ActionStep, Deliver, Submit, SubmitFails, Cancel, Clear, Here, holdVars,
       windowVars
  <2>2. pc[t] = "submit" \/ Here = holdAt
    BY <1>5 DEF BackendStep, ActionStep, Deliver, Submit, SubmitFails, Cancel, Clear, Goto, HoldTypeOK,
       Returns
  <2> QED BY <2>1, <2>2 DEF PlaceInv
<1>6. CASE Books
  BY <1>6 DEF Books, GoesOn, PlaceInv, HoldTypeOK, Here, quietVars, holdVars, windowVars
<1>7. CASE HoldInput
  BY <1>7 DEF HoldInput, Hold, Worker, PlaceInv, HoldTypeOK, Here, windowVars
<1>8. CASE Injects
  BY <1>8 DEF Injects, injecting, Correcting, PlaceInv, HoldTypeOK, Here
<1>9. CASE Stop \/ Unhook
  BY <1>9 DEF Stop, Unhook, PlaceInv, HoldTypeOK, Here, holdVars, windowVars
<1>10. CASE UNCHANGED vars
  BY <1>10 DEF vars, backendVars, PlaceInv, Here, holdVars, callerVars, windowVars
<1> QED
  BY <1>1, <1>2, <1>3, <1>4, <1>5, <1>6, <1>7, <1>8, <1>9, <1>10, StepCases

\* The place of the holding is where the action was withheld, but for one that was withheld
\* again while the holding of another place went on.
TypedInv ==
    odd \cap {"moved", "slipped", "stale"} = {} =>
        /\ deferred # None \/ hook.at = "defer" => holdAt = typedAt
        /\ \A t \in Threads : pc[t] = "submit" => Here = typedAt

LEMMA TypedStep == TypeInv /\ DeferInv /\ PlaceInv /\ TypedInv /\ [Next]_vars => TypedInv'
<1> SUFFICES ASSUME TypeInv, DeferInv, PlaceInv, TypedInv, [Next]_vars,
                    odd' \cap {"moved", "slipped", "stale"} = {}
             PROVE  /\ deferred' # None \/ hook'.at = "defer" => holdAt' = typedAt'
                    /\ \A t \in Threads : pc'[t] = "submit" => Here' = typedAt'
  BY DEF TypedInv
<1> HoldTypeOK /\ odd \cap {"moved", "slipped", "stale"} = {}
  BY OddGrows DEF TypeInv
<1>0. /\ deferred # None \/ hook.at = "defer" => holdAt = typedAt /\ holding
      /\ \A t \in Threads : pc[t] = "submit" => Here = typedAt
  BY DEF TypedInv, DeferInv
<1>1. CASE BackendStep(User) \/ BackendStep(RuleWindowReports)
  <2>1. /\ holdAt' = holdAt /\ typedAt' = typedAt /\ deferred' = deferred /\ pc' = pc
        /\ hook' = hook \/ hook'.at = "lock"
    BY <1>1, UserHook DEF BackendStep, User, TypeKey, FocusMoves, Click, RuleWindowReports, holdVars,
       userVars, actionVars, callerVars
  <2>2. \A t \in Threads : pc[t] = "submit" => Here' = Here
    BY <1>1 DEF BackendStep, User, TypeKey, FocusMoves, Click, RuleWindowReports, BetweenCheckAndInput,
       Remember, Here, windowVars
  <2> QED
    BY <1>0, <2>1, <2>2
<1>2. CASE BackendStep(HookStep)
  <2>1. Here' = Here /\ \A t \in Threads : pc'[t] = "submit" => pc[t] = "submit"
    BY <1>2 DEF BackendStep, HookStep, HookLock, HookTrack, AnswerRelease, AnswerRepeat, AnswerPress,
       AnswerDefers, HookDefer, Answered, Here, HoldTypeOK, callerVars, windowVars
  <2>2. CASE AnswerDefers
    <3>1. typedAt' = Here /\ holdAt' = Here
      BY <2>2 DEF AnswerDefers, Remember, Stale, Hold
    <3> QED
      BY <2>1, <3>1
  <2>3. CASE ~AnswerDefers
    <3>1. holdAt' = holdAt /\ typedAt' = typedAt
      BY <1>2, <2>3 DEF BackendStep, HookStep, HookLock, HookTrack, AnswerRelease, AnswerRepeat,
         AnswerPress, HookDefer, holdVars, userVars
    <3>2. deferred' # None \/ hook'.at = "defer" => deferred # None \/ hook.at = "defer"
      BY <1>2, <2>3 DEF BackendStep, HookStep, HookLock, HookTrack, AnswerRelease, AnswerRepeat,
         AnswerPress, HookDefer, HookAt, IdleHook, Answered, actionVars
    <3> QED
      BY <1>0, <2>1, <3>1, <3>2
  <2> QED
    BY <2>2, <2>3
<1>3. ASSUME NEW u \in Threads, BackendStep(ReleaseStep(u)) \/ BackendStep(ActionStep(u))
      PROVE  /\ deferred' # None \/ hook'.at = "defer" => holdAt' = typedAt'
             /\ \A t \in Threads : pc'[t] = "submit" => Here' = typedAt'
  <2>1. Here' = Here /\ holdAt' = holdAt /\ typedAt' = typedAt
    BY <1>3 DEF BackendStep, ReleaseStep, Release, LoopBehindAction, Loop, Take, Send, SendFails,
       Finally, ActionStep, Deliver, Submit, SubmitFails, Cancel, Clear, Here, holdVars, userVars,
       windowVars
  <2>2. deferred' # None \/ hook'.at = "defer" => deferred # None \/ hook.at = "defer"
    BY <1>3 DEF BackendStep, ReleaseStep, Release, LoopBehindAction, Loop, Take, Send, SendFails,
       Finally, ActionStep, Deliver, Submit, SubmitFails, Cancel, Clear, actionVars, hookVars
  <2>3. CASE Deliver(u)
    <3>1. \A t \in Threads : pc'[t] = "submit" => pc[t] = "submit" \/ (deferred # None /\ Here = holdAt)
      BY <2>3 DEF Deliver, Goto, HoldTypeOK, Returns
    <3> QED
      BY <1>0, <2>1, <2>2, <3>1
  <2>4. CASE ~Deliver(u)
    <3>1. \E l \in Labels \ {"submit"} : pc' = [pc EXCEPT ![u] = l]
      BY <1>3, <2>4, EndReleaseTypes DEF BackendStep, ReleaseStep, Release, LoopBehindAction, Loop,
         Take, Send, SendFails, Finally, ActionStep, Submit, SubmitFails, Cancel, Clear, Goto, Labels,
         Returns, HoldTypeOK
    <3>2. \A t \in Threads : pc'[t] = "submit" => pc[t] = "submit"
      BY <3>1 DEF HoldTypeOK
    <3> QED
      BY <1>0, <2>1, <2>2, <3>2
  <2> QED
    BY <2>3, <2>4
<1>4. CASE Books \/ HoldInput \/ Injects \/ Stop \/ Unhook \/ UNCHANGED vars
  <2>1. Here' = Here /\ typedAt' = typedAt /\ deferred' = deferred /\ hook' = hook
    BY <1>4 DEF Books, HoldInput, Injects, injecting, Stop, Unhook, vars, backendVars, quietVars,
       hookVars, userVars, windowVars, actionVars, Here
  <2>2. \A t \in Threads : pc'[t] = "submit" => pc[t] = "submit"
    BY <1>4 DEF Books, GoesOn, HoldInput, Injects, Correcting, Stop, Unhook, Worker, vars,
       backendVars, callerVars, HoldTypeOK
  <2>3. holding => holdAt' = holdAt
    BY <1>4 DEF Books, HoldInput, Hold, Injects, injecting, Stop, Unhook, vars, backendVars, quietVars,
       holdVars
  <2> QED
    BY <1>0, <2>1, <2>2, <2>3
<1> QED
  BY <1>1, <1>2, <1>3, <1>4, StepCases

\* A withheld Enter or Tab is sent only while the window and the pointer are as they were
\* when it was withheld, but for a change between the check and the sending, and for an
\* action withheld while the holding of another place went on.
THEOREM ActionsGoWhereTyped == Spec => ActionWhereTyped
<1>1. Init => DeferInv /\ PlaceInv /\ TypedInv
  BY DEF Init, EngineInit, DeferInv, PlaceInv, TypedInv, IdleHook
<1>2. TypeInv /\ TypedInv /\ [Next]_vars
        => [\A t \in Threads :
              Submits(t) /\ odd' \cap {"moved", "slipped", "stale"} = {} => Here = typedAt]_vars
  BY OddGrows DEF TypeInv, TypedInv, Submits
<1> QED
  BY <1>1, <1>2, DeferStep, PlaceStep, TypedStep, TypesHold, PTL DEF Spec, ActionWhereTyped

-----------------------------------------------------------------------------
(* Corrections hold the keyboard *)

\* A caller whose key the hook is at waits for the hook; and once the program has been
\* told to stop, the worker starts nothing, unless it was at something then.
WaitsForHook == hook.at # "idle" /\ hook.by \in Threads => pc[hook.by] = "sent"
StoppedWorker ==
    pc["stop"] # "running" /\ "cut" \notin odd => Ready /\ ~running /\ ~waiting
CorrectInv == WaitsForHook /\ StoppedWorker /\ CorrectionHolds

LEMMA CorrectUser ==
    ASSUME TypeInv, CorrectInv, odd \subseteq odd',
           BackendStep(User) \/ BackendStep(RuleWindowReports)
    PROVE  CorrectInv'
<1>1. pc' = pc /\ holding' = holding /\ running' = running /\ waiting' = waiting
  BY DEF BackendStep, User, TypeKey, FocusMoves, Click, RuleWindowReports, callerVars, holdVars,
     engineVars, runVars
<1>2. hook' = hook \/ hook'.by = "user"
  BY UserHook
<1> QED
  BY <1>1, <1>2 DEF CorrectInv, WaitsForHook, StoppedWorker, CorrectionHolds, Ready, Threads

LEMMA CorrectHook ==
    ASSUME TypeInv, CorrectInv, odd \subseteq odd', BackendStep(HookStep)
    PROVE  CorrectInv'
<1> USE DEF BackendStep, HookStep, HookLock, HookTrack, AnswerRelease, AnswerRepeat, AnswerPress,
        AnswerDefers, HookDefer
<1>1. running' = running /\ waiting' = waiting /\ (holding => holding')
  BY DEF Hold, holdVars, engineVars, runVars
<1>2. \/ hook' = IdleHook /\ pc' = pc
      \/ hook'.by = hook.by /\ pc' = pc
      \/ Answered
  BY DEF HookAt, callerVars
<1>3. hook.at # "idle"
  OBVIOUS
<1>4. CASE pc' = pc
  BY <1>1, <1>2, <1>3, <1>4 DEF Answered, IdleHook, CorrectInv, WaitsForHook, StoppedWorker,
     CorrectionHolds, Ready
<1>5. CASE Answered /\ hook.by \in Threads
  <2>1. pc[hook.by] = "sent" /\ pc' = [pc EXCEPT ![hook.by] = "loop"] /\ hook' = IdleHook
    BY <1>3, <1>5 DEF Answered, CorrectInv, WaitsForHook
  <2>2. CASE hook.by = "worker"
    BY <1>1, <2>1, <2>2 DEF CorrectInv, WaitsForHook, StoppedWorker, CorrectionHolds, Ready,
       Correcting, IdleHook, TypeInv, HoldTypeOK, Threads
  <2>3. CASE hook.by = "stop"
    BY <1>1, <2>1, <2>3 DEF CorrectInv, WaitsForHook, StoppedWorker, CorrectionHolds, Ready,
       Correcting, IdleHook, TypeInv, HoldTypeOK, Threads
  <2> QED BY <1>5, <2>2, <2>3 DEF Threads
<1> QED
  BY <1>2, <1>4, <1>5 DEF Answered

LEMMA CorrectCallers ==
    ASSUME TypeInv, CorrectInv, odd \subseteq odd', NEW t \in Threads,
           BackendStep(ReleaseStep(t)) \/ BackendStep(ActionStep(t))
    PROVE  CorrectInv'
<1> USE DEF TypeInv
<1>1. running' = running /\ waiting' = waiting
  BY DEF BackendStep, engineVars, runVars
<1>2. \E l \in Labels \ Correcting : pc' = [pc EXCEPT ![t] = l]
  BY EndReleaseTypes DEF BackendStep, ReleaseStep, Release, LoopBehindAction, Loop, Take, Send,
     SendFails, Finally, ActionStep, Deliver, Submit, SubmitFails, Cancel, Clear, Goto, HoldTypeOK,
     Labels, Returns, Correcting
<1>3. pc[t] \in {"release", "loop", "send", "finally", "deliver", "submit", "cancel", "clear"}
  BY DEF BackendStep, ReleaseStep, Release, LoopBehindAction, Loop, Send, SendFails, Finally,
     ActionStep, Deliver, Submit, SubmitFails, Cancel, Clear
<1>4. \/ hook' = hook
      \/ hook'.by = t /\ pc' = [pc EXCEPT ![t] = "sent"]
  BY DEF BackendStep, ReleaseStep, Release, LoopBehindAction, Loop, Send, SendFails, Finally,
     ActionStep, Deliver, Submit, SubmitFails, Cancel, Clear, Goto, hookVars
<1>5. WaitsForHook'
  BY <1>2, <1>3, <1>4 DEF WaitsForHook, CorrectInv, HoldTypeOK
<1>6. CASE t = "worker"
  BY <1>1, <1>2, <1>3, <1>5, <1>6 DEF CorrectInv, StoppedWorker, CorrectionHolds, Ready, HoldTypeOK,
     Threads
<1>7. CASE t = "stop"
  BY <1>1, <1>2, <1>3, <1>5, <1>7 DEF CorrectInv, StoppedWorker, CorrectionHolds, Correcting, Ready,
     HoldTypeOK, Threads
<1> QED BY <1>6, <1>7 DEF Threads

LEMMA CorrectWorker ==
    ASSUME TypeInv, CorrectInv, odd \subseteq odd', Books \/ Injects \/ HoldInput
    PROVE  CorrectInv'
<1> USE DEF TypeInv
<1>1. hook' = hook /\ pc["worker"] # "sent" /\ (Ready => running \/ waiting)
  BY DEF Books, Awake, quietVars, Injects, injecting, HoldInput, Correcting, Ready, hookVars
<1>2. \E l \in Labels \ {"sent"} : pc' = [pc EXCEPT !["worker"] = l]
  BY DEF Books, GoesOn, Injects, HoldInput, Worker, Labels, Correcting
<1>3. pc'["stop"] = pc["stop"]
  BY <1>2 DEF HoldTypeOK, Threads
<1>4. WaitsForHook'
  BY <1>1, <1>2 DEF CorrectInv, WaitsForHook, HoldTypeOK, Threads
<1>5. StoppedWorker'
  BY <1>1, <1>3 DEF CorrectInv, StoppedWorker
<1>6. CorrectionHolds'
  <2>1. CASE Books \/ Injects
    BY <2>1 DEF Books, GoesOn, Injects, injecting, quietVars, holdVars, CorrectInv, CorrectionHolds,
       HoldTypeOK, Threads
  <2>2. CASE HoldInput
    BY <2>2 DEF HoldInput, Hold, CorrectionHolds
  <2> QED BY <2>1, <2>2
<1> QED BY <1>4, <1>5, <1>6 DEF CorrectInv

LEMMA CorrectStop ==
    ASSUME TypeInv, CorrectInv, odd \subseteq odd', Stop \/ Unhook
    PROVE  CorrectInv'
<1> USE DEF TypeInv, HoldTypeOK, Threads
<1>1. hook' = hook /\ holding' = holding /\ pc' = [pc EXCEPT !["stop"] = "cancel"]
  <2>1. CASE Stop
    BY <2>1 DEF Stop, holdVars
  <2>2. CASE Unhook
    BY <2>2 DEF Unhook, holdVars
  <2> QED BY <2>1, <2>2
<1>2. pc["stop"] \in {"running", "unhook"} /\ pc'["worker"] = pc["worker"]
  BY <1>1 DEF Stop, Unhook
<1>3. WaitsForHook' /\ CorrectionHolds'
  BY <1>1, <1>2 DEF CorrectInv, WaitsForHook, CorrectionHolds
<1>4. StoppedWorker'
  BY <1>1, <1>2 DEF Stop, Unhook, Remember, CorrectInv, StoppedWorker, Ready, engineVars, runVars
<1> QED BY <1>3, <1>4 DEF CorrectInv

LEMMA CorrectStep == TypeInv /\ CorrectInv /\ [Next]_vars => CorrectInv'
<1> SUFFICES ASSUME TypeInv, CorrectInv, [Next]_vars
             PROVE  CorrectInv'
  OBVIOUS
<1>1. odd \subseteq odd'
  BY OddGrows DEF TypeInv
<1>2. CASE UNCHANGED vars
  BY <1>2 DEF vars, backendVars, engineVars, CorrectInv, WaitsForHook, StoppedWorker, CorrectionHolds,
     Ready, hookVars, holdVars, callerVars, runVars
<1> QED
  BY <1>1, <1>2, StepCases, CorrectUser, CorrectHook, CorrectCallers, CorrectWorker, CorrectStop
     DEF TypeInv

\* From the emptying of the queue to the last key of a replacement the hook keeps the
\* user's keys back, in every run in which the program is not stopped meanwhile.
THEOREM CorrectionsHold == Spec => []CorrectionHolds
<1>1. Init => CorrectInv
  BY DEF Init, EngineInit, CorrectInv, WaitsForHook, StoppedWorker, CorrectionHolds, Correcting, IdleHook,
     Threads
<1> QED
  BY <1>1, CorrectStep, TypesHold, PTL DEF Spec, CorrectInv

-----------------------------------------------------------------------------
(* At rest the keyboard is free. It is held only by somebody who will give *)
(* it back - the hook about to note an action, the action, or a caller     *)
(* with a release before it - and after the program was stopped by nobody. *)

\* The steps of release_input and complete_action.
Routine == {"cancel", "deliver", "submit", "clear", "release", "loop", "send", "sent", "finally"}

\* A caller that goes on taking keys out of the buffer until it is empty.
Empties(t) == pc[t] \in Correcting \cup {"release", "loop", "send", "sent"}

\* The stopping thread passes complete_action and release_input, and if no SendInput fails in
\* that, once more: then the hook is gone, and what it withheld is given up before the keys are
\* released. Where a SendInput fails the thread ends.
StopInv ==
    /\ pc["stop"] \in Routine \cup {"running", "unhook", "stopped", "raised"}
    /\ pc["stop"] \in Routine \cup {"raised"} => then["stop"] \in {"unhook", "stopped"}
    /\ pc["stop"] \in {"unhook", "stopped"} => then["stop"] = pc["stop"]
    /\ then["stop"] = "stopped" =>
         /\ ~hooked /\ hook.at = "idle"
         /\ deferred = None \/ pc["stop"] \in {"cancel", "clear"}

\* Who holds the keyboard gives it back, and who keeps a key back sends it. A caller at
\* "finally" sends nothing any more: it is there because the buffer is empty, because an
\* action is withheld, or because SendInput failed.
FreeInv ==
    /\ holding =>
         \/ hook.at = "defer" \/ deferred # None
         \/ \E t \in Threads : Empties(t) \/ ("failed" \in odd /\ pc[t] = "finally")
    /\ held # <<>> /\ "failed" \notin odd => deferred # None \/ \E t \in Threads : Empties(t)

RestInv == WaitsForHook /\ StopInv /\ FreeInv

-----------------------------------------------------------------------------
(* Every step, by what it leaves alone *)

\* A step of the worker on its own books goes on with a correction it is in.
LEMMA BooksEmpty ==
    ASSUME HoldTypeOK, WorkerBooks
    PROVE  /\ pc["worker"] \notin {"release", "loop", "send", "sent", "finally"}
           /\ pc["worker"] \in Correcting => pc'["worker"] \in Correcting \cup {"release"}
<1> USE DEF Ready, Idle, Correcting
<1>1. CASE GetEvent \/ ExpireAction \/ PollCurrentGroup \/ PauseCorrect
  BY <1>1 DEF GetEvent, ExpireAction, PollCurrentGroup, PauseCorrect
<1>2. CASE HandleEvent
  BY <1>2 DEF HandleEvent, HandlePointer, HandleSuspended, HandlePromptEnter, HandleLetter,
     HandleBoundary, HandleAction, HandleDelivered, HandleRelease, Handles
<1>3. CASE CheckFocus \/ FieldRefuses \/ Landed
  BY <1>3 DEF CheckFocus, FieldRefuses, Landed
<1>4. CASE CollectLate \/ RefillQueue \/ CheckPlace
  BY <1>4 DEF CollectLate, RefillQueue, CheckPlace, Worker, Releases, Settle, HoldTypeOK, Threads
<1> QED
  BY <1>1, <1>2, <1>3, <1>4 DEF WorkerBooks

LEMMA WorkerCases ==
    ASSUME HoldTypeOK, [Next]_vars
    PROVE  \/ BackendStep(User) \/ BackendStep(RuleWindowReports) \/ BackendStep(HookStep)
           \/ \E t \in Threads : BackendStep(ReleaseStep(t)) \/ BackendStep(ActionStep(t))
           \/ (WorkerBooks /\ Books) \/ HoldInput \/ Injects \/ Stop \/ Unhook
           \/ UNCHANGED vars
<1>1. CASE Next
  <2>1. CASE \E t \in Threads : BackendStep(Caller(t))
    BY <2>1 DEF BackendStep, Caller
  <2>2. CASE WorkerStep
    BY <2>2, GetEventBooks, HandleEventBooks, CorrectionBooks, InjectionInjects
       DEF WorkerStep, Correction, WorkerBooks
  <2>3. CASE ExpireAction \/ PollCurrentGroup \/ PauseCorrect
    BY <2>3, TimersBooks DEF WorkerBooks
  <2> QED
    BY <1>1, <2>1, <2>2, <2>3 DEF Next
<1> QED
  BY <1>1

-----------------------------------------------------------------------------
(* The stopping thread *)

LEMMA StopUser ==
    ASSUME HoldTypeOK, StopInv, BackendStep(User) \/ BackendStep(RuleWindowReports)
    PROVE  StopInv'
<1>1. UNCHANGED <<pc, then, hooked, deferred>>
  BY DEF BackendStep, User, TypeKey, FocusMoves, Click, RuleWindowReports, hookVars, actionVars,
     callerVars
<1>2. ~hooked => hook' = hook
  <2>1. ASSUME NEW k \in Keys, NEW down \in BOOLEAN, TypeKey(k, down), ~hooked
        PROVE  hook' = hook
    BY <2>1, Zenon DEF TypeKey
  <2>2. CASE Click \/ RuleWindowReports \/ \E w \in Places : FocusMoves(w)
    BY <2>2 DEF Click, RuleWindowReports, FocusMoves, hookVars
  <2> QED
    BY <2>1, <2>2 DEF BackendStep, User
<1> QED
  BY <1>1, <1>2 DEF StopInv

LEMMA StopHook ==
    ASSUME HoldTypeOK, WaitsForHook, StopInv, BackendStep(HookStep)
    PROVE  StopInv'
<1>1. hook.at # "idle" /\ UNCHANGED <<then, hooked>>
  BY DEF BackendStep, HookStep, HookLock, HookTrack, AnswerRelease, AnswerRepeat, AnswerPress,
     AnswerDefers, HookDefer, callerVars
<1>2. pc' = pc \/ (Answered /\ hook.by \in Threads)
  BY DEF BackendStep, HookStep, HookLock, HookTrack, AnswerRelease, AnswerRepeat, AnswerPress,
     AnswerDefers, HookDefer, Answered, callerVars
<1>3. pc'["stop"] = pc["stop"] \/ (pc["stop"] = "sent" /\ pc'["stop"] = "loop")
  BY <1>1, <1>2 DEF Answered, WaitsForHook, HoldTypeOK, Threads
<1> QED
  BY <1>1, <1>3 DEF StopInv, Routine

\* Where a caller's step leads.
LEMMA CallerGoes ==
    ASSUME TypeInv, NEW t \in Threads, BackendStep(ReleaseStep(t)) \/ BackendStep(ActionStep(t))
    PROVE  /\ pc[t] \in Routine \ {"sent"} /\ then' = then /\ hooked' = hooked
           /\ \E l \in Routine \cup {then[t], Back(t)} : pc' = [pc EXCEPT ![t] = l]
           /\ ~hooked => hook' = hook
           /\ deferred' \in {deferred, None}
<1> USE DEF TypeInv, Routine
<1>1. CASE Release(t) \/ Finally(t)
  BY <1>1 DEF Release, Finally, EndRelease, Goto, hookVars, actionVars
<1>2. CASE LoopBehindAction(t) \/ Loop(t)
  BY <1>2 DEF LoopBehindAction, Loop, Take, Goto, hookVars, actionVars
<1>3. CASE Send(t) \/ SendFails(t)
  BY <1>3 DEF Send, SendFails, Goto, hookVars, actionVars
<1>4. CASE ActionStep(t)
  BY <1>4 DEF ActionStep, Deliver, Submit, SubmitFails, Cancel, Clear, Goto, hookVars, actionVars
<1> QED
  BY <1>1, <1>2, <1>3, <1>4 DEF BackendStep, ReleaseStep

\* The stopping thread gives up what is withheld, and goes on only then.
LEMMA StopClears ==
    ASSUME TypeInv, BackendStep(ReleaseStep("stop")) \/ BackendStep(ActionStep("stop")),
           deferred' # None
    PROVE  pc["stop"] \in {"cancel", "clear"} => pc'["stop"] = "clear" /\ pc["stop"] # "clear"
BY DEF BackendStep, ReleaseStep, Release, LoopBehindAction, Loop, Send, SendFails, Finally,
   ActionStep, Deliver, Submit, SubmitFails, Cancel, Clear, Goto, TypeInv, HoldTypeOK, Threads,
   actionVars

LEMMA StopCallers ==
    ASSUME TypeInv, StopInv, NEW t \in Threads,
           BackendStep(ReleaseStep(t)) \/ BackendStep(ActionStep(t))
    PROVE  StopInv'
<1> USE DEF TypeInv, Threads
<1>1. PICK l \in Routine \cup {then[t], Back(t)} : pc' = [pc EXCEPT ![t] = l]
  BY CallerGoes
<1>2. /\ pc[t] \in Routine /\ then' = then /\ hooked' = hooked
      /\ ~hooked => hook' = hook
      /\ deferred' \in {deferred, None}
  BY CallerGoes
<1>3. CASE t = "worker"
  BY <1>1, <1>2, <1>3 DEF StopInv, HoldTypeOK
<1>4. CASE t = "stop"
  <2>1. pc'["stop"] = l
    BY <1>1, <1>4 DEF HoldTypeOK
  <2>2. deferred' = None \/ ~(pc["stop"] \in {"cancel", "clear"}) \/ l = "clear"
    BY <1>4, <2>1, StopClears
  <2>3. /\ Routine \cap {"unhook", "stopped", "raised"} = {} /\ {"clear", "cancel"} \subseteq Routine
        /\ l \in Routine \cup {then["stop"], "raised"}
    BY <1>1, <1>4 DEF Routine, Back
  <2> QED
    BY <1>2, <1>4, <2>1, <2>2, <2>3 DEF StopInv
<1> QED
  BY <1>3, <1>4

LEMMA StopWorker ==
    ASSUME HoldTypeOK, StopInv, Books \/ HoldInput \/ Injects
    PROVE  StopInv'
<1>1. UNCHANGED <<hooked, hook, deferred>>
  BY DEF Books, HoldInput, Injects, injecting, quietVars, hookVars, actionVars
<1>2. pc'["stop"] = pc["stop"] /\ then'["stop"] = then["stop"]
  BY DEF Books, GoesOn, ThenKept, HoldInput, Worker, Injects, injecting, HoldTypeOK, Threads
<1> QED
  BY <1>1, <1>2 DEF StopInv

LEMMA StopStops ==
    ASSUME HoldTypeOK, StopInv, Stop \/ Unhook
    PROVE  StopInv'
BY DEF Stop, Unhook, StopInv, Routine, HoldTypeOK, Threads, actionVars

-----------------------------------------------------------------------------
(* The keyboard *)

LEMMA FreeUser ==
    ASSUME HoldTypeOK, FreeInv, odd \subseteq odd',
           BackendStep(User) \/ BackendStep(RuleWindowReports)
    PROVE  FreeInv'
<1>1. UNCHANGED <<pc, holding, held, deferred>>
  BY DEF BackendStep, User, TypeKey, FocusMoves, Click, RuleWindowReports, holdVars, actionVars,
     callerVars
<1>2. hook.at = "defer" => hook' = hook
  <2>1. ASSUME NEW k \in Keys, NEW down \in BOOLEAN, TypeKey(k, down), hook.at = "defer"
        PROVE  hook' = hook
    BY <2>1, Zenon DEF TypeKey, HookFree
  <2>2. CASE Click \/ RuleWindowReports \/ \E w \in Places : FocusMoves(w)
    BY <2>2 DEF Click, RuleWindowReports, FocusMoves, hookVars
  <2> QED
    BY <2>1, <2>2 DEF BackendStep, User
<1> QED
  BY <1>1, <1>2 DEF FreeInv, Empties

\* Following a key-up adds to a buffer that is not empty.
LEMMA TrackAdds ==
    ASSUME HoldTypeOK, NEW k, TrackRelease(k), held' # <<>>
    PROVE  held # <<>>
BY DEF TrackRelease, PressHeld, HoldTypeOK

LEMMA FollowAdds ==
    ASSUME HoldTypeOK, NEW ks, FollowKeys(ks), held' # <<>>
    PROVE  held # <<>>
<1> SUFFICES ASSUME held = <<>>
             PROVE  held' = <<>>
  OBVIOUS
<1>1. CASE ~hooked
  BY <1>1 DEF FollowKeys
<1>2. CASE hooked
  <2>1. {k \in ks \cap prior : PressHeld(k)} = {}
    BY DEF PressHeld
  <2>2. PICK o \in Orders({}) : held' = held \o [i \in DOMAIN o |-> ReleaseOf(o[i])]
    BY <1>2, <2>1 DEF FollowKeys
  <2>3. DOMAIN o = 1..0
    BY <2>2, FS_EmptySet DEF Orders
  <2>4. [i \in DOMAIN o |-> ReleaseOf(o[i])] = <<>>
    BY <2>3
  <2> QED
    BY <2>2, <2>4
<1> QED
  BY <1>1, <1>2

\* The hook's answer lets a caller go on with its loop.
LEMMA HookEmpties ==
    ASSUME HoldTypeOK, WaitsForHook, BackendStep(HookStep)
    PROVE  \A t \in Threads : /\ Empties(t) => Empties(t)'
                              /\ pc[t] = "finally" => pc'[t] = "finally"
<1>1. hook.at # "idle"
  BY DEF BackendStep, HookStep, HookLock, HookTrack, AnswerRelease, AnswerRepeat, AnswerPress,
     AnswerDefers, HookDefer
<1>2. \/ pc' = pc
      \/ hook.by \in Threads /\ pc' = [pc EXCEPT ![hook.by] = "loop"]
  BY DEF BackendStep, HookStep, HookLock, HookTrack, AnswerRelease, AnswerRepeat, AnswerPress,
     AnswerDefers, HookDefer, Answered, callerVars
<1> QED
  BY <1>1, <1>2 DEF WaitsForHook, Empties, HoldTypeOK

LEMMA FreeHook ==
    ASSUME HoldTypeOK, WaitsForHook, FreeInv, odd \subseteq odd', BackendStep(HookStep)
    PROVE  FreeInv'
<1>1. \A t \in Threads : /\ Empties(t) => Empties(t)'
                         /\ pc[t] = "finally" => pc'[t] = "finally"
  BY HookEmpties
<1>2. CASE HookLock
  BY <1>1, <1>2 DEF HookLock, KeptBack, HookAt, FreeInv, actionVars, callerVars, Empties
<1>3. CASE HookTrack
  <2>1. held' # <<>> => held # <<>>
    BY <1>3, TrackAdds DEF HookTrack
  <2> QED
    BY <1>1, <1>3, <2>1 DEF HookTrack, FreeInv
<1>4. CASE AnswerRelease \/ AnswerRepeat \/ AnswerPress
  BY <1>1, <1>4 DEF AnswerRelease, AnswerRepeat, AnswerPress, FreeInv, holdVars, actionVars
<1>5. CASE AnswerDefers
  BY <1>1, <1>5 DEF AnswerDefers, HookAt, FreeInv
<1>6. CASE HookDefer
  <2>1. deferred' \in KeyEvent
    BY <1>6, HookBusy DEF HookDefer, Busy
  <2>2. deferred' # None
    BY <2>1, NoneAssumption DEF KeyEvent, Event
  <2> QED
    BY <1>6, <2>2 DEF FreeInv
<1> QED
  BY <1>2, <1>3, <1>4, <1>5, <1>6 DEF BackendStep, HookStep

\* Only a caller's own step moves it.
LEMMA OtherStays ==
    ASSUME TypeInv, NEW t \in Threads, BackendStep(ReleaseStep(t)) \/ BackendStep(ActionStep(t))
    PROVE  \A u \in Threads \ {t} : /\ Empties(u) => Empties(u)'
                                    /\ pc[u] = "finally" => pc'[u] = "finally"
BY CallerGoes DEF TypeInv, HoldTypeOK, Empties

LEMMA FreeRelease ==
    ASSUME TypeInv, FreeInv, odd \subseteq odd', NEW t \in Threads, BackendStep(ReleaseStep(t))
    PROVE  FreeInv'
<1> USE DEF TypeInv
<1>1. \A u \in Threads \ {t} : /\ Empties(u) => Empties(u)'
                               /\ pc[u] = "finally" => pc'[u] = "finally"
  BY OtherStays
<1>2. CASE Release(t)
  <2>1. CASE deferred # None
    BY <1>2, <2>1 DEF Release, FreeInv, actionVars
  <2>2. CASE deferred = None
    <3>1. Empties(t)' /\ UNCHANGED <<hook, holding, held, deferred>>
      BY <1>2, <2>2 DEF Release, Goto, Empties, HoldTypeOK, hookVars, holdVars, actionVars
    <3> QED
      BY <3>1 DEF FreeInv
  <2> QED
    BY <2>1, <2>2
<1>3. CASE LoopBehindAction(t)
  BY <1>3 DEF LoopBehindAction, FreeInv, actionVars
<1>4. CASE Loop(t)
  <2>1. CASE held # <<>> /\ Take(t, 1)
    <3>1. Empties(t)'
      BY <2>1 DEF Take, Goto, Empties, HoldTypeOK
    <3> QED
      BY <3>1 DEF FreeInv
  <2>2. CASE held = <<>> /\ ~holding' /\ UNCHANGED held
    BY <2>2 DEF FreeInv
  <2> QED
    BY <1>4, <2>1, <2>2 DEF Loop
<1>5. CASE Send(t)
  <2>1. Empties(t)'
    BY <1>5 DEF Send, Goto, Empties, HoldTypeOK
  <2> QED
    BY <2>1 DEF FreeInv
<1>6. CASE SendFails(t)
  <2>1. "failed" \in odd' /\ pc'[t] = "finally"
    BY <1>6 DEF SendFails, Remember, Goto, HoldTypeOK
  <2> QED
    BY <2>1 DEF FreeInv
<1>7. CASE Finally(t)
  <2>1. ~Empties(t)
    BY <1>7 DEF Finally, Empties, Correcting
  <2>2. deferred' = deferred /\ held' = held /\ holding' = (deferred # None /\ holding)
    BY <1>7 DEF Finally, actionVars
  <2> QED
    BY <1>1, <2>1, <2>2 DEF FreeInv
<1> QED
  BY <1>2, <1>3, <1>4, <1>5, <1>6, <1>7 DEF BackendStep, ReleaseStep

LEMMA FreeAction ==
    ASSUME TypeInv, FreeInv, odd \subseteq odd', NEW t \in Threads, BackendStep(ActionStep(t))
    PROVE  FreeInv'
<1> USE DEF TypeInv
<1>1. \A u \in Threads \ {t} : /\ Empties(u) => Empties(u)'
                               /\ pc[u] = "finally" => pc'[u] = "finally"
  BY OtherStays
<1>2. ~Empties(t) /\ pc[t] # "finally" /\ hook' = hook
  BY DEF BackendStep, ActionStep, Deliver, Submit, SubmitFails, Cancel, Clear, Empties, Correcting,
     hookVars
<1>3. CASE Clear(t)
  <2>1. Empties(t)'
    BY <1>3 DEF Clear, Goto, Empties, HoldTypeOK
  <2> QED
    BY <2>1 DEF FreeInv
<1>4. CASE ~Clear(t)
  <2>1. deferred' = deferred /\ holding' = holding
    BY <1>4 DEF BackendStep, ActionStep, Deliver, Submit, SubmitFails, Cancel, holdVars, actionVars
  <2>2. held' # <<>> => held # <<>>
    BY <1>4, TrackAdds DEF BackendStep, ActionStep, Deliver, Submit, SubmitFails, Cancel, holdVars
  <2> QED
    BY <1>1, <1>2, <2>1, <2>2 DEF FreeInv
<1> QED
  BY <1>3, <1>4

LEMMA FreeWorker ==
    ASSUME HoldTypeOK, FreeInv, odd \subseteq odd', (WorkerBooks /\ Books) \/ HoldInput \/ Injects
    PROVE  FreeInv'
<1>1. CASE WorkerBooks /\ Books
  <2>1. UNCHANGED <<hook, holding, held, deferred>>
    BY <1>1 DEF Books, quietVars, hookVars, holdVars, actionVars
  <2>2. pc'["stop"] = pc["stop"]
    BY <1>1 DEF Books, GoesOn, HoldTypeOK, Threads
  <2>3. Empties("worker") => Empties("worker")'
    BY <1>1, BooksEmpty DEF Empties
  <2>4. pc["worker"] # "finally"
    BY <1>1, BooksEmpty
  <2> QED
    BY <2>1, <2>2, <2>3, <2>4 DEF FreeInv, Empties, Threads
<1>2. CASE HoldInput \/ Injects
  <2>1. Empties("worker")'
    BY <1>2 DEF HoldInput, Worker, Injects, Empties, Correcting, HoldTypeOK, Threads
  <2> QED
    BY <2>1 DEF FreeInv, Threads
<1> QED
  BY <1>1, <1>2

LEMMA FreeStop ==
    ASSUME HoldTypeOK, StopInv, FreeInv, odd \subseteq odd', Stop \/ Unhook
    PROVE  FreeInv'
<1>1. UNCHANGED <<hook, holding, held, deferred>>
  BY DEF Stop, Unhook, holdVars, actionVars
<1>2. pc["stop"] \in {"running", "unhook"} /\ pc'["worker"] = pc["worker"]
  BY DEF Stop, Unhook, HoldTypeOK, Threads
<1> QED
  BY <1>1, <1>2 DEF FreeInv, Empties, Correcting, Threads

-----------------------------------------------------------------------------

LEMMA RestInit == Init => RestInv
<1> SUFFICES ASSUME Init
             PROVE  RestInv
  OBVIOUS
<1>1. pc["stop"] = "running" /\ then["stop"] = "ready" /\ hook.at = "idle"
  BY DEF Init, IdleHook, Threads
<1>2. WaitsForHook
  BY <1>1 DEF WaitsForHook
<1>3. StopInv
  BY <1>1 DEF StopInv, Routine
<1>4. FreeInv
  BY DEF Init, FreeInv
<1> QED
  BY <1>2, <1>3, <1>4 DEF RestInv

LEMMA RestStep == TypeInv /\ CorrectInv /\ RestInv /\ [Next]_vars => RestInv'
<1> SUFFICES ASSUME TypeInv, CorrectInv, RestInv, [Next]_vars
             PROVE  RestInv'
  OBVIOUS
<1> HoldTypeOK /\ WaitsForHook /\ StopInv /\ FreeInv
  BY DEF TypeInv, RestInv
<1>1. odd \subseteq odd'
  BY OddGrows
<1>2. WaitsForHook'
  BY CorrectStep DEF CorrectInv
<1>3. CASE UNCHANGED vars
  BY <1>2, <1>3 DEF vars, backendVars, RestInv, StopInv, FreeInv, Empties, hookVars, holdVars,
     actionVars, callerVars
<1>4. CASE BackendStep(User) \/ BackendStep(RuleWindowReports)
  BY <1>1, <1>2, <1>4, StopUser, FreeUser DEF RestInv
<1>5. CASE BackendStep(HookStep)
  BY <1>1, <1>2, <1>5, StopHook, FreeHook DEF RestInv
<1>6. ASSUME NEW t \in Threads, BackendStep(ReleaseStep(t)) \/ BackendStep(ActionStep(t))
      PROVE  RestInv'
  BY <1>1, <1>2, <1>6, StopCallers, FreeRelease, FreeAction DEF RestInv
<1>7. CASE (WorkerBooks /\ Books) \/ HoldInput \/ Injects
  BY <1>1, <1>2, <1>7, StopWorker, FreeWorker DEF RestInv
<1>8. CASE Stop \/ Unhook
  BY <1>1, <1>2, <1>8, StopStops, FreeStop DEF RestInv
<1> QED
  BY <1>3, <1>4, <1>5, <1>6, <1>7, <1>8, WorkerCases

LEMMA CorrectInit == Init => CorrectInv
  BY DEF Init, EngineInit, CorrectInv, WaitsForHook, StoppedWorker, CorrectionHolds, Correcting,
     IdleHook, Threads

LEMMA RestsHold == Spec => []RestInv
  BY RestInit, RestStep, CorrectInit, CorrectStep, TypesHold, PTL DEF Spec

\* At rest nothing is held unless an action is withheld.
LEMMA RestWithoutAction ==
    ASSUME TypeInv, RestInv, Quiet, deferred = None
    PROVE  ~holding /\ ("failed" \notin odd => held = <<>>)
BY DEF TypeInv, RestInv, StopInv, FreeInv, Empties, Correcting, Quiet, Ready, Routine, Threads

-----------------------------------------------------------------------------
(* Sequences of events *)

\* A set of numbers that is not empty has a least one.
LEMMA LeastOne ==
    ASSUME NEW S, S \subseteq Nat, S # {}
    PROVE  \E i \in S : \A j \in S : i <= j
<1>1. \E i \in S : \A j \in S : <<j, i>> \notin OpToRel(<, Nat)
  BY NatLessThanWellFounded, WFMin
<1>2. PICK i \in S : \A j \in S : ~(j < i)
  BY <1>1 DEF OpToRel
<1> QED
  BY <1>2

\* A set that has 0 and, with a number, the next has them all up to n.
LEMMA UpTo ==
    ASSUME NEW n \in Nat, NEW T, 0 \in T, \A k \in 1..n : k - 1 \in T => k \in T
    PROVE  \A k \in 0..n : k \in T
<1> DEFINE U == {k \in 0..n : k \notin T}
<1> SUFFICES ASSUME U # {}
             PROVE  FALSE
  OBVIOUS
<1>1. U \subseteq Nat
  OBVIOUS
<1> HIDE DEF U
<1>2. PICK m \in U : \A k \in U : m <= k
  BY <1>1, LeastOne
<1> USE DEF U
<1>3. m \in 0..n /\ m # 0
  BY <1>2
<1>4. m - 1 \in 0..n /\ m - 1 \notin U /\ m \in 1..n
  BY <1>2, <1>3
<1> QED
  BY <1>2, <1>4

\* The events of the first k places of s that are in S, for every k up to n.
KeptUpTo(n, s, S, f) ==
    f = [k \in 0..n |-> IF k = 0 THEN <<>>
                        ELSE IF s[k] \in S THEN Append(f[k - 1], s[k])
                        ELSE f[k - 1]]
KeptOf(s, S) == CHOOSE f : KeptUpTo(Len(s), s, S, f)

LEMMA OnlyIsKept ==
    ASSUME NEW s, NEW S
    PROVE  Only(s, S) = KeptOf(s, S)[Len(s)]
BY DEF Only, KeptOf, KeptUpTo

LEMMA KeptExists ==
    ASSUME NEW s, NEW S, NEW n \in Nat
    PROVE  \E f : KeptUpTo(n, s, S, f)
<1> DEFINE T == {k \in 0..n : \E f : KeptUpTo(k, s, S, f)}
<1>1. 0 \in T
  <2>0. PICK g : g = [k \in 0..0 |-> <<>>]
    OBVIOUS
  <2>2. g[0] = <<>> /\ \A k \in 0..0 : k = 0
    BY <2>0
  <2>3. \A k \in 0..0 : <<>> = IF k = 0 THEN <<>>
                                 ELSE IF s[k] \in S THEN Append(g[k - 1], s[k]) ELSE g[k - 1]
    BY <2>2
  <2>1. g = [k \in 0..0 |-> IF k = 0 THEN <<>>
                            ELSE IF s[k] \in S THEN Append(g[k - 1], s[k]) ELSE g[k - 1]]
    BY <2>0, <2>3, Zenon
  <2> QED
    BY <2>1 DEF KeptUpTo
<1>2. ASSUME NEW m \in 1..n, m - 1 \in T
      PROVE  m \in T
  <2>1. PICK f : KeptUpTo(m - 1, s, S, f)
    BY <1>2
  <2>2. \A k \in 0..m - 1 : f[k] = IF k = 0 THEN <<>>
                                   ELSE IF s[k] \in S THEN Append(f[k - 1], s[k]) ELSE f[k - 1]
    BY <2>1 DEF KeptUpTo
  <2>3. PICK last : last = IF s[m] \in S THEN Append(f[m - 1], s[m]) ELSE f[m - 1]
    OBVIOUS
  <2>4. PICK g : g = [k \in 0..m |-> IF k = m THEN last ELSE f[k]]
    OBVIOUS
  <2>5. g[m] = last /\ \A k \in 0..m - 1 : g[k] = f[k]
    BY <2>4
  <2>6. ASSUME NEW k \in 0..m
        PROVE  g[k] = IF k = 0 THEN <<>>
                      ELSE IF s[k] \in S THEN Append(g[k - 1], s[k]) ELSE g[k - 1]
    <3>1. CASE k = m
      <4>1. g[k - 1] = f[m - 1] /\ k # 0
        BY <2>5, <3>1
      <4> QED
        BY <2>3, <2>5, <3>1, <4>1
    <3>2. CASE k # m
      <4>1. k \in 0..m - 1 /\ (k # 0 => k - 1 \in 0..m - 1)
        BY <3>2
      <4> QED
        BY <2>2, <2>5, <4>1
    <3> QED
      BY <3>1, <3>2
  <2>7. g = [k \in 0..m |-> g[k]]
    BY <2>4
  <2>8. g = [k \in 0..m |-> IF k = 0 THEN <<>>
                            ELSE IF s[k] \in S THEN Append(g[k - 1], s[k]) ELSE g[k - 1]]
    BY <2>6, <2>7
  <2> QED
    BY <2>8 DEF KeptUpTo
<1> HIDE DEF T
<1>a. \A k \in 1..n : k - 1 \in T => k \in T
  BY <1>2
<1>b. \A k \in 0..n : k \in T
  BY <1>1, <1>a, UpTo
<1>3. n \in T
  BY <1>b
<1> QED
  BY <1>3 DEF T

\* What KeptOf is at every place.
LEMMA KeptIs ==
    ASSUME NEW s, NEW S, Len(s) \in Nat
    PROVE  /\ KeptOf(s, S)[0] = <<>>
           /\ \A k \in 1..Len(s) : KeptOf(s, S)[k] = IF s[k] \in S
                                                    THEN Append(KeptOf(s, S)[k - 1], s[k])
                                                    ELSE KeptOf(s, S)[k - 1]
<1>1. PICK f : f = KeptOf(s, S)
  OBVIOUS
<1>2. KeptUpTo(Len(s), s, S, f)
  BY <1>1, KeptExists DEF KeptOf
<1>3. \A k \in 0..Len(s) : f[k] = IF k = 0 THEN <<>>
                                  ELSE IF s[k] \in S THEN Append(f[k - 1], s[k]) ELSE f[k - 1]
  BY <1>2 DEF KeptUpTo
<1>4. f[0] = <<>>
  BY <1>3
<1>5. \A k \in 1..Len(s) : f[k] = IF s[k] \in S THEN Append(f[k - 1], s[k]) ELSE f[k - 1]
  BY <1>3
<1> QED
  BY <1>1, <1>4, <1>5

\* Two sequences that are alike up to n, as far as the sets tell, keep the same.
LEMMA KeptAlike ==
    ASSUME NEW s, NEW t, NEW S, NEW T, Len(s) \in Nat, Len(t) \in Nat, NEW n \in Nat,
           n <= Len(s), n <= Len(t),
           \A k \in 1..n : s[k] = t[k] /\ (s[k] \in S <=> t[k] \in T)
    PROVE  KeptOf(s, S)[n] = KeptOf(t, T)[n]
<1>1. PICK f : f = KeptOf(s, S)
  OBVIOUS
<1>2. PICK g : g = KeptOf(t, T)
  OBVIOUS
<1>3. f[0] = <<>> /\ \A k \in 1..Len(s) : f[k] = IF s[k] \in S THEN Append(f[k - 1], s[k]) ELSE f[k - 1]
  BY <1>1, KeptIs
<1>4. g[0] = <<>> /\ \A k \in 1..Len(t) : g[k] = IF t[k] \in T THEN Append(g[k - 1], t[k]) ELSE g[k - 1]
  BY <1>2, KeptIs
<1> DEFINE Same == {k \in 0..n : f[k] = g[k]}
<1>5. 0 \in Same
  BY <1>3, <1>4
<1>6. ASSUME NEW k \in 1..n, k - 1 \in Same
      PROVE  k \in Same
  <2>1. k \in 1..Len(s) /\ k \in 1..Len(t) /\ k \in 0..n
    OBVIOUS
  <2>2. f[k - 1] = g[k - 1]
    BY <1>6
  <2>3. f[k] = IF s[k] \in S THEN Append(f[k - 1], s[k]) ELSE f[k - 1]
    BY <1>3, <2>1
  <2>4. g[k] = IF t[k] \in T THEN Append(g[k - 1], t[k]) ELSE g[k - 1]
    BY <1>4, <2>1
  <2> QED
    BY <2>1, <2>2, <2>3, <2>4
<1> HIDE DEF Same
<1>a. \A k \in 1..n : k - 1 \in Same => k \in Same
  BY <1>6
<1>b. \A k \in 0..n : k \in Same
  BY <1>5, <1>a, UpTo
<1>7. n \in Same
  BY <1>b
<1>8. f[n] = g[n]
  BY <1>7 DEF Same
<1> QED
  BY <1>1, <1>2, <1>8

LEMMA OnlyAlike ==
    ASSUME NEW s, NEW S, NEW T, Len(s) \in Nat, \A k \in 1..Len(s) : s[k] \in S <=> s[k] \in T
    PROVE  Only(s, S) = Only(s, T)
<1>1. KeptOf(s, S)[Len(s)] = KeptOf(s, T)[Len(s)]
  BY KeptAlike
<1> QED
  BY <1>1, OnlyIsKept

LEMMA OnlyOfEmpty ==
    ASSUME NEW S
    PROVE  Only(<<>>, S) = <<>>
<1>1. KeptOf(<<>>, S)[0] = <<>> /\ Len(<<>>) = 0
  BY KeptIs
<1> QED
  BY <1>1, OnlyIsKept

\* One more event.
LEMMA OnlyAppend ==
    ASSUME NEW E, NEW s \in Seq(E), NEW e \in E, NEW S
    PROVE  Only(Append(s, e), S) = IF e \in S THEN Append(Only(s, S), e) ELSE Only(s, S)
<1>1. PICK r : r = Append(s, e)
  OBVIOUS
<1>2. Len(s) \in Nat /\ Len(r) = Len(s) + 1 /\ r[Len(r)] = e /\ \A k \in 1..Len(s) : r[k] = s[k]
  BY <1>1
<1>3. KeptOf(r, S)[Len(s)] = KeptOf(s, S)[Len(s)]
  BY <1>2, KeptAlike
<1>4. KeptOf(r, S)[Len(r)] = IF r[Len(r)] \in S THEN Append(KeptOf(r, S)[Len(r) - 1], r[Len(r)])
                             ELSE KeptOf(r, S)[Len(r) - 1]
  <2>1. Len(r) \in 1..Len(r) /\ Len(r) \in Nat
    BY <1>2
  <2> QED
    BY <2>1, KeptIs
<1>5. Len(r) - 1 = Len(s)
  BY <1>2
<1>6. KeptOf(r, S)[Len(r)] = IF e \in S THEN Append(KeptOf(s, S)[Len(s)], e) ELSE KeptOf(s, S)[Len(s)]
  BY <1>2, <1>3, <1>4, <1>5
<1>7. Only(r, S) = KeptOf(r, S)[Len(r)] /\ Only(s, S) = KeptOf(s, S)[Len(s)]
  BY OnlyIsKept
<1> QED
  BY <1>1, <1>6, <1>7

\* What is kept is of the sequence and of the set.
LEMMA OnlyIn ==
    ASSUME NEW E, NEW s \in Seq(E), NEW S
    PROVE  Only(s, S) \in Seq(E \cap S)
<1>1. PICK f : f = KeptOf(s, S)
  OBVIOUS
<1>2. Len(s) \in Nat
  OBVIOUS
<1>3. f[0] = <<>> /\ \A k \in 1..Len(s) : f[k] = IF s[k] \in S THEN Append(f[k - 1], s[k]) ELSE f[k - 1]
  BY <1>1, <1>2, KeptIs
<1> DEFINE T == {k \in 0..Len(s) : f[k] \in Seq(E \cap S)}
<1>4. 0 \in T
  <2>1. <<>> \in Seq(E \cap S) /\ 0 \in 0..Len(s)
    BY <1>2
  <2>2. f[0] \in Seq(E \cap S)
    BY <1>3, <2>1
  <2> QED
    BY <2>1, <2>2
<1>5. ASSUME NEW k \in 1..Len(s), k - 1 \in T
      PROVE  k \in T
  <2>1. f[k - 1] \in Seq(E \cap S) /\ s[k] \in E /\ k \in 0..Len(s)
    BY <1>5
  <2>2. f[k] = IF s[k] \in S THEN Append(f[k - 1], s[k]) ELSE f[k - 1]
    BY <1>3
  <2>3. f[k] \in Seq(E \cap S)
    BY <2>1, <2>2
  <2> QED
    BY <2>1, <2>3
<1> HIDE DEF T
<1>a. \A k \in 1..Len(s) : k - 1 \in T => k \in T
  BY <1>5
<1>b. \A k \in 0..Len(s) : k \in T
  BY <1>2, <1>4, <1>a, UpTo
<1>6. Len(s) \in T
  BY <1>2, <1>b
<1>7. f[Len(s)] \in Seq(E \cap S)
  BY <1>6 DEF T
<1> QED
  BY <1>1, <1>7, OnlyIsKept

\* None of the set: nothing is kept. All of the set: everything.
LEMMA OnlyNone ==
    ASSUME NEW E, NEW s \in Seq(E), NEW S, \A k \in 1..Len(s) : s[k] \notin S
    PROVE  Only(s, S) = <<>>
<1>1. Only(s, S) = Only(s, {})
  BY OnlyAlike
<1>2. Only(s, {}) \in Seq(E \cap {})
  BY OnlyIn
<1>3. PICK r : r = Only(s, {})
  OBVIOUS
<1>4. r \in Seq({})
  <2>1. E \cap {} = {}
    OBVIOUS
  <2> QED
    BY <1>2, <1>3, <2>1
<1>5. r = <<>>
  <2>1. CASE r # <<>>
    <3>1. r[1] \in {}
      BY <1>4, <2>1
    <3> QED
      BY <3>1
  <2> QED
    BY <2>1
<1> QED
  BY <1>1, <1>3, <1>5

LEMMA OnlyAll ==
    ASSUME NEW E, NEW s \in Seq(E), NEW S, \A k \in 1..Len(s) : s[k] \in S
    PROVE  Only(s, S) = s
<1>1. PICK f : f = KeptOf(s, S)
  OBVIOUS
<1>2. Len(s) \in Nat
  OBVIOUS
<1>3. f[0] = <<>> /\ \A k \in 1..Len(s) : f[k] = IF s[k] \in S THEN Append(f[k - 1], s[k]) ELSE f[k - 1]
  BY <1>1, <1>2, KeptIs
<1> DEFINE T == {k \in 0..Len(s) : f[k] = SubSeq(s, 1, k)}
<1>4. 0 \in T
  <2>1. SubSeq(s, 1, 0) = <<>> /\ 0 \in 0..Len(s)
    BY <1>2
  <2>2. f[0] = SubSeq(s, 1, 0)
    BY <1>3, <2>1
  <2> QED
    BY <2>1, <2>2
<1>5. ASSUME NEW k \in 1..Len(s), k - 1 \in T
      PROVE  k \in T
  <2>1. f[k - 1] = SubSeq(s, 1, k - 1) /\ s[k] \in S /\ k \in 0..Len(s)
    BY <1>5
  <2>2. f[k] = Append(SubSeq(s, 1, k - 1), s[k])
    BY <1>3, <2>1
  <2>3. Append(SubSeq(s, 1, k - 1), s[k]) = SubSeq(s, 1, k)
    <3>1. PICK a : a = SubSeq(s, 1, k - 1)
      OBVIOUS
    <3>2. PICK b : b = SubSeq(s, 1, k)
      OBVIOUS
    <3>3. a \in Seq(E) /\ Len(a) = k - 1 /\ \A i \in 1..k - 1 : a[i] = s[i]
      BY <3>1
    <3>4. b \in Seq(E) /\ Len(b) = k /\ \A i \in 1..k : b[i] = s[i]
      BY <3>2
    <3>5. PICK c : c = Append(a, s[k])
      OBVIOUS
    <3>6. c \in Seq(E) /\ Len(c) = k /\ c[k] = s[k] /\ \A i \in 1..k - 1 : c[i] = s[i]
      BY <3>3, <3>5
    <3>7. \A i \in 1..k : c[i] = b[i]
      BY <3>4, <3>6
    <3>8. c = b
      BY <3>4, <3>6, <3>7, SeqEqual
    <3> QED
      BY <3>1, <3>2, <3>5, <3>8
  <2> QED
    BY <2>1, <2>2, <2>3
<1> HIDE DEF T
<1>a. \A k \in 1..Len(s) : k - 1 \in T => k \in T
  BY <1>5
<1>b. \A k \in 0..Len(s) : k \in T
  BY <1>2, <1>4, <1>a, UpTo
<1>6. Len(s) \in T
  BY <1>2, <1>b
<1>7. f[Len(s)] = SubSeq(s, 1, Len(s))
  BY <1>6 DEF T
<1> QED
  BY <1>1, <1>7, OnlyIsKept, SubSeqFull

-----------------------------------------------------------------------------
(* What the events in the hook, the buffer, the queue and the word are *)

\* An event of the keyboard, as the hook and the buffer know it; a press; a press of Enter or
\* Tab; one the engine is told is withheld; a click. These are all the engine's queue has.
Fresh == {ev \in KeyEvent : ~ev.deferred /\ (ev.down => ev.n > 0)}
Press1 == {ev \in Fresh : ev.down}
ActionPress == {ev \in Press1 : ev.key \in ActionKeys}
Withheld == {ev \in KeyEvent : ev.down /\ ev.deferred /\ ev.key \in ActionKeys /\ ev.n > 0}
ClickEvent == [key |-> Pointer, down |-> TRUE, n |-> 0, deferred |-> FALSE]
Queueable == Fresh \cup Withheld \cup {ClickEvent}

HookEvents ==
    /\ held \in Seq(Fresh)
    /\ hook.at # "idle" => hook.ev \in Fresh
    /\ hook.at = "defer" => hook.ev \in ActionPress
    /\ deferred \in ActionPress \cup {None}
    /\ \A t \in Threads : item[t] \in Fresh \cup {None}
QueueEvents == inbox \in Seq(Queueable) /\ Len(inbox) <= QueueSize
TextEvents == text \in [Places -> Seq(Nat)] /\ dropped \subseteq Nat
BackendEvents == HookEvents /\ QueueEvents /\ TextEvents

\* The worker has an event while it handles one, the cancelling before that included.
AtEvent == \/ pc["worker"] = "handle"
           \/ pc["worker"] \in Routine /\ then["worker"] = "handle"
\* A correction goes on to its end.
AtWord == pc["worker"] \in Correcting \cup {"focus", "hold"} => then["worker"] \in {"landed", "acted"}
WordEvents ==
    /\ strokes \in Seq(Press1) /\ pending \in Seq(Press1) /\ plan \in Seq(Press1)
    /\ late \in Seq(Press1) /\ drained \in Seq(Queueable)
EngineEvents ==
    /\ running \in BOOLEAN /\ waiting \in BOOLEAN /\ wFocus \in Places
    /\ wPressed \subseteq Keys /\ wSince \subseteq Keys
    /\ untracked \in BOOLEAN /\ pauseDue \in BOOLEAN
    /\ cur \in Queueable \cup {None} /\ wDeferred \in Withheld \cup {None}
    /\ AtEvent => cur # None
EventInv == TypeInv /\ BackendEvents /\ EngineEvents /\ AtWord /\ WordEvents

\* These kinds of events are events, and None is none of them.
LEMMA EventKinds ==
    /\ Fresh \subseteq KeyEvent /\ Press1 \subseteq Fresh /\ ActionPress \subseteq Press1
    /\ Withheld \subseteq KeyEvent /\ KeyEvent \subseteq Event /\ ClickEvent \in Event
    /\ Queueable \subseteq Event
    /\ None \notin KeyEvent /\ None \notin Queueable
<1>1. KeyEvent \subseteq Event /\ ClickEvent \in Event
  BY DEF KeyEvent, Event, ClickEvent
<1>2. Fresh \subseteq KeyEvent /\ Press1 \subseteq Fresh /\ ActionPress \subseteq Press1 /\ Withheld \subseteq KeyEvent
  BY DEF Fresh, Press1, ActionPress, Withheld
<1>3. Queueable \subseteq Event
  BY <1>1, <1>2 DEF Queueable
<1> QED
  BY <1>1, <1>2, <1>3, NoneAssumption

LEMMA ReleaseFresh ==
    ASSUME NEW k \in Keys
    PROVE  ReleaseOf(k) \in Fresh /\ ReleaseOf(k) \notin Press1
BY DEF ReleaseOf, Fresh, KeyEvent, Press1

LEMMA EnqueueEvents ==
    ASSUME QueueEvents, NEW ev \in Queueable, Enqueue(ev)
    PROVE  QueueEvents'
<1>1. CASE QueueFull
  BY <1>1 DEF Enqueue, QueueEvents
<1>2. CASE ~QueueFull
  <2>1. inbox' = Append(inbox, ev) /\ Len(inbox) \in Nat /\ Len(inbox) < QueueSize
    BY <1>2, BoundsAssumption DEF Enqueue, QueueFull, QueueEvents
  <2>2. inbox' \in Seq(Queueable) /\ Len(inbox') = Len(inbox) + 1
    BY <2>1 DEF QueueEvents
  <2> QED
    BY <2>1, <2>2, BoundsAssumption DEF QueueEvents
<1> QED
  BY <1>1, <1>2

LEMMA ReachEvents ==
    ASSUME HoldTypeOK, TextEvents, NEW ev \in KeyEvent, Reach(ev)
    PROVE  text' \in [Places -> Seq(Nat)]
<1>1. ev.n \in Nat /\ focus \in Places
  BY DEF KeyEvent, HoldTypeOK
<1>2. text[focus] \in Seq(Nat)
  BY <1>1 DEF TextEvents
<1>3. Append(text[focus], ev.n) \in Seq(Nat)
  BY <1>1, <1>2
<1>4. text' = text \/ text' = [text EXCEPT ![focus] = Append(text[focus], ev.n)]
  BY DEF Reach
<1> QED
  BY <1>3, <1>4 DEF TextEvents

-----------------------------------------------------------------------------
(* The user and the hook *)

LEMMA UserEvents ==
    ASSUME HoldTypeOK, BackendEvents, BackendStep(User) \/ BackendStep(RuleWindowReports)
    PROVE  BackendEvents'
<1> USE DEF BackendEvents
<1>1. ASSUME NEW k \in Keys, NEW down \in BOOLEAN, TypeKey(k, down)
      PROVE  BackendEvents'
  <2>1. PICK ev : ev = [key |-> k, down |-> down, n |-> IF down THEN presses + 1 ELSE 0,
                        deferred |-> FALSE]
    OBVIOUS
  <2>2. ev \in Fresh
    <3>1. presses + 1 \in Nat /\ presses + 1 > 0
      BY DEF HoldTypeOK
    <3>2. ev \in KeyEvent
      BY <2>1, <3>1 DEF KeyEvent
    <3> QED
      BY <2>1, <3>1, <3>2 DEF Fresh
  <2>3. UNCHANGED <<held, deferred, item, inbox, dropped>>
    BY <1>1 DEF TypeKey, holdVars, actionVars, callerVars, queueVars
  <2>4. \/ hook' = [at |-> "lock", ev |-> ev, by |-> "user"] /\ text' = text
        \/ hook' = hook /\ Reach(ev)
    BY <1>1, <2>1, Zenon DEF TypeKey
  <2>5. text' \in [Places -> Seq(Nat)]
    BY <2>2, <2>4, ReachEvents, EventKinds DEF TextEvents
  <2> QED
    BY <2>2, <2>3, <2>4, <2>5 DEF HookEvents, QueueEvents, TextEvents
<1>2. ASSUME NEW w \in Places, FocusMoves(w)
      PROVE  BackendEvents'
  BY <1>2 DEF FocusMoves, hookVars, holdVars, actionVars, callerVars, queueVars, HookEvents,
     QueueEvents, TextEvents
<1>3. CASE Click
  <2>1. Enqueue(ClickEvent) /\ ClickEvent \in Queueable
    BY <1>3 DEF Click, ClickEvent, Queueable
  <2>2. QueueEvents'
    BY <2>1, EnqueueEvents
  <2>3. text' \in [Places -> Seq(Nat)]
    <3>1. Append(text[focus], 0) \in Seq(Nat)
      BY DEF TextEvents, HoldTypeOK
    <3>2. text' = [text EXCEPT ![focus] = Append(text[focus], 0)]
      BY <1>3 DEF Click
    <3> QED
      BY <3>1, <3>2 DEF TextEvents
  <2> QED
    BY <1>3, <2>2, <2>3 DEF Click, hookVars, holdVars, actionVars, callerVars, HookEvents, TextEvents
<1>4. CASE RuleWindowReports
  BY <1>4 DEF RuleWindowReports, hookVars, holdVars, actionVars, callerVars, windowVars, queueVars,
     HookEvents, QueueEvents, TextEvents
<1> QED
  BY <1>1, <1>2, <1>3, <1>4 DEF BackendStep, User

LEMMA TrackEvents ==
    ASSUME HookEvents, NEW k \in Keys, TrackRelease(k)
    PROVE  held' \in Seq(Fresh)
<1>1. Append(held, ReleaseOf(k)) \in Seq(Fresh)
  BY ReleaseFresh DEF HookEvents
<1> QED
  BY <1>1 DEF TrackRelease, HookEvents

LEMMA HookStepEvents ==
    ASSUME HoldTypeOK, BackendEvents, BackendStep(HookStep)
    PROVE  BackendEvents'
<1> USE DEF BackendEvents
<1>1. hook.at # "idle"
  BY DEF BackendStep, HookStep, HookLock, HookTrack, AnswerRelease, AnswerRepeat, AnswerPress,
     AnswerDefers, HookDefer
<1>2. hook.ev \in Fresh /\ hook.ev \in KeyEvent /\ hook.ev.key \in Keys /\ hook.ev \in Queueable
      /\ hook.ev.n \in Nat
  BY <1>1, EventKinds DEF HookEvents, KeyEvent, Queueable
<1>3. CASE HookLock
  <2>1. held' = held \/ held' = Append(held, hook.ev)
    BY <1>3 DEF HookLock
  <2>2. held' \in Seq(Fresh)
    BY <1>2, <2>1 DEF HookEvents
  <2> QED
    BY <1>2, <1>3, <2>2 DEF HookLock, HookAt, IdleHook, actionVars, callerVars, windowVars, queueVars,
       HookEvents, QueueEvents, TextEvents
<1>4. CASE HookTrack
  <2>1. held' \in Seq(Fresh)
    BY <1>2, <1>4, TrackEvents DEF HookTrack, HookEvents
  <2> QED
    BY <1>2, <1>4, <2>1 DEF HookTrack, HookAt, callerVars, windowVars, queueVars,
       HookEvents, QueueEvents, TextEvents
<1>5. CASE AnswerRelease \/ AnswerPress
  <2>1. QueueEvents'
    BY <1>2, <1>5, EnqueueEvents DEF AnswerRelease, AnswerPress
  <2>2. text' = text \/ Reach(hook.ev)
    BY <1>5 DEF AnswerRelease, AnswerPress
  <2>3. TextEvents'
    BY <1>2, <1>5, <2>2, ReachEvents DEF TextEvents, AnswerRelease, AnswerPress
  <2> QED
    BY <1>5, <2>1, <2>3 DEF AnswerRelease, AnswerPress, Answered, IdleHook, holdVars, actionVars,
       HookEvents
<1>6. CASE AnswerRepeat
  BY <1>2, <1>6 DEF AnswerRepeat, Answered, IdleHook, holdVars, actionVars, queueVars,
     HookEvents, QueueEvents, TextEvents
<1>7. CASE AnswerDefers
  <2>1. hook.ev \in ActionPress
    BY <1>2, <1>7 DEF AnswerDefers, FilterDefers, ActionPress, Press1
  <2> QED
    BY <1>2, <1>7, <2>1 DEF AnswerDefers, HookAt, callerVars, windowVars, queueVars,
       HookEvents, QueueEvents, TextEvents
<1>8. CASE HookDefer
  <2>1. hook.ev \in ActionPress
    BY <1>8 DEF HookDefer, HookEvents
  <2>2. PICK ev : ev = [hook.ev EXCEPT !.deferred = TRUE]
    OBVIOUS
  <2>3. ev \in Withheld
    BY <1>2, <2>1, <2>2 DEF Withheld, ActionPress, Press1, Fresh, KeyEvent
  <2>4. QueueEvents'
    BY <1>8, <2>2, <2>3, EnqueueEvents DEF HookDefer, Queueable
  <2> QED
    BY <1>8, <2>1, <2>4 DEF HookDefer, Answered, IdleHook, holdVars, windowVars, HookEvents, TextEvents
<1> QED
  BY <1>3, <1>4, <1>5, <1>6, <1>7, <1>8 DEF BackendStep, HookStep

-----------------------------------------------------------------------------
(* The callers *)

LEMMA TakeEvents ==
    ASSUME HoldTypeOK, HookEvents, NEW t \in Threads, NEW i \in DOMAIN held, Take(t, i)
    PROVE  HookEvents' \/ hook' # hook \/ deferred' # deferred
<1>1. held \in Seq(Fresh) /\ i \in 1..Len(held) /\ Len(held) \in Nat
  BY DEF HookEvents
<1>2. held[i] \in Fresh
  BY <1>1
<1>3. SubSeq(held, 1, i - 1) \in Seq(Fresh) /\ SubSeq(held, i + 1, Len(held)) \in Seq(Fresh)
  BY <1>1, SubSeqProperties
<1>4. held' \in Seq(Fresh)
  BY <1>3, ConcatProperties DEF Take
<1>5. \A u \in Threads : item'[u] \in Fresh \cup {None}
  BY <1>2 DEF Take, HookEvents, HoldTypeOK
<1> QED
  BY <1>4, <1>5 DEF HookEvents

LEMMA CallerEvents ==
    ASSUME TypeInv, BackendEvents, NEW t \in Threads,
           BackendStep(ReleaseStep(t)) \/ BackendStep(ActionStep(t))
    PROVE  BackendEvents'
<1> HoldTypeOK
  BY DEF TypeInv
<1> USE DEF BackendEvents
<1>1. CASE Release(t) \/ Finally(t) \/ Cancel(t)
  BY <1>1 DEF Release, Finally, Cancel, hookVars, holdVars, actionVars, windowVars, queueVars,
     HookEvents, QueueEvents, TextEvents
<1>2. CASE LoopBehindAction(t) \/ Loop(t)
  <2>1. UNCHANGED <<hook, deferred, text, dropped, inbox>>
    BY <1>2 DEF LoopBehindAction, Loop, hookVars, actionVars, windowVars, queueVars
  <2>2. CASE \E i \in DOMAIN held : Take(t, i)
    BY <2>1, <2>2, TakeEvents DEF QueueEvents, TextEvents
  <2>3. CASE UNCHANGED <<item, held>>
    BY <2>1, <2>3 DEF HookEvents, QueueEvents, TextEvents
  <2> QED
    BY <1>2, <2>2, <2>3 DEF LoopBehindAction, Loop, PriorReleases, HookEvents
<1>3. CASE Send(t)
  <2>1. item[t] \in Fresh
    BY <1>3, EventKinds DEF Send, TypeInv, Carries, HookEvents
  <2>2. UNCHANGED <<held, deferred, inbox, dropped>> /\ item' = [item EXCEPT ![t] = None]
    BY <1>3 DEF Send, holdVars, actionVars, queueVars
  <2>3. \/ hook' = [at |-> "track", ev |-> item[t], by |-> t] /\ text' = text
        \/ hook' = hook /\ Reach(item[t])
    BY <1>3 DEF Send
  <2>4. text' \in [Places -> Seq(Nat)]
    BY <2>1, <2>3, ReachEvents, EventKinds DEF TextEvents
  <2>5. \A u \in Threads : item'[u] \in Fresh \cup {None}
    BY <2>2 DEF HookEvents, HoldTypeOK
  <2> QED
    BY <2>1, <2>2, <2>3, <2>4, <2>5 DEF HookEvents, QueueEvents, TextEvents
<1>4. CASE SendFails(t)
  <2>1. item[t].n \in Nat
    BY <1>4 DEF SendFails, TypeInv, Carries, KeyEvent
  <2> QED
    BY <1>4, <2>1 DEF SendFails, hookVars, holdVars, actionVars, queueVars, HookEvents, QueueEvents,
       TextEvents, HoldTypeOK
<1>5. CASE Deliver(t)
  <2>1. \A u \in Threads : item'[u] \in Fresh \cup {None}
    BY <1>5, EventKinds DEF Deliver, HookEvents, HoldTypeOK
  <2> QED
    BY <1>5, <2>1 DEF Deliver, hookVars, holdVars, actionVars, windowVars, queueVars,
       HookEvents, QueueEvents, TextEvents
<1>6. CASE Submit(t)
  <2>1. item[t].key \in Keys /\ item[t].n \in Nat
    BY <1>6 DEF Submit, TypeInv, Carries, KeyEvent
  <2>2. held' \in Seq(Fresh)
    BY <1>6, <2>1, TrackEvents DEF Submit, HookEvents
  <2>3. Append(text[focus], item[t].n) \in Seq(Nat)
    BY <2>1 DEF TextEvents, HoldTypeOK
  <2>4. text' = [text EXCEPT ![focus] = Append(text[focus], item[t].n)]
    BY <1>6 DEF Submit
  <2>5. text' \in [Places -> Seq(Nat)]
    BY <2>3, <2>4 DEF TextEvents
  <2> QED
    BY <1>6, <2>2, <2>5 DEF Submit, hookVars, queueVars, HookEvents, QueueEvents, TextEvents, HoldTypeOK
<1>7. CASE SubmitFails(t)
  BY <1>7 DEF SubmitFails, hookVars, holdVars, actionVars, windowVars, queueVars,
     HookEvents, QueueEvents, TextEvents, HoldTypeOK
<1>8. CASE Clear(t)
  <2>1. deferred # None => deferred.n \in Nat
    BY EventKinds DEF HookEvents, KeyEvent
  <2> QED
    BY <1>8, <2>1 DEF Clear, hookVars, holdVars, queueVars, HookEvents, QueueEvents, TextEvents
<1> QED
  BY <1>1, <1>2, <1>3, <1>4, <1>5, <1>6, <1>7, <1>8 DEF BackendStep, ReleaseStep, ActionStep

\* Where the worker is with its event and its word, after a step of the backend.
LEMMA BackendGoes ==
    ASSUME EventInv, pc'["worker"] \in Routine \cup {pc["worker"], then["worker"]}, then' = then,
           pc'["worker"] # pc["worker"] => pc["worker"] \in Routine,
           UNCHANGED engineVars
    PROVE  EngineEvents' /\ AtWord' /\ WordEvents'
<1>1. AtEvent' => AtEvent
  BY DEF AtEvent, EventInv, TypeInv, HoldTypeOK, Returns, Routine, Threads
<1>2. EngineEvents'
  BY <1>1 DEF EventInv, EngineEvents, engineVars, runVars, wordKeyVars, keyVars, wordVars
<1>3. AtWord'
  BY DEF EventInv, AtWord, TypeInv, HoldTypeOK, Routine, Returns, Correcting, Threads
<1>4. WordEvents'
  BY DEF EventInv, WordEvents, engineVars, wordVars, workVars
<1> QED
  BY <1>2, <1>3, <1>4

LEMMA BackendStepEvents ==
    ASSUME EventInv, CorrectInv, [Next]_vars,
           \/ BackendStep(User) \/ BackendStep(RuleWindowReports) \/ BackendStep(HookStep)
           \/ \E t \in Threads : BackendStep(ReleaseStep(t)) \/ BackendStep(ActionStep(t))
    PROVE  EventInv'
<1>0. TypeInv /\ HoldTypeOK /\ BackendEvents /\ TypeInv'
  BY TypeStep DEF EventInv, TypeInv
<1>1. CASE BackendStep(User) \/ BackendStep(RuleWindowReports)
  <2>1. UNCHANGED <<pc, then, engineVars>>
    BY <1>1 DEF BackendStep, User, TypeKey, FocusMoves, Click, RuleWindowReports, callerVars
  <2>2. EngineEvents' /\ AtWord' /\ WordEvents'
    BY <2>1, BackendGoes
  <2> QED
    BY <1>0, <1>1, <2>2, UserEvents DEF EventInv
<1>2. CASE BackendStep(HookStep)
  <2>1. /\ UNCHANGED <<then, engineVars>> /\ hook.at # "idle"
        /\ \/ pc' = pc
           \/ hook.by \in Threads /\ pc' = [pc EXCEPT ![hook.by] = "loop"]
    BY <1>2 DEF BackendStep, HookStep, HookLock, HookTrack, AnswerRelease, AnswerRepeat, AnswerPress,
       AnswerDefers, HookDefer, Answered, callerVars
  <2>2. pc'["worker"] # pc["worker"] => pc["worker"] \in Routine /\ pc'["worker"] = "loop"
    BY <1>0, <2>1 DEF CorrectInv, WaitsForHook, HoldTypeOK, Threads, Routine
  <2>3. EngineEvents' /\ AtWord' /\ WordEvents'
    BY <2>1, <2>2, BackendGoes DEF Routine
  <2> QED
    BY <1>0, <1>2, <2>3, HookStepEvents DEF EventInv
<1>3. ASSUME NEW t \in Threads, BackendStep(ReleaseStep(t)) \/ BackendStep(ActionStep(t))
      PROVE  EventInv'
  <2>1. /\ pc[t] \in Routine \ {"sent"} /\ then' = then
        /\ \E l \in Routine \cup {then[t], Back(t)} : pc' = [pc EXCEPT ![t] = l]
    BY <1>0, <1>3, CallerGoes
  <2>2. UNCHANGED engineVars
    BY <1>3 DEF BackendStep
  <2>3. pc'["worker"] \in Routine \cup {pc["worker"], then["worker"]}
        /\ (pc'["worker"] # pc["worker"] => pc["worker"] \in Routine)
    BY <1>0, <2>1 DEF HoldTypeOK, Threads, Back
  <2>4. EngineEvents' /\ AtWord' /\ WordEvents'
    BY <2>1, <2>2, <2>3, BackendGoes
  <2> QED
    BY <1>0, <1>3, <2>4, CallerEvents DEF EventInv
<1> QED
  BY <1>1, <1>2, <1>3

-----------------------------------------------------------------------------
(* The worker *)

\* The word and the action are forgotten, and the worker is on its way to the next event.
LEMMA ClearWordEvents ==
    ASSUME HoldTypeOK, ClearWord("ready")
    PROVE  /\ strokes' = <<>> /\ pending' = <<>> /\ pauseDue' = FALSE /\ wDeferred' = None
           /\ ~AtEvent' /\ AtWord'
BY DEF ClearWord, NoWord, Call, Worker, AtEvent, AtWord, HoldTypeOK, Threads, Correcting, Routine

LEMMA GoesReady ==
    ASSUME HoldTypeOK, pc' = [pc EXCEPT !["worker"] = "ready"]
    PROVE  ~AtEvent' /\ AtWord'
BY DEF AtEvent, AtWord, HoldTypeOK, Threads, Correcting, Routine

\* A plan, an action or nothing: the worker leaves its event.
LEMMA MaybeExecuteEvents ==
    ASSUME HoldTypeOK, NEW down, MaybeExecute(down)
    PROVE  /\ strokes' \in {strokes, <<>>} /\ pending' \in {pending, <<>>}
           /\ pauseDue' \in {pauseDue, FALSE} /\ wDeferred' \in {wDeferred, None}
           /\ plan' \in {plan, pending}
           /\ ~AtEvent' /\ AtWord'
<1>1. CASE Worker("ready") /\ UNCHANGED <<wordVars, wDeferred, plan, then, outcome>>
  BY <1>1, GoesReady DEF Worker, wordVars
<1>2. CASE /\ plan' = pending
           /\ pending' = <<>>
           /\ Call("focus", IF wDeferred = None THEN "landed" ELSE "acted")
           /\ UNCHANGED <<strokes, pauseDue, wDeferred>>
  <2>1. pc'["worker"] = "focus" /\ then'["worker"] \in {"landed", "acted"}
    BY <1>2 DEF Call, Worker, HoldTypeOK, Threads
  <2>2. ~AtEvent' /\ AtWord'
    BY <2>1 DEF AtEvent, AtWord, Routine
  <2> QED
    BY <1>2, <2>2
<1>3. CASE NoWord /\ wDeferred' = None /\ Call("deliver", "ready") /\ UNCHANGED <<plan, outcome>>
  <2>1. pc'["worker"] = "deliver" /\ then'["worker"] = "ready"
    BY <1>3 DEF Call, Worker, HoldTypeOK, Threads
  <2>2. ~AtEvent' /\ AtWord'
    BY <2>1 DEF AtEvent, AtWord, Routine, Correcting
  <2> QED
    BY <1>3, <2>2 DEF NoWord
<1> QED
  BY <1>1, <1>2, <1>3 DEF MaybeExecute

LEMMA GetEventEvents ==
    ASSUME EventInv, GetEvent
    PROVE  QueueEvents' /\ EngineEvents' /\ AtWord' /\ WordEvents'
<1> HoldTypeOK
  BY DEF EventInv, TypeInv
<1>1. inbox \in Seq(Queueable) /\ inbox # <<>> /\ Len(inbox) <= QueueSize /\ Len(inbox) \in Nat
  BY DEF GetEvent, EventInv, BackendEvents, QueueEvents
<1>2. /\ Head(inbox) \in Queueable /\ Tail(inbox) \in Seq(Queueable)
      /\ Len(Tail(inbox)) = Len(inbox) - 1
  BY <1>1, HeadTailProperties
<1>3. cur' = Head(inbox) /\ inbox' = Tail(inbox)
  BY DEF GetEvent
<1>4. QueueEvents'
  BY <1>1, <1>2, <1>3, BoundsAssumption DEF QueueEvents
<1>5. cur' \in Queueable /\ cur' # None
  BY <1>2, <1>3, EventKinds
<1>6. /\ strokes' \in {strokes, <<>>} /\ pending' \in {pending, <<>>}
      /\ pauseDue' \in {pauseDue, FALSE} /\ wDeferred' \in {wDeferred, None}
      /\ UNCHANGED <<plan, drained, late, running>> /\ waiting' = FALSE
  BY DEF GetEvent, NoWord, wordVars, workVars
<1>7. wFocus' \in {wFocus, focus} /\ wPressed' \in {wPressed, {}} /\ wSince' \in {wSince, {}}
      /\ untracked' \in BOOLEAN
  BY DEF GetEvent, NoKeys, keyVars
<1>8. pc'["worker"] \in {"handle", "cancel"}
  BY DEF GetEvent, Call, Worker, HoldTypeOK, Threads
<1>9. WordEvents'
  <2>1. <<>> \in Seq(Press1)
    BY EmptySeq
  <2> QED
    BY <1>6, <2>1 DEF EventInv, WordEvents
<1>10. EngineEvents'
  BY <1>5, <1>6, <1>7 DEF EventInv, EngineEvents, HoldTypeOK
<1>11. AtWord'
  BY <1>8 DEF AtWord, Correcting
<1> QED
  BY <1>4, <1>9, <1>10, <1>11

\* The event that is handled, by what the handlers ask of it.
LEMMA CurKinds ==
    ASSUME EventInv, pc["worker"] = "handle"
    PROVE  /\ cur \in Queueable
           /\ cur.key # Pointer => cur \in Fresh \cup Withheld /\ cur.key \in Keys
           /\ cur.key # Pointer /\ cur.deferred => cur \in Withheld
           /\ cur.key # Pointer /\ ~cur.deferred => cur \in Fresh
           /\ cur.key # Pointer /\ cur.down /\ ~cur.deferred => cur \in Press1
           /\ cur.key \in Letters \cup Boundaries => cur \in Fresh
<1>1. cur \in Queueable
  BY DEF EventInv, EngineEvents, AtEvent
<1>2. ClickEvent.key = Pointer
  BY DEF ClickEvent
<1>3. \A ev \in Fresh : ev.key \in Keys /\ ~ev.deferred
  BY DEF Fresh, KeyEvent
<1>4. \A ev \in Withheld : ev.key \in ActionKeys /\ ev.key \in Keys /\ ev.deferred
  BY DEF Withheld, KeyEvent
<1>5. cur.key # Pointer => cur \in Fresh \cup Withheld
  BY <1>1, <1>2 DEF Queueable
<1>6. cur.key \in Letters \cup Boundaries => cur.key # Pointer /\ cur.key \notin ActionKeys
  BY KeysAssumption DEF Keys
<1> QED
  BY <1>1, <1>3, <1>4, <1>5, <1>6 DEF Press1

LEMMA HandleEvents ==
    ASSUME EventInv, HandleEvent
    PROVE  QueueEvents' /\ EngineEvents' /\ AtWord' /\ WordEvents'
<1> HoldTypeOK
  BY DEF EventInv, TypeInv
<1>1. pc["worker"] = "handle"
  BY DEF HandleEvent, HandlePointer, HandleSuspended, HandlePromptEnter, HandleLetter,
     HandleBoundary, HandleAction, HandleDelivered, HandleRelease, Handles
<1>2. UNCHANGED handled /\ cur' = None
  BY DEF HandleEvent, HandlePointer, HandleSuspended, HandlePromptEnter, HandleLetter,
     HandleBoundary, HandleAction, HandleDelivered, HandleRelease, Done
<1>3. QueueEvents'
  BY <1>2 DEF handled, queueVars, EventInv, BackendEvents, QueueEvents
<1>4. /\ wPressed' \subseteq Keys /\ wSince' \subseteq Keys
      /\ untracked' \in BOOLEAN
  <2>1. cur.key # Pointer => cur.key \in Keys
    BY <1>1, CurKinds
  <2>2. wPressed \subseteq Keys /\ wSince \subseteq Keys /\ untracked \in BOOLEAN
    BY DEF EventInv, EngineEvents
  <2>3. \/ UNCHANGED keyVars
        \/ cur.key # Pointer /\ Press(cur.key)
        \/ cur.key # Pointer /\ wPressed' = wPressed \cup {cur.key} /\ wSince' = {}
        \/ wPressed' = wPressed \ {cur.key} /\ wSince' = wSince \ {cur.key}
    BY DEF HandleEvent, HandlePointer, HandleSuspended, HandlePromptEnter, HandleLetter,
       HandleBoundary, HandleAction, HandleDelivered, HandleRelease, Handles, wordKeyVars
  <2>4. untracked' \in {untracked, FALSE}
    BY DEF HandleEvent, HandlePointer, HandleSuspended, HandlePromptEnter, HandleLetter,
       HandleBoundary, HandleAction, HandleDelivered, HandleRelease, wordKeyVars
  <2> QED
    BY <2>1, <2>2, <2>3, <2>4 DEF keyVars, Press
<1>5. /\ strokes \in Seq(Press1) /\ pending \in Seq(Press1) /\ plan \in Seq(Press1)
      /\ wDeferred \in Withheld \cup {None} /\ pauseDue \in BOOLEAN
      /\ <<>> \in Seq(Press1)
  BY EmptySeq DEF EventInv, EngineEvents, WordEvents
<1>6. /\ strokes' \in Seq(Press1) /\ pending' \in Seq(Press1) /\ plan' \in Seq(Press1)
      /\ wDeferred' \in Withheld \cup {None} /\ pauseDue' \in BOOLEAN
      /\ ~AtEvent' /\ AtWord'
  <2>1. CASE HandlePointer
    BY <2>1, <1>5, ClearWordEvents DEF HandlePointer
  <2>2. CASE HandleSuspended
    <3>1. CASE ClearWord("ready")
      BY <2>2, <3>1, <1>5, ClearWordEvents DEF HandleSuspended
    <3>2. CASE Worker("ready") /\ UNCHANGED <<wordVars, wDeferred, then>>
      BY <2>2, <3>2, <1>5, GoesReady DEF HandleSuspended, Worker, wordVars
    <3> QED
      BY <2>2, <3>1, <3>2 DEF HandleSuspended
  <2>3. CASE HandlePromptEnter
    <3>1. pc'["worker"] = "cancel" /\ then'["worker"] = "ready"
      BY <2>3 DEF HandlePromptEnter, Call, Worker, HoldTypeOK, Threads
    <3>2. ~AtEvent' /\ AtWord'
      BY <3>1 DEF AtEvent, AtWord, Correcting
    <3> QED
      BY <2>3, <3>2, <1>5 DEF HandlePromptEnter, wordVars
  <2>4. CASE HandleLetter
    <3>1. cur \in Press1
      BY <1>1, <2>4, CurKinds DEF HandleLetter, Handles, IsLetterPress, Fresh, Press1
    <3>2. Append(strokes, cur) \in Seq(Press1)
      BY <3>1, <1>5
    <3>3. /\ strokes' \in {strokes, Append(strokes, cur)} /\ pauseDue' \in {pauseDue, TRUE}
          /\ UNCHANGED <<plan, pending, wDeferred>> /\ pc' = [pc EXCEPT !["worker"] = "ready"]
      BY <2>4 DEF HandleLetter, Worker
    <3> QED
      BY <3>2, <3>3, <1>5, GoesReady
  <2>5. CASE HandleBoundary
    <3>1. cur \in Press1
      BY <1>1, <2>5, CurKinds DEF HandleBoundary, Handles, Fresh, Press1
    <3>2. strokes \o <<cur>> \in Seq(Press1)
      BY <3>1, <1>5
    <3>3. \/ UNCHANGED wordVars
          \/ Commit(<<cur>>)
          \/ pending' = <<>> /\ UNCHANGED <<strokes, pauseDue>>
      BY <2>5 DEF HandleBoundary
    <3>4. strokes' \in Seq(Press1) /\ pending' \in Seq(Press1) /\ pauseDue' \in BOOLEAN
      BY <3>2, <3>3, <1>5 DEF wordVars, Commit, Decided
    <3>5. UNCHANGED <<plan, wDeferred>> /\ pc' = [pc EXCEPT !["worker"] = "ready"]
      BY <2>5 DEF HandleBoundary, Worker
    <3> QED
      BY <3>4, <3>5, <1>5, GoesReady
  <2>6. CASE HandleAction
    <3>1. cur \in Withheld
      BY <1>1, <2>6, CurKinds DEF HandleAction, Handles
    <3>2. strokes \o <<>> \in Seq(Press1)
      BY <1>5
    <3>3. Commit(<<>>) \/ UNCHANGED wordVars
      BY <2>6 DEF HandleAction
    <3>4. strokes' \in Seq(Press1) /\ pending' \in Seq(Press1) /\ pauseDue' \in BOOLEAN
      BY <3>2, <3>3, <1>5 DEF wordVars, Commit, Decided
    <3>5. plan' = plan /\ wDeferred' = cur /\ pc' = [pc EXCEPT !["worker"] = "ready"]
      BY <2>6 DEF HandleAction, Worker
    <3> QED
      BY <3>1, <3>4, <3>5, <1>5, GoesReady
  <2>7. CASE HandleDelivered
    BY <2>7, <1>5, ClearWordEvents DEF HandleDelivered
  <2>8. CASE HandleRelease
    BY <2>8, <1>5, MaybeExecuteEvents DEF HandleRelease
  <2> QED
    BY <2>1, <2>2, <2>3, <2>4, <2>5, <2>6, <2>7, <2>8 DEF HandleEvent
<1>7. UNCHANGED <<running, waiting, wFocus, drained, late>>
  BY <1>2 DEF handled, runVars
<1>8. WordEvents'
  BY <1>6, <1>7 DEF EventInv, WordEvents
<1>9. EngineEvents'
  BY <1>2, <1>4, <1>6, <1>7 DEF EventInv, EngineEvents
<1> QED
  BY <1>3, <1>6, <1>8, <1>9

LEMMA TimerEvents ==
    ASSUME EventInv, ExpireAction \/ PollCurrentGroup \/ PauseCorrect
    PROVE  QueueEvents' /\ EngineEvents' /\ AtWord' /\ WordEvents'
<1> HoldTypeOK
  BY DEF EventInv, TypeInv
<1>1. UNCHANGED timed /\ waiting' = FALSE
  BY DEF ExpireAction, PollCurrentGroup, PauseCorrect, TimersRan
<1>2. QueueEvents' /\ UNCHANGED <<running, cur, drained, late>>
  BY <1>1 DEF timed, queueVars, EventInv, BackendEvents, QueueEvents
<1>3. /\ strokes \in Seq(Press1) /\ pending \in Seq(Press1) /\ plan \in Seq(Press1)
      /\ wDeferred \in Withheld \cup {None} /\ pauseDue \in BOOLEAN
      /\ wPressed \subseteq Keys /\ wSince \subseteq Keys /\ untracked \in BOOLEAN /\ wFocus \in Places
      /\ focus \in Places /\ <<>> \in Seq(Press1)
  BY EmptySeq DEF EventInv, EngineEvents, WordEvents, HoldTypeOK
<1>4. /\ wPressed' \subseteq Keys /\ wSince' \subseteq Keys /\ untracked' \in BOOLEAN
      /\ wFocus' \in Places
  BY <1>3 DEF ExpireAction, PollCurrentGroup, PauseCorrect, Awaited, NoKeys, PruneStalePresses
<1>5. /\ strokes' \in Seq(Press1) /\ pending' \in Seq(Press1) /\ plan' \in Seq(Press1)
      /\ wDeferred' \in Withheld \cup {None} /\ pauseDue' \in BOOLEAN
      /\ ~AtEvent' /\ AtWord'
  <2>1. CASE ClearWord("ready") /\ UNCHANGED plan
    BY <2>1, <1>3, ClearWordEvents
  <2>2. CASE MaybeExecute({})
    BY <2>2, <1>3, MaybeExecuteEvents
  <2>3. CASE PauseCorrect
    <3>1. UNCHANGED <<pending, wDeferred>>
      BY <2>3 DEF PauseCorrect
    <3>2. CASE Worker("ready") /\ UNCHANGED <<pauseDue, plan, strokes, outcome, then>>
      BY <3>1, <3>2, <1>3, GoesReady DEF Worker
    <3>3. CASE /\ pauseDue' = FALSE /\ plan' \in Decided(strokes) /\ plan' = <<>>
               /\ Worker("ready") /\ UNCHANGED <<strokes, outcome, then>>
      BY <3>1, <3>3, <1>3, GoesReady DEF Worker
    <3>4. CASE /\ pauseDue' = FALSE /\ plan' \in Decided(strokes)
               /\ strokes' = <<>> /\ Call("focus", "landed")
      <4>1. pc'["worker"] = "focus" /\ then'["worker"] = "landed"
        BY <3>4 DEF Call, Worker, HoldTypeOK, Threads
      <4>2. ~AtEvent' /\ AtWord'
        BY <4>1 DEF AtEvent, AtWord, Routine
      <4> QED
        BY <3>1, <3>4, <4>2, <1>3 DEF Decided
    <3> QED
      BY <2>3, <3>2, <3>3, <3>4 DEF PauseCorrect
  <2> QED
    BY <2>1, <2>2, <2>3 DEF ExpireAction, PollCurrentGroup
<1>6. WordEvents'
  BY <1>2, <1>5 DEF EventInv, WordEvents
<1>7. EngineEvents'
  BY <1>1, <1>2, <1>4, <1>5 DEF EventInv, EngineEvents
<1> QED
  BY <1>2, <1>5, <1>6, <1>7

LEMMA SubsetSeq ==
    ASSUME NEW S, NEW T, S \subseteq T, NEW s \in Seq(S)
    PROVE  s \in Seq(T)
BY SeqMonotonic

\* The letters of the queue are presses.
LEMMA LetterKinds == Queueable \cap LetterPresses \subseteq Press1
<1> SUFFICES ASSUME NEW ev \in Queueable \cap LetterPresses
             PROVE  ev \in Press1
  OBVIOUS
<1>1. ev.down /\ ev.key \in Letters
  BY DEF LetterPresses, IsLetterPress
<1>2. ev # ClickEvent /\ ev \notin Withheld
  BY <1>1, KeysAssumption DEF ClickEvent, Withheld, Keys
<1> QED
  BY <1>1, <1>2 DEF Queueable, Press1

\* What _collect_late_input makes of the word and the queue.
LEMMA CollectedEvents ==
    ASSUME NEW s \in Seq(Press1), NEW d \in Seq(Queueable), NEW S, NEW T
    PROVE  /\ Only(s, S) \in Seq(Press1) /\ Only(d, LetterPresses) \in Seq(Press1)
           /\ Only(s, S) \o Only(d, LetterPresses) \in Seq(Press1)
           /\ Only(d, T) \in Seq(Queueable)
<1>1. Only(s, S) \in Seq(Press1)
  <2>1. Only(s, S) \in Seq(Press1 \cap S)
    BY OnlyIn
  <2>2. Press1 \cap S \subseteq Press1
    OBVIOUS
  <2> QED
    BY <2>1, <2>2, SubsetSeq
<1>2. Only(d, LetterPresses) \in Seq(Press1)
  <2>1. Only(d, LetterPresses) \in Seq(Queueable \cap LetterPresses)
    BY OnlyIn
  <2> QED
    BY <2>1, LetterKinds, SubsetSeq
<1>3. Only(d, T) \in Seq(Queueable)
  <2>1. Only(d, T) \in Seq(Queueable \cap T)
    BY OnlyIn
  <2>2. Queueable \cap T \subseteq Queueable
    OBVIOUS
  <2> QED
    BY <2>1, <2>2, SubsetSeq
<1>4. Only(s, S) \o Only(d, LetterPresses) \in Seq(Press1)
  BY <1>1, <1>2, ConcatProperties
<1> QED
  BY <1>1, <1>2, <1>3, <1>4

\* A key-down and a key-up for each of them.
LEMMA ReplayedEvents ==
    ASSUME NEW s \in Seq(Press1)
    PROVE  /\ Replayed(s) \in Seq(Fresh) /\ Len(Replayed(s)) = 2 * Len(s)
           /\ \A i \in 1..2 * Len(s) :
                Replayed(s)[i] = IF i % 2 = 1 THEN s[(i + 1) \div 2] ELSE ReleaseOf(s[i \div 2].key)
<1>1. Len(s) \in Nat /\ 2 * Len(s) \in Nat
  OBVIOUS
<1>2. ASSUME NEW i \in 1..2 * Len(s)
      PROVE  (IF i % 2 = 1 THEN s[(i + 1) \div 2] ELSE ReleaseOf(s[i \div 2].key)) \in Fresh
  <2>1. CASE i % 2 = 1
    <3>1. (i + 1) \div 2 \in 1..Len(s)
      BY <1>1, <2>1
    <3>2. s[(i + 1) \div 2] \in Press1
      BY <3>1, ElementOfSeq
    <3> QED
      BY <2>1, <3>2, EventKinds
  <2>2. CASE i % 2 # 1
    <3>1. i \div 2 \in 1..Len(s)
      BY <1>1, <2>2
    <3>2. s[i \div 2] \in Press1
      BY <3>1, ElementOfSeq
    <3>3. s[i \div 2].key \in Keys
      BY <3>2 DEF Press1, Fresh, KeyEvent
    <3>4. ReleaseOf(s[i \div 2].key) \in Fresh
      BY <3>3, ReleaseFresh
    <3> QED
      BY <2>2, <3>4
  <2> QED
    BY <2>1, <2>2
<1>3. PICK r : r = Replayed(s)
  OBVIOUS
<1>4. r \in [1..2 * Len(s) -> Fresh]
  BY <1>2, <1>3 DEF Replayed
<1>5. r \in Seq(Fresh) /\ Len(r) = 2 * Len(s)
  <2>1. r \in Seq(Fresh)
    BY <1>1, <1>4, SeqDef
  <2>2. PICK m \in Nat : m = 2 * Len(s)
    BY <1>1
  <2>3. r \in [1..m -> Fresh]
    BY <1>4, <2>2
  <2>4. Len(r) = m
    BY ONLY <2>3, m \in Nat, SMT
  <2> QED
    BY <2>1, <2>2, <2>4
<1>6. \A i \in 1..2 * Len(s) :
        r[i] = IF i % 2 = 1 THEN s[(i + 1) \div 2] ELSE ReleaseOf(s[i \div 2].key)
  BY <1>3 DEF Replayed
<1> QED
  BY <1>3, <1>5, <1>6

LEMMA CheckFocusEvents ==
    ASSUME EventInv, CheckFocus \/ FieldRefuses
    PROVE  QueueEvents' /\ EngineEvents' /\ AtWord' /\ WordEvents'
<1> HoldTypeOK
  BY DEF EventInv, TypeInv
<1>1. QueueEvents' /\ UNCHANGED <<running, waiting, cur, drained, late>>
  BY DEF CheckFocus, FieldRefuses, handled, queueVars, runVars, EventInv, BackendEvents, QueueEvents
<1>2. /\ wPressed' \subseteq Keys /\ wSince' \subseteq Keys /\ untracked' \in BOOLEAN
      /\ wFocus' \in Places
  <2>1. wPressed' \in {wPressed, {}} /\ wSince' \in {wSince, {}} /\ wFocus' \in {wFocus, focus}
    BY DEF CheckFocus, FieldRefuses, NoKeys, wordKeyVars, keyVars, handled
  <2>2. untracked' \in {untracked, TRUE, FALSE}
    BY DEF CheckFocus, FieldRefuses, NoKeys, wordKeyVars, keyVars, handled, EventInv, EngineEvents
  <2> QED
    BY <2>1, <2>2 DEF EventInv, EngineEvents, HoldTypeOK
<1>3. /\ strokes \in Seq(Press1) /\ pending \in Seq(Press1) /\ plan \in Seq(Press1)
      /\ <<>> \in Seq(Press1) /\ wDeferred \in Withheld \cup {None} /\ pauseDue \in BOOLEAN
  BY EmptySeq DEF EventInv, EngineEvents, WordEvents
<1>4. /\ strokes' \in Seq(Press1) /\ pending' \in Seq(Press1) /\ plan' \in Seq(Press1)
      /\ wDeferred' \in Withheld \cup {None} /\ pauseDue' \in BOOLEAN
      /\ ~AtEvent' /\ AtWord'
  <2>1. CASE ClearWord("ready") /\ plan' = <<>>
    BY <1>3, <2>1, ClearWordEvents
  <2>2. CASE pc["worker"] = "focus" /\ Worker("hold") /\ UNCHANGED <<plan, wordVars, wDeferred, then>>
    <3>1. ~AtEvent' /\ AtWord'
      BY <2>2 DEF Worker, AtEvent, AtWord, EventInv, HoldTypeOK, Threads, Routine
    <3> QED
      BY <1>3, <2>2, <3>1 DEF wordVars
  <2> QED
    BY <2>1, <2>2 DEF CheckFocus, FieldRefuses
<1>5. WordEvents'
  BY <1>1, <1>4 DEF EventInv, WordEvents
<1>6. EngineEvents'
  BY <1>1, <1>2, <1>4 DEF EventInv, EngineEvents
<1> QED
  BY <1>1, <1>4, <1>5, <1>6

LEMMA CollectLateEvents ==
    ASSUME EventInv, CollectLate
    PROVE  QueueEvents' /\ EngineEvents' /\ AtWord' /\ WordEvents'
<1>1. pc["worker"] = "collect" /\ pc'["worker"] = "refill" /\ then' = then
  BY DEF CollectLate, Worker, EventInv, TypeInv, HoldTypeOK, Threads
<1>2. AtWord' /\ ~AtEvent'
  BY <1>1 DEF AtEvent, AtWord, EventInv, Correcting, Routine
<1>3. QueueEvents'
  <2>1. inbox' = <<>> /\ <<>> \in Seq(Queueable) /\ Len(<<>>) = 0
    BY EmptySeq DEF CollectLate
  <2> QED
    BY <2>1, BoundsAssumption DEF QueueEvents
<1>4. drained' \in Seq(Queueable)
  BY DEF CollectLate, EventInv, BackendEvents, QueueEvents
<1>5. WordEvents'
  BY <1>4 DEF CollectLate, EventInv, WordEvents, wordVars
<1>6. EngineEvents'
  BY <1>2 DEF CollectLate, EventInv, EngineEvents, runVars, wordKeyVars, keyVars, wordVars
<1> QED
  BY <1>2, <1>3, <1>5, <1>6

LEMMA RefillEvents ==
    ASSUME EventInv, RefillQueue
    PROVE  QueueEvents' /\ EngineEvents' /\ AtWord' /\ WordEvents'
<1>1. pc["worker"] = "refill" /\ pc'["worker"] \in {"release", "check"} /\ then' = then
  BY DEF RefillQueue, Releases, Worker, EventInv, TypeInv, HoldTypeOK, Threads
<1>2. AtWord' /\ ~AtEvent'
  BY <1>1 DEF AtEvent, AtWord, EventInv, Correcting, Routine
<1>3. /\ strokes \in Seq(Press1) /\ drained \in Seq(Queueable) /\ inbox \in Seq(Queueable)
      /\ Len(inbox) \in Nat /\ Len(inbox) <= QueueSize /\ QueueSize \in Nat
      /\ <<>> \in Seq(Press1) /\ <<>> \in Seq(Queueable)
  BY EmptySeq, BoundsAssumption DEF EventInv, WordEvents, BackendEvents, QueueEvents
<1>4. LateKeys \in Seq(Press1) /\ Only(strokes, InPlan) \in Seq(Press1)
  BY <1>3, CollectedEvents DEF LateKeys
<1>5. PICK p : p = PutBack
  OBVIOUS
<1>6. p \in Seq(Queueable) /\ Len(p) \in Nat
  <2>1. Only(drained, KeyUps) \in Seq(Queueable)
    BY <1>3, CollectedEvents
  <2>2. p \in Seq(Queueable)
    BY <1>3, <1>5, <2>1 DEF PutBack
  <2> QED
    BY <2>2
<1>7. QueueEvents'
  <2>1. CASE Len(p) > QueueSize - Len(inbox)
    <3>1. PICK q : q = SubSeq(p, 1, QueueSize - Len(inbox))
      OBVIOUS
    <3>2. q \in Seq(Queueable) /\ Len(q) = QueueSize - Len(inbox)
      BY <1>3, <1>6, <2>1, <3>1
    <3>3. inbox' = inbox \o q
      BY <1>5, <2>1, <3>1 DEF RefillQueue
    <3>4. inbox' \in Seq(Queueable) /\ Len(inbox') = Len(inbox) + Len(q)
      BY <1>3, <3>2, <3>3, ConcatProperties
    <3> QED
      BY <1>3, <3>2, <3>4 DEF QueueEvents
  <2>2. CASE ~(Len(p) > QueueSize - Len(inbox))
    <3>1. inbox' = inbox \o p
      BY <1>5, <2>2 DEF RefillQueue
    <3>2. inbox' \in Seq(Queueable) /\ Len(inbox') = Len(inbox) + Len(p)
      BY <1>3, <1>6, <3>1, ConcatProperties
    <3> QED
      BY <1>3, <1>6, <2>2, <3>2 DEF QueueEvents
  <2> QED
    BY <2>1, <2>2
<1>8. WordEvents'
  <2>1. /\ late' \in {LateKeys, <<>>} /\ strokes' \in {Only(strokes, InPlan), strokes}
        /\ drained' = <<>> /\ UNCHANGED <<pending, plan>>
    BY DEF RefillQueue
  <2> QED
    BY <1>3, <1>4, <2>1 DEF EventInv, WordEvents
<1>9. EngineEvents'
  BY <1>2 DEF RefillQueue, EventInv, EngineEvents, runVars, wordKeyVars, keyVars
<1> QED
  BY <1>2, <1>7, <1>8, <1>9

LEMMA LandedEvents ==
    ASSUME EventInv, Landed \/ CheckPlace
    PROVE  QueueEvents' /\ EngineEvents' /\ AtWord' /\ WordEvents'
<1> HoldTypeOK
  BY DEF EventInv, TypeInv
<1>1. CASE CheckPlace
  <2>1. pc["worker"] = "check" /\ pc'["worker"] \in {"release", "erase"} /\ then' = then
    BY <1>1 DEF CheckPlace, Releases, Worker, HoldTypeOK, Threads
  <2>2. AtWord' /\ ~AtEvent'
    BY <2>1 DEF AtEvent, AtWord, EventInv, Correcting, Routine
  <2>3. UNCHANGED <<inbox, engineVars>>
    BY <1>1 DEF CheckPlace, queueVars
  <2> QED
    BY <2>2, <2>3 DEF EventInv, BackendEvents, QueueEvents, EngineEvents, WordEvents, engineVars, runVars, wordKeyVars,
       keyVars, wordVars, workVars
<1>2. CASE Landed
  <2>1. UNCHANGED <<inbox, running, waiting, cur, wFocus, wPressed, wSince, untracked, drained>>
    BY <1>2 DEF Landed, queueVars, runVars, wordKeyVars, keyVars
  <2>2. /\ strokes \in Seq(Press1) /\ pending \in Seq(Press1) /\ plan \in Seq(Press1)
        /\ <<>> \in Seq(Press1) /\ wDeferred \in Withheld \cup {None} /\ pauseDue \in BOOLEAN
    BY EmptySeq DEF EventInv, EngineEvents, WordEvents
  <2>3. /\ strokes' \in Seq(Press1) /\ pending' \in Seq(Press1)
        /\ wDeferred' \in Withheld \cup {None} /\ pauseDue' \in BOOLEAN
        /\ ~AtEvent' /\ AtWord'
    <3>1. CASE NoWord /\ wDeferred' = None
               /\ \E l \in {"deliver", "cancel"} : Call(l, "ready")
      <4>1. pc'["worker"] \in {"deliver", "cancel"} /\ then'["worker"] = "ready"
        BY <3>1 DEF Call, Worker, HoldTypeOK, Threads
      <4>2. ~AtEvent' /\ AtWord'
        BY <4>1 DEF AtEvent, AtWord, Correcting
      <4> QED
        BY <2>2, <3>1, <4>2 DEF NoWord
    <3>2. CASE ClearWord("ready")
      BY <2>2, <3>2, ClearWordEvents
    <3>3. CASE WordGoesOn /\ Worker("ready") /\ UNCHANGED <<pauseDue, pending, wDeferred, then>>
      BY <2>2, <3>3, GoesReady DEF WordGoesOn, Worker
    <3> QED
      BY <1>2, <3>1, <3>2, <3>3 DEF Landed
  <2>4. plan' = <<>> /\ late' = <<>>
    BY <1>2 DEF Landed
  <2>5. QueueEvents'
    BY <2>1 DEF EventInv, BackendEvents, QueueEvents
  <2>6. WordEvents'
    BY <2>1, <2>2, <2>3, <2>4 DEF EventInv, WordEvents
  <2>7. EngineEvents'
    BY <2>1, <2>3 DEF EventInv, EngineEvents
  <2> QED
    BY <2>3, <2>5, <2>6, <2>7
<1> QED
  BY <1>1, <1>2

LEMMA BooksEvents ==
    ASSUME EventInv, WorkerBooks, Books, TypeInv'
    PROVE  EventInv'
<1>1. QueueEvents' /\ EngineEvents' /\ AtWord' /\ WordEvents'
  BY GetEventEvents, HandleEvents, TimerEvents, CheckFocusEvents, CollectLateEvents, RefillEvents,
     LandedEvents DEF WorkerBooks
<1>2. UNCHANGED <<held, hook, deferred, item, text, dropped>>
  BY DEF Books, quietVars, hookVars, holdVars, actionVars, windowVars
<1>3. HookEvents' /\ TextEvents'
  BY <1>2 DEF EventInv, BackendEvents, HookEvents, TextEvents
<1> QED
  BY <1>1, <1>3 DEF EventInv, BackendEvents

-----------------------------------------------------------------------------
(* Injections *)

LEMMA FollowEvents ==
    ASSUME HoldTypeOK, HookEvents, NEW ks, FollowKeys(ks)
    PROVE  held' \in Seq(Fresh)
<1>1. CASE ~hooked
  BY <1>1 DEF FollowKeys, HookEvents
<1>2. CASE hooked
  <2> DEFINE S == {k \in ks \cap prior : PressHeld(k)}
  <2>1. PICK o \in Orders(S) : held' = held \o [i \in DOMAIN o |-> ReleaseOf(o[i])]
    BY <1>2 DEF FollowKeys
  <2>2. S \subseteq Keys
    BY DEF HoldTypeOK
  <2>3. Cardinality(S) \in Nat
    BY <2>2, KeysAssumption, FS_Subset, FS_CardinalityType
  <2>4. o \in [1..Cardinality(S) -> S]
    BY <2>1 DEF Orders
  <2>5. \A i \in DOMAIN o : o[i] \in Keys
    BY <2>2, <2>4
  <2>6. PICK g : g = [i \in DOMAIN o |-> ReleaseOf(o[i])]
    OBVIOUS
  <2>7. g \in [1..Cardinality(S) -> Fresh]
    BY <2>4, <2>5, <2>6, ReleaseFresh
  <2> HIDE DEF S
  <2>8. g \in Seq(Fresh)
    BY <2>3, <2>7, SeqDef
  <2> QED
    BY <2>1, <2>6, <2>8, ConcatProperties DEF HookEvents
<1> QED BY <1>1, <1>2

LEMMA NumbersType ==
    ASSUME NEW s \in Seq(Press1)
    PROVE  /\ Numbers(s) \in Seq(Nat) /\ Len(Numbers(s)) = Len(s)
           /\ \A i \in 1..Len(s) : Numbers(s)[i] = s[i].n
<1>1. PICK r : r = Numbers(s)
  OBVIOUS
<1>2. DOMAIN s = 1..Len(s) /\ Len(s) \in Nat
  OBVIOUS
<1>3. \A i \in 1..Len(s) : s[i].n \in Nat
  <2> SUFFICES ASSUME NEW i \in 1..Len(s)
               PROVE  s[i].n \in Nat
    OBVIOUS
  <2>1. s[i] \in Press1
    BY ElementOfSeq
  <2> QED
    BY <2>1 DEF Press1, Fresh, KeyEvent
<1>4. r \in [1..Len(s) -> Nat] /\ \A i \in 1..Len(s) : r[i] = s[i].n
  BY <1>1, <1>2, <1>3 DEF Numbers
<1>5. r \in Seq(Nat)
  BY <1>2, <1>4, SeqDef
<1>6. Len(r) = Len(s)
  BY <1>2, <1>4, <1>5
<1> QED
  BY <1>1, <1>4, <1>5, <1>6

LEMMA TypeIntoEvents ==
    ASSUME HoldTypeOK, HookEvents, TextEvents, NEW base \in Seq(Nat), NEW s \in Seq(Press1),
           TypeInto(base, s)
    PROVE  held' \in Seq(Fresh) /\ text' \in [Places -> Seq(Nat)]
<1>1. held' \in Seq(Fresh)
  BY FollowEvents DEF TypeInto
<1>2. base \o Numbers(s) \in Seq(Nat)
  BY NumbersType, ConcatProperties
<1>3. text' = [text EXCEPT ![focus] = base \o Numbers(s)]
  BY DEF TypeInto
<1> QED
  BY <1>1, <1>2, <1>3 DEF TextEvents

LEMMA InjectsEvents ==
    ASSUME EventInv, Injects, Erase \/ EraseAndType \/ TypeWord \/ Retype \/ InjectionFails, TypeInv'
    PROVE  EventInv'
<1> HoldTypeOK
  BY DEF EventInv, TypeInv
<1>1. UNCHANGED <<hook, deferred, item, then, engineVars>>
  BY DEF Injects, injecting, hookVars
<1>2. pc["worker"] \in Correcting /\ pc'["worker"] \in Correcting \cup {"release"}
  BY DEF Injects, HoldTypeOK, Threads
<1>3. AtWord' /\ ~AtEvent'
  BY <1>1, <1>2 DEF AtEvent, AtWord, EventInv, Correcting, Routine
<1>4. EngineEvents' /\ WordEvents'
  BY <1>1, <1>3 DEF EventInv, EngineEvents, WordEvents, engineVars, runVars, wordKeyVars,
     keyVars, wordVars, workVars
<1>5. /\ HookEvents /\ TextEvents /\ QueueEvents /\ focus \in Places
      /\ plan \in Seq(Press1) /\ late \in Seq(Press1)
      /\ text[focus] \in Seq(Nat)
  BY DEF EventInv, BackendEvents, TextEvents, WordEvents, HoldTypeOK
<1>6. Erased(text[focus], Len(plan) + Len(late)) \in Seq(Nat)
  <2>1. PICK s : s = text[focus]
    OBVIOUS
  <2>2. PICK m \in Nat : m = Len(plan) + Len(late)
    BY <1>5
  <2>3. s \in Seq(Nat)
    BY <1>5, <2>1
  <2>4. Len(s) \in Nat /\ \A i \in 1..Len(s) - m : s[i] \in Nat
    BY <2>3
  <2>5. SubSeq(s, 1, Len(s) - m) \in Seq(Nat)
    BY <2>4, SubSeqProperties
  <2> QED
    BY <2>1, <2>2, <2>5 DEF Erased
<1>7. held' \in Seq(Fresh) /\ text' \in [Places -> Seq(Nat)]
  <2>1. CASE Erase
    BY <1>5, <1>6, <2>1 DEF Erase, HookEvents, TextEvents
  <2>2. CASE EraseAndType \/ TypeWord \/ Retype
    BY <1>5, <1>6, <2>2, TypeIntoEvents DEF EraseAndType, TypeWord, Retype
  <2>3. CASE InjectionFails
    BY <1>5, <2>3 DEF InjectionFails, HookEvents, TextEvents
  <2> QED
    BY <2>1, <2>2, <2>3
<1>8. dropped' \subseteq Nat
  <2>1. \A s \in Seq(Press1) : Ids(s) \subseteq Nat
    BY DEF Ids, Press1, Fresh, KeyEvent
  <2>2. Ids(plan) \subseteq Nat /\ Ids(late) \subseteq Nat /\ dropped \subseteq Nat
    BY <1>5, <2>1 DEF TextEvents
  <2>3. dropped' \subseteq dropped \cup Ids(plan) \cup Ids(late)
    BY DEF Erase, EraseAndType, TypeWord, Retype, InjectionFails
  <2> QED
    BY <2>2, <2>3
<1>9. QueueEvents'
  <2>1. CASE inbox' = inbox
    BY <1>5, <2>1 DEF QueueEvents
  <2>2. CASE Retype /\ hooked
    <3>1. PICK r : r = Replayed(late)
      OBVIOUS
    <3>2. r \in Seq(Queueable)
      <4>1. r \in Seq(Fresh)
        BY <1>5, <3>1, ReplayedEvents
      <4>2. Fresh \subseteq Queueable
        BY DEF Queueable
      <4> QED
        BY <4>1, <4>2, SubsetSeq
    <3>3. PICK all : all = inbox \o r
      OBVIOUS
    <3>4. all \in Seq(Queueable)
      BY <1>5, <3>2, <3>3, ConcatProperties DEF QueueEvents
    <3>5. inbox' = IF Len(all) > QueueSize THEN SubSeq(all, 1, QueueSize) ELSE all
      BY <2>2, <3>1, <3>3 DEF Retype
    <3>6. CASE Len(all) > QueueSize
      <4>1. SubSeq(all, 1, QueueSize) \in Seq(Queueable) /\ Len(SubSeq(all, 1, QueueSize)) = QueueSize
        BY <3>4, <3>6, BoundsAssumption
      <4> QED
        BY <3>5, <3>6, <4>1, BoundsAssumption DEF QueueEvents
    <3>7. CASE ~(Len(all) > QueueSize)
      <4>1. inbox' = all /\ Len(all) \in Nat
        BY <3>4, <3>5, <3>7
      <4> QED
        BY <3>4, <3>7, <4>1, BoundsAssumption DEF QueueEvents
    <3> QED
      BY <3>6, <3>7
  <2> QED
    BY <2>1, <2>2 DEF Erase, EraseAndType, TypeWord, Retype, InjectionFails, queueVars
<1>10. HookEvents'
  BY <1>1, <1>5, <1>7 DEF HookEvents
<1> QED
  BY <1>3, <1>4, <1>7, <1>8, <1>9, <1>10 DEF EventInv, BackendEvents, TextEvents

-----------------------------------------------------------------------------

LEMMA StopEvents ==
    ASSUME EventInv, HoldInput \/ Stop \/ Unhook \/ UNCHANGED vars, TypeInv'
    PROVE  EventInv'
<1>1. UNCHANGED <<held, hook, deferred, item, inbox, text, dropped>>
  BY DEF HoldInput, Stop, Unhook, hookVars, holdVars, actionVars, callerVars, windowVars, queueVars, vars, backendVars
<1>2. BackendEvents'
  BY <1>1 DEF EventInv, BackendEvents, HookEvents, QueueEvents, TextEvents
<1>3. /\ UNCHANGED <<cur, wFocus, wordKeyVars, wDeferred, wordVars, workVars>>
      /\ running' \in BOOLEAN /\ waiting' \in BOOLEAN
  BY DEF EventInv, EngineEvents, HoldInput, Stop, Unhook, vars, engineVars, runVars, Ready
<1>4. WordEvents'
  BY <1>3 DEF EventInv, WordEvents, wordVars, workVars
<1>5. /\ \/ pc'["worker"] = pc["worker"]
         \/ pc["worker"] = "hold" /\ pc'["worker"] = "collect"
      /\ then'["worker"] = then["worker"]
  BY DEF HoldInput, Worker, Stop, Unhook, vars, backendVars, callerVars, EventInv, TypeInv, HoldTypeOK, Threads
<1>6. AtWord' /\ (AtEvent' => AtEvent)
  BY <1>5 DEF EventInv, AtEvent, AtWord, Routine, Correcting
<1>7. EngineEvents'
  BY <1>3, <1>6 DEF EventInv, EngineEvents, wordKeyVars, keyVars, wordVars
<1> QED
  BY <1>2, <1>4, <1>6, <1>7 DEF EventInv

\* Every step, with what is done to the text and the queue.
LEMMA InjectCases ==
    ASSUME HoldTypeOK, [Next]_vars
    PROVE  \/ BackendStep(User) \/ BackendStep(RuleWindowReports) \/ BackendStep(HookStep)
           \/ \E t \in Threads : BackendStep(ReleaseStep(t)) \/ BackendStep(ActionStep(t))
           \/ (WorkerBooks /\ Books) \/ HoldInput
           \/ Injects /\ (Erase \/ EraseAndType \/ TypeWord \/ Retype \/ InjectionFails)
           \/ Stop \/ Unhook
           \/ UNCHANGED vars
<1>1. CASE Next
  <2>1. CASE \E t \in Threads : BackendStep(Caller(t))
    BY <2>1 DEF BackendStep, Caller
  <2>2. CASE WorkerStep
    BY <2>2, GetEventBooks, HandleEventBooks, CorrectionBooks, InjectionInjects
       DEF WorkerStep, Correction, WorkerBooks
  <2>3. CASE ExpireAction \/ PollCurrentGroup \/ PauseCorrect
    BY <2>3, TimersBooks DEF WorkerBooks
  <2> QED
    BY <1>1, <2>1, <2>2, <2>3 DEF Next
<1> QED
  BY <1>1

LEMMA EventStep == EventInv /\ CorrectInv /\ [Next]_vars => EventInv'
<1> SUFFICES ASSUME EventInv, CorrectInv, [Next]_vars
             PROVE  EventInv'
  OBVIOUS
<1>1. TypeInv /\ HoldTypeOK /\ TypeInv'
  BY TypeStep DEF EventInv, TypeInv
<1> QED
  BY <1>1, InjectCases, BackendStepEvents, BooksEvents, InjectsEvents, StopEvents

LEMMA EventInit == Init => EventInv
<1> SUFFICES ASSUME Init
             PROVE  EventInv
  OBVIOUS
<1>1. focus \in Places /\ pc["worker"] = "ready"
  BY DEF Init, Places, Threads
<1>2. <<>> \in Seq(Fresh) /\ <<>> \in Seq(Queueable) /\ <<>> \in Seq(Press1) /\ <<>> \in Seq(Nat)
      /\ Len(<<>>) = 0
  BY EmptySeq
<1>3. HookEvents
  BY <1>2 DEF Init, HookEvents, IdleHook
<1>4. QueueEvents /\ TextEvents
  BY <1>2, BoundsAssumption DEF Init, QueueEvents, TextEvents
<1>5. EngineEvents /\ AtWord /\ WordEvents
  BY <1>1, <1>2 DEF Init, EngineInit, EngineEvents, AtEvent, AtWord, Routine, Correcting, WordEvents
<1> QED
  BY <1>3, <1>4, <1>5, TypeInit DEF EventInv, BackendEvents

LEMMA EventsHold == Spec => []EventInv
BY EventInit, EventStep, CorrectInit, CorrectStep, TypesHold, PTL DEF Spec

\* The state of the hook, the buffer, the queue, the windows' text and the worker's word is
\* well-typed, and the queue is never longer than its bound (enqueue, _collect_late_input,
\* _inject_correction's keys).
THEOREM WindowsTypes == Spec => []TypeOK
<1>1. EventInv => TypeOK
  <2> SUFFICES ASSUME EventInv
               PROVE  TypeOK
    OBVIOUS
  <2>1. Queueable \subseteq Event /\ Press1 \subseteq Event /\ Withheld \subseteq Event
    BY EventKinds
  <2>2. /\ inbox \in Seq(Event) /\ drained \in Seq(Event) /\ strokes \in Seq(Event)
        /\ pending \in Seq(Event) /\ plan \in Seq(Event) /\ late \in Seq(Event)
    BY <2>1, SubsetSeq DEF EventInv, BackendEvents, QueueEvents, WordEvents
  <2>3. cur \in Event \cup {None} /\ wDeferred \in Event \cup {None}
    BY <2>1 DEF EventInv, EngineEvents
  <2> QED
    BY <2>2, <2>3 DEF EventInv, TypeInv, BackendEvents, QueueEvents, TextEvents, EngineEvents, TypeOK,
       Strokes
<1> QED
  BY <1>1, EventsHold, PTL

-----------------------------------------------------------------------------
(* Where the worker is with its word *)

\* Nothing rare happened but what the text can bear.
Calm == odd \subseteq {"orphaned"}

\* Nothing happened that lets a press pass the holding or lose its place in the buffer.
Steady == odd \cap {"slipped", "failed", "cut"} = {}

W == pc["worker"]

\* While the program runs the hook is there with its filter, and the worker does not wait.
RunInv ==
    /\ running <=> pc["stop"] = "running"
    /\ running => filtering /\ hooked /\ ~waiting

\* The worker executes a plan, from the check of the focus to the return of _execute_correction.
Executing ==
    \/ W \in Correcting \cup {"focus", "hold", "landed", "acted"}
    \/ W \in Routine /\ then["worker"] \in {"landed", "acted"}

\* What the worker has in hand, by where it is.
Phases ==
    /\ plan # <<>> => Executing
    /\ drained # <<>> => W = "refill"
    /\ cur # None => AtEvent
    /\ untracked => strokes = <<>> /\ pending = <<>> /\ plan = <<>>
    /\ Executing => pending = <<>>
    /\ W \in (Correcting \ {"restore"}) \cup {"focus", "hold"} => outcome["worker"] = "yes"
    /\ W \in {"deliver", "submit"} => strokes = <<>> /\ pending = <<>> /\ then["worker"] = "ready"
    /\ W \in {"landed", "acted"} => then["worker"] = W

\* A step of the hook, of a caller or of the user moves the worker along its routine only.
WorkerGoes ==
    \/ W' = W
    \/ W \in Routine /\ W' \in (Routine \ {"deliver", "submit"}) \cup {then["worker"]}
    \/ W = "deliver" /\ W' = "submit"

LEMMA HookGoes ==
    ASSUME HoldTypeOK, WaitsForHook, BackendStep(HookStep)
    PROVE  WorkerGoes /\ pc'["stop"] \in {pc["stop"], "loop"} /\ (pc'["stop"] # pc["stop"] => pc["stop"] = "sent")
           /\ outcome' = outcome /\ then' = then
<1>1. hook.at # "idle" /\ UNCHANGED <<then, outcome>>
  BY DEF BackendStep, HookStep, HookLock, HookTrack, AnswerRelease, AnswerRepeat, AnswerPress,
     AnswerDefers, HookDefer, callerVars
<1>2. \/ pc' = pc
      \/ hook.by \in Threads /\ pc' = [pc EXCEPT ![hook.by] = "loop"]
  BY DEF BackendStep, HookStep, HookLock, HookTrack, AnswerRelease, AnswerRepeat, AnswerPress,
     AnswerDefers, HookDefer, Answered, callerVars
<1> QED
  BY <1>1, <1>2 DEF WaitsForHook, WorkerGoes, W, Routine, HoldTypeOK, Threads

LEMMA CallerSteps ==
    ASSUME TypeInv, NEW t \in Threads, BackendStep(ReleaseStep(t)) \/ BackendStep(ActionStep(t))
    PROVE  /\ then' = then
           /\ \A u \in Threads \ {t} : pc'[u] = pc[u] /\ outcome'[u] = outcome[u] /\ item'[u] = item[u]
           /\ outcome'[t] # outcome[t] => pc'[t] = "finally"
           /\ pc[t] \in Routine \ {"sent"}
           /\ \/ pc'[t] \in (Routine \ {"deliver", "submit"}) \cup {then[t]}
              \/ pc[t] = "deliver" /\ pc'[t] = "submit"
              \/ t = "stop" /\ pc'[t] = "raised"
<1> HoldTypeOK
  BY DEF TypeInv
<1> USE DEF Routine, HoldTypeOK
<1>1. CASE Release(t) \/ Finally(t)
  BY <1>1 DEF Release, Finally, EndRelease, Back, Goto
<1>2. CASE LoopBehindAction(t) \/ Loop(t)
  BY <1>2 DEF LoopBehindAction, Loop, Take, Goto
<1>3. CASE Send(t) \/ SendFails(t)
  BY <1>3 DEF Send, SendFails, Goto
<1>4. CASE ActionStep(t)
  BY <1>4 DEF ActionStep, Deliver, Submit, SubmitFails, Cancel, Clear, Goto
<1> QED
  BY <1>1, <1>2, <1>3, <1>4 DEF BackendStep, ReleaseStep

-----------------------------------------------------------------------------

LEMMA RunBackend ==
    ASSUME TypeInv, WaitsForHook, StopInv, RunInv,
           \/ BackendStep(User) \/ BackendStep(RuleWindowReports) \/ BackendStep(HookStep)
           \/ \E t \in Threads : BackendStep(ReleaseStep(t)) \/ BackendStep(ActionStep(t))
    PROVE  RunInv'
<1> HoldTypeOK
  BY DEF TypeInv
<1>1. UNCHANGED <<running, waiting>>
  BY DEF BackendStep, engineVars, runVars
<1>2. CASE BackendStep(User) \/ BackendStep(RuleWindowReports)
  BY <1>1, <1>2 DEF BackendStep, User, TypeKey, FocusMoves, Click, RuleWindowReports, hookVars,
     callerVars, RunInv
<1>3. CASE BackendStep(HookStep)
  <2>1. UNCHANGED <<filtering, hooked>>
    BY <1>3 DEF BackendStep, HookStep, HookLock, HookTrack, AnswerRelease, AnswerRepeat, AnswerPress,
       AnswerDefers, HookDefer
  <2> QED
    BY <1>1, <1>3, <2>1, HookGoes DEF RunInv
<1>4. ASSUME NEW t \in Threads, BackendStep(ReleaseStep(t)) \/ BackendStep(ActionStep(t))
      PROVE  RunInv'
  <2>1. UNCHANGED <<filtering, hooked>>
    BY <1>4 DEF BackendStep, ReleaseStep, Release, LoopBehindAction, Loop, Send, SendFails, Finally,
       ActionStep, Deliver, Submit, SubmitFails, Cancel, Clear, hookVars
  <2>2. pc'["stop"] = pc["stop"] \/ t = "stop"
    BY <1>4, CallerSteps DEF Threads
  <2>3. t = "stop" => pc["stop"] # "running" /\ pc'["stop"] # "running"
    BY <1>4, CallerSteps DEF StopInv, Routine
  <2> QED
    BY <1>1, <2>1, <2>2, <2>3 DEF RunInv
<1> QED
  BY <1>2, <1>3, <1>4

LEMMA RunWorker ==
    ASSUME HoldTypeOK, RunInv, (WorkerBooks /\ Books) \/ HoldInput \/ Injects
    PROVE  RunInv'
<1>1. UNCHANGED <<filtering, hooked, running>> /\ pc'["stop"] = pc["stop"]
  BY DEF Books, GoesOn, quietVars, HoldInput, Worker, Injects, injecting, hookVars, engineVars, runVars,
     HoldTypeOK, Threads
<1>2. waiting' = waiting \/ ~waiting'
  <2>1. CASE WorkerBooks
    BY <2>1 DEF WorkerBooks, GetEvent, HandleEvent, HandlePointer, HandleSuspended,
       HandlePromptEnter, HandleLetter, HandleBoundary, HandleAction, HandleDelivered, HandleRelease,
       handled, ExpireAction, PollCurrentGroup, PauseCorrect, TimersRan, CheckFocus, FieldRefuses,
       CollectLate, RefillQueue, CheckPlace, Landed, runVars, engineVars
  <2>2. CASE HoldInput \/ Injects
    BY <2>2 DEF HoldInput, Injects, injecting, engineVars, runVars
  <2> QED
    BY <2>1, <2>2
<1> QED
  BY <1>1, <1>2 DEF RunInv

LEMMA RunStep == TypeInv /\ CorrectInv /\ RestInv /\ RunInv /\ [Next]_vars => RunInv'
<1> SUFFICES ASSUME TypeInv, CorrectInv, RestInv, RunInv, [Next]_vars
             PROVE  RunInv'
  OBVIOUS
<1> HoldTypeOK /\ WaitsForHook /\ StopInv
  BY DEF TypeInv, RestInv
<1>1. CASE Stop \/ Unhook
  <2>1. ~running' /\ pc'["stop"] = "cancel"
    <3>1. pc' = [pc EXCEPT !["stop"] = "cancel"]
      BY <1>1 DEF Stop, Unhook
    <3>2. CASE Stop
      BY <3>1, <3>2 DEF Stop, HoldTypeOK, Threads
    <3>3. CASE Unhook
      BY <3>1, <3>3 DEF Unhook, RunInv, engineVars, runVars, HoldTypeOK, Threads
    <3> QED
      BY <1>1, <3>2, <3>3
  <2> QED
    BY <2>1 DEF RunInv
<1>2. CASE UNCHANGED vars
  BY <1>2 DEF vars, backendVars, engineVars, hookVars, callerVars, runVars, RunInv
<1> QED
  BY <1>1, <1>2, WorkerCases, RunBackend, RunWorker

\* Once the program has been told to stop the worker does nothing, so one thread at most is at work.
LEMMA OneAtWork ==
    ASSUME TypeInv, CorrectInv, RestInv, RunInv, Calm \/ Steady, NEW t \in Threads, pc[t] \in Routine,
           NEW u \in Threads, u # t
    PROVE  pc[u] \notin Routine \cup Correcting \cup {"focus", "hold", "handle", "landed", "acted"}
BY DEF Calm, Steady, CorrectInv, StoppedWorker, Ready, RunInv, Routine, Correcting, RestInv, StopInv, Threads

-----------------------------------------------------------------------------

LEMMA PhasesGoes ==
    ASSUME HoldTypeOK, Phases, WorkerGoes, then'["worker"] = then["worker"],
           outcome'["worker"] = outcome["worker"] \/ W' = "finally",
           UNCHANGED <<cur, untracked, strokes, pending, plan, drained>>
    PROVE  Phases'
<1>1. then["worker"] \in Returns
  BY DEF HoldTypeOK, Threads
<1>2. (AtEvent <=> AtEvent') /\ (Executing <=> Executing')
  BY <1>1 DEF WorkerGoes, AtEvent, Executing, W, Routine, Correcting, Returns
<1>3. W' \in {"landed", "acted"} => then'["worker"] = W'
  BY <1>1 DEF WorkerGoes, W, Routine, Phases
<1>4. W' \in {"deliver", "submit"} => W \in {"deliver", "submit"}
  BY <1>1 DEF WorkerGoes, W, Returns, Routine
<1>5. W' \in Correcting \cup {"focus", "hold"} => W' = W
  BY <1>1 DEF WorkerGoes, W, Routine, Correcting, Returns
<1>6. W' = "refill" <=> W = "refill"
  BY <1>1 DEF WorkerGoes, W, Routine, Returns
<1>7. W' # "finally" \/ W' \notin (Correcting \ {"restore"}) \cup {"focus", "hold"}
  BY DEF Correcting
<1> QED
  BY <1>2, <1>3, <1>4, <1>5, <1>6, <1>7 DEF Phases

LEMMA PhasesBackend ==
    ASSUME TypeInv, WaitsForHook, Phases,
           \/ BackendStep(User) \/ BackendStep(RuleWindowReports) \/ BackendStep(HookStep)
           \/ \E t \in Threads : BackendStep(ReleaseStep(t)) \/ BackendStep(ActionStep(t))
    PROVE  Phases'
<1> HoldTypeOK
  BY DEF TypeInv
<1>1. UNCHANGED <<cur, untracked, strokes, pending, plan, drained>>
  BY DEF BackendStep, engineVars, wordKeyVars, wordVars, workVars
<1>2. CASE BackendStep(User) \/ BackendStep(RuleWindowReports)
  <2>1. UNCHANGED <<pc, then, outcome>>
    BY <1>2 DEF BackendStep, User, TypeKey, FocusMoves, Click, RuleWindowReports, callerVars
  <2> QED
    BY <1>1, <2>1, PhasesGoes DEF WorkerGoes, W
<1>3. CASE BackendStep(HookStep)
  BY <1>1, <1>3, HookGoes, PhasesGoes
<1>4. ASSUME NEW t \in Threads, BackendStep(ReleaseStep(t)) \/ BackendStep(ActionStep(t))
      PROVE  Phases'
  <2>1. WorkerGoes /\ then' = then /\ (outcome'["worker"] = outcome["worker"] \/ W' = "finally")
    BY <1>4, CallerSteps DEF WorkerGoes, W, Threads
  <2> QED
    BY <1>1, <2>1, PhasesGoes
<1> QED
  BY <1>2, <1>3, <1>4

\* The word is forgotten: where the worker then is.
LEMMA ClearWordGoes ==
    ASSUME HoldTypeOK, NEW l \in {"ready", "handle"}, ClearWord(l)
    PROVE  /\ strokes' = <<>> /\ pending' = <<>> /\ pauseDue' = FALSE /\ wDeferred' = None
           /\ W' = l \/ (W' = "cancel" /\ then'["worker"] = l)
           /\ wDeferred = None => W' = l
           /\ wDeferred # None => W' = "cancel" /\ then'["worker"] = l
           /\ then'["worker"] \in {then["worker"], l}
BY DEF ClearWord, NoWord, Call, Worker, HoldTypeOK, W, Threads

\* What _maybe_execute_pending does.
LEMMA MaybeExecuteGoes ==
    ASSUME HoldTypeOK, NEW down, MaybeExecute(down)
    PROVE  \/ /\ W' = "ready" /\ UNCHANGED <<strokes, pending, wDeferred, plan, then, outcome>>
              /\ down # {} \/ (wDeferred = None /\ pending = <<>>)
           \/ /\ W' = "focus" /\ plan' = pending /\ pending' = <<>> /\ UNCHANGED <<strokes, wDeferred>>
              /\ pending # <<>>
              /\ outcome'["worker"] = "yes" /\ then'["worker"] \in {"landed", "acted"}
              /\ then'["worker"] = "landed" <=> wDeferred = None
           \/ /\ W' = "deliver" /\ then'["worker"] = "ready" /\ UNCHANGED <<plan, outcome>>
              /\ strokes' = <<>> /\ pending' = <<>> /\ pending = <<>>
              /\ wDeferred # None /\ wDeferred' = None
BY DEF MaybeExecute, NoWord, Call, Worker, HoldTypeOK, W, Threads, wordVars

LEMMA PhasesGet ==
    ASSUME EventInv, Phases, GetEvent
    PROVE  Phases'
<1> HoldTypeOK
  BY DEF EventInv, TypeInv
<1>1. W = "ready" /\ plan = <<>> /\ drained = <<>>
  BY DEF GetEvent, Ready, W, Phases, Executing, Routine, Correcting
<1>2. UNCHANGED <<plan, drained>>
  BY DEF GetEvent, workVars
<1>3. \/ W' = "handle"
      \/ W' = "cancel" /\ then'["worker"] = "handle"
  BY DEF GetEvent, Worker, Call, HoldTypeOK, W, Threads
<1>4. AtEvent' /\ ~Executing'
  BY <1>3 DEF AtEvent, Executing, W, Routine, Correcting
<1>5. untracked' => strokes' = <<>> /\ pending' = <<>>
  BY <1>1 DEF GetEvent, NoWord, wordVars, Phases
<1> QED
  BY <1>1, <1>2, <1>3, <1>4, <1>5 DEF Phases, Correcting

LEMMA PhasesHandle ==
    ASSUME EventInv, Phases, HandleEvent
    PROVE  Phases'
<1> HoldTypeOK
  BY DEF EventInv, TypeInv
<1>1. W = "handle"
  BY DEF HandleEvent, HandlePointer, HandleSuspended, HandlePromptEnter, HandleLetter,
     HandleBoundary, HandleAction, HandleDelivered, HandleRelease, Handles, W
<1>2. UNCHANGED drained /\ cur' = None
  BY DEF HandleEvent, HandlePointer, HandleSuspended, HandlePromptEnter, HandleLetter,
     HandleBoundary, HandleAction, HandleDelivered, HandleRelease, Done, handled
<1>3. plan = <<>> /\ drained = <<>>
  BY <1>1 DEF Phases, Executing, Routine, Correcting
<1>4. /\ plan' = <<>>
      /\ W' = "ready" \/ (W' = "cancel" /\ then'["worker"] = "ready")
      /\ untracked' => strokes' = <<>> /\ pending' = <<>>
      => Phases'
  BY <1>2, <1>3 DEF Phases, Executing, Correcting, Routine
<1>5. CASE HandlePointer \/ HandleDelivered
  <2>1. ClearWord("ready") /\ plan' = plan
    BY <1>5 DEF HandlePointer, HandleDelivered
  <2> QED
    BY <1>3, <1>4, <2>1, ClearWordGoes
<1>6. CASE HandleSuspended
  <2>1. plan' = plan /\ untracked' = untracked
    BY <1>6 DEF HandleSuspended, wordKeyVars
  <2>2. CASE ClearWord("ready")
    BY <1>3, <1>4, <2>1, <2>2, ClearWordGoes
  <2>3. CASE Worker("ready") /\ UNCHANGED wordVars
    <3>1. W' = "ready" /\ UNCHANGED <<strokes, pending>>
      BY <2>3 DEF Worker, W, wordVars, HoldTypeOK, Threads
    <3> QED
      BY <1>3, <1>4, <2>1, <3>1 DEF Phases
  <2> QED
    BY <1>6, <2>2, <2>3 DEF HandleSuspended
<1>7. CASE HandlePromptEnter
  <2>1. W' = "cancel" /\ then'["worker"] = "ready" /\ UNCHANGED <<plan, strokes, pending, untracked>>
    BY <1>7 DEF HandlePromptEnter, Call, Worker, W, wordVars, wordKeyVars, HoldTypeOK, Threads
  <2> QED
    BY <1>3, <1>4, <2>1 DEF Phases
<1>8. CASE HandleLetter \/ HandleBoundary \/ HandleAction
  <2>1. W' = "ready" /\ plan' = plan
    BY <1>8 DEF HandleLetter, HandleBoundary, HandleAction, Worker, W, HoldTypeOK, Threads
  <2>2. untracked' => strokes' = <<>> /\ pending' = <<>>
    BY <1>8 DEF HandleLetter, HandleBoundary, HandleAction, Phases, wordVars
  <2> QED
    BY <1>3, <1>4, <2>1, <2>2
<1>9. CASE HandleRelease
  <2>1. untracked' = untracked /\ MaybeExecute(wPressed')
    BY <1>9 DEF HandleRelease
  <2>2. CASE W' = "ready" /\ UNCHANGED <<strokes, pending, plan>>
    BY <1>3, <1>4, <2>1, <2>2 DEF Phases
  <2>3. CASE /\ W' = "focus" /\ plan' = pending /\ pending' = <<>> /\ UNCHANGED strokes
             /\ pending # <<>>
             /\ outcome'["worker"] = "yes" /\ then'["worker"] \in {"landed", "acted"}
    <3>1. Executing' /\ ~untracked
      BY <2>3 DEF Executing, Phases
    <3> QED
      BY <1>2, <1>3, <2>1, <2>3, <3>1 DEF Phases, Correcting
  <2>4. CASE /\ W' = "deliver" /\ then'["worker"] = "ready" /\ UNCHANGED plan
             /\ strokes' = <<>> /\ pending' = <<>>
    BY <1>2, <1>3, <2>4 DEF Phases, Executing, Correcting, Routine
  <2> QED
    BY <2>1, <2>2, <2>3, <2>4, MaybeExecuteGoes
<1> QED
  BY <1>5, <1>6, <1>7, <1>8, <1>9 DEF HandleEvent

LEMMA PhasesTimers ==
    ASSUME EventInv, Phases, ExpireAction \/ PollCurrentGroup \/ PauseCorrect
    PROVE  Phases'
<1> HoldTypeOK
  BY DEF EventInv, TypeInv
<1>1. W = "ready" /\ plan = <<>> /\ drained = <<>> /\ cur = None
  BY DEF ExpireAction, PollCurrentGroup, PauseCorrect, Idle, Ready, W, Phases, Executing, Routine,
     Correcting, AtEvent
<1>2. UNCHANGED <<cur, drained>>
  BY DEF ExpireAction, PollCurrentGroup, PauseCorrect, timed
<1>3. /\ plan' = <<>>
      /\ W' = "ready" \/ (W' = "cancel" /\ then'["worker"] = "ready")
      /\ untracked' => strokes' = <<>> /\ pending' = <<>>
      => Phases'
  BY <1>1, <1>2 DEF Phases, Executing, Correcting, Routine
<1>4. CASE ExpireAction
  <2>1. untracked' = untracked
    BY <1>4 DEF ExpireAction
  <2>2. CASE ClearWord("ready") /\ plan' = plan
    BY <1>1, <1>3, <2>2, ClearWordGoes
  <2>3. CASE MaybeExecute({})
    <3>1. CASE W' = "ready" /\ UNCHANGED <<strokes, pending, plan>>
      BY <1>1, <1>3, <2>1, <3>1 DEF Phases
    <3>2. CASE /\ W' = "focus" /\ plan' = pending /\ pending' = <<>> /\ UNCHANGED strokes
               /\ pending # <<>>
               /\ outcome'["worker"] = "yes" /\ then'["worker"] \in {"landed", "acted"}
      <4>1. Executing' /\ ~untracked
        BY <3>2 DEF Executing, Phases
      <4> QED
        BY <1>1, <1>2, <2>1, <3>2, <4>1 DEF Phases, Correcting
    <3>3. CASE /\ W' = "deliver" /\ then'["worker"] = "ready" /\ UNCHANGED plan
               /\ strokes' = <<>> /\ pending' = <<>>
      BY <1>1, <1>2, <3>3 DEF Phases, Executing, Correcting, Routine
    <3> QED
      BY <2>3, <3>1, <3>2, <3>3, MaybeExecuteGoes
  <2> QED
    BY <1>4, <2>2, <2>3 DEF ExpireAction
<1>5. CASE PollCurrentGroup
  BY <1>1, <1>3, <1>5, ClearWordGoes DEF PollCurrentGroup
<1>6. CASE PauseCorrect
  <2>1. UNCHANGED <<untracked, pending>>
    BY <1>6 DEF PauseCorrect
  <2>2. CASE Worker("ready") /\ UNCHANGED strokes /\ (plan' = plan \/ plan' = <<>>)
    <3>1. W' = "ready"
      BY <2>2 DEF Worker, W, HoldTypeOK, Threads
    <3> QED
      BY <1>1, <1>3, <2>1, <2>2, <3>1 DEF Phases
  <2>3. CASE /\ pending = <<>> /\ plan' \in Decided(strokes) /\ plan' # <<>> /\ strokes' = <<>>
             /\ outcome' = [outcome EXCEPT !["worker"] = "yes"]
             /\ Call("focus", "landed")
    <3>1. W' = "focus" /\ then'["worker"] = "landed" /\ outcome'["worker"] = "yes" /\ plan' = strokes
      BY <2>3 DEF Call, Worker, W, HoldTypeOK, Threads, Decided
    <3>2. Executing' /\ ~untracked
      BY <2>3, <3>1 DEF Executing, Phases
    <3> QED
      BY <1>1, <1>2, <2>1, <2>3, <3>1, <3>2 DEF Phases, Correcting
  <2> QED
    BY <1>6, <2>2, <2>3 DEF PauseCorrect
<1> QED
  BY <1>4, <1>5, <1>6

LEMMA PhasesFocus ==
    ASSUME EventInv, Phases, CheckFocus \/ FieldRefuses
    PROVE  Phases'
<1> HoldTypeOK
  BY DEF EventInv, TypeInv
<1>1. W = "focus" /\ drained = <<>> /\ cur = None /\ Executing
  BY DEF CheckFocus, FieldRefuses, W, Phases, Executing, Routine, Correcting, AtEvent
<1>2. UNCHANGED <<cur, drained, outcome>>
  BY DEF CheckFocus, FieldRefuses, handled
<1>3. CASE ClearWord("ready") /\ plan' = <<>>
  BY <1>1, <1>2, <1>3, ClearWordGoes DEF Phases, Executing, Correcting, Routine
<1>4. CASE Worker("hold") /\ UNCHANGED <<plan, wordKeyVars, wordVars, then>>
  <2>1. W' = "hold"
    BY <1>4 DEF Worker, W, HoldTypeOK, Threads
  <2> QED
    BY <1>1, <1>2, <1>4, <2>1 DEF Phases, Executing, Correcting, Routine, wordKeyVars, wordVars
<1> QED
  BY <1>3, <1>4 DEF CheckFocus, FieldRefuses

LEMMA PhasesCollect ==
    ASSUME EventInv, Phases, CollectLate \/ RefillQueue \/ CheckPlace
    PROVE  Phases'
<1> HoldTypeOK
  BY DEF EventInv, TypeInv
<1>1. W \in {"collect", "refill", "check"} /\ cur = None /\ then["worker"] \in {"landed", "acted"}
  BY DEF CollectLate, RefillQueue, CheckPlace, W, Phases, Routine, Correcting, AtEvent, EventInv, AtWord
<1>2. UNCHANGED <<cur, then, plan, pending, untracked>>
  BY DEF CollectLate, RefillQueue, CheckPlace, engineVars, wordKeyVars, wordVars, workVars
<1>3. strokes = <<>> => strokes' = <<>>
  BY OnlyOfEmpty DEF CollectLate, RefillQueue, CheckPlace, engineVars, wordVars
<1>4. \/ W' = "refill" /\ outcome' = outcome
      \/ W' \in {"check", "erase"} /\ outcome' = outcome /\ drained' = <<>>
      \/ W' = "release" /\ drained' = <<>>
  <2>1. CASE CollectLate
    BY <2>1 DEF CollectLate, Worker, W, HoldTypeOK, Threads
  <2>2. CASE RefillQueue
    BY <2>2 DEF RefillQueue, Worker, Releases, W, HoldTypeOK, Threads
  <2>3. CASE CheckPlace
    BY <1>1, <2>3 DEF CheckPlace, Worker, Releases, W, HoldTypeOK, Threads, Phases, engineVars, workVars
  <2> QED
    BY <2>1, <2>2, <2>3
<1>5. Executing /\ Executing'
  BY <1>1, <1>2, <1>4 DEF Executing, W, Correcting, Routine
<1> QED
  BY <1>1, <1>2, <1>3, <1>4, <1>5 DEF Phases, Correcting

LEMMA PhasesLanded ==
    ASSUME EventInv, Phases, Landed
    PROVE  Phases'
<1> HoldTypeOK
  BY DEF EventInv, TypeInv
<1>1. W \in {"landed", "acted"} /\ cur = None /\ drained = <<>> /\ pending = <<>>
  BY DEF Landed, W, Phases, Executing, Routine, Correcting, AtEvent
<1>2. UNCHANGED <<cur, drained, untracked>> /\ plan' = <<>>
  BY DEF Landed, wordKeyVars
<1>3. /\ W' = "ready" \/ (W' = "cancel" /\ then'["worker"] = "ready")
      /\ untracked' => strokes' = <<>> /\ pending' = <<>>
      => Phases'
  BY <1>1, <1>2 DEF Phases, Executing, Correcting, Routine
<1>4. CASE NoWord /\ Call(IF outcome["worker"] = "yes" THEN "deliver" ELSE "cancel", "ready")
  <2>1. W' \in {"deliver", "cancel"} /\ then'["worker"] = "ready" /\ strokes' = <<>> /\ pending' = <<>>
    BY <1>4 DEF NoWord, Call, Worker, W, HoldTypeOK, Threads
  <2> QED
    BY <1>1, <1>2, <2>1 DEF Phases, Executing, Correcting, Routine
<1>5. CASE ClearWord("ready")
  BY <1>3, <1>5, ClearWordGoes
<1>6. CASE WordGoesOn /\ Worker("ready") /\ UNCHANGED pending
  <2>1. W' = "ready"
    BY <1>6 DEF Worker, W, HoldTypeOK, Threads
  <2>2. untracked' => strokes' = <<>> /\ pending' = <<>>
    BY <1>2, <1>6 DEF WordGoesOn, Phases
  <2> QED
    BY <1>3, <2>1, <2>2
<1> QED
  BY <1>4, <1>5, <1>6 DEF Landed

LEMMA PhasesInject ==
    ASSUME EventInv, Phases,
           HoldInput \/ (Injects /\ (Erase \/ EraseAndType \/ TypeWord \/ Retype \/ InjectionFails))
    PROVE  Phases'
<1> HoldTypeOK
  BY DEF EventInv, TypeInv
<1>1. /\ W \in {"hold", "erase", "type", "retype", "restore"} /\ cur = None
      /\ then["worker"] \in {"landed", "acted"}
  BY DEF HoldInput, Erase, EraseAndType, TypeWord, Retype, InjectionFails, W, Phases, Routine, Correcting,
     AtEvent, EventInv, AtWord
<1>2. UNCHANGED <<cur, then, plan, pending, untracked, strokes, drained>>
  BY DEF HoldInput, Injects, injecting, engineVars, wordKeyVars, wordVars, workVars
<1>3. /\ W' \in {"collect", "type", "retype"} => outcome' = outcome
      /\ W' \in {"collect", "type", "retype", "restore", "release"}
  <2>1. CASE HoldInput
    BY <2>1 DEF HoldInput, Worker, W, HoldTypeOK, Threads
  <2>2. CASE Erase \/ EraseAndType \/ TypeWord
    BY <2>2 DEF Erase, EraseAndType, TypeWord, AfterTyping, Worker, Releases, W, HoldTypeOK, Threads
  <2>3. CASE Retype
    BY <2>3 DEF Retype, Worker, Releases, W, HoldTypeOK, Threads
  <2>4. CASE InjectionFails
    BY <2>4 DEF InjectionFails, Worker, Releases, W, HoldTypeOK, Threads
  <2> QED
    BY <2>1, <2>2, <2>3, <2>4
<1>4. Executing /\ Executing'
  BY <1>1, <1>2, <1>3 DEF Executing, W, Correcting, Routine
<1>5. W' # "refill" /\ drained = <<>>
  BY <1>1, <1>3 DEF Phases
<1>6. W \in {"landed", "acted"} <=> FALSE
  BY <1>1
<1>7. W' \in (Correcting \ {"restore"}) \cup {"focus", "hold"} => outcome'["worker"] = "yes"
  <2>1. CASE W # "restore"
    BY <1>1, <1>3, <2>1 DEF Phases, Correcting
  <2>2. CASE W = "restore"
    <3>1. Retype \/ InjectionFails
      BY <2>2 DEF HoldInput, Erase, EraseAndType, TypeWord, W
    <3>2. W' = "release"
      BY <2>2, <3>1 DEF Retype, InjectionFails, Releases, Worker, W, HoldTypeOK, Threads
    <3> QED
      BY <3>2 DEF Correcting
  <2> QED
    BY <2>1, <2>2
<1> QED
  BY <1>1, <1>2, <1>3, <1>4, <1>5, <1>7 DEF Phases

LEMMA PhasesStep ==
    ASSUME EventInv, CorrectInv, Phases, [Next]_vars
    PROVE  Phases'
<1> TypeInv /\ HoldTypeOK /\ WaitsForHook
  BY DEF EventInv, TypeInv, CorrectInv
<1>1. CASE Stop \/ Unhook \/ UNCHANGED vars
  <2>1. /\ UNCHANGED <<cur, outcome, plan, pending, untracked, strokes, drained>>
        /\ W' = W /\ then'["worker"] = then["worker"]
    BY <1>1 DEF Stop, Unhook, W, vars, backendVars, callerVars, engineVars, wordKeyVars, wordVars, workVars,
       HoldTypeOK, Threads
  <2> QED
    BY <2>1, PhasesGoes DEF WorkerGoes
<1>2. CASE WorkerBooks
  BY <1>2, PhasesGet, PhasesHandle, PhasesTimers, PhasesFocus, PhasesCollect, PhasesLanded
     DEF WorkerBooks
<1> QED
  BY <1>1, <1>2, InjectCases, PhasesBackend, PhasesInject

-----------------------------------------------------------------------------
(* Who completes a withheld action *)

\* The events of a sequence, and whether a withheld action is among them.
Elems(s) == {s[i] : i \in DOMAIN s}
Has(s) == \E e \in Elems(s) : e.deferred

\* complete_action is under way in the worker.
Completing == W \in {"cancel", "deliver", "submit", "clear"}

\* While the program runs, of a withheld action either the engine has yet to hear, or it waits
\* for the word before it, or it is being completed.
Minded ==
    \/ Has(inbox) \/ Has(drained) \/ (cur # None /\ cur.deferred)
    \/ wDeferred # None
    \/ Completing

\* What the tags say of the queue and of the rule window.
Tagged ==
    /\ overflow => "overflowed" \in odd
    /\ suspended \/ focus = OwnWindow => RuleEditor /\ "strayed" \in odd
MindInv == Tagged /\ (running => deferred = None \/ Minded \/ Unheard)

LEMMA TaggedStep ==
    ASSUME HoldTypeOK, Tagged, [Next]_vars
    PROVE  Tagged'
<1> USE DEF Tagged
<1>1. odd \subseteq odd'
  BY OddGrows
<1>2. overflow' => overflow \/ "overflowed" \in odd'
  <2>1. ASSUME NEW e, Enqueue(e), NEW S, Remember(Lost \cup S)
        PROVE  overflow' => overflow \/ "overflowed" \in odd'
    BY <2>1 DEF Enqueue, Remember, Lost
  <2>2. CASE BackendStep(User) \/ BackendStep(RuleWindowReports)
    <3>1. ASSUME Click
          PROVE  overflow' => overflow \/ "overflowed" \in odd'
      <4>1. Remember((Lost \cup (IF BetweenCheckAndInput THEN {"moved"} ELSE {}))
                     \cup (IF pc["worker"] = "refill" THEN {"raced"} ELSE {}))
        BY <3>1 DEF Click
      <4> QED
        BY <3>1, <4>1 DEF Click, Enqueue, Remember, Lost
    <3>2. CASE \E k \in Keys, down \in BOOLEAN : TypeKey(k, down)
      BY <3>2 DEF TypeKey, queueVars
    <3>3. CASE RuleWindowReports \/ \E w \in Places : FocusMoves(w)
      BY <3>3 DEF RuleWindowReports, FocusMoves, queueVars
    <3> QED
      BY <2>2, <3>1, <3>2, <3>3 DEF BackendStep, User
  <2>3. CASE BackendStep(HookStep)
    BY <2>3 DEF BackendStep, HookStep, HookLock, HookTrack, AnswerRelease, AnswerRepeat, AnswerPress,
       AnswerDefers, HookDefer, queueVars, Enqueue, Remember, Lost
  <2>4. ASSUME NEW t \in Threads, BackendStep(ReleaseStep(t)) \/ BackendStep(ActionStep(t))
        PROVE  overflow' = overflow
    BY <2>4 DEF BackendStep, ReleaseStep, Release, LoopBehindAction, Loop, Send, SendFails, Finally,
       ActionStep, Deliver, Submit, SubmitFails, Cancel, Clear, queueVars
  <2>5. CASE WorkerBooks
    <3>1. overflow' = overflow \/ ~overflow'
      BY <2>5 DEF WorkerBooks, GetEvent, HandleEvent, HandlePointer, HandleSuspended,
         HandlePromptEnter, HandleLetter, HandleBoundary, HandleAction, HandleDelivered, HandleRelease,
         handled, timed, ExpireAction, PollCurrentGroup, PauseCorrect, CheckFocus, FieldRefuses,
         CollectLate, RefillQueue, CheckPlace, Landed, queueVars
    <3> QED
      BY <3>1
  <2>6. CASE Retype
    BY <2>6 DEF Retype, Remember, queueVars
  <2>7. CASE Erase \/ EraseAndType \/ TypeWord \/ InjectionFails
    BY <2>7 DEF Erase, EraseAndType, TypeWord, InjectionFails, queueVars
  <2>8. CASE HoldInput \/ Stop \/ Unhook \/ UNCHANGED vars
    BY <2>8 DEF HoldInput, Stop, Unhook, vars, backendVars, queueVars
  <2> QED
    BY <2>2, <2>3, <2>4, <2>5, <2>6, <2>7, <2>8, InjectCases
<1>3. suspended' \/ focus' = OwnWindow => RuleEditor /\ "strayed" \in odd'
  <2>1. CASE BackendStep(User) \/ BackendStep(RuleWindowReports)
    <3>1. CASE Click \/ \E k \in Keys, down \in BOOLEAN : TypeKey(k, down)
      <4>1. UNCHANGED <<focus, suspended>>
        BY <3>1 DEF Click, TypeKey
      <4> QED
        BY <1>1, <4>1
    <3>2. ASSUME NEW w \in Places, FocusMoves(w)
          PROVE  suspended' \/ focus' = OwnWindow => RuleEditor /\ "strayed" \in odd'
      BY <1>1, <3>2 DEF FocusMoves, Remember
    <3>3. CASE RuleWindowReports
      BY <1>1, <3>3 DEF RuleWindowReports, windowVars
    <3> QED
      BY <2>1, <3>1, <3>2, <3>3 DEF BackendStep, User
  <2>2. CASE ~(BackendStep(User) \/ BackendStep(RuleWindowReports))
    <3>1. UNCHANGED <<focus, suspended>>
      <4>1. CASE BackendStep(HookStep)
        BY <4>1 DEF BackendStep, HookStep, HookLock, HookTrack, AnswerRelease, AnswerRepeat, AnswerPress,
           AnswerDefers, HookDefer, windowVars
      <4>2. ASSUME NEW t \in Threads, BackendStep(ReleaseStep(t)) \/ BackendStep(ActionStep(t))
            PROVE  UNCHANGED <<focus, suspended>>
        BY <4>2 DEF BackendStep, ReleaseStep, Release, LoopBehindAction, Loop, Send, SendFails, Finally,
           ActionStep, Deliver, Submit, SubmitFails, Cancel, Clear, windowVars
      <4>3. CASE WorkerBooks /\ Books
        BY <4>3 DEF Books, quietVars, windowVars
      <4>4. CASE Injects
        BY <4>4 DEF Injects, injecting
      <4>5. CASE HoldInput \/ Stop \/ Unhook \/ UNCHANGED vars
        BY <4>5 DEF HoldInput, Stop, Unhook, vars, backendVars, windowVars
      <4> QED
        BY <2>2, <4>1, <4>2, <4>3, <4>4, <4>5, WorkerCases
    <3> QED
      BY <1>1, <3>1
  <2> QED
    BY <2>1, <2>2
<1> QED
  BY <1>1, <1>2, <1>3

-----------------------------------------------------------------------------

LEMMA HasAppended ==
    ASSUME NEW E, NEW s \in Seq(E), NEW e \in E, Has(s) \/ e.deferred
    PROVE  Has(Append(s, e))
<1>1. PICK r : r = Append(s, e)
  OBVIOUS
<1>2. Len(r) = Len(s) + 1 /\ r[Len(s) + 1] = e /\ \A i \in 1..Len(s) : r[i] = s[i]
  BY <1>1
<1>3. DOMAIN r = 1..Len(s) + 1 /\ DOMAIN s = 1..Len(s) /\ Len(s) \in Nat
  BY <1>1, <1>2
<1>4. Has(r)
  BY <1>2, <1>3 DEF Has, Elems
<1> QED
  BY <1>1, <1>4

LEMMA HasConcat ==
    ASSUME NEW E, NEW s \in Seq(E), NEW t \in Seq(E), Has(s) \/ Has(t)
    PROVE  Has(s \o t)
<1>1. PICK r : r = s \o t
  OBVIOUS
<1>2. /\ DOMAIN r = 1..Len(s) + Len(t)
      /\ \A i \in 1..Len(s) : r[i] = s[i]
      /\ \A i \in 1..Len(t) : r[Len(s) + i] = t[i]
  BY <1>1
<1>3. DOMAIN s = 1..Len(s) /\ DOMAIN t = 1..Len(t) /\ Len(s) \in Nat /\ Len(t) \in Nat
  OBVIOUS
<1>4. Has(r)
  <2>1. CASE Has(s)
    BY <1>2, <1>3, <2>1 DEF Has, Elems
  <2>2. CASE Has(t)
    <3>1. PICK i \in 1..Len(t) : t[i].deferred
      BY <1>3, <2>2 DEF Has, Elems
    <3>2. Len(s) + i \in 1..Len(s) + Len(t) /\ r[Len(s) + i].deferred
      BY <1>2, <1>3, <3>1
    <3> QED
      BY <1>2, <3>2 DEF Has, Elems
  <2> QED
    BY <2>1, <2>2
<1> QED
  BY <1>1, <1>4

LEMMA HasTaken ==
    ASSUME NEW E, NEW s \in Seq(E), s # <<>>, Has(s)
    PROVE  Head(s).deferred \/ Has(Tail(s))
<1>1. PICK r : r = Tail(s)
  OBVIOUS
<1>2. PICK i \in 1..Len(s) : s[i].deferred
  BY DEF Has, Elems
<1>3. Head(s) = s[1] /\ Len(s) \in Nat /\ DOMAIN r = 1..Len(s) - 1 /\ \A j \in 1..Len(s) - 1 : r[j] = s[j + 1]
  BY <1>1
<1>4. i # 1 => i - 1 \in 1..Len(s) - 1 /\ r[i - 1].deferred
  BY <1>2, <1>3
<1>5. i = 1 => Head(s).deferred
  BY <1>2, <1>3
<1> QED
  BY <1>1, <1>3, <1>4, <1>5 DEF Has, Elems

-----------------------------------------------------------------------------

LEMMA MindUser ==
    ASSUME EventInv, Minded, BackendStep(User) \/ BackendStep(RuleWindowReports)
    PROVE  Minded'
<1>1. UNCHANGED <<drained, cur, wDeferred>> /\ W' = W
  BY DEF BackendStep, User, TypeKey, FocusMoves, Click, RuleWindowReports, engineVars, workVars,
     callerVars, W
<1>2. inbox' = inbox \/ inbox' = Append(inbox, ClickEvent)
  BY DEF BackendStep, User, TypeKey, FocusMoves, Click, Enqueue, ClickEvent, RuleWindowReports, queueVars
<1>3. ClickEvent \in Queueable /\ inbox \in Seq(Queueable)
  BY DEF EventInv, BackendEvents, QueueEvents, Queueable
<1>4. Has(inbox) => Has(inbox')
  BY <1>2, <1>3, HasAppended
<1> QED
  BY <1>1, <1>4 DEF Minded, Completing, W

LEMMA MindHook ==
    ASSUME EventInv, WaitsForHook, BackendStep(HookStep), "overflowed" \notin odd',
           deferred' # None, deferred # None => Minded
    PROVE  Minded'
<1>1. UNCHANGED <<drained, cur, wDeferred>>
  BY DEF BackendStep, engineVars, workVars
<1>2. Completing => Completing'
  <2>1. hook.at # "idle"
    BY DEF BackendStep, HookStep, HookLock, HookTrack, AnswerRelease, AnswerRepeat, AnswerPress,
       AnswerDefers, HookDefer
  <2>2. \/ pc' = pc
        \/ hook.by \in Threads /\ pc' = [pc EXCEPT ![hook.by] = "loop"]
    BY DEF BackendStep, HookStep, HookLock, HookTrack, AnswerRelease, AnswerRepeat, AnswerPress,
       AnswerDefers, HookDefer, Answered, callerVars
  <2> QED
    BY <2>1, <2>2 DEF WaitsForHook, Completing, W, EventInv, TypeInv, HoldTypeOK, Threads
<1>3. inbox \in Seq(Queueable) /\ (hook.at # "idle" => hook.ev \in Queueable)
  BY DEF EventInv, BackendEvents, QueueEvents, HookEvents, Queueable
<1>4. CASE HookDefer
  <2>1. PICK ev : ev = [hook.ev EXCEPT !.deferred = TRUE]
    OBVIOUS
  <2>2. hook.ev \in ActionPress
    BY <1>4 DEF HookDefer, EventInv, BackendEvents, HookEvents
  <2>3. ev \in Queueable /\ ev.deferred
    BY <2>1, <2>2 DEF ActionPress, Press1, Fresh, Withheld, Queueable, KeyEvent
  <2>4. ~QueueFull
    BY <1>4 DEF HookDefer, Remember, Lost
  <2>5. inbox' = Append(inbox, ev)
    BY <1>4, <2>1, <2>4 DEF HookDefer, Enqueue
  <2>6. Has(inbox')
    BY <1>3, <2>3, <2>5, HasAppended
  <2> QED
    BY <2>6 DEF Minded
<1>5. CASE ~HookDefer
  <2>1. hook.at # "idle" /\ deferred' = deferred
    BY <1>5 DEF BackendStep, HookStep, HookLock, HookTrack, AnswerRelease, AnswerRepeat, AnswerPress,
       AnswerDefers, actionVars
  <2>2. inbox' = inbox \/ inbox' = Append(inbox, hook.ev)
    BY <1>5 DEF BackendStep, HookStep, HookLock, HookTrack, AnswerRelease, AnswerRepeat, AnswerPress,
       AnswerDefers, Enqueue, queueVars
  <2>3. Has(inbox) => Has(inbox')
    BY <1>3, <2>1, <2>2, HasAppended
  <2> QED
    BY <1>1, <1>2, <2>1, <2>3 DEF Minded
<1> QED
  BY <1>4, <1>5

LEMMA MindCaller ==
    ASSUME EventInv, RunInv, running, Minded, deferred # None, deferred' # None, NEW t \in Threads,
           BackendStep(ReleaseStep(t)) \/ BackendStep(ActionStep(t))
    PROVE  Minded'
<1> TypeInv /\ HoldTypeOK
  BY DEF EventInv, TypeInv
<1>1. t = "worker"
  BY CallerSteps DEF RunInv, Routine, Threads
<1>2. UNCHANGED <<inbox, drained, cur, wDeferred>>
  BY DEF BackendStep, engineVars, workVars, ReleaseStep, Release, LoopBehindAction, Loop, Send,
     SendFails, Finally, ActionStep, Deliver, Submit, SubmitFails, Cancel, Clear, queueVars
<1>3. Completing => Completing'
  <2>1. CASE ReleaseStep(t)
    BY <1>1, <2>1 DEF ReleaseStep, Release, LoopBehindAction, Loop, Send, SendFails, Finally, Completing, W
  <2>2. CASE ActionStep(t)
    <3>1. ~Clear(t)
      BY DEF Clear
    <3> QED
      BY <1>1, <2>2, <3>1 DEF ActionStep, Deliver, Submit, SubmitFails, Cancel, Goto, Completing, W,
         HoldTypeOK, Threads
  <2> QED
    BY <2>1, <2>2 DEF BackendStep
<1> QED
  BY <1>2, <1>3 DEF Minded

LEMMA MindGet ==
    ASSUME EventInv, Phases, Minded, GetEvent
    PROVE  Minded'
<1> HoldTypeOK
  BY DEF EventInv, TypeInv
<1>1. W = "ready" /\ drained = <<>> /\ inbox # <<>> /\ cur' = Head(inbox) /\ inbox' = Tail(inbox)
  BY DEF GetEvent, Ready, W, Phases
<1>2. inbox \in Seq(Queueable) /\ cur' \in Queueable /\ cur' # None
  <2>1. inbox \in Seq(Queueable)
    BY DEF EventInv, BackendEvents, QueueEvents
  <2>2. cur' \in Queueable
    BY <1>1, <2>1
  <2> QED
    BY <2>1, <2>2, EventKinds
<1>3. cur = None
  BY <1>1 DEF Phases, AtEvent, W, Routine
<1>4. Has(inbox) \/ wDeferred # None
  BY <1>1, <1>3 DEF Minded, Has, Elems, Completing
<1>5. CASE Has(inbox)
  <2>1. Head(inbox).deferred \/ Has(Tail(inbox))
    BY <1>1, <1>2, <1>5, HasTaken
  <2> QED
    BY <1>1, <1>2, <2>1 DEF Minded
<1>6. CASE wDeferred # None
  <2>1. wDeferred' = wDeferred \/ W' = "cancel"
    BY <1>6 DEF GetEvent, Call, Worker, HoldTypeOK, W, Threads
  <2> QED
    BY <1>6, <2>1 DEF Minded, Completing
<1> QED
  BY <1>4, <1>5, <1>6

LEMMA MindHandle ==
    ASSUME EventInv, Phases, Minded, HandleEvent, ~suspended
    PROVE  Minded'
<1> HoldTypeOK
  BY DEF EventInv, TypeInv
<1>1. W = "handle" /\ UNCHANGED inbox
  BY DEF HandleEvent, HandlePointer, HandleSuspended, HandlePromptEnter, HandleLetter,
     HandleBoundary, HandleAction, HandleDelivered, HandleRelease, Handles, W, handled, queueVars
<1>2. drained = <<>>
  BY <1>1 DEF Phases
<1>3. Has(inbox) \/ cur.deferred \/ wDeferred # None
  BY <1>1, <1>2 DEF Minded, Has, Elems, Completing
<1> SUFFICES ASSUME cur.deferred \/ wDeferred # None
             PROVE  wDeferred' # None \/ Completing'
  BY <1>1, <1>3 DEF Minded
<1>4. /\ cur \in Queueable
      /\ cur.key # Pointer /\ cur.deferred => cur \in Withheld
      /\ cur.key \in Letters \cup Boundaries => cur \in Fresh
  BY <1>1, CurKinds DEF W
<1>5. cur.deferred => cur.down /\ cur.key \in ActionKeys /\ cur # None
  <2>1. cur.deferred => cur # ClickEvent /\ cur \notin Fresh
    BY DEF ClickEvent, Fresh
  <2> QED
    BY <1>4, <2>1, EventKinds DEF Queueable, Withheld
<1>6. cur.key # Pointer \/ ~cur.deferred
  BY <1>5, KeysAssumption DEF Keys
<1>7. CASE HandlePointer \/ HandleDelivered
  <2>1. ClearWord("ready") /\ ~cur.deferred
    BY <1>6, <1>7 DEF HandlePointer, HandleDelivered
  <2> QED
    BY <2>1, ClearWordGoes DEF Completing
<1>8. CASE HandlePromptEnter
  BY <1>8 DEF HandlePromptEnter, Call, Worker, HoldTypeOK, Threads, Completing, W
<1>9. CASE HandleAction
  BY <1>5, <1>9 DEF HandleAction
<1>10. CASE HandleLetter \/ HandleBoundary
  <2>1. wDeferred' = wDeferred /\ cur.key \in Letters \cup Boundaries
    BY <1>10 DEF HandleLetter, HandleBoundary, IsLetterPress
  <2>2. ~cur.deferred
    BY <1>4, <2>1 DEF Fresh
  <2> QED
    BY <2>1, <2>2
<1>11. CASE HandleRelease
  <2>1. ~cur.deferred /\ MaybeExecute(wPressed')
    BY <1>5, <1>11 DEF HandleRelease
  <2> QED
    BY <2>1, MaybeExecuteGoes DEF Completing
<1>12. ~HandleSuspended
  BY DEF HandleSuspended
<1> QED
  BY <1>7, <1>8, <1>9, <1>10, <1>11, <1>12 DEF HandleEvent

LEMMA MindTimers ==
    ASSUME EventInv, Minded, ExpireAction \/ PollCurrentGroup \/ PauseCorrect
    PROVE  Minded'
<1> HoldTypeOK
  BY DEF EventInv, TypeInv
<1>1. UNCHANGED <<inbox, drained, cur>> /\ W = "ready"
  BY DEF ExpireAction, PollCurrentGroup, PauseCorrect, Idle, Ready, W, timed, queueVars
<1> SUFFICES ASSUME wDeferred # None
             PROVE  wDeferred' # None \/ Completing'
  BY <1>1 DEF Minded, Completing
<1>2. CASE PauseCorrect
  BY <1>2 DEF PauseCorrect
<1>3. CASE PollCurrentGroup
  <2>1. ClearWord("ready")
    BY <1>3 DEF PollCurrentGroup
  <2> QED
    BY <2>1, ClearWordGoes DEF Completing
<1>4. CASE ExpireAction
  <2>1. ClearWord("ready") \/ MaybeExecute({})
    BY <1>4 DEF ExpireAction
  <2> QED
    BY <2>1, ClearWordGoes, MaybeExecuteGoes DEF Completing
<1> QED
  BY <1>2, <1>3, <1>4

LEMMA MindCorrect ==
    ASSUME EventInv, Minded, CheckFocus \/ FieldRefuses \/ CheckPlace \/ Landed
    PROVE  Minded'
<1> HoldTypeOK
  BY DEF EventInv, TypeInv
<1>1. /\ UNCHANGED <<inbox, drained, cur>>
      /\ W \in {"focus", "check", "landed", "acted"}
  BY DEF CheckFocus, FieldRefuses, CheckPlace, Landed, W, handled, queueVars, engineVars, workVars
<1> SUFFICES ASSUME wDeferred # None
             PROVE  wDeferred' # None \/ Completing'
  BY <1>1 DEF Minded, Completing
<1>2. CASE CheckPlace
  BY <1>2 DEF CheckPlace, engineVars
<1>3. CASE ClearWord("ready")
  BY <1>3, ClearWordGoes DEF Completing
<1>4. CASE CheckFocus \/ FieldRefuses
  BY <1>3, <1>4 DEF CheckFocus, FieldRefuses
<1>5. CASE Landed
  <2>1. CASE pc["worker"] = "acted"
    BY <1>5, <2>1 DEF Landed, Call, Worker, HoldTypeOK, Threads, Completing, W
  <2>2. CASE pc["worker"] # "acted"
    BY <1>3, <1>5, <2>2 DEF Landed
  <2> QED
    BY <2>1, <2>2
<1> QED
  BY <1>2, <1>4, <1>5

\* What _collect_late_input takes from the queue it puts back if there is a withheld action in it.
LEMMA MindLate ==
    ASSUME EventInv, Phases, Minded, CollectLate \/ RefillQueue, "overflowed" \notin odd'
    PROVE  Minded'
<1>1. UNCHANGED <<cur, wDeferred>> /\ W \in {"collect", "refill"}
  BY DEF CollectLate, RefillQueue, W
<1>2. ~Completing
  BY <1>1 DEF Completing
<1>3. CASE CollectLate
  <2>1. W = "collect" /\ drained' = inbox
    BY <1>3 DEF CollectLate, W
  <2>2. drained = <<>>
    BY <2>1 DEF Phases
  <2>3. Has(inbox) \/ Has(drained) => Has(drained')
    BY <2>1, <2>2 DEF Has, Elems
  <2> QED
    BY <1>1, <1>2, <2>3 DEF Minded
<1>4. CASE RefillQueue
  <2>1. inbox \in Seq(Queueable) /\ drained \in Seq(Queueable)
    BY DEF EventInv, BackendEvents, QueueEvents, WordEvents
  <2>2. ~(Len(PutBack) > QueueSize - Len(inbox))
    BY <1>4 DEF RefillQueue, Remember
  <2>3. inbox' = inbox \o PutBack
    BY <1>4, <2>2 DEF RefillQueue
  <2>4. Has(drained) => Refused
    <3>1. SUFFICES ASSUME NEW i \in DOMAIN drained, drained[i].deferred
                   PROVE  Refused
      BY DEF Has, Elems
    <3>2. drained[i] \in Queueable
      BY <2>1
    <3>3. drained[i] \in Withheld
      BY <3>1, <3>2 DEF Queueable, Fresh, ClickEvent
    <3>4. drained[i].down /\ drained[i].key \notin Letters
      BY <3>3, KeysAssumption DEF Withheld
    <3> QED
      BY <3>4 DEF Refused
  <2>5. PutBack \in Seq(Queueable)
    <3>1. Only(drained, KeyUps) \in Seq(Queueable \cap KeyUps)
      BY <2>1, OnlyIn
    <3>2. Queueable \cap KeyUps \subseteq Queueable
      OBVIOUS
    <3>3. Only(drained, KeyUps) \in Seq(Queueable)
      BY <3>1, <3>2, SubsetSeq
    <3> QED
      BY <2>1, <3>3 DEF PutBack
  <2>6. Has(drained) => PutBack = drained
    BY <2>4 DEF PutBack, Taken
  <2>7. Has(inbox) \/ Has(drained) => Has(inbox \o PutBack)
    BY <2>1, <2>5, <2>6, HasConcat
  <2>8. Has(inbox) \/ Has(drained) => Has(inbox')
    BY <2>3, <2>7
  <2> QED
    BY <1>1, <1>2, <2>8 DEF Minded
<1> QED
  BY <1>3, <1>4

LEMMA MindInject ==
    ASSUME EventInv, Minded, "overflowed" \notin odd', Injects,
           Erase \/ EraseAndType \/ TypeWord \/ Retype \/ InjectionFails
    PROVE  Minded'
<1>1. UNCHANGED <<drained, cur, wDeferred>> /\ W \in Correcting
  BY DEF Injects, injecting, engineVars, workVars, W
<1>2. ~Completing
  BY <1>1 DEF Completing, Correcting
<1>3. Has(inbox) => Has(inbox')
  <2>1. CASE Erase \/ EraseAndType \/ TypeWord \/ InjectionFails
    BY <2>1 DEF Erase, EraseAndType, TypeWord, InjectionFails, queueVars
  <2>2. CASE Retype /\ ~hooked
    BY <2>2 DEF Retype, queueVars
  <2>3. CASE Retype /\ hooked
    <3>1. PICK r : r = Replayed(late)
      OBVIOUS
    <3>2. ~(Len(inbox \o r) > QueueSize)
      BY <2>3, <3>1 DEF Retype, Remember
    <3>3. inbox' = inbox \o r
      BY <2>3, <3>1, <3>2 DEF Retype
    <3>4. inbox \in Seq(Queueable) /\ late \in Seq(Press1)
      BY DEF EventInv, BackendEvents, QueueEvents, WordEvents
    <3>5. r \in Seq(Queueable)
      <4>1. r \in Seq(Fresh)
        BY <3>1, <3>4, ReplayedEvents
      <4>2. Fresh \subseteq Queueable
        BY DEF Queueable
      <4> QED
        BY <4>1, <4>2, SubsetSeq
    <3> QED
      BY <3>3, <3>4, <3>5, HasConcat
  <2> QED
    BY <2>1, <2>2, <2>3
<1> QED
  BY <1>1, <1>2, <1>3 DEF Minded

LEMMA MindStep == EventInv /\ CorrectInv /\ RunInv /\ Phases /\ MindInv /\ [Next]_vars => MindInv'
<1> SUFFICES ASSUME EventInv, CorrectInv, RunInv, Phases, MindInv, [Next]_vars
             PROVE  MindInv'
  OBVIOUS
<1> TypeInv /\ HoldTypeOK /\ WaitsForHook /\ Tagged
  BY DEF EventInv, TypeInv, CorrectInv, MindInv
<1>1. Tagged' /\ odd \subseteq odd'
  BY TaggedStep, OddGrows
<1> SUFFICES ASSUME running', deferred' # None, ~Unheard'
             PROVE  Minded'
  BY <1>1 DEF MindInv
<1>2. "overflowed" \notin odd' /\ ~suspended
  BY <1>1 DEF Unheard, Tagged
<1>3. ~Unheard
  BY <1>1 DEF Unheard
<1>4. CASE BackendStep(User) \/ BackendStep(RuleWindowReports)
  <2>1. deferred' = deferred /\ running' = running
    BY <1>4 DEF BackendStep, User, TypeKey, FocusMoves, Click, RuleWindowReports, actionVars, engineVars, runVars
  <2> QED
    BY <1>3, <1>4, <2>1, MindUser DEF MindInv
<1>5. CASE BackendStep(HookStep)
  <2>1. running' = running
    BY <1>5 DEF BackendStep, engineVars, runVars
  <2> QED
    BY <1>2, <1>3, <1>5, <2>1, MindHook DEF MindInv
<1>6. ASSUME NEW t \in Threads, BackendStep(ReleaseStep(t)) \/ BackendStep(ActionStep(t))
      PROVE  Minded'
  <2>1. running' = running
    BY <1>6 DEF BackendStep, engineVars, runVars
  <2>2. deferred # None
    BY <1>6 DEF BackendStep, ReleaseStep, Release, LoopBehindAction, Loop, Send, SendFails, Finally,
       ActionStep, Deliver, Submit, SubmitFails, Cancel, Clear, actionVars
  <2> QED
    BY <1>3, <1>6, <2>1, <2>2, MindCaller DEF MindInv
<1>7. CASE WorkerBooks /\ Books
  <2>1. deferred' = deferred /\ running' = running
    BY <1>7 DEF Books, quietVars, actionVars
  <2>2. Minded
    BY <1>3, <2>1 DEF MindInv
  <2> QED
    BY <1>2, <1>7, <2>2, MindGet, MindHandle, MindTimers, MindCorrect, MindLate DEF WorkerBooks
<1>8. CASE Injects /\ (Erase \/ EraseAndType \/ TypeWord \/ Retype \/ InjectionFails)
  <2>1. deferred' = deferred /\ running' = running
    BY <1>8 DEF Injects, injecting, engineVars, runVars
  <2> QED
    BY <1>2, <1>3, <1>8, <2>1, MindInject DEF MindInv
<1>9. CASE HoldInput \/ UNCHANGED vars
  <2>1. UNCHANGED <<deferred, inbox, drained, cur, wDeferred, running>> /\ (Completing => Completing')
    BY <1>9 DEF HoldInput, vars, backendVars, engineVars, actionVars, queueVars, runVars, workVars,
       callerVars, Completing, W
  <2>2. Minded
    BY <1>3, <2>1 DEF MindInv
  <2> QED
    BY <2>1, <2>2 DEF Minded
<1>10. ~(Stop \/ Unhook)
  BY DEF Stop, Unhook, RunInv, engineVars, runVars
<1> QED
  BY <1>4, <1>5, <1>6, <1>7, <1>8, <1>9, <1>10, InjectCases

LEMMA MindInit == Init => RunInv /\ Phases /\ MindInv
<1> SUFFICES ASSUME Init
             PROVE  RunInv /\ Phases /\ MindInv
  OBVIOUS
<1>1. pc["worker"] = "ready" /\ pc["stop"] = "running" /\ focus # OwnWindow
  BY WindowsAssumption DEF Init, Threads
<1>2. RunInv /\ MindInv
  BY <1>1 DEF Init, EngineInit, RunInv, MindInv, Tagged
<1>3. Phases
  BY <1>1 DEF Init, EngineInit, Phases, Executing, AtEvent, W, Routine, Correcting
<1> QED
  BY <1>2, <1>3

-----------------------------------------------------------------------------
(* Who has the next press *)

\* While nothing rare happens the user is in his own windows, and the queue is not full.
Windowed == focus # OwnWindow /\ wFocus # OwnWindow /\ ~suspended /\ ~overflow

\* From the emptying of the queue until the late keys are typed again.
Replacing == {"refill", "check", "erase", "type", "retype"}

\* The hook has a press that it did not keep back, and that the window or the note of a
\* withheld action gets.
PassingPress ==
    /\ hook.ev.down
    /\ hook.at = "defer" \/ (hook.at \in {"track", "answer"} /\ hook.ev.key \notin consumed)
Passing == hook.at # "idle" /\ PassingPress

\* A caller that replays a press.
SendsPress(t) == pc[t] = "send" /\ item[t].down

\* Of the presses that reach a window next there is one: that of the hook, that of a caller,
\* the withheld action - and before those the kept ones.
OneNext ==
    /\ \A t \in Threads : pc[t] = "send" => holding
    /\ ~holding => held = <<>>
    /\ \A t \in Threads : pc[t] = "finally" /\ deferred = None
                            => held = <<>> /\ (holding => hook.at = "defer")
    /\ Passing => /\ deferred = None /\ (hook.by = "user" => held = <<>>)
                  /\ \A t \in Threads : ~SendsPress(t)
    /\ \A t \in Threads : SendsPress(t) => deferred = None

\* And a press the hook has taken is queued before the queue is emptied.
Keys2 == OneNext /\ (Passing => W \notin Replacing)
KeyInv == (Steady => OneNext) /\ (Calm => Windowed /\ Keys2)

TextBase == EventInv /\ CorrectInv /\ RestInv /\ DeferInv /\ RunInv /\ Phases

LEMMA CalmBefore ==
    ASSUME HoldTypeOK, [Next]_vars, Calm'
    PROVE  Calm
BY OddGrows DEF Calm

LEMMA WindowedStep ==
    ASSUME HoldTypeOK, Windowed, [Next]_vars, Calm'
    PROVE  Windowed'
<1> USE DEF Windowed
<1>1. Calm
  BY CalmBefore
<1>2. Remember(Lost) => ~QueueFull
  BY DEF Remember, Lost, Calm
<1>3. CASE BackendStep(User) \/ BackendStep(RuleWindowReports)
  <2>1. ASSUME NEW k \in Keys, NEW down \in BOOLEAN, TypeKey(k, down)
        PROVE  UNCHANGED <<focus, suspended, overflow>>
    BY <2>1 DEF TypeKey, queueVars
  <2>2. ASSUME NEW w \in Places, FocusMoves(w)
        PROVE  focus' # OwnWindow /\ UNCHANGED <<suspended, overflow>>
    BY <2>2 DEF FocusMoves, Remember, Calm, queueVars
  <2>3. CASE Click
    <3>1. ~overflow'
      <4>1. Remember((Lost \cup (IF BetweenCheckAndInput THEN {"moved"} ELSE {}))
                     \cup (IF pc["worker"] = "refill" THEN {"raced"} ELSE {}))
        BY <2>3 DEF Click
      <4>2. ~QueueFull
        BY <4>1 DEF Remember, Lost, Calm
      <4> QED
        BY <2>3, <4>2 DEF Click, Enqueue
    <3>2. UNCHANGED <<focus, suspended>>
      BY <2>3 DEF Click
    <3>3. wFocus' = wFocus
      BY <1>3 DEF BackendStep, engineVars
    <3> QED
      BY <3>1, <3>2, <3>3
  <2>4. CASE RuleWindowReports
    <3>1. ~suspended' /\ UNCHANGED <<focus, overflow>>
      BY <2>4 DEF RuleWindowReports, windowVars, queueVars
    <3>2. wFocus' = wFocus
      BY <1>3 DEF BackendStep, engineVars
    <3> QED
      BY <3>1, <3>2
  <2> QED
    BY <1>3, <2>1, <2>2, <2>3, <2>4 DEF BackendStep, User, engineVars, windowVars
<1>4. CASE BackendStep(HookStep)
  <2>1. UNCHANGED <<focus, suspended, wFocus>>
    BY <1>4 DEF BackendStep, HookStep, HookLock, HookTrack, AnswerRelease, AnswerRepeat, AnswerPress,
       AnswerDefers, HookDefer, windowVars, engineVars
  <2>2. ~overflow'
    BY <1>4, <1>2, Zenon DEF BackendStep, HookStep, HookLock, HookTrack, AnswerRelease, AnswerRepeat, AnswerPress,
       AnswerDefers, HookDefer, queueVars, Enqueue
  <2> QED
    BY <2>1, <2>2
<1>5. ASSUME NEW t \in Threads, BackendStep(ReleaseStep(t)) \/ BackendStep(ActionStep(t))
      PROVE  Windowed'
  BY <1>5 DEF BackendStep, ReleaseStep, Release, LoopBehindAction, Loop, Send, SendFails, Finally,
     ActionStep, Deliver, Submit, SubmitFails, Cancel, Clear, windowVars, queueVars, engineVars
<1>6. CASE WorkerBooks /\ Books
  <2>1. UNCHANGED <<focus, suspended>>
    BY <1>6 DEF Books, quietVars, windowVars
  <2>2. wFocus' \in {wFocus, focus}
    BY <1>6 DEF WorkerBooks, GetEvent, HandleEvent, HandlePointer, HandleSuspended,
       HandlePromptEnter, HandleLetter, HandleBoundary, HandleAction, HandleDelivered, HandleRelease,
       handled, ExpireAction, PollCurrentGroup, PauseCorrect, CheckFocus, FieldRefuses,
       CollectLate, RefillQueue, CheckPlace, Landed, engineVars
  <2>3. ~overflow'
    BY <1>6, Zenon DEF WorkerBooks, GetEvent, HandleEvent, HandlePointer, HandleSuspended,
       HandlePromptEnter, HandleLetter, HandleBoundary, HandleAction, HandleDelivered, HandleRelease,
       handled, timed, ExpireAction, PollCurrentGroup, PauseCorrect, CheckFocus, FieldRefuses,
       CollectLate, RefillQueue, CheckPlace, Landed, queueVars
  <2> QED
    BY <2>1, <2>2, <2>3
<1>7. CASE Erase \/ EraseAndType \/ TypeWord \/ Retype \/ InjectionFails
  <2>1. UNCHANGED <<focus, suspended, wFocus>>
    BY <1>7 DEF Erase, EraseAndType, TypeWord, Retype, InjectionFails, injecting, engineVars
  <2>2. ~overflow'
    <3>1. CASE Retype
      <4> DEFINE full == Len(inbox \o Replayed(late)) > QueueSize
      <4>1. CASE ~hooked
        BY <3>1, <4>1 DEF Retype, queueVars
      <4>2. CASE hooked
        <5>1. Remember(IF full THEN {"overflowed"} ELSE {})
          BY <3>1, <4>2 DEF Retype
        <5>2. ~full
          BY <5>1 DEF Remember, Calm
        <5>3. overflow' = (overflow \/ full)
          BY <3>1, <4>2 DEF Retype
        <5> QED
          BY <5>2, <5>3
      <4> QED
        BY <4>1, <4>2
    <3>2. CASE ~Retype
      BY <1>7, <3>2 DEF Erase, EraseAndType, TypeWord, InjectionFails, queueVars
    <3> QED
      BY <3>1, <3>2
  <2> QED
    BY <2>1, <2>2
<1>8. CASE HoldInput \/ Stop \/ Unhook \/ UNCHANGED vars
  <2>1. CASE HoldInput
    BY <2>1 DEF HoldInput, engineVars, windowVars, queueVars
  <2>2. CASE Stop
    BY <2>2 DEF Stop, windowVars, queueVars
  <2>3. CASE Unhook
    BY <2>3 DEF Unhook, engineVars, windowVars, queueVars
  <2>4. CASE UNCHANGED vars
    BY <2>4 DEF vars, backendVars, engineVars, windowVars, queueVars
  <2> QED
    BY <1>8, <2>1, <2>2, <2>3, <2>4
<1> QED
  BY <1>3, <1>4, <1>5, <1>6, <1>7, <1>8, InjectCases

-----------------------------------------------------------------------------

\* What follows the keys of an injection adds to a buffer that is not empty.
LEMMA InjectAdds ==
    ASSUME HoldTypeOK, Erase \/ EraseAndType \/ TypeWord \/ Retype \/ InjectionFails, held' # <<>>
    PROVE  held # <<>>
<1>1. CASE Erase \/ InjectionFails
  BY <1>1 DEF Erase, InjectionFails
<1>2. CASE EraseAndType \/ TypeWord \/ Retype
  BY <1>2, FollowAdds DEF EraseAndType, TypeWord, Retype, TypeInto
<1> QED
  BY <1>1, <1>2

LEMMA KeysUser ==
    ASSUME TextBase, OneNext, BackendStep(User) \/ BackendStep(RuleWindowReports)
    PROVE  OneNext'
<1> HoldTypeOK
  BY DEF TextBase, EventInv, TypeInv
<1>1. UNCHANGED <<pc, item, holding, held, deferred, consumed>>
  BY DEF BackendStep, User, TypeKey, FocusMoves, Click, RuleWindowReports, holdVars, actionVars,
     callerVars
<1>2. hook' = hook \/ (hook'.at = "lock" /\ hook.at = "idle")
  <2>1. ASSUME NEW k \in Keys, NEW down \in BOOLEAN, TypeKey(k, down)
        PROVE  hook' = hook \/ (hook'.at = "lock" /\ hook.at = "idle")
    <3>1. \/ hook' = hook
          \/ hooked /\ \E ev : hook' = [at |-> "lock", ev |-> ev, by |-> "user"]
      BY <2>1, Zenon DEF TypeKey
    <3>2. HookFree
      BY <2>1, Zenon DEF TypeKey
    <3> QED BY <3>1, <3>2 DEF HookFree
  <2>2. CASE Click \/ RuleWindowReports \/ \E w \in Places : FocusMoves(w)
    BY <2>2 DEF Click, RuleWindowReports, FocusMoves, hookVars
  <2> QED
    BY <2>1, <2>2 DEF BackendStep, User
<1> QED
  <2>1. \A t \in Threads : SendsPress(t)' <=> SendsPress(t)
    BY <1>1 DEF SendsPress
  <2>2. Passing' => Passing /\ hook' = hook
    BY <1>1, <1>2 DEF Passing, PassingPress
  <2>3. holding /\ hook.at = "defer" => hook' = hook
    BY <1>2
  <2> QED
    BY <1>1, <2>1, <2>2, <2>3 DEF OneNext, W

LEMMA KeysHook ==
    ASSUME TextBase, OneNext, Steady, BackendStep(HookStep)
    PROVE  OneNext'
<1> HoldTypeOK /\ WaitsForHook /\ CorrectionHolds /\ HookEvents
  BY DEF TextBase, EventInv, TypeInv, CorrectInv, BackendEvents
<1>0. hook.at # "idle"
  BY DEF BackendStep, HookStep, HookLock, HookTrack, AnswerRelease, AnswerRepeat, AnswerPress,
     AnswerDefers, HookDefer
<1>1. item' = item
  BY DEF BackendStep, HookStep, HookLock, HookTrack, AnswerRelease, AnswerRepeat, AnswerPress,
     AnswerDefers, HookDefer, callerVars
<1>2. pc' = pc \/ (hook.by \in Threads /\ pc' = [pc EXCEPT ![hook.by] = "loop"])
  BY DEF BackendStep, HookStep, HookLock, HookTrack, AnswerRelease, AnswerRepeat, AnswerPress,
     AnswerDefers, HookDefer, Answered, callerVars
<1>3. /\ \A t \in Threads : pc'[t] = "send" => pc[t] = "send"
      /\ \A t \in Threads : pc'[t] = "finally" => pc[t] = "finally"
  BY <1>2 DEF HoldTypeOK, Threads
<1>4. \A t \in Threads : SendsPress(t)' => SendsPress(t)
  BY <1>1, <1>3 DEF SendsPress
<1>5. CASE HookLock
  <2>1. UNCHANGED <<holding, deferred, consumed>>
    BY <1>5 DEF HookLock, actionVars
  <2>2. hook.at = "lock"
    BY <1>5 DEF HookLock
  <2>3. CASE KeptBack(hook.ev) /\ held' = Append(held, hook.ev) /\ hook' = IdleHook
    <3>1. ~Passing' /\ holding
      BY <2>3 DEF Passing, IdleHook, KeptBack
    <3> QED
      BY <1>3, <1>4, <2>1, <2>2, <3>1 DEF OneNext
  <2>4. CASE ~KeptBack(hook.ev) /\ hook' = HookAt("track") /\ held' = held
    <3>1. Passing' => ~holding
      BY <2>1, <2>4 DEF Passing, PassingPress, HookAt, KeptBack
    <3>2. ~holding => deferred = None /\ held = <<>> /\ \A t \in Threads : ~SendsPress(t)
      BY DEF TextBase, DeferInv, Steady, OneNext, SendsPress
    <3> QED
      BY <1>3, <1>4, <2>1, <2>2, <2>4, <3>1, <3>2 DEF OneNext
  <2> QED
    BY <1>5, <2>3, <2>4 DEF HookLock
<1>6. CASE HookTrack
  <2>1. UNCHANGED <<holding, deferred, consumed>> /\ hook' = HookAt("answer") /\ hook.at = "track"
    BY <1>6 DEF HookTrack
  <2>2. held' # <<>> => held # <<>>
    BY <1>6, TrackAdds DEF HookTrack
  <2>3. Passing' => Passing /\ hook'.by = hook.by
    BY <2>1 DEF Passing, PassingPress, HookAt
  <2> QED
    BY <1>3, <1>4, <2>1, <2>2, <2>3 DEF OneNext
<1>7. CASE AnswerRelease \/ AnswerRepeat \/ AnswerPress
  <2>1. UNCHANGED <<holding, deferred, held>> /\ hook' = IdleHook /\ hook.at = "answer"
    BY <1>7 DEF AnswerRelease, AnswerRepeat, AnswerPress, Answered, holdVars, actionVars
  <2>2. ~Passing'
    BY <2>1 DEF Passing, IdleHook
  <2> QED
    BY <1>3, <1>4, <2>1, <2>2 DEF OneNext
<1>8. CASE AnswerDefers
  <2>1. UNCHANGED <<deferred, held>> /\ hook' = HookAt("defer") /\ holding'
    BY <1>8 DEF AnswerDefers, Hold
  <2>2. Passing /\ hook'.by = hook.by /\ hook'.at = "defer"
    BY <1>8, <2>1 DEF AnswerDefers, Passing, PassingPress, HookAt
  <2> QED
    BY <1>3, <1>4, <2>1, <2>2 DEF OneNext
<1>9. CASE HookDefer
  <2>1. UNCHANGED <<holding, held>> /\ hook' = IdleHook /\ hook.at = "defer" /\ deferred' = hook.ev
    BY <1>9 DEF HookDefer, Answered, holdVars
  <2>2. hook.ev \in ActionPress
    BY <2>1 DEF HookEvents
  <2>3. deferred' # None /\ Passing /\ ~Passing'
    BY <2>1, <2>2, EventKinds DEF ActionPress, Press1, Fresh, Passing, PassingPress, IdleHook
  <2>4. \A t \in Threads : ~SendsPress(t)'
    BY <1>4, <2>3 DEF OneNext
  <2> QED
    BY <1>3, <1>4, <2>1, <2>3, <2>4 DEF OneNext
<1> QED
  BY <1>5, <1>6, <1>7, <1>8, <1>9 DEF BackendStep, HookStep

LEMMA KeysCaller ==
    ASSUME TextBase, OneNext, Steady, Steady', NEW t \in Threads,
           BackendStep(ReleaseStep(t)) \/ BackendStep(ActionStep(t))
    PROVE  OneNext'
<1> HoldTypeOK /\ TypeInv /\ WaitsForHook /\ CorrectInv /\ RestInv /\ RunInv /\ HookEvents
  BY DEF TextBase, EventInv, TypeInv, CorrectInv, BackendEvents
<1>1. \A u \in Threads \ {t} : pc'[u] = pc[u] /\ item'[u] = item[u]
  BY CallerSteps
<1>2. pc[t] \in Routine \ {"sent"}
  BY CallerSteps
<1>3. \A u \in Threads \ {t} : pc[u] \notin Routine \cup Correcting
  BY <1>2, OneAtWork
<1>4. pc'[t] \in Routine \cup {then[t]} \/ (t = "stop" /\ pc'[t] = "raised")
  BY CallerSteps DEF Routine
<1>6. \A u \in Threads \ {t} : pc'[u] # "send" /\ pc'[u] # "finally"
  BY <1>1, <1>3 DEF Routine
<1>7. /\ pc'[t] = "send" => holding'
      /\ ~holding' => held' = <<>>
      /\ pc'[t] = "finally" /\ deferred' = None => held' = <<>> /\ (holding' => hook'.at = "defer")
      /\ Passing' => /\ deferred' = None /\ (hook'.by = "user" => held' = <<>>)
                     /\ ~(pc'[t] = "send" /\ item'[t].down)
      /\ pc'[t] = "send" /\ item'[t].down => deferred' = None
      => OneNext'
  BY <1>6 DEF OneNext, SendsPress
<1>8. CASE Release(t)
  <2>1. UNCHANGED <<hook, holding, held, deferred, consumed>> /\ pc'[t] \notin {"send", "finally"}
    BY <1>8 DEF Release, EndRelease, Back, Goto, hookVars, holdVars, actionVars, HoldTypeOK, Returns
  <2> QED
    BY <1>7, <2>1 DEF OneNext, Passing, PassingPress
<1>9. CASE LoopBehindAction(t)
  <2>1. UNCHANGED <<hook, holding, deferred, consumed>> /\ deferred # None
    BY <1>9 DEF LoopBehindAction, hookVars, actionVars
  <2>2. CASE pc'[t] # "send" /\ held' = held
    BY <1>7, <2>1, <2>2 DEF OneNext, Passing, PassingPress
  <2>3. CASE \E i \in PriorReleases : Take(t, i)
    <3>1. PICK i \in PriorReleases : Take(t, i)
      BY <2>3
    <3>2. item'[t] = held[i] /\ ~held[i].down /\ held # <<>> /\ pc'[t] = "send"
      BY <3>1 DEF Take, PriorReleases, Goto, HoldTypeOK
    <3> QED
      BY <1>7, <2>1, <3>2 DEF OneNext, Passing, PassingPress
  <2> QED
    BY <1>9, <2>2, <2>3 DEF LoopBehindAction, Goto, HoldTypeOK
<1>10. CASE Loop(t)
  <2>1. UNCHANGED <<hook, deferred, consumed>> /\ deferred = None
    BY <1>10 DEF Loop, hookVars, actionVars
  <2>2. CASE held # <<>> /\ Take(t, 1) /\ holding' = holding
    <3>1. pc'[t] = "send" /\ holding
      BY <2>2 DEF Take, Goto, HoldTypeOK, OneNext
    <3>2. ~Passing
      <4>1. CASE hook.by = "user"
        BY <2>2, <4>1 DEF OneNext
      <4>2. CASE hook.at # "idle" /\ hook.by \in Threads
        BY <1>3, <1>10, <4>2 DEF WaitsForHook, Loop, Routine
      <4> QED
        BY <4>1, <4>2, HookBusy DEF Passing, Busy
    <3> QED
      BY <1>7, <2>1, <2>2, <3>1, <3>2 DEF Passing, PassingPress
  <2>3. CASE held = <<>> /\ ~holding' /\ held' = held /\ Goto(t, "finally")
    <3>1. pc'[t] = "finally"
      BY <2>3 DEF Goto, HoldTypeOK
    <3> QED
      BY <1>7, <2>1, <2>3, <3>1 DEF OneNext, Passing, PassingPress
  <2> QED
    BY <1>10, <2>2, <2>3 DEF Loop
<1>11. CASE Send(t)
  <2>1. UNCHANGED <<holding, held, deferred, consumed>> /\ pc'[t] \in {"sent", "loop"} /\ pc[t] = "send"
    BY <1>11 DEF Send, Goto, holdVars, actionVars, HoldTypeOK
  <2>2. \/ hook' = [at |-> "track", ev |-> item[t], by |-> t]
        \/ hook' = hook
    BY <1>11 DEF Send
  <2>3. CASE hook' = hook
    BY <1>7, <2>1, <2>3 DEF OneNext, Passing, PassingPress
  <2>4. CASE hook' = [at |-> "track", ev |-> item[t], by |-> t]
    <3>1. Passing' => SendsPress(t)
      BY <2>1, <2>4 DEF Passing, PassingPress, SendsPress
    <3>2. hook'.by # "user"
      BY <2>4 DEF Threads
    <3> QED
      BY <1>7, <2>1, <3>1, <3>2 DEF OneNext
  <2> QED
    BY <2>2, <2>3, <2>4
<1>12. CASE SendFails(t) \/ SubmitFails(t)
  BY <1>12 DEF SendFails, SubmitFails, Remember, Steady
<1>13. CASE Finally(t)
  <2>1. /\ UNCHANGED <<hook, held, deferred, consumed>> /\ pc'[t] \notin {"send", "finally"} /\ pc[t] = "finally"
        /\ holding' = (deferred # None /\ holding)
    BY <1>13 DEF Finally, EndRelease, Back, Goto, hookVars, holdVars, actionVars, HoldTypeOK, Returns
  <2> QED
    BY <1>7, <2>1 DEF OneNext, Passing, PassingPress
<1>14. CASE Deliver(t) \/ Cancel(t)
  <2>1. UNCHANGED <<hook, holding, held, deferred, consumed>> /\ pc'[t] \notin {"send", "finally"}
    BY <1>14 DEF Deliver, Cancel, Goto, hookVars, holdVars, actionVars, HoldTypeOK, Returns
  <2> QED
    BY <1>7, <2>1 DEF OneNext, Passing, PassingPress
<1>15. CASE Submit(t)
  <2>1. UNCHANGED <<hook, holding, deferred, consumed>> /\ pc'[t] = "clear"
    BY <1>15 DEF Submit, Goto, hookVars, HoldTypeOK
  <2>2. held' # <<>> => held # <<>>
    BY <1>15, TrackAdds DEF Submit
  <2> QED
    BY <1>7, <2>1, <2>2 DEF OneNext, Passing, PassingPress
<1>16. CASE Clear(t)
  <2>1. UNCHANGED <<hook, holding, held, consumed>> /\ pc'[t] = "release" /\ deferred' = None
    BY <1>16 DEF Clear, Goto, hookVars, holdVars, HoldTypeOK
  <2> QED
    BY <1>7, <2>1 DEF OneNext, Passing, PassingPress
<1> QED
  BY <1>8, <1>9, <1>10, <1>11, <1>12, <1>13, <1>14, <1>15, <1>16 DEF BackendStep, ReleaseStep, ActionStep

\* Where the worker goes by a step on its own books.
LEMMA BooksGo ==
    ASSUME HoldTypeOK, WorkerBooks /\ Books
    PROVE  /\ W' \in {"ready", "handle", "cancel", "deliver", "focus", "hold", "refill", "check", "erase",
                      "release"}
           /\ W' = "refill" => CollectLate
           /\ W' = "check" => W = "refill"
           /\ W' = "erase" => W = "check"
           /\ W' = "hold" => W = "focus"
           /\ W' = "release" => W \in {"refill", "check"}
           /\ pc'["stop"] = pc["stop"]
<1> USE DEF HoldTypeOK, Threads, W
<1>1. CASE GetEvent \/ PauseCorrect
  BY <1>1 DEF GetEvent, PauseCorrect, Call, Worker
<1>2. CASE HandleEvent \/ ExpireAction \/ PollCurrentGroup
  <2>1. \/ Worker("ready") \/ Call("cancel", "ready") \/ ClearWord("ready")
        \/ MaybeExecute(wPressed') \/ MaybeExecute({})
    BY <1>2 DEF HandleEvent, HandlePointer, HandleSuspended, HandlePromptEnter, HandleLetter,
       HandleBoundary, HandleAction, HandleDelivered, HandleRelease, ExpireAction, PollCurrentGroup
  <2> QED
    BY <2>1 DEF Call, Worker, ClearWord, MaybeExecute
<1>3. CASE CheckFocus \/ FieldRefuses
  BY <1>3 DEF CheckFocus, FieldRefuses, ClearWord, Call, Worker
<1>4. CASE CollectLate
  BY <1>4 DEF CollectLate, Worker
<1>5. CASE RefillQueue \/ CheckPlace
  BY <1>5 DEF RefillQueue, CheckPlace, Worker, Releases
<1>6. CASE Landed
  BY <1>6 DEF Landed, ClearWord, Call, Worker
<1> QED
  BY <1>1, <1>2, <1>3, <1>4, <1>5, <1>6 DEF WorkerBooks

\* Where the worker goes by an injection.
LEMMA InjectGoes ==
    ASSUME HoldTypeOK, Erase \/ EraseAndType \/ TypeWord \/ Retype \/ InjectionFails
    PROVE  /\ W \in {"erase", "type", "retype", "restore"}
           /\ W' \in {"type", "retype", "restore", "release"}
           /\ W' # "release" => W \in {"erase", "type"}
           /\ W' = "type" => Erase
           /\ W' = "retype" => (EraseAndType \/ TypeWord) /\ late # <<>>
           /\ pc'["stop"] = pc["stop"]
<1> USE DEF HoldTypeOK, Threads, W
<1>1. CASE Erase \/ EraseAndType \/ TypeWord
  BY <1>1 DEF Erase, EraseAndType, TypeWord, AfterTyping, Worker, Releases
<1>2. CASE Retype
  BY <1>2 DEF Retype, Worker, Releases
<1>3. CASE InjectionFails
  BY <1>3 DEF InjectionFails, Worker, Releases
<1> QED
  BY <1>1, <1>2, <1>3

LEMMA KeysWorker ==
    ASSUME TextBase, OneNext, Steady, Steady',
           \/ (WorkerBooks /\ Books) \/ HoldInput
           \/ Injects /\ (Erase \/ EraseAndType \/ TypeWord \/ Retype \/ InjectionFails)
           \/ Stop \/ Unhook \/ UNCHANGED vars
    PROVE  OneNext'
<1> HoldTypeOK /\ TypeInv /\ CorrectInv /\ RestInv /\ RunInv
  BY DEF TextBase, EventInv, TypeInv
<1>1. CASE (WorkerBooks /\ Books) \/ Stop \/ Unhook \/ UNCHANGED vars
  <2>1. UNCHANGED <<hook, holding, held, deferred, consumed, item>>
    BY <1>1 DEF Books, quietVars, Stop, Unhook, vars, backendVars, callerVars, hookVars, holdVars, actionVars
  <2>2. \A t \in Threads : /\ pc'[t] = "send" => pc[t] = "send"
                           /\ pc'[t] = "finally" => pc[t] = "finally"
    <3>1. CASE WorkerBooks /\ Books
      BY <3>1, BooksGo DEF W, Threads
    <3>2. CASE Stop \/ Unhook \/ UNCHANGED vars
      BY <3>2 DEF Stop, Unhook, vars, backendVars, callerVars, HoldTypeOK
    <3> QED
      BY <1>1, <3>1, <3>2
  <2>3. Passing' => Passing
    BY <2>1 DEF Passing, PassingPress
  <2> QED
    BY <2>1, <2>2, <2>3 DEF OneNext, SendsPress
<1>2. CASE HoldInput
  <2>1. UNCHANGED <<hook, held, deferred, consumed, item>> /\ holding'
    BY <1>2 DEF HoldInput, Hold, hookVars, actionVars
  <2>2. W' = "collect" /\ W = "hold" /\ pc'["stop"] = pc["stop"]
    BY <1>2 DEF HoldInput, Worker, W, HoldTypeOK, Threads
  <2>3. pc["stop"] \notin Routine
    BY <2>2, OneAtWork DEF W, Threads
  <2> QED
    BY <2>1, <2>2, <2>3 DEF OneNext, SendsPress, Passing, PassingPress, W, Routine, Threads
<1>3. CASE Injects /\ (Erase \/ EraseAndType \/ TypeWord \/ Retype \/ InjectionFails)
  <2>1. UNCHANGED <<hook, holding, deferred, consumed, item>>
    BY <1>3 DEF Injects, injecting, hookVars
  <2>2. held' # <<>> => held # <<>>
    BY <1>3, InjectAdds
  <2>3. ~InjectionFails
    BY DEF InjectionFails, Remember, Steady
  <2>4. pc'["stop"] = pc["stop"] /\ W' \in {"type", "retype", "restore", "release"}
    BY <1>3, InjectGoes
  <2>5. \A t \in Threads : /\ pc'[t] = "send" => pc[t] = "send"
                           /\ pc'[t] = "finally" => pc[t] = "finally"
    BY <2>4 DEF W, Threads
  <2>6. Passing' <=> Passing
    BY <2>1 DEF Passing, PassingPress
  <2> QED
    BY <2>1, <2>2, <2>4, <2>5, <2>6 DEF OneNext, SendsPress
<1> QED
  BY <1>1, <1>2, <1>3

LEMMA RaceStep ==
    ASSUME TextBase, OneNext, Calm, Calm', Passing => W \notin Replacing, [Next]_vars
    PROVE  Passing' => W' \notin Replacing
<1> HoldTypeOK /\ TypeInv /\ WaitsForHook /\ CorrectInv /\ RestInv /\ RunInv
  BY DEF TextBase, EventInv, TypeInv, CorrectInv
<1>1. ~holding => W \notin Replacing
  BY DEF CorrectInv, CorrectionHolds, Correcting, Replacing, W, Calm
<1>2. CASE BackendStep(User) \/ BackendStep(RuleWindowReports)
  <2>1. UNCHANGED <<pc, consumed>> /\ (hook' = hook \/ hook'.at = "lock")
    BY <1>2, UserHook DEF BackendStep, User, TypeKey, FocusMoves, Click, RuleWindowReports, actionVars,
       callerVars
  <2> QED
    BY <2>1 DEF Passing, PassingPress, W
<1>3. CASE BackendStep(HookStep)
  <2>1. W' \in Replacing => W \in Replacing
    BY <1>3, HookGoes DEF WorkerGoes, Replacing, Routine, HoldTypeOK, Returns, Threads
  <2>2. CASE HookLock
    <3>1. consumed' = consumed /\ hook'.at \in {"idle", "track"} /\ (hook'.at = "track" => ~KeptBack(hook.ev))
          /\ (hook'.at = "track" => hook'.ev = hook.ev)
      BY <2>2 DEF HookLock, HookAt, IdleHook, actionVars
    <3>2. Passing' => ~holding
      BY <3>1 DEF Passing, PassingPress, KeptBack
    <3> QED
      BY <1>1, <2>1, <3>2
  <2>3. CASE HookTrack
    BY <2>1, <2>3 DEF HookTrack, HookAt, Passing, PassingPress
  <2>4. CASE AnswerRelease \/ AnswerRepeat \/ AnswerPress \/ HookDefer
    BY <2>4 DEF AnswerRelease, AnswerRepeat, AnswerPress, HookDefer, Answered, IdleHook, Passing
  <2>5. CASE AnswerDefers
    BY <2>1, <2>5 DEF AnswerDefers, Passing, PassingPress
  <2> QED
    BY <1>3, <2>2, <2>3, <2>4, <2>5 DEF BackendStep, HookStep
<1>4. ASSUME NEW t \in Threads, BackendStep(ReleaseStep(t)) \/ BackendStep(ActionStep(t))
      PROVE  W' \notin Replacing
  <2>1. pc[t] \in Routine \ {"sent"}
    BY <1>4, CallerSteps
  <2>2. CASE t = "worker"
    BY <1>4, <2>1, <2>2, CallerSteps DEF W, Routine, Replacing, HoldTypeOK, Returns, Threads
  <2>3. CASE t = "stop"
    BY <1>4, <2>1, <2>3, OneAtWork, CallerSteps DEF W, Correcting, Replacing, Threads
  <2> QED
    BY <2>2, <2>3 DEF Threads
<1>5. CASE \/ (WorkerBooks /\ Books) \/ HoldInput
           \/ Injects /\ (Erase \/ EraseAndType \/ TypeWord \/ Retype \/ InjectionFails)
           \/ Stop \/ Unhook \/ UNCHANGED vars
  <2>1. Passing' => Passing
    <3>1. CASE WorkerBooks /\ Books
      <4>1. UNCHANGED <<hook, consumed>>
        BY <3>1 DEF Books, quietVars, hookVars, actionVars
      <4> QED
        BY <4>1 DEF Passing, PassingPress
    <3>2. CASE HoldInput
      <4>1. UNCHANGED <<hook, consumed>>
        BY <3>2 DEF HoldInput, hookVars, actionVars
      <4> QED
        BY <4>1 DEF Passing, PassingPress
    <3>3. CASE Injects
      <4>1. UNCHANGED <<hook, consumed>>
        BY <3>3 DEF Injects, injecting, hookVars
      <4> QED
        BY <4>1 DEF Passing, PassingPress
    <3>4. CASE Stop \/ Unhook \/ UNCHANGED vars
      <4>1. UNCHANGED <<hook, consumed>>
        BY <3>4 DEF Stop, Unhook, vars, backendVars, hookVars, actionVars
      <4> QED
        BY <4>1 DEF Passing, PassingPress
    <3> QED
      BY <1>5, <3>1, <3>2, <3>3, <3>4
  <2>2. CASE CollectLate
    <3>1. ~PressInFlight
      BY <2>2 DEF CollectLate, Remember, Calm
    <3> QED
      BY <2>1, <3>1 DEF PressInFlight, Passing, PassingPress
  <2>3. CASE WorkerBooks /\ Books /\ ~CollectLate
    BY <2>1, <2>3, BooksGo DEF Replacing
  <2>4. CASE HoldInput
    BY <2>4 DEF HoldInput, Worker, W, Replacing, HoldTypeOK, Threads
  <2>5. CASE Injects /\ (Erase \/ EraseAndType \/ TypeWord \/ Retype \/ InjectionFails)
    BY <2>1, <2>5, InjectGoes DEF Replacing
  <2>6. CASE Stop \/ Unhook \/ UNCHANGED vars
    BY <2>1, <2>6 DEF Stop, Unhook, vars, backendVars, callerVars, W, HoldTypeOK, Threads
  <2> QED
    BY <1>5, <2>2, <2>3, <2>4, <2>5, <2>6
<1> QED
  BY <1>2, <1>3, <1>4, <1>5, InjectCases

LEMMA KeyStep ==
    ASSUME TextBase, KeyInv, [Next]_vars
    PROVE  KeyInv'
<1> HoldTypeOK
  BY DEF TextBase, EventInv, TypeInv
<1>1. ASSUME Steady'
      PROVE  OneNext'
  <2>1. Steady
    BY <1>1, OddGrows DEF Steady
  <2>2. OneNext
    BY <2>1 DEF KeyInv
  <2> QED
    BY <1>1, <2>1, <2>2, InjectCases, KeysUser, KeysHook, KeysCaller, KeysWorker
<1>2. ASSUME Calm'
      PROVE  Windowed' /\ Keys2'
  <2>1. Calm /\ Steady'
    BY <1>2, CalmBefore DEF Calm, Steady
  <2>2. Windowed /\ Keys2
    BY <2>1 DEF KeyInv
  <2>3. Windowed'
    BY <1>2, <2>2, WindowedStep
  <2>4. Passing' => W' \notin Replacing
    BY <1>2, <2>1, <2>2, RaceStep DEF Keys2
  <2> QED
    BY <1>1, <2>1, <2>3, <2>4 DEF Keys2
<1> QED
  BY <1>1, <1>2 DEF KeyInv

LEMMA BaseStep ==
    ASSUME TextBase, [Next]_vars
    PROVE  TextBase'
<1>1. TypeInv
  BY DEF TextBase, EventInv
<1>2. EventInv' /\ CorrectInv' /\ RestInv' /\ DeferInv'
  BY <1>1, EventStep, CorrectStep, RestStep, DeferStep DEF TextBase
<1>3. RunInv'
  BY <1>1, RunStep DEF TextBase
<1>4. Phases'
  BY PhasesStep DEF TextBase
<1> QED
  BY <1>2, <1>3, <1>4 DEF TextBase

LEMMA BaseInit == Init => TextBase /\ KeyInv
<1> SUFFICES ASSUME Init
             PROVE  TextBase /\ KeyInv
  OBVIOUS
<1>1. EventInv /\ CorrectInv /\ RestInv
  BY EventInit, CorrectInit, RestInit
<1>2. DeferInv
  BY DEF Init, EngineInit, DeferInv, IdleHook
<1>3. pc["worker"] = "ready" /\ pc["stop"] = "running" /\ hook.at = "idle" /\ \A t \in Threads : pc[t] \in {"ready", "running"}
  BY DEF Init, IdleHook, Threads
<1>4. RunInv
  BY <1>3 DEF Init, EngineInit, RunInv
<1>5. Phases
  BY <1>3 DEF Init, EngineInit, Phases, Executing, Correcting, Routine, W
<1>6. Windowed
  BY WindowsAssumption DEF Init, EngineInit, Windowed
<1>7. Keys2
  BY <1>3 DEF Init, Keys2, OneNext, Passing, SendsPress
<1> QED
  BY <1>1, <1>2, <1>4, <1>5, <1>6, <1>7 DEF TextBase, KeyInv, Keys2

-----------------------------------------------------------------------------
(* A SendInput that fails while the program is stopped *)

\* The hook passed on an action while one was withheld: that takes a slip or a failed SendInput.
Doubled == "slipped" \in odd \/ failures > 0

\* The stopping thread is behind the check of complete_action, for the first time.
GivesBack == pc["stop"] \in Routine \ {"cancel"} /\ then["stop"] = "unhook"

\* What is counted, and what the stopping thread has done so far.
FaultTally ==
    /\ "failed" \in odd <=> failures > 0
    /\ filtering => pc["stop"] = "running"
    /\ pc["stop"] = "running" => outcome["stop"] = "yes" /\ "cut" \notin odd
    /\ pc["stop"] = "raised" => outcome["stop"] = "failed"

\* An action that is withheld once stop has given up the first, or is about to be, is the second
\* one the hook passed on; if stop failed after that, SendInput failed twice or something slipped.
SecondAction ==
    /\ hook.at = "defer" /\ deferred # None => Doubled
    /\ GivesBack /\ hook.at = "defer" => Doubled
    /\ GivesBack /\ pc["stop"] # "clear" /\ deferred # None => Doubled
    /\ outcome["stop"] = "failed" /\ then["stop"] = "unhook" /\ (hook.at = "defer" \/ deferred # None)
         => "slipped" \in odd \/ failures > 1

FaultInv == FaultTally /\ SecondAction

\* A step that the stopping thread takes no part in, and that withholds no action.
LEMMA FaultAside ==
    ASSUME HoldTypeOK, FaultInv, odd \subseteq odd', failures' \in {failures, failures + 1},
           "failed" \in odd' <=> failures' > 0, pc["stop"] = "running" => "cut" \notin odd',
           filtering' = filtering, deferred' \in {deferred, None}, hook'.at = "defer" => hook.at = "defer",
           pc'["stop"] = pc["stop"] \/ (pc["stop"] = "sent" /\ pc'["stop"] = "loop"),
           outcome'["stop"] = outcome["stop"], then'["stop"] = then["stop"]
    PROVE  FaultInv'
<1>1. failures \in Nat /\ (Doubled => Doubled') /\ (failures > 1 => failures' > 1)
  BY DEF HoldTypeOK, Doubled
<1>2. FaultTally'
  BY DEF FaultInv, FaultTally
<1>3. (GivesBack' => GivesBack) /\ (pc'["stop"] # "clear" => pc["stop"] # "clear")
  BY DEF GivesBack, Routine
<1>4. SecondAction'
  BY <1>1, <1>3 DEF FaultInv, SecondAction
<1> QED
  BY <1>2, <1>4 DEF FaultInv

LEMMA FaultUser ==
    ASSUME HoldTypeOK, FaultInv, BackendStep(User) \/ BackendStep(RuleWindowReports)
    PROVE  FaultInv'
<1>1. UNCHANGED <<pc, outcome, then, failures, filtering, deferred>>
  BY DEF BackendStep, User, TypeKey, FocusMoves, Click, RuleWindowReports, hookVars, actionVars,
     callerVars
<1>2. hook'.at = "defer" => hook.at = "defer"
  BY UserHook
<1>3. odd' \ odd \subseteq {"moved", "strayed", "overflowed", "raced"} /\ odd \subseteq odd'
  BY DEF BackendStep, User, TypeKey, FocusMoves, Click, RuleWindowReports, Remember, Lost
<1>4. ("failed" \in odd' <=> "failed" \in odd) /\ ("cut" \in odd' <=> "cut" \in odd)
  BY <1>3
<1> QED
  BY <1>1, <1>2, <1>3, <1>4, FaultAside DEF FaultInv, FaultTally

LEMMA FaultHook ==
    ASSUME TextBase, KeyInv, FaultInv, BackendStep(HookStep)
    PROVE  FaultInv'
<1> HoldTypeOK /\ WaitsForHook /\ HookEvents
  BY DEF TextBase, EventInv, TypeInv, CorrectInv, BackendEvents
<1>1. UNCHANGED <<then, outcome, failures, filtering>> /\ failures \in Nat
  BY DEF BackendStep, HookStep, HookLock, HookTrack, AnswerRelease, AnswerRepeat, AnswerPress,
     AnswerDefers, HookDefer, callerVars, HoldTypeOK
<1>2. pc'["stop"] = pc["stop"] \/ (pc["stop"] = "sent" /\ pc'["stop"] = "loop")
  BY HookGoes
<1>3. odd' \ odd \subseteq {"overflowed", "stale"} /\ odd \subseteq odd'
  BY DEF BackendStep, HookStep, HookLock, HookTrack, AnswerRelease, AnswerRepeat, AnswerPress,
     AnswerDefers, HookDefer, Remember, Lost, Stale
<1>4. /\ "failed" \in odd' <=> "failed" \in odd
      /\ "cut" \in odd' <=> "cut" \in odd
      /\ "slipped" \in odd' <=> "slipped" \in odd
  BY <1>3
<1>5. FaultTally'
  BY <1>1, <1>2, <1>4 DEF FaultInv, FaultTally
<1>6. CASE AnswerDefers
  <2>1. filtering /\ pc["stop"] = "running" /\ deferred' = deferred /\ pc' = pc
    BY <1>6 DEF AnswerDefers, FilterDefers, FaultInv, FaultTally, callerVars
  <2>2. deferred # None => Doubled
    <3> SUFFICES ASSUME ~Doubled
                 PROVE  deferred = None
      OBVIOUS
    <3>1. Steady
      BY <2>1 DEF Steady, Doubled, FaultInv, FaultTally
    <3>2. Passing
      BY <1>6 DEF AnswerDefers, Passing, PassingPress
    <3> QED
      BY <3>1, <3>2 DEF KeyInv, OneNext
  <2>3. Doubled' <=> Doubled
    BY <1>1, <1>4 DEF Doubled
  <2>4. SecondAction'
    BY <1>1, <2>1, <2>2, <2>3 DEF SecondAction, GivesBack, Routine, FaultInv, FaultTally
  <2> QED
    BY <1>5, <2>4 DEF FaultInv
<1>7. CASE HookDefer
  <2>1. hook.at = "defer" /\ hook'.at = "idle"
    BY <1>7 DEF HookDefer, Answered, IdleHook
  <2>2. (Doubled' <=> Doubled) /\ (GivesBack' => GivesBack)
    BY <1>1, <1>2, <1>4 DEF Doubled, GivesBack, Routine
  <2>3. SecondAction'
    BY <1>1, <1>4, <2>1, <2>2 DEF SecondAction, FaultInv
  <2> QED
    BY <1>5, <2>3 DEF FaultInv
<1>8. CASE ~AnswerDefers /\ ~HookDefer
  <2>1. deferred' = deferred /\ hook'.at # "defer"
    BY <1>8 DEF BackendStep, HookStep, HookLock, HookTrack, AnswerRelease, AnswerRepeat, AnswerPress,
       Answered, HookAt, IdleHook, actionVars
  <2> QED
    BY <1>1, <1>2, <1>3, <1>4, <2>1, FaultAside DEF FaultInv, FaultTally
<1> QED
  BY <1>6, <1>7, <1>8

\* What a caller's step adds to the history.
LEMMA CallerOdd ==
    ASSUME HoldTypeOK, NEW t \in Threads, BackendStep(ReleaseStep(t)) \/ BackendStep(ActionStep(t))
    PROVE  /\ UNCHANGED filtering /\ (hook'.at = "defer" => hook.at = "defer")
           /\ deferred' \in {deferred, None} /\ odd \subseteq odd'
           /\ \/ SendFails(t) \/ SubmitFails(t)
              \/ failures' = failures /\ odd' \ odd \subseteq {"slipped", "orphaned"} /\ outcome' = outcome
           /\ SendFails(t) \/ SubmitFails(t) => failures' = failures + 1 /\ odd' = odd \cup {"failed"}
<1>1. CASE SendFails(t) \/ SubmitFails(t)
  BY <1>1 DEF SendFails, SubmitFails, Remember, hookVars, actionVars
<1>2. CASE ~SendFails(t) /\ ~SubmitFails(t)
  BY <1>2 DEF BackendStep, ReleaseStep, Release, LoopBehindAction, Loop, Send, Finally, ActionStep, Deliver,
     Submit, Cancel, Clear, Remember, Slips, Orphans, hookVars, actionVars
<1> QED
  BY <1>1, <1>2

LEMMA FaultWorkerCalls ==
    ASSUME TypeInv, FaultInv, BackendStep(ReleaseStep("worker")) \/ BackendStep(ActionStep("worker"))
    PROVE  FaultInv'
<1> HoldTypeOK /\ "worker" \in Threads /\ failures \in Nat
  BY DEF TypeInv, HoldTypeOK, Threads
<1>1. then' = then /\ pc'["stop"] = pc["stop"] /\ outcome'["stop"] = outcome["stop"]
  BY CallerSteps DEF Threads
<1>2. /\ failures' \in {failures, failures + 1} /\ odd \subseteq odd'
      /\ "failed" \in odd' <=> failures' > 0
      /\ "cut" \in odd' <=> "cut" \in odd
  BY CallerOdd DEF FaultInv, FaultTally
<1> QED
  BY <1>1, <1>2, CallerOdd, FaultAside DEF FaultInv, FaultTally

\* Where the stopping thread goes in the first pass.
LEMMA StopGoes ==
    ASSUME TypeInv, BackendStep(ReleaseStep("stop")) \/ BackendStep(ActionStep("stop"))
    PROVE  /\ pc'["stop"] = "raised" => outcome'["stop"] = "failed"
           /\ pc["stop"] = "cancel" => pc'["stop"] \in {"clear", then["stop"]}
           /\ pc["stop"] = "cancel" /\ pc'["stop"] = "clear" => deferred # None
           /\ pc["stop"] = "clear" => deferred' = None /\ pc'["stop"] = "release"
           /\ SendFails("stop") => pc["stop"] = "send" /\ outcome'["stop"] = "failed"
           /\ SubmitFails("stop") => outcome'["stop"] = outcome["stop"]
<1> HoldTypeOK /\ then["stop"] \in Returns
  BY DEF TypeInv, HoldTypeOK, Threads
<1>1. CASE Release("stop") \/ Finally("stop")
  BY <1>1 DEF Release, Finally, EndRelease, Back, Goto, HoldTypeOK, Threads, Returns, SendFails, SubmitFails
<1>2. CASE LoopBehindAction("stop") \/ Loop("stop")
  BY <1>2 DEF LoopBehindAction, Loop, Take, Goto, HoldTypeOK, Threads, SendFails, SubmitFails
<1>3. CASE Send("stop") \/ SendFails("stop")
  BY <1>3 DEF Send, SendFails, Goto, HoldTypeOK, Threads, SubmitFails
<1>4. CASE Deliver("stop") \/ Submit("stop") \/ SubmitFails("stop")
  BY <1>4 DEF Deliver, Submit, SubmitFails, Goto, HoldTypeOK, Threads, SendFails, Returns
<1>5. CASE Cancel("stop") \/ Clear("stop")
  BY <1>5 DEF Cancel, Clear, Goto, HoldTypeOK, Threads, SendFails, SubmitFails, Returns, actionVars
<1> QED
  BY <1>1, <1>2, <1>3, <1>4, <1>5 DEF BackendStep, ReleaseStep, ActionStep

LEMMA FaultStopCalls ==
    ASSUME TypeInv, StopInv, FaultInv, BackendStep(ReleaseStep("stop")) \/ BackendStep(ActionStep("stop"))
    PROVE  FaultInv'
<1> HoldTypeOK /\ "stop" \in Threads /\ failures \in Nat
  BY DEF TypeInv, HoldTypeOK, Threads
<1>1. /\ then' = then /\ pc["stop"] \in Routine \ {"sent"}
      /\ pc'["stop"] \in Routine \cup {then["stop"], "raised"}
  BY CallerSteps DEF Routine
<1>2. then["stop"] \in {"unhook", "stopped"} /\ ~filtering /\ ~filtering'
  BY <1>1, CallerOdd DEF StopInv, FaultInv, FaultTally, Routine
<1>3. /\ failures' \in {failures, failures + 1} /\ odd \subseteq odd'
      /\ "failed" \in odd' <=> failures' > 0
  BY CallerOdd DEF FaultInv, FaultTally
<1>4. FaultTally'
  BY <1>1, <1>2, <1>3, StopGoes DEF FaultTally, Routine
<1>5. (Doubled => Doubled') /\ (failures > 1 => failures' > 1) /\ (hook'.at = "defer" => hook.at = "defer")
      /\ deferred' \in {deferred, None}
  BY <1>3, CallerOdd DEF Doubled
<1>6. hook'.at = "defer" /\ deferred' # None => Doubled'
  BY <1>5 DEF FaultInv, SecondAction
<1>7. GivesBack' /\ hook'.at = "defer" => Doubled'
  <2> SUFFICES ASSUME GivesBack', hook'.at = "defer"
               PROVE  Doubled
    BY <1>5
  <2>1. CASE pc["stop"] = "cancel"
    BY <1>1, <1>2, <1>5, <2>1, StopGoes DEF GivesBack, Routine, FaultInv, SecondAction
  <2>2. CASE pc["stop"] # "cancel"
    BY <1>1, <1>5, <2>2 DEF GivesBack, FaultInv, SecondAction
  <2> QED
    BY <2>1, <2>2
<1>8. GivesBack' /\ pc'["stop"] # "clear" /\ deferred' # None => Doubled'
  <2> SUFFICES ASSUME GivesBack', pc'["stop"] # "clear", deferred' # None
               PROVE  Doubled
    BY <1>5
  <2>1. pc["stop"] \notin {"cancel", "clear"}
    BY <1>1, <1>2, StopGoes DEF GivesBack, Routine
  <2> QED
    BY <1>1, <1>5, <2>1 DEF GivesBack, FaultInv, SecondAction
<1>9. outcome'["stop"] = "failed" /\ then'["stop"] = "unhook" /\ (hook'.at = "defer" \/ deferred' # None)
        => "slipped" \in odd' \/ failures' > 1
  <2> SUFFICES ASSUME outcome'["stop"] = "failed", then["stop"] = "unhook", hook.at = "defer" \/ deferred # None
               PROVE  "slipped" \in odd' \/ failures' > 1
    BY <1>1, <1>5
  <2>1. CASE SendFails("stop")
    <3>1. Doubled
      BY <2>1, StopGoes DEF GivesBack, Routine, FaultInv, SecondAction
    <3>2. failures' = failures + 1
      BY <2>1, CallerOdd
    <3> QED
      BY <1>3, <3>1, <3>2 DEF Doubled
  <2>2. CASE ~SendFails("stop")
    <3>1. outcome["stop"] = "failed"
      BY <2>2, CallerOdd, StopGoes
    <3> QED
      BY <1>3, <1>5, <3>1 DEF FaultInv, SecondAction
  <2> QED
    BY <2>1, <2>2
<1> QED
  BY <1>4, <1>6, <1>7, <1>8, <1>9 DEF FaultInv, SecondAction

\* What a step of the worker's own adds to the history.
LEMMA WorkerOdd ==
    ASSUME HoldTypeOK,
           \/ (WorkerBooks /\ Books) \/ HoldInput
           \/ Injects /\ (Erase \/ EraseAndType \/ TypeWord \/ Retype \/ InjectionFails)
    PROVE  /\ odd \subseteq odd' /\ outcome'["stop"] = outcome["stop"]
           /\ \/ failures' = failures /\ odd' \ odd \subseteq {"raced", "overflowed"}
              \/ failures' = failures + 1 /\ odd' = odd \cup {"failed"}
<1> USE DEF HoldTypeOK, Threads
<1>1. CASE WorkerBooks /\ Books
  <2>1. failures' = failures /\ odd \subseteq odd'
    BY <1>1 DEF Books, quietVars
  <2>2. CASE GetEvent \/ PollCurrentGroup \/ CheckFocus \/ FieldRefuses
    BY <2>1, <2>2 DEF GetEvent, PollCurrentGroup, CheckFocus, FieldRefuses, timed, handled, hiddenVars
  <2>3. CASE HandleEvent \/ ExpireAction
    <3>1. odd' = odd
      BY <2>3 DEF HandleEvent, HandlePointer, HandleSuspended, HandlePromptEnter, HandleLetter, HandleBoundary,
         HandleAction, HandleDelivered, HandleRelease, ExpireAction, handled, timed, hiddenVars
    <3>2. outcome' = outcome \/ MaybeExecute(wPressed') \/ MaybeExecute({})
      BY <2>3 DEF HandleEvent, HandlePointer, HandleSuspended, HandlePromptEnter, HandleLetter, HandleBoundary,
         HandleAction, HandleDelivered, HandleRelease, ExpireAction
    <3>3. outcome'["stop"] = outcome["stop"]
      BY <3>2 DEF MaybeExecute
    <3> QED
      BY <2>1, <3>1, <3>3
  <2>4. CASE PauseCorrect
    BY <2>1, <2>4 DEF PauseCorrect, timed, hiddenVars
  <2>5. CASE CollectLate
    BY <2>1, <2>5 DEF CollectLate, Remember
  <2>6. CASE RefillQueue
    BY <2>1, <2>6 DEF RefillQueue, Remember, Settle
  <2>7. CASE CheckPlace \/ Landed
    BY <2>1, <2>7 DEF CheckPlace, Landed, Settle, hiddenVars
  <2> QED
    BY <1>1, <2>2, <2>3, <2>4, <2>5, <2>6, <2>7 DEF WorkerBooks
<1>2. CASE HoldInput
  BY <1>2 DEF HoldInput
<1>3. CASE Erase \/ EraseAndType \/ TypeWord
  BY <1>3 DEF Erase, EraseAndType, TypeWord
<1>4. CASE Retype
  BY <1>4 DEF Retype, Remember, queueVars
<1>5. CASE InjectionFails
  BY <1>5 DEF InjectionFails, Remember, Settle
<1> QED
  BY <1>1, <1>2, <1>3, <1>4, <1>5

LEMMA FaultWorker ==
    ASSUME HoldTypeOK, FaultInv,
           \/ (WorkerBooks /\ Books) \/ HoldInput
           \/ Injects /\ (Erase \/ EraseAndType \/ TypeWord \/ Retype \/ InjectionFails)
    PROVE  FaultInv'
<1>1. UNCHANGED <<filtering, deferred, hook>>
  BY DEF Books, quietVars, HoldInput, Injects, injecting, hookVars, actionVars
<1>2. pc'["stop"] = pc["stop"] /\ then'["stop"] = then["stop"]
  BY DEF Books, GoesOn, ThenKept, HoldInput, Worker, Injects, injecting, HoldTypeOK, Threads
<1>3. /\ failures' \in {failures, failures + 1} /\ failures \in Nat
      /\ "failed" \in odd' <=> failures' > 0
      /\ "cut" \in odd' <=> "cut" \in odd
  BY WorkerOdd DEF HoldTypeOK, FaultInv, FaultTally
<1> QED
  BY <1>1, <1>2, <1>3, WorkerOdd, FaultAside DEF FaultInv, FaultTally

LEMMA FaultStops ==
    ASSUME HoldTypeOK, RestInv, FaultInv, Stop \/ Unhook
    PROVE  FaultInv'
<1>1. /\ hook' = hook /\ deferred' = deferred /\ failures' = failures /\ outcome' = outcome
      /\ pc'["stop"] = "cancel" /\ then'["stop"] \in {"unhook", "stopped"}
      /\ then'["stop"] = "unhook" => pc["stop"] = "running"
  <2>1. CASE Stop
    BY <2>1 DEF Stop, actionVars, HoldTypeOK, Threads
  <2>2. CASE Unhook
    BY <2>2 DEF Unhook, actionVars, HoldTypeOK, Threads
  <2> QED
    BY <2>1, <2>2
<1>2. ~filtering'
  <2>1. CASE Stop
    BY <2>1 DEF Stop
  <2>2. CASE Unhook
    BY <2>2 DEF Unhook, FaultInv, FaultTally
  <2> QED
    BY <2>1, <2>2
<1>3. odd \subseteq odd' /\ odd' \subseteq odd \cup {"cut"}
  <2>1. CASE Stop
    BY <2>1 DEF Stop, Remember
  <2>2. CASE Unhook
    BY <2>2 DEF Unhook, Remember
  <2> QED
    BY <2>1, <2>2
<1>4. \A o \in {"failed", "slipped"} : o \in odd' <=> o \in odd
  BY <1>3
<1>5. FaultTally'
  BY <1>1, <1>2, <1>4 DEF FaultInv, FaultTally
<1>6. SecondAction'
  BY <1>1, <1>4 DEF SecondAction, GivesBack, Doubled, FaultInv, FaultTally
<1> QED
  BY <1>5, <1>6 DEF FaultInv

LEMMA FaultStep == TextBase /\ KeyInv /\ FaultInv /\ [Next]_vars => FaultInv'
<1> SUFFICES ASSUME TextBase, KeyInv, FaultInv, [Next]_vars
             PROVE  FaultInv'
  OBVIOUS
<1> HoldTypeOK /\ TypeInv /\ RestInv /\ StopInv
  BY DEF TextBase, EventInv, TypeInv, RestInv
<1>1. ASSUME NEW t \in Threads, BackendStep(ReleaseStep(t)) \/ BackendStep(ActionStep(t))
      PROVE  FaultInv'
  BY <1>1, FaultWorkerCalls, FaultStopCalls DEF Threads
<1>2. CASE UNCHANGED vars
  BY <1>2 DEF vars, backendVars, hookVars, actionVars, callerVars, FaultInv, FaultTally, SecondAction,
     GivesBack, Doubled
<1> QED
  BY <1>1, <1>2, InjectCases, FaultUser, FaultHook, FaultWorker, FaultStops

LEMMA FaultInit == Init => FaultInv
BY DEF Init, IdleHook, FaultInv, FaultTally, SecondAction, GivesBack, Routine, Threads

-----------------------------------------------------------------------------
(* At rest *)

\* While nothing is going on no action is withheld, but one forgotten; nor once the program has
\* stopped.
LEMMA MindedAtRest ==
    ASSUME EventInv, RestInv, RunInv, Phases, MindInv, FaultInv, Quiet
    PROVE  deferred = None \/ Forgotten
<1>1. CASE ~running
  <2>1. pc["stop"] \in {"stopped", "raised"}
    BY <1>1 DEF RunInv, Quiet
  <2>2. CASE then["stop"] = "stopped"
    BY <2>1, <2>2 DEF RestInv, StopInv
  <2>3. CASE then["stop"] # "stopped"
    <3>1. pc["stop"] = "raised" /\ then["stop"] = "unhook"
      BY <2>1, <2>3 DEF RestInv, StopInv
    <3> QED
      BY <3>1 DEF FaultInv, FaultTally, SecondAction, Forgotten, NotedTooLate
  <2> QED
    BY <2>2, <2>3
<1>2. CASE running
  <2>1. W = "ready" /\ inbox = <<>> /\ wDeferred = None
    BY <1>2 DEF Quiet, Ready, W
  <2>2. drained = <<>> /\ cur = None
    BY <2>1 DEF Phases, AtEvent, W, Routine
  <2>3. ~Minded
    BY <2>1, <2>2 DEF Minded, Has, Elems, Completing
  <2> QED
    BY <1>2, <2>3 DEF MindInv, Forgotten
<1> QED
  BY <1>1, <1>2

MindedInv == TextBase /\ MindInv /\ KeyInv /\ FaultInv

LEMMA MindsHold == Spec => []MindedInv
<1>1. Init => MindedInv
  BY BaseInit, MindInit, FaultInit DEF MindedInv
<1>2. MindedInv /\ [Next]_vars => MindedInv'
  BY BaseStep, MindStep, KeyStep, FaultStep DEF MindedInv, TextBase
<1> QED
  BY <1>1, <1>2, PTL DEF Spec

\* At rest the keyboard is free, also after a SendInput that failed, and also when that ended
\* engine.stop with the hook still installed: release_input's finally clause, complete_action and
\* the second stop of close leave nothing held. The one exception is a withheld action that nobody
\* is left to complete: the engine never hears of it, its event lost in a full queue or set aside
\* by _handle while the rule window has the keyboard; or the hook noted it while stop was failing,
\* with SendInput failing for the second time or after a slip.
THEOREM KeyboardGivenBack == Spec => []NeverCaptured
<1>1. MindedInv => NeverCaptured
  <2> SUFFICES ASSUME MindedInv, Quiet, ~Forgotten
               PROVE  ~holding
    BY DEF NeverCaptured
  <2>1. EventInv /\ RestInv /\ RunInv /\ Phases /\ MindInv /\ FaultInv
    BY DEF MindedInv, TextBase
  <2>2. deferred = None
    BY <2>1, MindedAtRest
  <2> QED
    BY <2>1, <2>2, RestWithoutAction DEF EventInv
<1> QED
  BY <1>1, MindsHold, PTL

\* At rest, and once the program has stopped, no key is kept back and no action withheld unless
\* SendInput failed: every action _handle hears of is delivered or cancelled by complete_action,
\* and release_input and stop give back what is kept. The exception is an action _handle never
\* hears of.
THEOREM NothingKeptBack == Spec => []RestIsFree
<1>1. MindedInv => RestIsFree
  <2> SUFFICES ASSUME MindedInv, Quiet, "failed" \notin odd, ~Forgotten
               PROVE  ~holding /\ held = <<>> /\ deferred = None
    BY DEF RestIsFree
  <2>1. EventInv /\ RestInv /\ RunInv /\ Phases /\ MindInv /\ FaultInv
    BY DEF MindedInv, TextBase
  <2>2. deferred = None
    BY <2>1, MindedAtRest
  <2> QED
    BY <2>1, <2>2, RestWithoutAction DEF EventInv
<1> QED
  BY <1>1, MindsHold, PTL

-----------------------------------------------------------------------------
(* The withheld action in the queue *)

\* Is there a press or a click in the sequence, or nothing else than clicks?
Downs(s) == \E e \in Elems(s) : e.down
OnlyClicks(s) == \A e \in Elems(s) : e.down => e.key = Pointer

\* The events behind the last withheld action.
Behind(s) == {s[i] : i \in {k \in DOMAIN s : \A j \in DOMAIN s : s[j].deferred => j < k}}
OneAction(s) == \A i, j \in DOMAIN s : s[i].deferred /\ s[j].deferred => i = j

LEMMA ConcatPlaces ==
    ASSUME NEW E, NEW s \in Seq(E), NEW t \in Seq(E)
    PROVE  /\ s \o t \in Seq(E) /\ Len(s \o t) = Len(s) + Len(t) /\ Len(s) \in Nat /\ Len(t) \in Nat
           /\ DOMAIN (s \o t) = 1..Len(s) + Len(t)
           /\ DOMAIN s = 1..Len(s) /\ DOMAIN t = 1..Len(t)
           /\ \A i \in 1..Len(s) : (s \o t)[i] = s[i]
           /\ \A j \in 1..Len(t) : (s \o t)[Len(s) + j] = t[j] /\ Len(s) + j \in 1..Len(s) + Len(t)
           /\ \A i \in 1..Len(s) + Len(t) : i \in 1..Len(s) \/ \E j \in 1..Len(t) : i = Len(s) + j
<1>1. s \o t \in Seq(E) /\ Len(s \o t) = Len(s) + Len(t) /\ Len(s) \in Nat /\ Len(t) \in Nat
  OBVIOUS
<1>2. DOMAIN (s \o t) = 1..Len(s) + Len(t) /\ DOMAIN s = 1..Len(s) /\ DOMAIN t = 1..Len(t)
  OBVIOUS
<1>3. \A i \in 1..Len(s) : (s \o t)[i] = s[i]
  OBVIOUS
<1>4. \A j \in 1..Len(t) : (s \o t)[Len(s) + j] = t[j] /\ Len(s) + j \in 1..Len(s) + Len(t)
  <2> TAKE j \in 1..Len(t)
  <2>1. Len(s) + j \in 1..Len(s) + Len(t) /\ Len(s) + j > Len(s) /\ (Len(s) + j) - Len(s) = j
    BY <1>1
  <2> QED
    BY <1>1, <2>1
<1>5. \A i \in 1..Len(s) + Len(t) : i \in 1..Len(s) \/ \E j \in 1..Len(t) : i = Len(s) + j
  <2> TAKE i \in 1..Len(s) + Len(t)
  <2>1. CASE i > Len(s)
    <3>1. i - Len(s) \in 1..Len(t) /\ i = Len(s) + (i - Len(s))
      BY <1>1, <2>1
    <3> QED
      BY <3>1
  <2>2. CASE ~(i > Len(s))
    BY <1>1, <2>2
  <2> QED
    BY <2>1, <2>2
<1> QED
  BY <1>1, <1>2, <1>3, <1>4, <1>5

LEMMA ElemsConcat ==
    ASSUME NEW E, NEW s \in Seq(E), NEW t \in Seq(E)
    PROVE  Elems(s \o t) = Elems(s) \cup Elems(t)
<1>1. PICK r : r = s \o t
  OBVIOUS
<1>2. /\ DOMAIN r = 1..Len(s) + Len(t) /\ DOMAIN s = 1..Len(s) /\ DOMAIN t = 1..Len(t)
      /\ Len(s) \in Nat /\ Len(t) \in Nat
      /\ \A i \in 1..Len(s) : r[i] = s[i]
      /\ \A j \in 1..Len(t) : r[Len(s) + j] = t[j] /\ Len(s) + j \in 1..Len(s) + Len(t)
      /\ \A i \in 1..Len(s) + Len(t) : i \in 1..Len(s) \/ \E j \in 1..Len(t) : i = Len(s) + j
  BY <1>1, ConcatPlaces
<1>3. \A i \in 1..Len(s) : i \in 1..Len(s) + Len(t)
  BY <1>2
<1>4. ASSUME NEW e \in Elems(r)
      PROVE  e \in Elems(s) \cup Elems(t)
  <2>1. PICK i \in 1..Len(s) + Len(t) : e = r[i]
    BY <1>2, <1>4 DEF Elems
  <2>2. CASE i \in 1..Len(s)
    BY <1>2, <2>1, <2>2 DEF Elems
  <2>3. CASE \E j \in 1..Len(t) : i = Len(s) + j
    BY <1>2, <2>1, <2>3 DEF Elems
  <2> QED
    BY <1>2, <2>2, <2>3
<1>5. ASSUME NEW e \in Elems(s)
      PROVE  e \in Elems(r)
  BY <1>2, <1>3 DEF Elems
<1>6. ASSUME NEW e \in Elems(t)
      PROVE  e \in Elems(r)
  BY <1>2 DEF Elems
<1> QED
  BY <1>1, <1>4, <1>5, <1>6

LEMMA BehindConcat ==
    ASSUME NEW E, NEW s \in Seq(E), NEW t \in Seq(E)
    PROVE  Behind(s \o t) = IF Has(t) THEN Behind(t) ELSE Behind(s) \cup Elems(t)
<1>1. PICK r : r = s \o t
  OBVIOUS
<1>2. /\ DOMAIN r = 1..Len(s) + Len(t) /\ DOMAIN s = 1..Len(s) /\ DOMAIN t = 1..Len(t)
      /\ Len(s) \in Nat /\ Len(t) \in Nat
      /\ \A i \in 1..Len(s) : r[i] = s[i]
      /\ \A j \in 1..Len(t) : r[Len(s) + j] = t[j] /\ Len(s) + j \in 1..Len(s) + Len(t)
      /\ \A i \in 1..Len(s) + Len(t) : i \in 1..Len(s) \/ \E j \in 1..Len(t) : i = Len(s) + j
  BY <1>1, ConcatPlaces
<1>3. \A i \in 1..Len(s) : i \in 1..Len(s) + Len(t)
  BY <1>2
<1> DEFINE Last(q) == {k \in DOMAIN q : \A j \in DOMAIN q : q[j].deferred => j < k}
<1>4. \A k \in 1..Len(t) : Len(s) + k \in Last(r) <=> k \in Last(t)
  <2> TAKE k \in 1..Len(t)
  <2>1. ASSUME Len(s) + k \in Last(r), NEW j \in 1..Len(t), t[j].deferred
        PROVE  j < k
    <3>1. Len(s) + j < Len(s) + k
      BY <1>2, <2>1
    <3> QED
      BY <1>2, <3>1
  <2>2. ASSUME k \in Last(t), NEW i \in 1..Len(s) + Len(t), r[i].deferred
        PROVE  i < Len(s) + k
    <3>1. CASE i \in 1..Len(s)
      BY <1>2, <3>1
    <3>2. CASE \E j \in 1..Len(t) : i = Len(s) + j
      <4>1. PICK j \in 1..Len(t) : i = Len(s) + j
        BY <3>2
      <4>2. j < k
        BY <1>2, <2>2, <4>1
      <4> QED
        BY <1>2, <4>1, <4>2
    <3> QED
      BY <1>2, <3>1, <3>2
  <2> QED
    BY <1>2, <2>1, <2>2
<1>5. CASE Has(t)
  <2>1. PICK d \in 1..Len(t) : t[d].deferred
    BY <1>2, <1>5 DEF Has, Elems
  <2>2. \A i \in Last(r) : i \notin 1..Len(s)
    <3> TAKE i \in Last(r)
    <3>1. Len(s) + d < i
      BY <1>2, <2>1
    <3> QED
      BY <1>2, <3>1
  <2>3. ASSUME NEW e \in Behind(r)
        PROVE  e \in Behind(t)
    <3>1. PICK i \in Last(r) : e = r[i]
      BY <2>3 DEF Behind
    <3>2. PICK j \in 1..Len(t) : i = Len(s) + j
      BY <1>2, <2>2, <3>1
    <3>3. j \in Last(t) /\ e = t[j]
      BY <1>2, <1>4, <3>1, <3>2
    <3> QED
      BY <3>3 DEF Behind
  <2>4. Behind(t) \subseteq Behind(r)
    BY <1>2, <1>4 DEF Behind
  <2> QED
    BY <1>1, <1>5, <2>3, <2>4
<1>6. CASE ~Has(t)
  <2>1. \A j \in 1..Len(t) : ~t[j].deferred
    BY <1>2, <1>6 DEF Has, Elems
  <2>2. \A i \in 1..Len(s) : i \in Last(r) <=> i \in Last(s)
    <3> TAKE i \in 1..Len(s)
    <3>1. ASSUME i \in Last(s), NEW j \in 1..Len(s) + Len(t), r[j].deferred
          PROVE  j < i
      BY <1>2, <2>1, <3>1
    <3>2. ASSUME i \in Last(r), NEW j \in 1..Len(s), s[j].deferred
          PROVE  j < i
      BY <1>2, <1>3, <3>2
    <3> QED
      BY <1>2, <1>3, <3>1, <3>2
  <2>3. \A k \in 1..Len(t) : k \in Last(t)
    BY <1>2, <2>1
  <2>4. ASSUME NEW e \in Behind(r)
        PROVE  e \in Behind(s) \cup Elems(t)
    <3>1. PICK i \in Last(r) : e = r[i]
      BY <2>4 DEF Behind
    <3>2. CASE i \in 1..Len(s)
      <4>1. i \in Last(s) /\ e = s[i]
        BY <1>2, <2>2, <3>1, <3>2
      <4> QED
        BY <4>1 DEF Behind
    <3>3. CASE \E j \in 1..Len(t) : i = Len(s) + j
      <4>1. PICK j \in 1..Len(t) : i = Len(s) + j
        BY <3>3
      <4> QED
        BY <1>2, <3>1, <4>1 DEF Elems
    <3> QED
      BY <1>2, <3>1, <3>2, <3>3
  <2>5. Behind(s) \subseteq Behind(r)
    BY <1>2, <2>2 DEF Behind
  <2>6. Elems(t) \subseteq Behind(r)
    BY <1>2, <1>4, <2>3 DEF Behind, Elems
  <2> QED
    BY <1>1, <1>6, <2>4, <2>5, <2>6
<1> QED
  BY <1>5, <1>6

LEMMA OneConcat ==
    ASSUME NEW E, NEW s \in Seq(E), NEW t \in Seq(E)
    PROVE  OneAction(s \o t) <=> OneAction(s) /\ OneAction(t) /\ ~(Has(s) /\ Has(t))
<1>1. PICK r : r = s \o t
  OBVIOUS
<1>2. /\ DOMAIN r = 1..Len(s) + Len(t) /\ DOMAIN s = 1..Len(s) /\ DOMAIN t = 1..Len(t)
      /\ Len(s) \in Nat /\ Len(t) \in Nat
      /\ \A i \in 1..Len(s) : r[i] = s[i]
      /\ \A j \in 1..Len(t) : r[Len(s) + j] = t[j] /\ Len(s) + j \in 1..Len(s) + Len(t)
      /\ \A i \in 1..Len(s) + Len(t) : i \in 1..Len(s) \/ \E j \in 1..Len(t) : i = Len(s) + j
  BY <1>1, ConcatPlaces
<1>3. \A i \in 1..Len(s) : i \in 1..Len(s) + Len(t)
  BY <1>2
<1>4. ASSUME OneAction(r)
      PROVE  OneAction(s) /\ OneAction(t) /\ ~(Has(s) /\ Has(t))
  <2>1. OneAction(s)
    BY <1>2, <1>3, <1>4 DEF OneAction
  <2>2. ASSUME NEW i \in 1..Len(t), NEW j \in 1..Len(t), t[i].deferred, t[j].deferred
        PROVE  i = j
    <3>1. Len(s) + i = Len(s) + j
      BY <1>2, <1>4, <2>2 DEF OneAction
    <3> QED
      BY <1>2, <3>1
  <2>3. ASSUME NEW i \in 1..Len(s), NEW j \in 1..Len(t), s[i].deferred, t[j].deferred
        PROVE  FALSE
    <3>1. i = Len(s) + j
      BY <1>2, <1>3, <1>4, <2>3 DEF OneAction
    <3> QED
      BY <1>2, <3>1
  <2>4. OneAction(t)
    BY <1>2, <2>2 DEF OneAction
  <2> QED
    BY <1>2, <2>1, <2>3, <2>4 DEF Has, Elems
<1>5. ASSUME OneAction(s), OneAction(t), ~(Has(s) /\ Has(t)),
             NEW i \in DOMAIN r, NEW j \in DOMAIN r, r[i].deferred, r[j].deferred
      PROVE  i = j
  <2>1. CASE i \in 1..Len(s) /\ j \in 1..Len(s)
    BY <1>2, <1>5, <2>1 DEF OneAction
  <2>2. CASE (\E k \in 1..Len(t) : i = Len(s) + k) /\ (\E k \in 1..Len(t) : j = Len(s) + k)
    BY <1>2, <1>5, <2>2 DEF OneAction
  <2>3. CASE i \in 1..Len(s) /\ \E k \in 1..Len(t) : j = Len(s) + k
    BY <1>2, <1>5, <2>3 DEF Has, Elems
  <2>4. CASE j \in 1..Len(s) /\ \E k \in 1..Len(t) : i = Len(s) + k
    BY <1>2, <1>5, <2>4 DEF Has, Elems
  <2> QED
    BY <1>2, <2>1, <2>2, <2>3, <2>4
<1>6. (OneAction(s) /\ OneAction(t) /\ ~(Has(s) /\ Has(t))) => OneAction(r)
  BY <1>5 DEF OneAction
<1> QED
  BY <1>1, <1>4, <1>6

\* The same for one event.
LEMMA OneEvent ==
    ASSUME NEW E, NEW e \in E
    PROVE  /\ <<e>> \in Seq(E) /\ Elems(<<e>>) = {e} /\ OneAction(<<e>>)
           /\ Behind(<<e>>) = IF e.deferred THEN {} ELSE {e}
<1>1. PICK s : s = <<e>>
  OBVIOUS
<1>2. s \in Seq(E) /\ DOMAIN s = {1} /\ s[1] = e
  BY <1>1
<1>3. Elems(s) = {e} /\ OneAction(s)
  BY <1>2 DEF Elems, OneAction
<1>4. Behind(s) = IF e.deferred THEN {} ELSE {e}
  BY <1>2 DEF Behind
<1> QED
  BY <1>1, <1>2, <1>3, <1>4

LEMMA NoEvent == Elems(<<>>) = {} /\ OneAction(<<>>) /\ Behind(<<>>) = {} /\ ~Has(<<>>)
BY DEF Elems, OneAction, Behind, Has

\* A sequence is its first event and the others.
LEMMA HeadFirst ==
    ASSUME NEW E, NEW s \in Seq(E), s # <<>>
    PROVE  /\ Head(s) \in E /\ Tail(s) \in Seq(E) /\ <<Head(s)>> \in Seq(E)
           /\ s = <<Head(s)>> \o Tail(s)
           /\ Elems(s) = {Head(s)} \cup Elems(Tail(s))
<1>1. PICK h : h = Head(s)
  OBVIOUS
<1>2. PICK t : t = Tail(s)
  OBVIOUS
<1>3. h \in E /\ t \in Seq(E) /\ s = <<h>> \o t
  BY <1>1, <1>2
<1>4. <<h>> \in Seq(E) /\ Elems(<<h>>) = {h}
  BY <1>3, OneEvent
<1>5. PICK o : o = <<h>>
  OBVIOUS
<1>6. o \in Seq(E) /\ t \in Seq(E)
  BY <1>3, <1>4, <1>5
<1>7. Elems(o \o t) = Elems(o) \cup Elems(t)
  BY <1>6, ElemsConcat, Zenon
<1> QED
  BY <1>1, <1>2, <1>3, <1>4, <1>5, <1>7

LEMMA BehindWithin ==
    ASSUME NEW s
    PROVE  /\ Behind(s) \subseteq Elems(s)
           /\ ~Has(s) => Behind(s) = Elems(s)
BY DEF Behind, Elems, Has

\* What the hook has told the engine and no handler has handled.
InHand == IF cur = None THEN <<>> ELSE <<cur>>
Stream == InHand \o (drained \o inbox)

\* There is one withheld action at most: in the queue, or waiting for the word before it, or
\* being completed. Behind it the queue has no press, only clicks, and they have moved the caret.
Token ==
    /\ deferred = None => ~Has(Stream) /\ wDeferred = None
    /\ deferred # None => \A e \in Behind(Stream) : e.down => e.key = Pointer /\ holdAt.epoch < epoch
    /\ OneAction(Stream)
    /\ Has(Stream) => wDeferred = None /\ ~Completing
    /\ wDeferred # None => strokes = <<>> /\ ~Completing
    /\ Completing => deferred # None

\* The window of the holding is the one the engine has the word of, and the one in front
\* as long as that matters.
PlaceOK ==
    /\ holdAt.epoch <= epoch
    /\ W \in {"hold", "erase", "type", "retype"} => focus = wFocus
    /\ W \in Replacing \cup {"collect"} => holdAt.window = wFocus
    /\ hook.at = "defer" \/ Has(inbox) \/ Has(drained) => holdAt.window = focus
    /\ wDeferred # None \/ Has(InHand) => holdAt.window = wFocus
    /\ W = "collect" /\ focus # wFocus => OnlyClicks(inbox) /\ ~Passing
    /\ W = "refill" /\ focus # wFocus => OnlyClicks(drained)
    /\ W \in {"refill", "erase", "type", "retype", "submit"} => ~Downs(inbox)
    /\ W = "check" => ~Downs(inbox) \/ holdAt.epoch < epoch
    /\ W \in {"check", "erase", "type", "retype"} /\ deferred # None => late = <<>>
    /\ Executing /\ then["worker"] = "landed" => wDeferred = None
    /\ W # "restore"
TokenInv == Calm /\ running => Token /\ PlaceOK

-----------------------------------------------------------------------------

LEMMA QueueKinds ==
    /\ \A e \in Queueable : e.deferred => e.down /\ e.key \in ActionKeys /\ e.key # Pointer
    /\ \A e \in Queueable : e.down => e.key = Pointer \/ e \in Press1 \/ e.deferred
    /\ \A e \in Queueable : e.key = Pointer => e = ClickEvent
    /\ \A e \in Press1 : ~e.deferred /\ e.down /\ e \in Queueable /\ e.key \in Keys /\ e.key # Pointer
    /\ \A k \in Keys : ReleaseOf(k) \in Queueable /\ ~ReleaseOf(k).down /\ ~ReleaseOf(k).deferred
<1>1. ClickEvent.key = Pointer /\ ~ClickEvent.deferred /\ ClickEvent.down
  BY DEF ClickEvent
<1>2. \A e \in Fresh : ~e.deferred /\ e.key \in Keys /\ (e.down => e \in Press1)
  BY DEF Fresh, KeyEvent, Press1
<1>3. \A e \in Withheld : e.deferred /\ e.down /\ e.key \in ActionKeys
  BY DEF Withheld
<1>4. Pointer \notin Keys /\ Pointer \notin ActionKeys
  BY KeysAssumption DEF Keys
<1>5. \A k \in Keys : ReleaseOf(k) \in Fresh /\ ~ReleaseOf(k).down
  BY ReleaseFresh DEF ReleaseOf
<1>6. ActionKeys \subseteq Keys /\ \A e \in Press1 : e \in Fresh /\ e.down
  BY DEF Keys, Press1
<1> QED
  BY <1>1, <1>2, <1>3, <1>4, <1>5, <1>6 DEF Queueable

LEMMA StreamTypes ==
    ASSUME EventInv
    PROVE  /\ InHand \in Seq(Queueable) /\ drained \in Seq(Queueable) /\ inbox \in Seq(Queueable)
           /\ drained \o inbox \in Seq(Queueable) /\ Stream \in Seq(Queueable)
           /\ Elems(Stream) = Elems(InHand) \cup Elems(drained) \cup Elems(inbox)
           /\ Elems(Stream) \subseteq Queueable
<1>1. drained \in Seq(Queueable) /\ inbox \in Seq(Queueable)
  BY DEF EventInv, WordEvents, BackendEvents, QueueEvents
<1>2. InHand \in Seq(Queueable)
  <2>1. CASE cur = None
    BY <2>1, EmptySeq DEF InHand
  <2>2. CASE cur # None
    <3>1. cur \in Queueable
      BY <2>2 DEF EventInv, EngineEvents
    <3> QED
      BY <2>2, <3>1 DEF InHand
  <2> QED
    BY <2>1, <2>2
<1>3. drained \o inbox \in Seq(Queueable)
  BY <1>1, ConcatProperties
<1>4. Stream \in Seq(Queueable)
  BY <1>2, <1>3, ConcatProperties DEF Stream
<1>5. Elems(Stream) = Elems(InHand) \cup Elems(drained) \cup Elems(inbox)
  <2>1. Elems(drained \o inbox) = Elems(drained) \cup Elems(inbox)
    BY <1>1, ElemsConcat
  <2>2. PICK d : d = drained \o inbox
    OBVIOUS
  <2>3. PICK h : h = InHand
    OBVIOUS
  <2>4. h \in Seq(Queueable) /\ d \in Seq(Queueable)
    BY <1>2, <1>3, <2>2, <2>3
  <2>5. Elems(h \o d) = Elems(h) \cup Elems(d)
    BY <2>4, ElemsConcat
  <2> QED
    BY <2>1, <2>2, <2>3, <2>5 DEF Stream
<1>6. \A s \in Seq(Queueable) : Elems(s) \subseteq Queueable
  BY DEF Elems
<1> QED
  BY <1>1, <1>2, <1>3, <1>4, <1>5, <1>6

\* One more event at the end.
LEMMA StreamAppend ==
    ASSUME EventInv, NEW e \in Queueable, inbox' = Append(inbox, e), UNCHANGED <<cur, drained>>
    PROVE  /\ Elems(Stream') = Elems(Stream) \cup {e} /\ Elems(inbox') = Elems(inbox) \cup {e}
           /\ Behind(Stream') = IF e.deferred THEN {} ELSE Behind(Stream) \cup {e}
           /\ OneAction(Stream') <=> OneAction(Stream) /\ ~(Has(Stream) /\ e.deferred)
           /\ Has(Stream') <=> Has(Stream) \/ e.deferred
           /\ Has(inbox') <=> Has(inbox) \/ e.deferred
           /\ Downs(inbox') <=> Downs(inbox) \/ e.down
           /\ InHand' = InHand
<1>1. /\ InHand \in Seq(Queueable) /\ drained \in Seq(Queueable) /\ inbox \in Seq(Queueable)
      /\ drained \o inbox \in Seq(Queueable) /\ Stream \in Seq(Queueable)
  BY StreamTypes
<1>2. <<e>> \in Seq(Queueable) /\ Elems(<<e>>) = {e} /\ OneAction(<<e>>)
      /\ Behind(<<e>>) = IF e.deferred THEN {} ELSE {e}
  BY OneEvent
<1>3. Has(<<e>>) <=> e.deferred
  BY <1>2 DEF Has
<1>4. inbox' = inbox \o <<e>>
  BY <1>1
<1>5. Stream' = Stream \o <<e>> /\ InHand' = InHand
  <2>1. InHand' = InHand
    BY DEF InHand
  <2>2. drained \o (inbox \o <<e>>) = (drained \o inbox) \o <<e>>
    BY <1>1, <1>2
  <2>3. InHand \o ((drained \o inbox) \o <<e>>) = (InHand \o (drained \o inbox)) \o <<e>>
    BY <1>1, <1>2
  <2> QED
    BY <1>4, <2>1, <2>2, <2>3 DEF Stream
<1>6. Elems(Stream \o <<e>>) = Elems(Stream) \cup {e} /\ Elems(inbox \o <<e>>) = Elems(inbox) \cup {e}
  <2>1. Elems(Stream \o <<e>>) = Elems(Stream) \cup Elems(<<e>>)
    BY <1>1, <1>2, ElemsConcat
  <2>2. Elems(inbox \o <<e>>) = Elems(inbox) \cup Elems(<<e>>)
    BY <1>1, <1>2, ElemsConcat
  <2> QED
    BY <1>2, <2>1, <2>2
<1>7. Behind(Stream \o <<e>>) = IF e.deferred THEN {} ELSE Behind(Stream) \cup {e}
  <2>1. Behind(Stream \o <<e>>) = IF Has(<<e>>) THEN Behind(<<e>>) ELSE Behind(Stream) \cup Elems(<<e>>)
    BY <1>1, <1>2, BehindConcat
  <2> QED
    BY <1>2, <1>3, <2>1
<1>8. OneAction(Stream \o <<e>>) <=> OneAction(Stream) /\ ~(Has(Stream) /\ e.deferred)
  <2>1. OneAction(Stream \o <<e>>) <=> OneAction(Stream) /\ OneAction(<<e>>) /\ ~(Has(Stream) /\ Has(<<e>>))
    BY <1>1, <1>2, OneConcat
  <2> QED
    BY <1>2, <1>3, <2>1
<1>9. Elems(Stream') = Elems(Stream) \cup {e} /\ Elems(inbox') = Elems(inbox) \cup {e}
  BY <1>4, <1>5, <1>6
<1>10. /\ Has(Stream') <=> Has(Stream) \/ e.deferred
       /\ Has(inbox') <=> Has(inbox) \/ e.deferred
       /\ Downs(inbox') <=> Downs(inbox) \/ e.down
  BY <1>9 DEF Has, Downs
<1> QED
  BY <1>5, <1>7, <1>8, <1>9, <1>10

\* The queue has room as long as nothing rare happens.
LEMMA RoomLeft ==
    ASSUME Calm', NEW e, Enqueue(e), NEW S, Remember(Lost \cup S)
    PROVE  inbox' = Append(inbox, e)
BY DEF Enqueue, Remember, Lost, Calm

\* A step that leaves the queue and the action as they are.
LEMMA TokenStays ==
    ASSUME Token, UNCHANGED <<deferred, wDeferred, holdAt, epoch, Stream>>,
           strokes = <<>> => strokes' = <<>>,
           Completing' <=> Completing
    PROVE  Token'
BY DEF Token

\* Where the worker does nothing to the text the place of the holding matters to the action only.
LEMMA PlaceAway ==
    ASSUME holdAt'.epoch <= epoch',
           W' \notin Replacing \cup {"hold", "collect", "submit", "restore"},
           hook'.at = "defer" \/ Has(inbox') \/ Has(drained') => holdAt'.window = focus',
           wDeferred' # None \/ Has(InHand') => holdAt'.window = wFocus',
           Executing' /\ then'["worker"] = "landed" => wDeferred' = None
    PROVE  PlaceOK'
BY DEF PlaceOK, Replacing

\* A step that leaves the place and the queue alone.
LEMMA PlaceStays ==
    ASSUME PlaceOK, UNCHANGED <<holdAt, epoch, focus, wFocus, inbox, drained, cur, late, wDeferred, deferred>>,
           hook'.at = "defer" => hook.at = "defer",
           W = "collect" /\ Passing' => Passing,
           W' = W, then'["worker"] = then["worker"]
    PROVE  PlaceOK'
<1>1. InHand' = InHand /\ (Executing' <=> Executing)
  BY DEF InHand, Executing, W
<1> QED
  BY <1>1 DEF PlaceOK

\* Everything that is known of a state in which nothing rare happened and the program runs.
Stands ==
    /\ TextBase /\ MindInv /\ Calm /\ running /\ hooked /\ filtering /\ ~waiting
    /\ pc["stop"] = "running"
    /\ Windowed /\ Keys2 /\ Token /\ PlaceOK

\* What of it the steps ask for most.
LEMMA StandsTypes ==
    ASSUME Stands
    PROVE  /\ TypeInv /\ HoldTypeOK /\ EventInv /\ Phases /\ RunInv /\ WaitsForHook /\ MindInv
           /\ W \in Correcting => holding
           /\ deferred # None \/ hook.at = "defer" => holding
           /\ deferred # None => Minded
<1>1. TypeInv /\ HoldTypeOK /\ EventInv /\ Phases /\ RunInv /\ WaitsForHook /\ MindInv
  BY DEF Stands, TextBase, EventInv, TypeInv, CorrectInv
<1>2. W \in Correcting => holding
  BY DEF Stands, TextBase, CorrectInv, CorrectionHolds, Calm, W
<1>3. deferred # None \/ hook.at = "defer" => holding
  BY DEF Stands, TextBase, DeferInv, Calm, DeferredKeepsHold
<1>4. deferred # None => Minded
  BY <1>1 DEF Stands, MindInv, Unheard, Calm
<1> QED
  BY <1>1, <1>2, <1>3, <1>4

-----------------------------------------------------------------------------
(* The withheld action and the place: the user and the hook *)

LEMMA TokenUser ==
    ASSUME Stands, Calm', BackendStep(User) \/ BackendStep(RuleWindowReports)
    PROVE  Token' /\ PlaceOK'
<1> USE StandsTypes
<1> Token /\ PlaceOK /\ Calm
  BY DEF Stands
<1>1. /\ UNCHANGED <<deferred, wDeferred, holdAt, wFocus, drained, cur, late, strokes>>
      /\ W' = W /\ UNCHANGED <<pc, then, holding>>
  BY DEF BackendStep, User, TypeKey, FocusMoves, Click, RuleWindowReports, engineVars, workVars, wordVars,
     callerVars, holdVars, actionVars, W
<1>2. (Completing' <=> Completing) /\ (Executing' <=> Executing) /\ InHand' = InHand
  BY <1>1 DEF Completing, Executing, InHand, W
<1>3. CASE RuleWindowReports \/ \E k \in Keys, down \in BOOLEAN : TypeKey(k, down)
  <2>1. UNCHANGED <<epoch, focus, inbox>>
    BY <1>3 DEF RuleWindowReports, TypeKey, windowVars, queueVars
  <2>2. hook' = hook \/ hook'.at = "lock"
    <3>1. ASSUME NEW k \in Keys, NEW down \in BOOLEAN, TypeKey(k, down)
          PROVE  hook' = hook \/ \E ev : hook' = [at |-> "lock", ev |-> ev, by |-> "user"]
      BY <3>1, Zenon DEF TypeKey
    <3>2. RuleWindowReports => hook' = hook
      BY DEF RuleWindowReports, hookVars
    <3> QED
      BY <1>3, <3>1, <3>2
  <2>3. Stream' = Stream
    BY <1>1, <1>2, <2>1 DEF Stream
  <2>4. Passing' => Passing
    <3>0. consumed' = consumed
      BY <1>3 DEF RuleWindowReports, TypeKey, actionVars
    <3>1. CASE hook' = hook
      BY <3>0, <3>1 DEF Passing, PassingPress
    <3>2. CASE hook'.at = "lock"
      BY <3>2 DEF Passing, PassingPress
    <3> QED
      BY <2>2, <3>1, <3>2
  <2>5. hook'.at = "defer" => hook.at = "defer"
    BY <2>2
  <2>6. Token'
    BY <1>1, <1>2, <2>1, <2>3, TokenStays
  <2>7. PlaceOK'
    BY <1>1, <2>1, <2>4, <2>5, PlaceStays
  <2> QED
    BY <2>6, <2>7
<1>4. ASSUME NEW w \in Places, FocusMoves(w)
      PROVE  Token' /\ PlaceOK'
  <2>1. UNCHANGED <<epoch, inbox, hook, consumed>>
    BY <1>4 DEF FocusMoves, queueVars, hookVars, actionVars
  <2>2. ~BetweenCheckAndInput /\ pc["worker"] # "hold" /\ ~PressUnhandled
    BY <1>4 DEF FocusMoves, Remember, Calm
  <2>3. W \notin {"hold", "erase", "type", "retype", "restore", "submit", "refill"}
    BY <2>2 DEF BetweenCheckAndInput, PressUnhandled, W, Threads
  <2>4. ~Downs(inbox) /\ ~PressInFlight
    BY <2>2 DEF PressUnhandled, Downs, Elems
  <2>5. ~Passing
    BY <2>4 DEF PressInFlight, Passing, PassingPress
  <2>6. hook.at # "defer"
    BY <2>4 DEF PressInFlight, EventInv, BackendEvents, HookEvents, ActionPress, Press1
  <2>7. ~Has(inbox)
    BY <2>4, StreamTypes, QueueKinds DEF Has, Downs, Elems
  <2>8. drained = <<>>
    BY <2>3 DEF Phases
  <2>9. ~Has(drained)
    BY <2>8, NoEvent
  <2>10. Stream' = Stream
    BY <1>1, <1>2, <2>1 DEF Stream
  <2>11. Token'
    BY <1>1, <1>2, <2>1, <2>10, TokenStays
  <2>12. ~Passing'
    BY <2>1, <2>5 DEF Passing, PassingPress
  <2>13. OnlyClicks(inbox)
    BY <2>4 DEF OnlyClicks, Downs
  <2>14. PlaceOK'
    BY <1>1, <1>2, <2>1, <2>3, <2>4, <2>6, <2>7, <2>9, <2>12, <2>13 DEF PlaceOK, Replacing
  <2> QED
    BY <2>11, <2>14
<1>5. CASE Click
  <2>1. inbox' = Append(inbox, ClickEvent)
    <3>1. Remember((Lost \cup (IF BetweenCheckAndInput THEN {"moved"} ELSE {}))
                     \cup (IF pc["worker"] = "refill" THEN {"raced"} ELSE {}))
      BY <1>5 DEF Click
    <3>2. ~QueueFull
      BY <3>1 DEF Remember, Lost, Calm
    <3> QED
      BY <1>5, <3>2 DEF Click, Enqueue, ClickEvent
  <2>2. W \notin {"erase", "type", "retype", "restore", "submit", "refill"}
    BY <1>5 DEF Click, Remember, Calm, BetweenCheckAndInput, W, Threads
  <2>3. epoch' = epoch + 1 /\ UNCHANGED <<hook, consumed, focus>> /\ epoch \in Nat /\ holdAt.epoch \in Nat
    BY <1>5 DEF Click, hookVars, actionVars, HoldTypeOK
  <2>4. ClickEvent \in Queueable /\ ~ClickEvent.deferred /\ ClickEvent.key = Pointer
    BY DEF Queueable, ClickEvent
  <2>5. /\ Elems(inbox') = Elems(inbox) \cup {ClickEvent}
        /\ Behind(Stream') = Behind(Stream) \cup {ClickEvent}
        /\ OneAction(Stream') <=> OneAction(Stream)
        /\ Has(Stream') <=> Has(Stream)
        /\ Has(inbox') <=> Has(inbox)
    BY <1>1, <2>1, <2>4, StreamAppend
  <2>6. holdAt.epoch <= epoch
    BY DEF PlaceOK
  <2>7. Token'
    <3>1. \A e \in Behind(Stream) : e.down /\ deferred # None => e.key = Pointer /\ holdAt.epoch < epoch + 1
      BY <2>3 DEF Token
    <3>2. deferred' # None => \A e \in Behind(Stream') : e.down => e.key = Pointer /\ holdAt'.epoch < epoch'
      BY <1>1, <2>3, <2>4, <2>5, <2>6, <3>1
    <3> QED
      BY <1>1, <1>2, <2>5, <3>2 DEF Token
  <2>8. PlaceOK'
    <3>1. OnlyClicks(inbox) => OnlyClicks(inbox')
      BY <2>4, <2>5 DEF OnlyClicks
    <3>2. Passing' <=> Passing
      BY <2>3 DEF Passing, PassingPress
    <3>3. holdAt'.epoch < epoch' /\ holdAt'.epoch <= epoch'
      BY <1>1, <2>3, <2>6
    <3> QED
      BY <1>1, <1>2, <2>2, <2>3, <2>5, <3>1, <3>2, <3>3 DEF PlaceOK, Replacing
  <2> QED
    BY <2>7, <2>8
<1> QED
  BY <1>3, <1>4, <1>5 DEF BackendStep, User

\* The answer of the hook lets a caller go on with its loop, and nothing else.
LEMMA AnsweredGoes ==
    ASSUME HoldTypeOK, WaitsForHook, hook.at # "idle", Answered
    PROVE  /\ hook'.at = "idle" /\ ~Passing'
           /\ W' = W \/ (W = "sent" /\ W' = "loop")
BY DEF Answered, IdleHook, WaitsForHook, HoldTypeOK, Threads, W, Passing

LEMMA AnsweredPlace ==
    ASSUME HoldTypeOK, WaitsForHook, hook.at # "idle", Answered, PlaceOK,
           UNCHANGED <<holdAt, epoch, focus, wFocus, cur, drained, late, wDeferred, then>>,
           deferred' = deferred \/ W \notin Replacing,
           Has(inbox') => Has(inbox) \/ hook.at = "defer",
           W \in Replacing \cup {"submit"} => (Downs(inbox') => Downs(inbox)),
           W = "collect" /\ focus # wFocus => OnlyClicks(inbox')
    PROVE  PlaceOK'
<1>1. /\ hook'.at = "idle" /\ ~Passing'
      /\ W' = W \/ (W = "sent" /\ W' = "loop")
  BY AnsweredGoes
<1>2. (Executing' /\ then'["worker"] = "landed" => Executing /\ then["worker"] = "landed")
  BY <1>1 DEF Executing, Correcting, Routine, W
<1>3. InHand' = InHand
  BY DEF InHand
<1> QED
  BY <1>1, <1>2, <1>3 DEF PlaceOK, Replacing

LEMMA TokenHook ==
    ASSUME Stands, Calm', BackendStep(HookStep)
    PROVE  Token' /\ PlaceOK'
<1> USE StandsTypes
<1> Token /\ PlaceOK /\ Calm /\ Keys2
  BY DEF Stands
<1>0. UNCHANGED <<wDeferred, wFocus, drained, cur, late, strokes>> /\ InHand' = InHand
  BY DEF BackendStep, engineVars, workVars, wordVars, InHand
<1>1. hook.at # "idle" /\ hook.ev \in Fresh /\ hook.ev \in Queueable /\ ~hook.ev.deferred
  <2>1. hook.at # "idle"
    BY DEF BackendStep, HookStep, HookLock, HookTrack, AnswerRelease, AnswerRepeat, AnswerPress,
       AnswerDefers, HookDefer
  <2>2. hook.ev \in Fresh
    BY <2>1 DEF EventInv, BackendEvents, HookEvents
  <2> QED
    BY <2>1, <2>2 DEF Queueable, Fresh
<1>2. CASE HookLock \/ HookTrack
  <2>1. UNCHANGED <<deferred, holdAt, epoch, focus, inbox, pc, then, consumed, holding, prior>> \/ HookTrack
    BY <1>2 DEF HookLock, actionVars, windowVars, queueVars, callerVars
  <2>2. UNCHANGED <<deferred, holdAt, epoch, focus, inbox, pc, then, consumed, holding>>
    BY <1>2 DEF HookLock, HookTrack, actionVars, windowVars, queueVars, callerVars
  <2>3. hook'.at # "defer"
    BY <1>2 DEF HookLock, HookTrack, HookAt, IdleHook
  <2>4. W = "collect" /\ Passing' => Passing
    <3>1. CASE HookTrack
      BY <2>2, <3>1 DEF HookTrack, HookAt, Passing, PassingPress
    <3>2. CASE HookLock
      <4>1. SUFFICES ASSUME W = "collect", Passing'
                     PROVE  FALSE
        OBVIOUS
      <4>2. hook' = HookAt("track") /\ ~KeptBack(hook.ev)
        BY <3>2, <4>1 DEF HookLock, Passing, IdleHook
      <4>3. hook.ev.down /\ hook.ev.key \notin consumed
        BY <2>2, <4>1, <4>2 DEF Passing, PassingPress, HookAt
      <4>4. holding
        BY <4>1 DEF Correcting
      <4> QED
        BY <4>2, <4>3, <4>4 DEF KeptBack
    <3> QED
      BY <1>2, <3>1, <3>2
  <2>5. Stream' = Stream /\ W' = W /\ (Completing' <=> Completing)
    BY <1>0, <2>2 DEF Stream, W, Completing
  <2>6. Token'
    BY <1>0, <2>2, <2>5, TokenStays
  <2>7. PlaceOK'
    BY <1>0, <2>2, <2>3, <2>4, <2>5, PlaceStays
  <2> QED
    BY <2>6, <2>7
<1>3. CASE AnswerRelease
  <2>1. UNCHANGED <<deferred, holdAt, epoch, focus, then>> /\ Answered /\ ~hook.ev.down
    BY <1>3 DEF AnswerRelease, holdVars
  <2>2. inbox' = Append(inbox, hook.ev)
    BY <1>3, RoomLeft DEF AnswerRelease, Remember, Enqueue, Lost, Calm
  <2>3. /\ Elems(inbox') = Elems(inbox) \cup {hook.ev}
        /\ Behind(Stream') = Behind(Stream) \cup {hook.ev}
        /\ OneAction(Stream') <=> OneAction(Stream)
        /\ Has(Stream') <=> Has(Stream)
        /\ Has(inbox') <=> Has(inbox)
        /\ Downs(inbox') <=> Downs(inbox)
    BY <1>0, <1>1, <2>1, <2>2, StreamAppend
  <2>4. Completing' <=> Completing
    BY <1>1, <2>1, AnsweredGoes DEF Completing
  <2>5. Token'
    <3>1. deferred # None => \A e \in Behind(Stream') : e.down => e.key = Pointer /\ holdAt.epoch < epoch
      BY <2>1, <2>3 DEF Token
    <3> QED
      BY <1>0, <2>1, <2>3, <2>4, <3>1 DEF Token
  <2>6. OnlyClicks(inbox) => OnlyClicks(inbox')
    BY <2>1, <2>3 DEF OnlyClicks
  <2>7. W = "collect" /\ focus # wFocus => OnlyClicks(inbox)
    BY DEF PlaceOK
  <2>8. PlaceOK'
    BY <1>0, <1>1, <2>1, <2>3, <2>6, <2>7, AnsweredPlace
  <2> QED
    BY <2>5, <2>8
<1>4. CASE AnswerRepeat
  <2>1. UNCHANGED <<deferred, holdAt, epoch, focus, then, inbox>> /\ Answered
    BY <1>4 DEF AnswerRepeat, holdVars, actionVars, queueVars
  <2>2. Stream' = Stream /\ (Completing' <=> Completing)
    BY <1>0, <1>1, <2>1, AnsweredGoes DEF Completing, Stream
  <2>3. Token'
    BY <1>0, <2>1, <2>2, TokenStays
  <2>4. W = "collect" /\ focus # wFocus => OnlyClicks(inbox)
    BY DEF PlaceOK
  <2>5. PlaceOK'
    BY <1>0, <1>1, <2>1, <2>4, AnsweredPlace
  <2> QED
    BY <2>3, <2>5
<1>5. CASE AnswerPress
  <2>1. UNCHANGED <<deferred, holdAt, epoch, focus, then>> /\ Answered /\ hook.ev.down /\ Passing
    BY <1>1, <1>5 DEF AnswerPress, holdVars, actionVars, Passing, PassingPress
  <2>2. deferred = None /\ W \notin Replacing /\ ~Completing /\ wDeferred = None /\ ~Has(Stream)
    BY <2>1 DEF Keys2, OneNext, Token
  <2>3. inbox' = Append(inbox, hook.ev)
    BY <1>5, RoomLeft DEF AnswerPress, Remember, Enqueue, Lost, Calm
  <2>4. /\ Elems(inbox') = Elems(inbox) \cup {hook.ev}
        /\ OneAction(Stream') <=> OneAction(Stream)
        /\ Has(Stream') <=> Has(Stream)
        /\ Has(inbox') <=> Has(inbox)
    BY <1>0, <1>1, <2>1, <2>3, StreamAppend
  <2>5. Completing' <=> Completing
    BY <1>1, <2>1, AnsweredGoes DEF Completing
  <2>6. Token'
    BY <1>0, <2>1, <2>2, <2>4, <2>5 DEF Token
  <2>7. ~(W = "collect" /\ focus # wFocus) /\ W # "submit"
    BY <2>1, <2>2 DEF PlaceOK, Completing
  <2>8. PlaceOK'
    BY <1>0, <1>1, <2>1, <2>2, <2>4, <2>7, AnsweredPlace
  <2> QED
    BY <2>6, <2>8
<1>6. CASE AnswerDefers
  <2>1. /\ UNCHANGED <<deferred, epoch, focus, inbox, pc, then>> /\ Passing
        /\ holdAt' = IF holding THEN holdAt ELSE Here
        /\ hook' = HookAt("defer")
        /\ Stale = {}
    BY <1>1, <1>6 DEF AnswerDefers, windowVars, queueVars, callerVars, Passing, PassingPress, Hold, Remember,
       Stale, Calm
  <2>2. deferred = None /\ W \notin Replacing /\ ~Completing /\ wDeferred = None /\ ~Has(Stream)
    BY <2>1 DEF Keys2, OneNext, Token
  <2>3. holdAt' = Here
    BY <2>1 DEF Stale
  <2>4. holdAt'.epoch = epoch /\ holdAt'.window = focus
    BY <2>3 DEF Here
  <2>5. W' = W /\ Stream' = Stream /\ (Completing' <=> Completing) /\ (Executing' <=> Executing)
    BY <1>0, <2>1 DEF W, Stream, Completing, Executing
  <2>6. Token'
    BY <1>0, <2>1, <2>2, <2>5 DEF Token
  <2>7. W = "collect" => focus = wFocus
    BY <2>1 DEF PlaceOK
  <2>8. ~Has(InHand)
    BY <2>2, StreamTypes DEF Has
  <2>9. epoch \in Nat
    BY DEF HoldTypeOK
  <2>10. W # "submit"
    BY <2>2 DEF Completing
  <2>11. PlaceOK'
    BY <1>0, <2>1, <2>2, <2>4, <2>5, <2>7, <2>8, <2>9, <2>10 DEF PlaceOK, Replacing
  <2> QED
    BY <2>6, <2>11
<1>7. CASE HookDefer
  <2>0. hook.ev \in ActionPress
    BY <1>7 DEF HookDefer, EventInv, BackendEvents, HookEvents
  <2>1. UNCHANGED <<holdAt, epoch, focus, then>> /\ deferred' = hook.ev /\ Answered /\ Passing /\ hook.at = "defer"
    BY <1>7, <2>0 DEF HookDefer, holdVars, windowVars, Passing, PassingPress, ActionPress, Press1
  <2>2. deferred = None /\ W \notin Replacing /\ ~Completing /\ wDeferred = None /\ ~Has(Stream)
    BY <2>1 DEF Keys2, OneNext, Token
  <2>3. PICK ev : ev = [hook.ev EXCEPT !.deferred = TRUE]
    OBVIOUS
  <2>4. ev \in Queueable /\ ev.deferred
    BY <2>0, <2>3 DEF ActionPress, Press1, Fresh, Withheld, Queueable, KeyEvent
  <2>5. inbox' = Append(inbox, ev)
    BY <1>7, <2>3, RoomLeft DEF HookDefer, Remember, Enqueue, Lost, Calm
  <2>6. Behind(Stream') = {} /\ (OneAction(Stream') <=> OneAction(Stream)) /\ (Has(Stream') <=> TRUE)
    BY <1>0, <2>2, <2>4, <2>5, StreamAppend
  <2>7. ~Completing'
    BY <1>1, <2>1, <2>2, AnsweredGoes DEF Completing
  <2>8. Token'
    BY <1>0, <1>1, <2>1, <2>2, <2>6, <2>7, EventKinds DEF Token
  <2>9. ~(W = "collect" /\ focus # wFocus) /\ W # "submit"
    BY <2>1, <2>2 DEF PlaceOK, Completing
  <2>10. PlaceOK'
    BY <1>0, <1>1, <2>1, <2>2, <2>9, AnsweredPlace
  <2> QED
    BY <2>8, <2>10
<1> QED
  BY <1>2, <1>3, <1>4, <1>5, <1>6, <1>7 DEF BackendStep, HookStep

-----------------------------------------------------------------------------
(* The withheld action and the place: the callers and the worker *)

LEMMA TokenCaller ==
    ASSUME Stands, Calm', NEW t \in Threads, BackendStep(ReleaseStep(t)) \/ BackendStep(ActionStep(t))
    PROVE  Token' /\ PlaceOK'
<1> USE StandsTypes
<1> Token /\ PlaceOK /\ Calm
  BY DEF Stands
<1>0. t = "worker"
  BY CallerSteps DEF Stands, Routine, Threads
<1>1. UNCHANGED <<inbox, drained, cur, wDeferred, wFocus, strokes, late, holdAt, epoch, focus, then>>
  BY DEF BackendStep, engineVars, workVars, wordVars, ReleaseStep, Release, LoopBehindAction, Loop, Send,
     SendFails, Finally, ActionStep, Deliver, Submit, SubmitFails, Cancel, Clear, queueVars, holdVars, windowVars
<1>2. InHand' = InHand /\ Stream' = Stream
  BY <1>1 DEF InHand, Stream
<1>3. hook'.at = "defer" => hook.at = "defer"
  BY DEF BackendStep, ReleaseStep, Release, LoopBehindAction, Loop, Send, SendFails, Finally,
     ActionStep, Deliver, Submit, SubmitFails, Cancel, Clear, hookVars
<1>4. /\ W \in Routine \ {"sent"}
      /\ \/ W' \in (Routine \ {"deliver", "submit"}) \cup {then["worker"]}
         \/ W = "deliver" /\ W' = "submit"
  BY <1>0, CallerSteps DEF W
<1>5. then["worker"] \in Returns
  BY DEF HoldTypeOK, Threads
<1>6. Executing' /\ then'["worker"] = "landed" => Executing /\ then["worker"] = "landed"
  BY <1>1, <1>4, <1>5 DEF Executing, Correcting, Routine, Returns
<1>7. /\ holdAt.epoch <= epoch
      /\ hook'.at = "defer" \/ Has(inbox') \/ Has(drained') => holdAt'.window = focus'
      /\ wDeferred' # None \/ Has(InHand') => holdAt'.window = wFocus'
      /\ Executing' /\ then'["worker"] = "landed" => wDeferred' = None
  BY <1>1, <1>2, <1>3, <1>6 DEF PlaceOK
<1>8. W' # "submit" => PlaceOK'
  <2>1. W' # "submit" => W' \notin Replacing \cup {"hold", "collect", "submit", "restore"}
    BY <1>4, <1>5 DEF Routine, Returns, Replacing
  <2> QED
    BY <1>1, <1>7, <2>1, PlaceAway
<1>9. CASE ReleaseStep(t)
  <2>1. ~Completing /\ deferred' = deferred
    BY <1>0, <1>9 DEF ReleaseStep, Release, LoopBehindAction, Loop, Send, SendFails, Finally, Completing, W,
       actionVars
  <2>2. W' \notin {"cancel", "deliver", "submit", "clear"}
    BY <1>0, <1>5, <1>9 DEF ReleaseStep, Release, LoopBehindAction, Loop, Send, SendFails, Finally, EndRelease, Back,
       Take, Goto, W, HoldTypeOK, Threads, Returns
  <2>3. ~Completing' /\ W' # "submit"
    BY <2>2 DEF Completing
  <2>4. Token'
    BY <1>1, <1>2, <2>1, <2>3, TokenStays
  <2> QED
    BY <1>8, <2>3, <2>4
<1>10. CASE Deliver(t) \/ Submit(t) \/ SubmitFails(t) \/ Cancel(t)
  <2>1. Completing /\ deferred' = deferred
    BY <1>0, <1>10 DEF Deliver, Submit, SubmitFails, Cancel, Completing, W, actionVars
  <2>2. deferred # None /\ ~Has(Stream)
    BY <2>1 DEF Token
  <2>3. W' \in {"submit", "clear"}
    BY <1>0, <1>10, <2>2 DEF Deliver, Submit, SubmitFails, Cancel, Goto, W, HoldTypeOK, Threads
  <2>4. Completing'
    BY <2>3 DEF Completing
  <2>5. Token'
    BY <1>1, <1>2, <2>1, <2>4, TokenStays
  <2>6. W' = "submit" => ~Downs(inbox)
    <3>1. SUFFICES ASSUME W' = "submit", NEW e \in Elems(inbox), e.down
                   PROVE  FALSE
      BY DEF Downs
    <3>2. Here = holdAt
      BY <1>0, <1>10, <2>2, <3>1 DEF Deliver, Submit, SubmitFails, Cancel, Goto, W, HoldTypeOK, Threads
    <3>3. e \in Elems(Stream)
      BY StreamTypes
    <3>4. e \in Behind(Stream)
      BY <2>2, <3>3, BehindWithin
    <3>5. holdAt.epoch < epoch
      BY <2>2, <3>1, <3>4 DEF Token
    <3>6. holdAt.epoch = epoch /\ epoch \in Nat
      BY <3>2 DEF Here, HoldTypeOK
    <3> QED
      BY <3>5, <3>6
  <2>7. W' = "submit" => PlaceOK'
    BY <1>1, <1>7, <2>6 DEF PlaceOK, Replacing
  <2> QED
    BY <1>8, <2>5, <2>7
<1>11. CASE Clear(t)
  <2>1. Completing /\ deferred' = None /\ W' = "release"
    BY <1>0, <1>11 DEF Clear, Goto, Completing, W, HoldTypeOK, Threads
  <2>2. ~Has(Stream) /\ wDeferred = None
    BY <2>1 DEF Token
  <2>3. ~Completing' /\ OneAction(Stream)
    BY <2>1 DEF Completing, Token
  <2>4. Token'
    BY <1>1, <1>2, <2>1, <2>2, <2>3 DEF Token
  <2> QED
    BY <1>8, <2>1, <2>4
<1> QED
  BY <1>9, <1>10, <1>11 DEF BackendStep, ActionStep

-----------------------------------------------------------------------------

\* The next event is in the worker's hand instead of in the queue.
LEMMA TokenGet ==
    ASSUME Stands, GetEvent
    PROVE  Token' /\ PlaceOK'
<1> USE StandsTypes
<1> Token /\ PlaceOK
  BY DEF Stands
<1>0. W = "ready" /\ inbox # <<>> /\ cur' = Head(inbox) /\ inbox' = Tail(inbox)
  BY DEF GetEvent, Ready, W
<1>1. UNCHANGED <<deferred, holdAt, epoch, focus, hook, drained, late>>
  BY DEF GetEvent, hiddenVars, quietVars, actionVars, holdVars, windowVars, hookVars, workVars
<1>2. drained = <<>> /\ cur = None
  BY <1>0 DEF Phases, AtEvent, W, Routine
<1>3. inbox \in Seq(Queueable) /\ cur' \in Queueable /\ cur' # None /\ Tail(inbox) \in Seq(Queueable)
  <2>1. inbox \in Seq(Queueable)
    BY StreamTypes
  <2>2. cur' \in Queueable /\ Tail(inbox) \in Seq(Queueable)
    BY <1>0, <2>1
  <2> QED
    BY <2>1, <2>2, EventKinds
<1>4. InHand = <<>> /\ InHand' = <<Head(inbox)>>
  BY <1>0, <1>2, <1>3 DEF InHand
<1>5. Stream = inbox /\ Stream' = inbox
  <2>1. <<>> \o (<<>> \o inbox) = inbox
    BY <1>3
  <2>2. <<>> \o Tail(inbox) = Tail(inbox)
    BY <1>3
  <2>3. <<Head(inbox)>> \o Tail(inbox) = inbox
    BY <1>0, <1>3
  <2>4. Stream = inbox
    BY <1>2, <1>4, <2>1 DEF Stream
  <2>5. drained' = <<>> /\ inbox' = Tail(inbox)
    BY <1>0, <1>1, <1>2
  <2>6. Stream' = <<Head(inbox)>> \o (<<>> \o Tail(inbox))
    BY <1>4, <2>5, Zenon DEF Stream
  <2> QED
    BY <2>2, <2>3, <2>4, <2>6, Zenon
<1>6. Elems(inbox) = {Head(inbox)} \cup Elems(Tail(inbox))
  BY <1>0, <1>3, HeadFirst
<1>7. \/ W' = "handle"
      \/ W' = "cancel" /\ then'["worker"] = "handle" /\ wDeferred # None
  <2>1. ~overflow
    BY DEF Stands, Windowed
  <2> QED
    BY <2>1 DEF GetEvent, Worker, Call, HoldTypeOK, W, Threads
<1>8. \/ wDeferred' = wDeferred /\ W' = "handle" /\ strokes' = strokes /\ wFocus' = wFocus
                /\ ~(cur'.down /\ FocusChanged)
      \/ wDeferred' = None /\ wFocus' = focus /\ (wDeferred = None => W' = "handle")
  <2>1. ~overflow
    BY DEF Stands, Windowed
  <2> QED
    BY <1>0, <2>1, EventKinds DEF GetEvent, Worker, Call, HoldTypeOK, W, Threads, NoWord, wordVars
<1>9. Token'
  <2>1. deferred = None => ~Has(Stream') /\ wDeferred' = None
    BY <1>1, <1>5, <1>8 DEF Token
  <2>2. Has(Stream') => wDeferred' = None /\ ~Completing'
    BY <1>1, <1>5, <1>7, <1>8 DEF Token, Completing
  <2>3. wDeferred' # None => strokes' = <<>> /\ ~Completing'
    BY <1>8 DEF Token, Completing
  <2>4. Completing' => deferred # None
    BY <1>7 DEF Token, Completing
  <2> QED
    BY <1>1, <1>5, <2>1, <2>2, <2>3, <2>4 DEF Token
<1>10. PlaceOK'
  <2>1. Has(inbox') => Has(inbox)
    BY <1>0, <1>6 DEF Has
  <2>2. hook'.at = "defer" \/ Has(inbox') \/ Has(drained') => holdAt'.window = focus'
    BY <1>1, <2>1 DEF PlaceOK
  <2>3. wDeferred' # None => holdAt'.window = wFocus'
    BY <1>1, <1>8 DEF PlaceOK
  <2>4. ASSUME Has(InHand')
        PROVE  holdAt'.window = wFocus'
    <3>1. Elems(InHand') = {cur'}
      BY <1>0, <1>3, <1>4, OneEvent
    <3>2. cur'.deferred
      BY <2>4, <3>1 DEF Has
    <3>3. cur'.down
      BY <1>3, <3>2, QueueKinds
    <3>4. Has(inbox)
      BY <1>0, <1>6, <3>2 DEF Has
    <3>5. holdAt.window = focus /\ focus # OwnWindow
      BY <3>4 DEF PlaceOK, Stands, Windowed
    <3>6. wFocus' = focus
      BY <1>8, <3>3, <3>5 DEF FocusChanged
    <3> QED
      BY <1>1, <3>5, <3>6
  <2>5. W' \notin Replacing \cup {"hold", "collect", "submit", "restore"} /\ ~(Executing' /\ then'["worker"] = "landed")
    BY <1>7 DEF Replacing, Executing, Correcting, Routine
  <2>6. holdAt'.epoch <= epoch'
    BY <1>1 DEF PlaceOK
  <2> QED
    BY <2>2, <2>3, <2>4, <2>5, <2>6, PlaceAway
<1> QED
  BY <1>9, <1>10

-----------------------------------------------------------------------------

\* The events behind an event, and the action that is the event.
LEMMA EventHandled ==
    ASSUME Stands, W = "handle", UNCHANGED <<inbox, drained>>, cur' = None
    PROVE  /\ drained = <<>> /\ InHand' = <<>> /\ Stream' = inbox /\ cur \in Queueable
           /\ Elems(Stream) = {cur} \cup Elems(inbox)
           /\ Has(Stream) <=> cur.deferred \/ Has(inbox)
           /\ Behind(inbox) \subseteq Behind(Stream)
           /\ ~Has(Stream) => cur \in Behind(Stream)
           /\ OneAction(Stream) => OneAction(inbox) /\ (cur.deferred => ~Has(inbox))
<1> USE StandsTypes
<1>1. drained = <<>> /\ cur \in Queueable /\ cur # None
  BY CurKinds, EventKinds DEF Phases, W
<1>2. InHand = <<cur>> /\ InHand' = <<>>
  BY <1>1 DEF InHand
<1>3. inbox \in Seq(Queueable) /\ <<cur>> \in Seq(Queueable) /\ Elems(<<cur>>) = {cur} /\ OneAction(<<cur>>)
  BY <1>1, StreamTypes, OneEvent
<1>4. Stream = <<cur>> \o inbox /\ Stream' = inbox
  <2>1. <<>> \o inbox = inbox
    BY <1>3
  <2>2. <<>> \o (<<>> \o inbox) = inbox
    BY <1>3
  <2> QED
    BY <1>1, <1>2, <2>1, <2>2 DEF Stream
<1>5. Elems(<<cur>> \o inbox) = Elems(<<cur>>) \cup Elems(inbox)
  <2>1. PICK o : o = <<cur>>
    OBVIOUS
  <2>2. o \in Seq(Queueable)
    BY <1>3, <2>1
  <2>3. inbox \in Seq(Queueable)
    BY <1>3
  <2>4. Elems(o \o inbox) = Elems(o) \cup Elems(inbox)
    BY <2>2, <2>3, ElemsConcat, SMTT(20)
  <2> QED
    BY <2>1, <2>4, Zenon
<1>6. Behind(<<cur>> \o inbox) = IF Has(inbox) THEN Behind(inbox) ELSE Behind(<<cur>>) \cup Elems(inbox)
  BY <1>3, BehindConcat
<1>7. OneAction(<<cur>> \o inbox) <=> OneAction(<<cur>>) /\ OneAction(inbox) /\ ~(Has(<<cur>>) /\ Has(inbox))
  BY <1>3, OneConcat
<1>8. Elems(Stream) = {cur} \cup Elems(inbox) /\ (Has(<<cur>>) <=> cur.deferred)
  BY <1>3, <1>4, <1>5 DEF Has
<1>9. Has(Stream) <=> cur.deferred \/ Has(inbox)
  BY <1>8 DEF Has
<1>10. Behind(inbox) \subseteq Elems(inbox) /\ (~Has(Stream) => Behind(Stream) = Elems(Stream))
  BY BehindWithin
<1> QED
  BY <1>1, <1>2, <1>4, <1>6, <1>7, <1>8, <1>9, <1>10

LEMMA TokenHandle ==
    ASSUME Stands, HandleEvent
    PROVE  Token' /\ PlaceOK'
<1> USE StandsTypes
<1> Token /\ PlaceOK
  BY DEF Stands
<1>0. W = "handle"
  BY DEF HandleEvent, HandlePointer, HandleSuspended, HandlePromptEnter, HandleLetter,
     HandleBoundary, HandleAction, HandleDelivered, HandleRelease, Handles, W
<1>1. UNCHANGED <<deferred, holdAt, epoch, focus, hook, drained, late, inbox, wFocus>> /\ cur' = None
  BY DEF HandleEvent, HandlePointer, HandleSuspended, HandlePromptEnter, HandleLetter,
     HandleBoundary, HandleAction, HandleDelivered, HandleRelease, Done, handled, hiddenVars, quietVars,
     actionVars, holdVars, windowVars, hookVars, queueVars
<1>2. /\ drained = <<>> /\ InHand' = <<>> /\ Stream' = inbox /\ cur \in Queueable
      /\ Has(Stream) <=> cur.deferred \/ Has(inbox)
      /\ Behind(inbox) \subseteq Behind(Stream)
      /\ ~Has(Stream) => cur \in Behind(Stream)
      /\ OneAction(inbox) /\ (cur.deferred => ~Has(inbox))
  BY <1>0, <1>1, EventHandled DEF Token
<1>3. cur.key # Pointer \/ ~cur.deferred
  BY <1>2, QueueKinds
<1> DEFINE Goes ==
      /\ wDeferred' # None => strokes' = <<>> /\ ~Completing' /\ deferred # None /\ ~Has(inbox)
                              /\ holdAt.window = wFocus
      /\ Completing' => deferred # None /\ ~Has(inbox)
      /\ W' \notin Replacing \cup {"hold", "collect", "submit", "restore"}
      /\ Executing' /\ then'["worker"] = "landed" => wDeferred' = None
<1>4. ASSUME Goes
      PROVE  Token' /\ PlaceOK'
  <2>1. Token'
    <3>1. deferred' = None => ~Has(Stream') /\ wDeferred' = None
      BY <1>1, <1>2, <1>4 DEF Token
    <3>2. deferred' # None => \A e \in Behind(Stream') : e.down => e.key = Pointer /\ holdAt'.epoch < epoch'
      BY <1>1, <1>2 DEF Token
    <3>3. Has(Stream') => wDeferred' = None /\ ~Completing'
      BY <1>2, <1>4
    <3> QED
      BY <1>1, <1>2, <1>4, <3>1, <3>2, <3>3 DEF Token
  <2>2. ~Has(InHand')
    BY <1>2, NoEvent
  <2>3. hook'.at = "defer" \/ Has(inbox') \/ Has(drained') => holdAt'.window = focus'
    BY <1>1 DEF PlaceOK
  <2>4. holdAt'.epoch <= epoch'
    BY <1>1 DEF PlaceOK
  <2>5. PlaceOK'
    BY <1>1, <1>4, <2>2, <2>3, <2>4, PlaceAway
  <2> QED
    BY <2>1, <2>5
<1>5. wDeferred # None => /\ deferred # None /\ ~Has(Stream) /\ strokes = <<>> /\ holdAt.window = wFocus
                          /\ (cur.down => cur.key = Pointer)
  BY <1>2 DEF Token, PlaceOK
<1>6. ~Has(Stream) => ~Has(inbox) /\ ~cur.deferred
  BY <1>2
<1>7. CASE HandlePointer \/ HandleDelivered
  <2>1. ClearWord("ready")
    BY <1>7 DEF HandlePointer, HandleDelivered
  <2>2. /\ wDeferred' = None
        /\ W' \in {"ready", "cancel"} /\ (W' = "cancel" => then'["worker"] = "ready" /\ wDeferred # None)
    BY <2>1, ClearWordGoes
  <2>3. Goes
    BY <1>5, <1>6, <2>2 DEF Completing, Replacing
  <2> QED
    BY <1>4, <2>3
<1>8. CASE HandlePromptEnter
  <2>1. W' = "cancel" /\ then'["worker"] = "ready" /\ wDeferred' = wDeferred /\ cur.deferred
    BY <1>8 DEF HandlePromptEnter, Call, Worker, HoldTypeOK, Threads, W
  <2>2. wDeferred = None /\ deferred # None /\ ~Has(inbox)
    BY <1>2, <2>1 DEF Token
  <2>3. Goes
    BY <2>1, <2>2 DEF Replacing, Completing
  <2> QED
    BY <1>4, <2>3
<1>9. CASE HandleLetter \/ HandleBoundary
  <2>1. W' = "ready" /\ wDeferred' = wDeferred /\ cur.down /\ cur.key # Pointer
    BY <1>9 DEF HandleLetter, HandleBoundary, Worker, Handles, HoldTypeOK, Threads, W, IsLetterPress
  <2>2. wDeferred = None
    BY <1>5, <2>1
  <2>3. Goes
    BY <2>1, <2>2 DEF Replacing, Completing, Executing, Correcting, Routine
  <2> QED
    BY <1>4, <2>3
<1>10. CASE HandleAction
  <2>1. W' = "ready" /\ wDeferred' = cur /\ cur.deferred
    BY <1>10 DEF HandleAction, Worker, HoldTypeOK, Threads, W
  <2>2. strokes' = <<>>
    <3>1. strokes # <<>> /\ ~untracked => strokes' = <<>>
      BY <1>10 DEF HandleAction, Commit
    <3>2. strokes = <<>> \/ untracked => strokes' = strokes
      BY <1>10 DEF HandleAction, wordVars
    <3> QED
      BY <3>1, <3>2 DEF Phases
  <2>3. deferred # None /\ ~Has(inbox)
    BY <1>2, <2>1 DEF Token
  <2>4. holdAt.window = wFocus
    <3>1. cur # None
      BY <1>2, EventKinds
    <3>2. Has(InHand)
      BY <2>1, <3>1, <1>2, OneEvent DEF InHand, Has
    <3> QED
      BY <3>2 DEF PlaceOK
  <2>5. Goes
    BY <2>1, <2>2, <2>3, <2>4 DEF Replacing, Completing, Executing, Correcting, Routine
  <2> QED
    BY <1>4, <2>5
<1>11. CASE HandleRelease
  <2>1. MaybeExecute(wPressed')
    BY <1>11 DEF HandleRelease
  <2>2. Goes
    <3>1. CASE W' = "ready" /\ UNCHANGED <<strokes, wDeferred>>
      BY <1>5, <1>6, <3>1 DEF Replacing, Completing, Executing, Correcting, Routine
    <3>2. CASE /\ W' = "focus" /\ UNCHANGED <<strokes, wDeferred>>
               /\ then'["worker"] = "landed" <=> wDeferred = None
      BY <1>5, <1>6, <3>2 DEF Replacing, Completing
    <3>3. CASE W' = "deliver" /\ then'["worker"] = "ready" /\ wDeferred # None /\ wDeferred' = None
      BY <1>5, <1>6, <3>3 DEF Replacing, Completing
    <3> QED
      BY <2>1, <3>1, <3>2, <3>3, MaybeExecuteGoes
  <2> QED
    BY <1>4, <2>2
<1>12. ~HandleSuspended
  BY DEF HandleSuspended, Stands, Windowed
<1> QED
  BY <1>7, <1>8, <1>9, <1>10, <1>11, <1>12 DEF HandleEvent

-----------------------------------------------------------------------------
(* The withheld action and the place: the timers, the focus and the end *)

\* A step that forgets the word, or leaves it alone, between two events.
LEMMA TokenBooks ==
    ASSUME Stands, UNCHANGED <<deferred, holdAt, epoch, hook, focus, drained, inbox, cur>>, cur = None,
           wDeferred' # None => wDeferred # None /\ strokes' = <<>> /\ ~Completing' /\ wFocus' = wFocus,
           Completing' => Completing \/ wDeferred # None,
           Executing' /\ then'["worker"] = "landed" => wDeferred' = None,
           W' \notin Replacing \cup {"hold", "collect", "submit", "restore"}
    PROVE  Token' /\ PlaceOK'
<1> Token /\ PlaceOK
  BY DEF Stands
<1>1. InHand' = InHand /\ Stream' = Stream /\ InHand = <<>>
  BY DEF InHand, Stream
<1>2. wDeferred # None => deferred # None /\ ~Has(Stream)
  BY DEF Token
<1>3. Token'
  <2>1. deferred' = None => ~Has(Stream') /\ wDeferred' = None
    BY <1>1, <1>2 DEF Token
  <2>2. deferred' # None => \A e \in Behind(Stream') : e.down => e.key = Pointer /\ holdAt'.epoch < epoch'
    BY <1>1 DEF Token
  <2>3. Has(Stream') => wDeferred' = None /\ ~Completing'
    BY <1>1, <1>2 DEF Token
  <2>4. Completing' => deferred' # None
    BY <1>2 DEF Token
  <2> QED
    BY <1>1, <2>1, <2>2, <2>3, <2>4 DEF Token
<1>4. PlaceOK'
  <2>1. ~Has(InHand')
    BY <1>1, NoEvent
  <2>2. hook'.at = "defer" \/ Has(inbox') \/ Has(drained') => holdAt'.window = focus'
    BY DEF PlaceOK
  <2>3. holdAt'.epoch <= epoch'
    BY DEF PlaceOK
  <2>4. wDeferred' # None => holdAt'.window = wFocus'
    BY DEF PlaceOK
  <2> QED
    BY <2>1, <2>2, <2>3, <2>4, PlaceAway
<1> QED
  BY <1>3, <1>4

LEMMA TokenTimers ==
    ASSUME Stands, ExpireAction \/ PollCurrentGroup \/ PauseCorrect
    PROVE  Token' /\ PlaceOK'
<1> USE StandsTypes
<1> Token
  BY DEF Stands
<1>0. W = "ready"
  BY DEF ExpireAction, PollCurrentGroup, PauseCorrect, Idle, Ready, W
<1>1. UNCHANGED <<deferred, holdAt, epoch, focus, hook, drained, inbox, cur>>
  BY DEF ExpireAction, PollCurrentGroup, PauseCorrect, timed, hiddenVars, quietVars,
     actionVars, holdVars, windowVars, hookVars, queueVars
<1>2. cur = None
  BY <1>0 DEF Phases, AtEvent, W, Routine
<1>3. wDeferred # None => strokes = <<>>
  BY DEF Token
<1> DEFINE Goes ==
      /\ wDeferred' # None => wDeferred # None /\ strokes' = <<>> /\ ~Completing' /\ wFocus' = wFocus
      /\ Completing' => Completing \/ wDeferred # None
      /\ Executing' /\ then'["worker"] = "landed" => wDeferred' = None
      /\ W' \notin Replacing \cup {"hold", "collect", "submit", "restore"}
<1>4. CASE ClearWord("ready")
  <2>1. /\ wDeferred' = None
        /\ W' \in {"ready", "cancel"} /\ (W' = "cancel" => wDeferred # None)
    BY <1>4, ClearWordGoes
  <2>2. Goes
    BY <2>1 DEF Completing, Replacing
  <2> QED
    BY <1>1, <1>2, <2>2, TokenBooks
<1>5. CASE MaybeExecute({}) /\ wFocus' = wFocus
  <2>1. CASE W' = "ready" /\ UNCHANGED <<strokes, wDeferred>>
    <3>1. Goes
      BY <1>3, <1>5, <2>1 DEF Replacing, Completing, Executing, Correcting, Routine
    <3> QED
      BY <1>1, <1>2, <3>1, TokenBooks
  <2>2. CASE /\ W' = "focus" /\ UNCHANGED <<strokes, wDeferred>>
             /\ then'["worker"] = "landed" <=> wDeferred = None
    <3>1. Goes
      BY <1>3, <1>5, <2>2 DEF Replacing, Completing
    <3> QED
      BY <1>1, <1>2, <3>1, TokenBooks
  <2>3. CASE W' = "deliver" /\ then'["worker"] = "ready" /\ wDeferred # None /\ wDeferred' = None
    <3>1. Goes
      BY <2>3 DEF Replacing, Completing
    <3> QED
      BY <1>1, <1>2, <3>1, TokenBooks
  <2> QED
    BY <1>5, <2>1, <2>2, <2>3, MaybeExecuteGoes
<1>6. CASE PauseCorrect
  <2>1. wDeferred' = wDeferred /\ wFocus' = wFocus
    BY <1>6 DEF PauseCorrect
  <2>2. CASE W' = "ready" /\ strokes' = strokes
    <3>1. Goes
      BY <1>3, <2>1, <2>2 DEF Replacing, Completing, Executing, Correcting, Routine
    <3> QED
      BY <1>1, <1>2, <3>1, TokenBooks
  <2>3. CASE W' = "focus" /\ wDeferred = None
    <3>1. Goes
      BY <2>1, <2>3 DEF Replacing, Completing
    <3> QED
      BY <1>1, <1>2, <3>1, TokenBooks
  <2>4. (W' = "ready" /\ strokes' = strokes) \/ (W' = "focus" /\ wDeferred = None)
    <3>1. CASE wPressed' # {} \/ pending # <<>>
      BY <1>6, <3>1 DEF PauseCorrect, Worker, HoldTypeOK, Threads, W
    <3>2. CASE ~(wPressed' # {} \/ pending # <<>>)
      <4>1. plan' \in Decided(strokes)
        BY <1>6, <3>2 DEF PauseCorrect
      <4>2. CASE plan' = <<>>
        BY <1>6, <3>2, <4>2 DEF PauseCorrect, Worker, HoldTypeOK, Threads, W
      <4>3. CASE plan' # <<>>
        <5>1. strokes # <<>>
          BY <4>1, <4>3 DEF Decided
        <5>2. W' = "focus"
          BY <1>6, <3>2, <4>3 DEF PauseCorrect, Call, Worker, HoldTypeOK, Threads, W
        <5> QED
          BY <1>3, <5>1, <5>2
      <4> QED
        BY <4>2, <4>3
    <3> QED
      BY <3>1, <3>2
  <2> QED
    BY <2>2, <2>3, <2>4
<1>7. CASE PollCurrentGroup
  BY <1>4, <1>7 DEF PollCurrentGroup
<1>8. CASE ExpireAction
  BY <1>4, <1>5, <1>8 DEF ExpireAction
<1> QED
  BY <1>6, <1>7, <1>8

LEMMA TokenFocus ==
    ASSUME Stands, CheckFocus \/ FieldRefuses \/ Landed
    PROVE  Token' /\ PlaceOK'
<1> USE StandsTypes
<1> Token /\ PlaceOK
  BY DEF Stands
<1>0. W \in {"focus", "landed", "acted"}
  BY DEF CheckFocus, FieldRefuses, Landed, W
<1>1. UNCHANGED <<deferred, holdAt, epoch, focus, hook, drained, inbox, cur>>
  BY DEF CheckFocus, FieldRefuses, Landed, handled, hiddenVars, quietVars,
     actionVars, holdVars, windowVars, hookVars, queueVars
<1>2. cur = None /\ then["worker"] \in {"landed", "acted"} /\ Executing
  BY <1>0 DEF Phases, AtEvent, W, Routine, Executing, EventInv, AtWord
<1> DEFINE Goes ==
      /\ wDeferred' # None => wDeferred # None /\ strokes' = <<>> /\ ~Completing' /\ wFocus' = wFocus
      /\ Completing' => Completing \/ wDeferred # None
      /\ Executing' /\ then'["worker"] = "landed" => wDeferred' = None
      /\ W' \notin Replacing \cup {"hold", "collect", "submit", "restore"}
<1>4. CASE ClearWord("ready")
  <2>1. /\ wDeferred' = None
        /\ W' \in {"ready", "cancel"} /\ (W' = "cancel" => wDeferred # None)
    BY <1>4, ClearWordGoes
  <2>2. Goes
    BY <2>1 DEF Completing, Replacing
  <2> QED
    BY <1>1, <1>2, <2>2, TokenBooks
<1>5. CASE CheckFocus /\ Worker("hold")
  <2>1. ~FocusChanged
    <3>1. CASE FocusChanged
      <4>1. ClearWord("ready")
        BY <1>5, <3>1 DEF CheckFocus
      <4>2. W' \in {"ready", "cancel"}
        BY <4>1, ClearWordGoes
      <4> QED
        BY <1>5, <4>2 DEF Worker, HoldTypeOK, Threads, W
    <3> QED
      BY <3>1
  <2>2. focus = wFocus
    BY <2>1 DEF FocusChanged, Stands, Windowed
  <2>3. ~overflow
    BY DEF Stands, Windowed
  <2>4. UNCHANGED <<wFocus, wDeferred, strokes, then>>
    BY <1>5, <2>1, <2>3 DEF CheckFocus, wordVars
  <2>5. W' = "hold" /\ W = "focus"
    BY <1>5 DEF CheckFocus, Worker, HoldTypeOK, Threads, W
  <2>6. InHand' = InHand /\ Stream' = Stream
    BY <1>1 DEF InHand, Stream
  <2>7. Token'
    BY <1>1, <2>4, <2>5, <2>6, TokenStays DEF Completing
  <2>8. PlaceOK'
    BY <1>1, <1>2, <2>2, <2>4, <2>5, <2>6 DEF PlaceOK, Replacing
  <2> QED
    BY <2>7, <2>8
<1>6. CASE CheckFocus \/ FieldRefuses
  BY <1>4, <1>5, <1>6 DEF CheckFocus, FieldRefuses
<1>7. CASE Landed
  <2>1. wFocus' = wFocus
    BY <1>7 DEF Landed
  <2>2. CASE pc["worker"] = "acted" /\ wDeferred # None
    <3>1. wDeferred' = None /\ W' \in {"deliver", "cancel"} /\ then'["worker"] = "ready"
      BY <1>7, <2>2 DEF Landed, Call, Worker, HoldTypeOK, Threads, W
    <3>2. Goes
      BY <2>2, <3>1 DEF Completing, Replacing
    <3> QED
      BY <1>1, <1>2, <3>2, TokenBooks
  <2>3. CASE Worker("ready") /\ wDeferred' = wDeferred /\ W = "landed"
    <3>1. wDeferred = None
      BY <1>2, <2>3 DEF PlaceOK, Phases
    <3>2. W' = "ready"
      BY <2>3 DEF Worker, HoldTypeOK, Threads, W
    <3>3. Goes
      BY <2>3, <3>1, <3>2 DEF Completing, Replacing, Executing, Correcting, Routine
    <3> QED
      BY <1>1, <1>2, <3>3, TokenBooks
  <2> QED
    BY <1>4, <1>7, <2>2, <2>3 DEF Landed, W
<1> QED
  BY <1>6, <1>7

-----------------------------------------------------------------------------
(* The withheld action and the place: the correction *)

\* What is kept of a sequence: its events that are in the set.
LEMMA OnlyElems ==
    ASSUME NEW E, NEW s \in Seq(E), NEW S
    PROVE  Elems(Only(s, S)) = Elems(s) \cap S
<1>1. PICK f : f = KeptOf(s, S)
  OBVIOUS
<1>2. Len(s) \in Nat /\ DOMAIN s = 1..Len(s)
  OBVIOUS
<1>3. f[0] = <<>> /\ \A k \in 1..Len(s) : f[k] = IF s[k] \in S THEN Append(f[k - 1], s[k]) ELSE f[k - 1]
  BY <1>1, <1>2, KeptIs
<1> DEFINE First(k) == {s[j] : j \in 1..k}
<1> DEFINE T == {k \in 0..Len(s) : f[k] \in Seq(E) /\ Elems(f[k]) = First(k) \cap S}
<1>4. 0 \in T
  <2>1. f[0] \in Seq(E) /\ Elems(f[0]) = {}
    BY <1>3, NoEvent, EmptySeq
  <2>2. First(0) = {}
    OBVIOUS
  <2> QED
    BY <1>2, <2>1, <2>2
<1>5. ASSUME NEW k \in 1..Len(s), k - 1 \in T
      PROVE  k \in T
  <2>1. PICK a : a = f[k - 1]
    OBVIOUS
  <2>2. a \in Seq(E) /\ Elems(a) = First(k - 1) \cap S /\ s[k] \in E /\ k \in 0..Len(s)
    BY <1>5, <2>1
  <2>3. First(k) = First(k - 1) \cup {s[k]}
    <3>1. \A j \in 1..k : j = k \/ j \in 1..k - 1
      OBVIOUS
    <3>2. \A j \in 1..k - 1 : j \in 1..k
      OBVIOUS
    <3>3. k \in 1..k
      OBVIOUS
    <3> QED
      BY <3>1, <3>2, <3>3
  <2>4. CASE s[k] \in S
    <3>0. PICK e \in E : e = s[k]
      BY <2>2
    <3>1. PICK o : o = <<e>>
      OBVIOUS
    <3>2. o \in Seq(E) /\ Elems(o) = {e}
      BY <3>0, <3>1, OneEvent
    <3>3. Append(a, e) = a \o o
      BY <2>2, <3>1
    <3>4. Elems(a \o o) = Elems(a) \cup {e} /\ a \o o \in Seq(E)
      BY <2>2, <3>2, ElemsConcat, ConcatProperties
    <3>5. f[k] \in Seq(E) /\ Elems(f[k]) = Elems(a) \cup {s[k]}
      BY <1>3, <2>1, <2>4, <3>0, <3>3, <3>4
    <3>6. Elems(f[k]) = First(k) \cap S
      BY <2>2, <2>3, <2>4, <3>5
    <3> QED
      BY <2>2, <3>5, <3>6
  <2>5. CASE s[k] \notin S
    <3>1. f[k] = a
      BY <1>3, <2>1, <2>5
    <3>2. First(k) \cap S = First(k - 1) \cap S
      BY <2>3, <2>5
    <3> QED
      BY <2>2, <3>1, <3>2
  <2> QED
    BY <2>4, <2>5
<1> HIDE DEF T
<1>a. \A k \in 1..Len(s) : k - 1 \in T => k \in T
  BY <1>5
<1>b. \A k \in 0..Len(s) : k \in T
  BY <1>2, <1>4, <1>a, UpTo
<1>6. Len(s) \in T
  BY <1>2, <1>b
<1>7. Elems(f[Len(s)]) = First(Len(s)) \cap S
  BY <1>6 DEF T
<1>8. First(Len(s)) = Elems(s)
  BY <1>2 DEF Elems
<1>9. Only(s, S) = f[Len(s)]
  BY <1>1, OnlyIsKept
<1> QED
  BY <1>7, <1>8, <1>9

LEMMA OnlyEmpty ==
    ASSUME NEW E, NEW s \in Seq(E), NEW S, Only(s, S) = <<>>
    PROVE  Elems(s) \cap S = {}
BY OnlyElems, NoEvent

\* While an action is withheld and the worker holds the input, it knows the place.
LEMMA HeldPlace ==
    ASSUME Stands, W = "hold", holding
    PROVE  holdAt.window = wFocus
<1> USE StandsTypes
<1>0. PlaceOK /\ Calm /\ pc["stop"] = "running" /\ focus = wFocus
  BY DEF Stands, PlaceOK
<1>1. hook.at = "defer" \/ deferred # None
  BY <1>0 DEF Stands, TextBase, RestInv, FreeInv, Calm, Empties, Correcting, Threads, W
<1>2. cur = None /\ ~Completing
  BY DEF Phases, AtEvent, W, Routine, Completing
<1>3. CASE hook.at = "defer"
  BY <1>0, <1>3 DEF PlaceOK
<1>4. CASE deferred # None
  <2>1. Has(inbox) \/ Has(drained) \/ wDeferred # None
    BY <1>2, <1>4 DEF Minded
  <2> QED
    BY <1>0, <2>1 DEF PlaceOK
<1> QED
  BY <1>1, <1>3, <1>4

LEMMA TokenHold ==
    ASSUME Stands, HoldInput
    PROVE  Token' /\ PlaceOK'
<1> USE StandsTypes
<1> Token /\ PlaceOK
  BY DEF Stands
<1>1. W = "hold" /\ W' = "collect"
  BY DEF HoldInput, Worker, HoldTypeOK, Threads, W
<1>2. /\ UNCHANGED <<deferred, epoch, focus, hook, then, inbox, cur, wFocus, wDeferred, strokes, drained, late>>
      /\ holdAt' = IF holding THEN holdAt ELSE Here
  BY DEF HoldInput, Hold, hookVars, actionVars, windowVars, queueVars, engineVars, wordVars, workVars
<1>3. InHand' = InHand /\ Stream' = Stream
  BY <1>2 DEF InHand, Stream
<1>4. deferred # None => holdAt' = holdAt
  BY <1>2
<1>5. ~Completing /\ ~Completing'
  BY <1>1 DEF Completing
<1>6. Token'
  <2>1. deferred' # None => \A e \in Behind(Stream') : e.down => e.key = Pointer /\ holdAt'.epoch < epoch'
    BY <1>2, <1>3, <1>4 DEF Token
  <2> QED
    BY <1>2, <1>3, <1>5, <2>1 DEF Token
<1>7. holdAt'.window = wFocus' /\ focus' = wFocus'
  <2>1. focus = wFocus
    BY <1>1 DEF PlaceOK
  <2> QED
    BY <1>1, <1>2, <2>1, HeldPlace DEF Here
<1>8. holdAt'.epoch <= epoch'
  <2>1. epoch \in Nat
    BY DEF HoldTypeOK
  <2> QED
    BY <1>2, <2>1 DEF Here, PlaceOK
<1>9. Executing /\ Executing'
  BY <1>1 DEF Executing, Correcting
<1> QED
  BY <1>1, <1>2, <1>6, <1>7, <1>8, <1>9 DEF PlaceOK, Replacing

LEMMA TokenCollect ==
    ASSUME Stands, Calm', CollectLate
    PROVE  Token' /\ PlaceOK'
<1> USE StandsTypes
<1> Token /\ PlaceOK
  BY DEF Stands
<1>1. W = "collect" /\ W' = "refill" /\ drained' = inbox /\ inbox' = <<>>
  BY DEF CollectLate, Worker, HoldTypeOK, Threads, W
<1>2. UNCHANGED <<deferred, epoch, focus, hook, then, holdAt, cur, wFocus, wDeferred, strokes, late>>
  BY DEF CollectLate, hookVars, holdVars, actionVars, windowVars, wordVars
<1>3. drained = <<>> /\ cur = None
  BY <1>1 DEF Phases, AtEvent, W, Routine
<1>4. InHand = <<>> /\ InHand' = <<>>
  BY <1>2, <1>3 DEF InHand
<1>5. Stream = inbox /\ Stream' = inbox
  <2>1. inbox \in Seq(Queueable)
    BY StreamTypes
  <2>2. <<>> \o inbox = inbox /\ inbox \o <<>> = inbox
    BY <2>1
  <2>3. Stream = <<>> \o (<<>> \o inbox)
    BY <1>3, <1>4, Zenon DEF Stream
  <2>4. Stream' = <<>> \o (inbox \o <<>>)
    BY <1>1, <1>4, Zenon DEF Stream
  <2> QED
    BY <2>2, <2>3, <2>4, Zenon
<1>6. ~Completing /\ ~Completing'
  BY <1>1 DEF Completing
<1>7. Token'
  BY <1>2, <1>5, <1>6 DEF Token
<1>8. ~Downs(inbox') /\ ~Has(inbox') /\ ~Has(InHand')
  BY <1>1, <1>4, NoEvent DEF Downs
<1>9. Executing /\ Executing'
  BY <1>1 DEF Executing, Correcting
<1>10. PlaceOK'
  BY <1>1, <1>2, <1>3, <1>8, <1>9 DEF PlaceOK, Replacing
<1> QED
  BY <1>7, <1>10

\* What goes back into the queue, when it is not all of it: key-ups.
LEMMA PutBackKinds ==
    ASSUME EventInv
    PROVE  /\ PutBack \in Seq(Queueable) /\ Elems(PutBack) \subseteq Elems(drained)
           /\ Refused => PutBack = drained
           /\ ~Refused => ~Downs(PutBack) /\ ~Has(PutBack) /\ ~Has(drained)
<1>1. strokes \in Seq(Press1) /\ drained \in Seq(Queueable)
  BY DEF EventInv, WordEvents
<1>2. Only(drained, KeyUps) \in Seq(Queueable) /\ Only(drained, LetterPresses) \in Seq(Press1)
      /\ Only(strokes, Event \ InPlan) \in Seq(Press1)
  BY <1>1, CollectedEvents
<1>3. Elems(Only(drained, KeyUps)) = Elems(drained) \cap KeyUps
  BY <1>1, OnlyElems
<1>4. PutBack \in Seq(Queueable) /\ Elems(PutBack) \subseteq Elems(drained) /\ (Refused => PutBack = drained)
  BY <1>1, <1>2, <1>3 DEF PutBack, Taken
<1>5. ASSUME ~Refused
      PROVE  ~Downs(PutBack) /\ ~Has(drained)
  <2>1. \A e \in Elems(drained) : e.key # Pointer /\ (e.down => e.key \in Letters)
    BY <1>5 DEF Refused, Elems
  <2>2. Elems(drained) \subseteq Queueable
    BY <1>1 DEF Elems
  <2>3. ~Has(drained)
    <3>1. \A e \in Elems(drained) : ~e.deferred
      BY <2>1, <2>2, QueueKinds, KeysAssumption
    <3> QED
      BY <3>1 DEF Has
  <2>4. CASE Taken
    BY <1>3, <2>3, <2>4 DEF PutBack, KeyUps, Downs
  <2>5. CASE ~Taken
    <3>1. LateKeys = <<>>
      BY <1>5, <2>5 DEF Taken
    <3>2. Only(drained, LetterPresses) = <<>>
      BY <1>2, <3>1 DEF LateKeys
    <3>3. Elems(drained) \cap LetterPresses = {}
      BY <1>1, <3>2, OnlyEmpty
    <3>4. \A e \in Elems(drained) : e \in Event
      BY <2>2, EventKinds
    <3>5. ~Downs(drained)
      BY <2>1, <3>3, <3>4 DEF Downs, LetterPresses, IsLetterPress
    <3> QED
      BY <2>3, <2>5, <3>5 DEF PutBack
  <2> QED
    BY <2>3, <2>4, <2>5
<1>6. ~Refused => ~Has(PutBack)
  BY <1>4, <1>5 DEF Has
<1> QED
  BY <1>4, <1>5, <1>6

\* The steps of the correction that put the queue back and type.
LEMMA TokenRefill ==
    ASSUME Stands, Calm', RefillQueue
    PROVE  Token' /\ PlaceOK'
<1> USE StandsTypes
<1> Token /\ PlaceOK
  BY DEF Stands
<1>1. W = "refill"
  BY DEF RefillQueue, W
<1>2. UNCHANGED <<deferred, epoch, focus, hook, then, holdAt, cur, wFocus, wDeferred>> /\ drained' = <<>>
  BY DEF RefillQueue, quietVars, hookVars, holdVars, actionVars, windowVars
<1>3. cur = None /\ InHand = <<>> /\ InHand' = <<>>
  BY <1>1, <1>2 DEF Phases, AtEvent, W, Routine, InHand
<1>4. PICK p : p = PutBack
  OBVIOUS
<1>5. /\ p \in Seq(Queueable) /\ Elems(p) \subseteq Elems(drained)
      /\ Refused => p = drained
      /\ ~Refused => ~Downs(p) /\ ~Has(p) /\ ~Has(drained)
  BY <1>4, PutBackKinds
<1>6. ~(Len(p) > QueueSize - Len(inbox)) /\ inbox' = inbox \o p
  <2>1. ~(Len(PutBack) > QueueSize - Len(inbox))
    BY DEF RefillQueue, Remember, Calm
  <2> QED
    BY <1>4, <2>1 DEF RefillQueue
<1>7. inbox \in Seq(Queueable) /\ drained \in Seq(Queueable)
  BY StreamTypes
<1>8. Stream = drained \o inbox /\ Stream' = inbox \o p
  <2>1. Stream = <<>> \o (drained \o inbox)
    BY <1>3, Zenon DEF Stream
  <2>2. Stream' = <<>> \o (<<>> \o (inbox \o p))
    BY <1>2, <1>3, <1>6, Zenon DEF Stream
  <2>3. drained \o inbox \in Seq(Queueable) /\ inbox \o p \in Seq(Queueable)
    BY <1>5, <1>7, ConcatProperties
  <2>4. <<>> \o (drained \o inbox) = drained \o inbox /\ <<>> \o (<<>> \o (inbox \o p)) = inbox \o p
    BY <2>3
  <2> QED
    BY <2>1, <2>2, <2>4, Zenon
<1>9. ~Downs(inbox) /\ ~Has(inbox)
  <2>1. ~Downs(inbox)
    BY <1>1 DEF PlaceOK
  <2>2. Elems(inbox) \subseteq Queueable
    BY <1>7 DEF Elems
  <2> QED
    BY <2>1, <2>2, QueueKinds DEF Downs, Has
<1>10. /\ Elems(drained \o inbox) = Elems(drained) \cup Elems(inbox)
       /\ Elems(inbox \o p) = Elems(inbox) \cup Elems(p)
       /\ Behind(drained \o inbox) = Behind(drained) \cup Elems(inbox)
       /\ Behind(inbox \o p) = IF Has(p) THEN Behind(p) ELSE Behind(inbox) \cup Elems(p)
       /\ OneAction(drained \o inbox) <=> OneAction(drained) /\ OneAction(inbox)
       /\ OneAction(inbox \o p) <=> OneAction(inbox) /\ OneAction(p)
  <2>1. /\ Elems(drained \o inbox) = Elems(drained) \cup Elems(inbox)
        /\ Elems(inbox \o p) = Elems(inbox) \cup Elems(p)
    BY <1>5, <1>7, ElemsConcat
  <2>2. Behind(drained \o inbox) = IF Has(inbox) THEN Behind(inbox) ELSE Behind(drained) \cup Elems(inbox)
    BY <1>7, BehindConcat
  <2>3. Behind(inbox \o p) = IF Has(p) THEN Behind(p) ELSE Behind(inbox) \cup Elems(p)
    BY <1>5, <1>7, BehindConcat
  <2>4. OneAction(drained \o inbox) <=> OneAction(drained) /\ OneAction(inbox) /\ ~(Has(drained) /\ Has(inbox))
    BY <1>7, OneConcat
  <2>5. OneAction(inbox \o p) <=> OneAction(inbox) /\ OneAction(p) /\ ~(Has(inbox) /\ Has(p))
    BY <1>5, <1>7, OneConcat
  <2> QED
    BY <1>9, <2>1, <2>2, <2>3, <2>4, <2>5
<1>11. ~Completing
  BY <1>1 DEF Completing
<1>12. Has(Stream') => Has(drained) /\ p = drained
  BY <1>5, <1>8, <1>9, <1>10 DEF Has
<1>13. Has(drained) => Has(Stream)
  BY <1>8, <1>10 DEF Has
<1>14. OneAction(Stream')
  <2>1. CASE Refused
    BY <1>5, <1>8, <1>10, <2>1 DEF Token
  <2>2. CASE ~Refused
    <3>1. ~Has(Stream')
      BY <1>5, <1>12, <2>2
    <3> QED
      BY <3>1 DEF Has, OneAction, Elems
  <2> QED
    BY <2>1, <2>2
<1>15. deferred # None => \A e \in Behind(Stream') : e.down => e.key = Pointer /\ holdAt.epoch < epoch
  <2>1. SUFFICES ASSUME deferred # None, NEW e \in Behind(Stream'), e.down
                 PROVE  e.key = Pointer /\ holdAt.epoch < epoch
    OBVIOUS
  <2>2. CASE ~Refused
    <3>1. e \in Elems(inbox) \cup Elems(p)
      BY <1>8, <1>10, <2>1, BehindWithin
    <3> QED
      BY <1>5, <1>9, <2>1, <2>2, <3>1 DEF Downs
  <2>3. CASE Refused
    <3>1. p = drained
      BY <1>5, <2>3
    <3>2. Behind(inbox) = Elems(inbox) /\ (~Has(drained) => Behind(drained) = Elems(drained))
      BY <1>9, BehindWithin
    <3>3. e \in Behind(Stream)
      BY <1>8, <1>10, <2>1, <3>1, <3>2
    <3> QED
      BY <2>1, <3>3 DEF Token
  <2> QED
    BY <2>2, <2>3
<1>16. strokes = <<>> => strokes' = <<>>
  BY OnlyOfEmpty DEF RefillQueue
<1>17. W' = "release" \/ (W' = "check" /\ ~Refused)
  BY DEF RefillQueue, Worker, Releases, HoldTypeOK, Threads, W
<1>18. Token'
  <2>1. ~Completing'
    BY <1>17 DEF Completing
  <2> QED
    BY <1>2, <1>11, <1>12, <1>13, <1>14, <1>15, <1>16, <2>1 DEF Token
<1>19. Has(inbox') => Has(drained)
  BY <1>5, <1>6, <1>9, <1>10 DEF Has
<1>20. ~Has(drained') /\ ~Has(InHand')
  BY <1>2, <1>3, NoEvent
<1>21. /\ holdAt'.epoch <= epoch'
       /\ hook'.at = "defer" \/ Has(inbox') \/ Has(drained') => holdAt'.window = focus'
       /\ wDeferred' # None \/ Has(InHand') => holdAt'.window = wFocus'
       /\ Executing' /\ then'["worker"] = "landed" => wDeferred' = None
  <2>1. Executing
    BY <1>1 DEF Executing, Correcting
  <2> QED
    BY <1>2, <1>19, <1>20, <2>1 DEF PlaceOK
<1>22. CASE W' = "release"
  <2>1. W' \notin Replacing \cup {"hold", "collect", "submit", "restore"}
    BY <1>22 DEF Replacing
  <2>2. PlaceOK'
    BY <1>21, <2>1, PlaceAway
  <2> QED
    BY <1>18, <2>2
<1>23. CASE W' = "check" /\ ~Refused
  <2>1. ~Downs(inbox')
    BY <1>5, <1>6, <1>9, <1>10, <1>23 DEF Downs
  <2>2. deferred # None => late' = <<>>
    <3>1. SUFFICES ASSUME deferred # None
                   PROVE  LateKeys = <<>>
      BY DEF RefillQueue, Taken
    <3>2. wDeferred # None
      BY <1>3, <1>5, <1>9, <1>11, <1>23, <3>1 DEF Minded
    <3>3. strokes = <<>> /\ ~Has(Stream)
      BY <3>1, <3>2 DEF Token
    <3>4. \A e \in Elems(drained) : e.down => e.key = Pointer
      <4>1. Behind(Stream) = Elems(Stream)
        BY <3>3, BehindWithin
      <4> QED
        BY <1>8, <1>10, <3>1, <4>1 DEF Token
    <3>5. \A k \in 1..Len(drained) : drained[k] \notin LetterPresses
      <4>1. \A k \in 1..Len(drained) : drained[k] \in Elems(drained)
        BY <1>7 DEF Elems
      <4>2. Pointer \notin Letters
        BY KeysAssumption DEF Keys
      <4> QED
        BY <3>4, <4>1, <4>2 DEF LetterPresses, IsLetterPress
    <3>6. Only(drained, LetterPresses) = <<>>
      BY <1>7, <3>5, OnlyNone
    <3>7. Only(strokes, Event \ InPlan) = <<>>
      BY <3>3, OnlyOfEmpty
    <3> QED
      BY <3>6, <3>7 DEF LateKeys
  <2>3. holdAt'.window = wFocus'
    BY <1>1, <1>2 DEF PlaceOK, Replacing
  <2>4. PlaceOK'
    BY <1>2, <1>21, <1>23, <2>1, <2>2, <2>3 DEF PlaceOK
  <2> QED
    BY <1>18, <2>4
<1> QED
  BY <1>17, <1>22, <1>23

LEMMA TokenCheck ==
    ASSUME Stands, CheckPlace
    PROVE  Token' /\ PlaceOK'
<1> USE StandsTypes
<1> Token /\ PlaceOK
  BY DEF Stands
<1>1. W = "check" /\ Executing
  BY DEF CheckPlace, W, Executing, Correcting
<1>2. UNCHANGED <<deferred, epoch, focus, hook, then, holdAt, cur, wFocus, wDeferred, strokes, inbox,
                  drained, late>>
  BY DEF CheckPlace, hiddenVars, quietVars, hookVars, holdVars, actionVars, windowVars, queueVars, engineVars,
     wordVars, workVars
<1>3. InHand' = InHand /\ Stream' = Stream
  BY <1>2 DEF InHand, Stream
<1>4. holding
  BY <1>1 DEF Correcting
<1>5. W' = "release" \/ (W' = "erase" /\ Here = holdAt)
  BY <1>4 DEF CheckPlace, Worker, Releases, HoldTypeOK, Threads, W
<1>6. ~Completing /\ ~Completing'
  BY <1>1, <1>5 DEF Completing
<1>7. Token'
  BY <1>2, <1>3, <1>6, TokenStays
<1>8. /\ holdAt'.epoch <= epoch'
      /\ hook'.at = "defer" \/ Has(inbox') \/ Has(drained') => holdAt'.window = focus'
      /\ wDeferred' # None \/ Has(InHand') => holdAt'.window = wFocus'
      /\ Executing' /\ then'["worker"] = "landed" => wDeferred' = None
  BY <1>1, <1>2, <1>3 DEF PlaceOK
<1>9. CASE W' = "release"
  <2>1. W' \notin Replacing \cup {"hold", "collect", "submit", "restore"}
    BY <1>9 DEF Replacing
  <2>2. PlaceOK'
    BY <1>8, <2>1, PlaceAway
  <2> QED
    BY <1>7, <2>2
<1>10. CASE W' = "erase" /\ Here = holdAt
  <2>1. holdAt.window = wFocus /\ (deferred # None => late = <<>>)
        /\ (~Downs(inbox) \/ holdAt.epoch < epoch)
    BY <1>1 DEF PlaceOK, Replacing
  <2>2. holdAt.window = focus /\ holdAt.epoch = epoch /\ epoch \in Nat
    BY <1>10 DEF Here, HoldTypeOK
  <2>3. focus = wFocus /\ ~Downs(inbox)
    BY <2>1, <2>2
  <2>4. PlaceOK'
    BY <1>2, <1>8, <1>10, <2>1, <2>3 DEF PlaceOK
  <2> QED
    BY <1>7, <2>4
<1> QED
  BY <1>5, <1>9, <1>10

LEMMA TokenInject ==
    ASSUME Stands, Calm', Injects, Erase \/ EraseAndType \/ TypeWord \/ Retype \/ InjectionFails
    PROVE  Token' /\ PlaceOK'
<1> USE StandsTypes
<1> Token /\ PlaceOK
  BY DEF Stands
<1>1. UNCHANGED <<deferred, epoch, focus, hook, then, holdAt, cur, wFocus, wDeferred, strokes, drained, late>>
  BY DEF Injects, injecting, hookVars, engineVars, wordVars, workVars
<1>2. InHand' = InHand /\ ~InjectionFails
  BY <1>1 DEF InHand, InjectionFails, Remember, Calm
<1>3. /\ W \in {"erase", "type", "retype"}
      /\ W' \in {"type", "retype", "release"}
      /\ W' = "retype" => late # <<>>
  BY <1>2, InjectGoes DEF PlaceOK, Erase, EraseAndType, TypeWord, Retype, InjectionFails, Worker, Releases,
     AfterTyping, HoldTypeOK, Threads, W
<1>4. ~Completing /\ ~Completing' /\ Executing
  BY <1>3 DEF Completing, Executing, Correcting
<1>5. drained = <<>> /\ cur = None
  BY <1>3 DEF Phases, AtEvent, W, Routine
<1>6. ~Has(drained') /\ ~Has(InHand')
  BY <1>1, <1>2, <1>5, NoEvent DEF InHand
<1>7. CASE Erase \/ EraseAndType \/ TypeWord
  <2>1. inbox' = inbox
    BY <1>7 DEF Erase, EraseAndType, TypeWord, queueVars
  <2>2. Stream' = Stream
    BY <1>1, <1>2, <2>1 DEF Stream
  <2>3. Token'
    BY <1>1, <1>4, <2>2, TokenStays
  <2>4. PlaceOK'
    BY <1>1, <1>2, <1>3, <1>4, <2>1 DEF PlaceOK, Replacing
  <2> QED
    BY <2>3, <2>4
<1>8. CASE Retype
  <2>1. PICK r : r = Replayed(late)
    OBVIOUS
  <2>2. r \in Seq(Fresh) /\ Len(r) = 2 * Len(late)
    BY <2>1, ReplayedEvents DEF EventInv, WordEvents
  <2>3. r \in Seq(Queueable) /\ ~Has(r)
    <3>1. Fresh \subseteq Queueable /\ \A e \in Fresh : ~e.deferred
      BY DEF Queueable, Fresh
    <3>2. Elems(r) \subseteq Fresh
      BY <2>2 DEF Elems
    <3> QED
      BY <2>2, <3>1, <3>2, SubsetSeq DEF Has
  <2>4. inbox' = inbox \o r
    <3>1. hooked
      BY DEF Stands
    <3>2. ~(Len(inbox \o r) > QueueSize)
      BY <1>8, <2>1, <3>1 DEF Retype, Remember, Calm
    <3> QED
      BY <1>8, <2>1, <3>1, <3>2 DEF Retype
  <2>5. inbox \in Seq(Queueable) /\ Stream \in Seq(Queueable) /\ Stream' = Stream \o r
    <3>1. /\ InHand \in Seq(Queueable) /\ drained \in Seq(Queueable) /\ inbox \in Seq(Queueable)
          /\ drained \o inbox \in Seq(Queueable) /\ Stream \in Seq(Queueable)
      BY StreamTypes
    <3>2. drained \o (inbox \o r) = (drained \o inbox) \o r
      BY <2>3, <3>1
    <3>3. InHand \o ((drained \o inbox) \o r) = (InHand \o (drained \o inbox)) \o r
      BY <2>3, <3>1, SMTT(20)
    <3>4. Stream' = InHand \o (drained \o (inbox \o r))
      <4>1. Stream' = InHand' \o (drained' \o inbox')
        BY Zenon DEF Stream
      <4>2. InHand' = InHand /\ drained' = drained
        BY <1>1, <1>2
      <4> QED
        BY <2>4, <4>1, <4>2, Zenon
    <3>5. Stream \o r = (InHand \o (drained \o inbox)) \o r
      BY Zenon DEF Stream
    <3> QED
      BY <3>1, <3>2, <3>3, <3>4, <3>5, Zenon
  <2>6. W = "retype" /\ W' = "release"
    BY <1>3, <1>8 DEF Retype, Worker, Releases, HoldTypeOK, Threads, W
  <2>7. Has(inbox') => Has(inbox)
    <3>1. Elems(inbox \o r) = Elems(inbox) \cup Elems(r)
      BY <2>3, <2>5, ElemsConcat
    <3> QED
      BY <2>3, <2>4, <3>1 DEF Has
  <2>8. PlaceOK'
    <3>1. /\ holdAt'.epoch <= epoch'
          /\ hook'.at = "defer" \/ Has(inbox') \/ Has(drained') => holdAt'.window = focus'
          /\ wDeferred' # None \/ Has(InHand') => holdAt'.window = wFocus'
          /\ Executing' /\ then'["worker"] = "landed" => wDeferred' = None
      BY <1>1, <1>4, <1>6, <2>7 DEF PlaceOK
    <3>2. W' \notin Replacing \cup {"hold", "collect", "submit", "restore"}
      BY <2>6 DEF Replacing
    <3> QED
      BY <3>1, <3>2, PlaceAway
  <2>9. CASE late = <<>>
    <3>1. r = <<>>
      BY <2>2, <2>9
    <3>2. Stream' = Stream
      BY <2>5, <3>1
    <3>3. Token'
      BY <1>1, <1>4, <3>2, TokenStays
    <3> QED
      BY <2>8, <3>3
  <2>10. CASE late # <<>>
    <3>1. deferred = None
      BY <2>6, <2>10 DEF PlaceOK
    <3>2. ~Has(Stream) /\ wDeferred = None
      BY <3>1 DEF Token
    <3>3. Elems(Stream \o r) = Elems(Stream) \cup Elems(r)
      BY <2>3, <2>5, ElemsConcat
    <3>4. ~Has(Stream')
      BY <2>3, <2>5, <3>2, <3>3 DEF Has
    <3>5. OneAction(Stream')
      BY <3>4 DEF Has, OneAction, Elems
    <3>6. Token'
      BY <1>1, <1>4, <3>1, <3>2, <3>4, <3>5 DEF Token
    <3> QED
      BY <2>8, <3>6
  <2> QED
    BY <2>9, <2>10
<1> QED
  BY <1>2, <1>7, <1>8

-----------------------------------------------------------------------------

LEMMA StandsBefore ==
    ASSUME TextBase, MindInv, KeyInv, TokenInv, [Next]_vars, Calm', running'
    PROVE  Stands
<1> HoldTypeOK
  BY DEF TextBase, EventInv, TypeInv
<1>1. Calm
  BY CalmBefore
<1>2. running
  <2>1. CASE Stop
    BY <2>1 DEF Stop
  <2>2. CASE Books \/ Injects \/ HoldInput \/ Unhook \/ UNCHANGED vars
    BY <2>2 DEF Books, Injects, injecting, HoldInput, Unhook, vars, engineVars, runVars
  <2>3. CASE \/ BackendStep(User) \/ BackendStep(RuleWindowReports) \/ BackendStep(HookStep)
             \/ \E t \in Threads : BackendStep(ReleaseStep(t)) \/ BackendStep(ActionStep(t))
    BY <2>3 DEF BackendStep, engineVars, runVars
  <2> QED
    BY <2>1, <2>2, <2>3, InjectCases
<1>3. hooked /\ filtering /\ ~waiting /\ pc["stop"] = "running"
  BY <1>2 DEF TextBase, RunInv
<1>4. Windowed /\ Keys2 /\ Token /\ PlaceOK
  BY <1>1, <1>2 DEF KeyInv, TokenInv
<1> QED
  BY <1>1, <1>2, <1>3, <1>4 DEF Stands

LEMMA TokenStep ==
    ASSUME TextBase, MindInv, KeyInv, TokenInv, [Next]_vars
    PROVE  TokenInv'
<1> SUFFICES ASSUME Calm', running'
             PROVE  Token' /\ PlaceOK'
  BY DEF TokenInv
<1>1. Stands
  BY StandsBefore
<1> HoldTypeOK
  BY DEF TextBase, EventInv, TypeInv
<1>2. CASE UNCHANGED vars
  <2>1. UNCHANGED <<deferred, wDeferred, holdAt, epoch, focus, wFocus, inbox, drained, cur, late, strokes, hook,
                    consumed, pc, then>>
    BY <1>2 DEF vars, backendVars, engineVars, wordVars, workVars, holdVars, actionVars, windowVars, queueVars,
       hookVars, callerVars
  <2>2. W' = W /\ Stream' = Stream /\ (Completing' <=> Completing) /\ (Passing' <=> Passing)
    BY <2>1 DEF W, Stream, InHand, Completing, Passing, PassingPress
  <2> QED
    BY <1>1, <2>1, <2>2, TokenStays, PlaceStays DEF Stands
<1>3. CASE Stop
  BY <1>3 DEF Stop
<1>4. ~Unhook
  BY <1>1 DEF Unhook, Stands
<1>5. CASE WorkerBooks /\ Books
  BY <1>1, <1>5, TokenGet, TokenHandle, TokenTimers, TokenFocus, TokenCollect, TokenRefill, TokenCheck
     DEF WorkerBooks
<1> QED
  BY <1>1, <1>2, <1>3, <1>4, <1>5, InjectCases, TokenUser, TokenHook, TokenCaller, TokenHold, TokenInject

LEMMA TokenInit == Init => TokenInv
<1> SUFFICES ASSUME Init
             PROVE  Token /\ PlaceOK
  BY DEF TokenInv
<1>1. /\ W = "ready" /\ deferred = None /\ wDeferred = None /\ inbox = <<>> /\ drained = <<>> /\ cur = None
      /\ hook.at = "idle" /\ holdAt.epoch = 0 /\ epoch = 0 /\ late = <<>> /\ strokes = <<>>
  BY DEF Init, EngineInit, W, Threads, Here, IdleHook
<1>2. InHand = <<>> /\ Stream = <<>>
  <2>1. InHand = <<>>
    BY <1>1 DEF InHand
  <2>2. Stream = <<>> \o (<<>> \o <<>>)
    BY <1>1, <2>1, Zenon DEF Stream
  <2> QED
    BY <2>1, <2>2, EmptySeq
<1>3. Token
  BY <1>1, <1>2, NoEvent DEF Token, Completing
<1>4. PlaceOK
  BY <1>1, <1>2, NoEvent DEF PlaceOK, Replacing, Executing, Correcting, Routine
<1> QED
  BY <1>3, <1>4
=============================================================================
