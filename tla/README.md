# KeySwitch: a verification project

KeySwitch watches what is typed, notices that a word was typed in the wrong
keyboard layout, and types it anew in the right one. LogCourier, a second
program of the same repository, carries its logs to a private Telegram group.
This directory holds TLA+ models of the parts of both where the order of things
decides whether they are right, the TLC configurations that check the models on
small instances, and proofs for TLAPS.

Paths are relative to the repository; `keyswitch/` stands for `src/keyswitch/`
and `logcourier/` for `apps/logcourier/src/logcourier/`.

## 1. The system

| Component | Source | State it keeps | Operations | Interacts with |
|---|---|---|---|---|
| Windows keyboard backend | `keyswitch/windows_backend.py`, `backend.py` | `_holding`, `_held`, `_deferred_action`, `_action_prior_keys`, `_consumed_keys`, `_pressed`, `_pointer_epoch`, `_hold_window` | the hook's answer, `hold_input`, `release_input`, `complete_action`, `inject_correction`, selection commands, start, stop | the hook thread of Windows; the engine (listener and filter); `SendInput` |
| Keyboard engine | `keyswitch/engine.py` | event queue, word (`_strokes`), plan (`_pending`), pressed keys, withheld action, timers, undo | `enqueue`, `_handle`, timers, `_execute_correction`, commands, pause, stop | backend, detector, field readers, learning, tray |
| Detection | `detector.py`, `word_decision.py`, models | none that changes with a word | decide a word, a prefix, a sentence | engine |
| Field readers | `context_access.py` and one per system | caches of the last field | read text at the caret | engine |
| Learning, rules, prompt | `learning.py`, `learning_prompt.py`, `rule_editor.py` | rule files, the prompt and its deadline | learn, forget, migrate, edit | engine, hook thread (`consumes_key`), tray |
| Settings, history | `config.py`, `history.py` | files | load, save as a whole | all |
| Selection commands | `selection_commands.py` | phase of the command, borrowed clipboard | convert a selection, undo | backend |
| Updates | `updates.py` | busy flag, release found, phase | check, download, install, close | tray, threads of its own |
| Engine loader | `engine_loader.py` | the engine, or what waits for it | start, stop, subscribe | application |
| Wayland backend | `wayland_backend.py`, `wayland_native.py`, the client in `wayland_helper.py` | as the Windows backend, and the numbers of keys it knows of (`_known_seq`, `_hold_known_seq`), `_hold_broken`, `_action_forced` | answers to the helper's keys, `hold_input`, `release_input`, `complete_action`, `inject_correction`, restart of the helper | engine, helper process |
| Wayland helper | `wayland_helper.py` | the grab, the key asked about, those behind it, the numbers given | ask, time out, type, refuse or carry out a batch, grab, give up | the kernel's devices, the parent over a socket |
| X11, macOS backends | `x11_backend.py`, `macos_*.py` | expected injected keys | as the Windows backend | engine |
| Windows, tray | `desktop_ui.py`, `ui.py`, `tray.py`, `app.py`, ... | the queue of the window's thread, what the window shows | come up, empty the queue, ask for updates, shut down | all |
| LogCourier: collection | `logcourier/collector.py`, `store.py` | cursors, queue in SQLite | scan, enqueue | log files, delivery |
| LogCourier: delivery | `logcourier/catalog.py`, `reset.py`, `store.py`, `batching.py`, `service.py` | bundles, pending catalog, last catalog, clearing | compact, deliver, finish a catalog, restart the chain, clear the group | Telegram |
| LogCourier: rate limit, window, startup | the rest of `logcourier/` | waiting times, settings | | delivery |
| Packaging, training, tools | `packaging/`, `tools/`, `model/` | | | not part of the running program |

`PROJECT.json` says for each one whether it is modelled, and lists the hazards
by line.

### What is hard

* **Three threads and one keyboard.** Windows calls the hook for every key in
  the hook's thread. The worker erases and types while the user goes on typing;
  what the user types then is kept in `_held` and replayed. A third thread may
  stop the program in the middle. The replay runs without the lock, so new
  keys join the buffer behind those being sent.
* **Two queues.** A key is in the hook's hands, in `_held`, in the engine's
  queue, or already in the window, and the engine's idea of the word is the
  queue's delay behind the window. Erasing N characters is right only if the
  last N in the window are the ones the engine means.
* **Two processes and one keyboard.** Under Wayland the keys come from a helper that
  waits for a verdict for a quarter of a second and then types on its own. The
  verdict, a replay or a correction decided without knowing that may be on its way
  meanwhile; only numbers of keys tell the two sides what the other knew.
* **A withheld Enter.** Enter submits forms and cannot be taken back; it waits
  for the word before it, its key-ups, and is cancelled by a click, another
  window or a timeout.
* **Checks and acts.** The focus is read when an event is handled, again before a
  correction, and again before `SendInput`; each may be stale an instant later.
* **A remote pointer without a transaction.** LogCourier's chain of catalogs hangs
  on the pin of a group. Uploading, pinning and noting it are separate
  calls, each of which may be cut off, answered late or carried out late.

### What makes the components correct

* Backend: keys reach the windows in the order they were typed, once; nothing is
  lost but where the code drops it on purpose; the keyboard is never left
  captured; an action is sent only where it was typed.
* Engine: a correction erases its own word and what was typed after it; every
  withheld action is resolved; a queue that overflows does not lead to a wrong erasure.
* Delivery: an archive waits until a catalog lists it; what is listed stays
  listed until the user starts anew; catalogs form one chain; a clearing drops
  what was deleted and keeps what was not.
* Collection: each line of a log is queued once, in order, across rotation; what was
  there before the source was added is not.
* Wayland: what is said of the Windows backend, also when verdicts are late, the helper
  dies or the session is locked.
* Application: what the window asks of an engine that is not there yet reaches it once;
  one check or installation at a time, and the flag that says so does not stay; the
  window shows the state things are in; nothing begins once the program closes.
* Rules, history: whatever write fails, no rule the user keeps is lost, and the
  corrections recorded last can be read.

## 2. Modules

| Module | Models | Lines |
|---|---|---|
| `HookHold` | the hook, the buffer, the withheld action, `release_input` and `complete_action` run by two callers, the user and the windows | `windows_backend.py` |
| `WindowsInput` | extends `HookHold` with the engine's worker, its timers, `inject_correction`, stop and close; the specification and the properties of both | `engine.py`, `windows_backend.py` |
| `MCWindowsInput` | symmetry for TLC | |
| `WindowsInputProofs`, `WindowsTextProofs` | theorems about `WindowsInput`: the hook, the holding, the events and who has the next press; the word, the text, the order of presses and the keys that go up | |
| `Ledger` | abstract: a fragment waits, is listed, is forgotten with its chain | |
| `Delivery` | LogCourier's delivery, restart and clearing, Telegram's group, and what interrupts them; implements `Ledger` | `catalog.py`, `reset.py`, `store.py`, `batching.py` |
| `MCDelivery` | symmetry for TLC | |
| `DeliveryProofs` | theorems about `Delivery`: the pin, the clearing, the chain and what it lists | |
| `Collector` | LogCourier's collection: cursors, baseline, scans; the program that writes the log and the one that rotates it | `collector.py`, `store.py` |
| `CollectorProofs`, `QueueProofs` | theorems about `Collector`: types and cursors; what is queued, once and in order | |
| `InputHelper` | the Wayland helper process: the grab, the key asked about, the deadline, batches and their refusal | `wayland_helper.py` |
| `WaylandInput` | extends `InputHelper` with the client's dispatch thread, the backend's hold and withheld action, the worker as far as the backend sees it, the socket between both | `wayland_backend.py`, `wayland_native.py`, `wayland_helper.py`, `engine.py` |
| `WaylandProofs` | theorems about `WaylandInput` | |
| `WindowEvents` | the queue of actions for the window's thread | `desktop_ui.py` |
| `EngineLoader` | extends `WindowEvents`: the engine built on a thread of its own, and what waits for it | `engine_loader.py` |
| `Updates` | extends `WindowEvents`: checks, downloads, installations on their threads, the busy flag | `updates.py` |
| `Application` | composes the three above with the window's thread, from its subscriptions to the shutdown | `desktop_ui.py` |
| `ApplicationProofs` | theorems about `Application` | |
| `RulesFile` | the rules on disk: load, migration, moving aside, saving, failures | `learning.py`, `config.py` |
| `HistoryFile` | the history on disk: append, trim, read, clear, torn lines | `history.py`, `engine.py` |
| `UserFiles` | composes the two above with the start and the end of the program | `learning.py`, `engine.py` |
| `UserFilesProofs` | theorems about `UserFiles` | |

### HookHold and WindowsInput

A key is one of a letter, a boundary (space) or an action key (Enter, Tab). Every
press gets a number; the text of a window is the sequence of numbers of the
presses it got, and a 0 where the caret was moved by a click. A replacement puts
the same numbers back: the letters are others, but which press each stands for is
what the properties need. Whether a word is replaced is left open (`Decided`).

The hook answers one event at a time. `hook.at` says where it is between the
statements at which another thread can run: before `_hold_lock` (`lock`), before
the pressed keys are updated (`track`), before the answer (`answer`), and between
`hold_input` and the assignment of `_deferred_action` (`defer`, lines 773-774).
`SendInput` of a replayed key runs the hook before it returns: the caller waits at
`sent`. The program counters of `worker` and `stop` follow the labels of
`release_input` (`release`, `loop`, `send`, `finally`), `complete_action`
(`deliver`, `submit`, `cancel`, `clear`) and, for the worker, of
`_execute_correction` (`focus`, `hold`, `collect`, `refill`, `check`, `erase`,
`type`, `retype`, `restore`, `landed`). `then` is where a routine returns to and
`releases` the number of nested `release_input` calls left after an injection.

A `SendInput` that fails in a `release_input` of the worker raises an exception that the
worker's loop catches. In the stopping thread nobody does: it leaves the `finally` of
`complete_action` (`windows_backend.py:653-656`), `WindowsBackend.stop` at 480, before the
hook is removed at 484, and `KeyboardEngine.stop` at `engine.py:763`, so that the worker is
not joined and `backend.close` not called; `desktop_ui.py:2365-2368` and `app.py:459-462` log it.
The label `raised` (`Back`) is that end: the hook goes on answering, and `Unhook` and the second
`complete_action` do not happen. `_running` is cleared before, so the worker ends on its own.

History variables: `presses` numbers the presses, `dropped` collects those a
step of the code drops, `typedAt` is the place in front when the hook withheld the
action, and `odd` records rare interleavings that the code does
not exclude, so that a property can say what holds without them:

| Tag | What happened | Where |
|---|---|---|
| `slipped` | the holding ended between the hook's `hold_input` and its note of the action | `windows_backend.py:773-774` |
| `raced` | a press passed the hook before the holding and joined the queue after it was emptied; or a click did. The comment in `_collect_late_input` takes the queue for one that cannot grow | `engine.py:4946` |
| `moved` | focus or caret changed between the check and the input that relies on it; the check of the focus at 5552 lies before `hold_input`, which remembers the new window as the right one | `engine.py:5552`, `windows_backend.py:643` |
| `strayed` | the window changed with a press still in the queue, or on its way there through the hook: the focus is read when the event is handled, not when it was typed; or the rule window came to the front | `engine.py:6302` |
| `failed` | a `SendInput` sent nothing | `windows_backend.py:1001` |
| `cut` | the program was stopped in the middle of a correction: the stopping thread's release types the kept keys between the Backspaces and the word | `engine.py:763` |
| `orphaned` | the key-up of a key whose auto-repeat is kept reached the window before the replay of the repeat | `windows_backend.py:822` |
| `stale` | an action was withheld while a holding that began somewhere else goes on, and inherits its place; section 4 | `windows_backend.py:586` |
| `overflowed` | the engine's queue lost an event; the flag is consumed at the queue's head although the lost event was at its end | `engine.py:784-786` |

An invariant that excludes a tag says exactly which race it needs to be absent;
none of the tags is used to exclude a state that the others would reach anyway.

### Ledger and Delivery

A message is its number in the group. A fragment of a log is queued in a row, alone
or packed with others (`Compact`). A delivery (`Deliver` ... `Acknowledge`)
follows `deliver` and `finish_catalog` statement by statement; every call of
Telegram is a step, and so is every transaction of the store. A restart
(`Restart` ... `RestartChain`) and the clearing that may follow (`DeleteABatch`,
`Search`, `Progress`, `FinishClearing`) follow `reset.py`. Between any two steps
`Interrupted` may end the round: program ended, setting changed, store or
network failed. `NoAnswer` gives a request up that Telegram carried out, or will
carry out later (`CarriedOutLate`). `OthersPin` moves the pin: a member takes it
down, pins the last catalog again, pins another message, or a second copy of the
collector publishes a catalog. `Ages` makes messages too old for a bot to delete.

Outside the repository, and modelled from its use: a chat shows the newest pinned
message; `deleteMessages` is refused as a whole when one of the messages cannot be
deleted and passes over numbers without a message; a deleted message is no longer
pinned; messages age in order. `reset.py:129-130` relies on the second and the last.

`Ledger` is what a user of LogCourier may believe: waiting fragments get listed
or are dropped by a clearing, a restart forgets the whole chain at once, and
nothing else changes. `KeepsPromise` is `Ledger!Spec` under the mapping that reads
`listed` from the catalogs a reader finds behind the last one - from the group, not
from the store's own flags, and therefore wrong whenever the two differ.

### Collector

A file is an inode number with the lines in it; `slot` says which file has the path
of the log (0) and of its `.k` files. A line is its number in the order of writing.
Rotation moves the older files up (`Shift`) and then renames the log, or copies and
truncates it; each is a step, and the writer goes on writing while a copy is made.
A new file may get the number of a deleted one.

A scan opens one path after another, the oldest first (`Open`, with `_adopt_copy` in
`Known`), and stores a fragment with the cursor behind it (`Enqueue`) until the file, the
budget or the room in the queue is at its end. `Baseline` gathers the cursors of
the first scan, `CommitBaseline` is its transaction. `Interrupted` forgets
what no transaction stored. The fingerprint (the last 128 bytes before the cursor) is
the last line: lines of a log carry their time. `Delivered` is the moment an upload
takes its payload out of the queue; the rest of delivery is in `Delivery`.

| Tag | What happened | Where |
|---|---|---|
| `uprooted` | a rotation during the baseline: a file that moves past the paths already looked at gets no cursor, and its old lines are sent | `collector.py:103` |
| `overtaken` | a rotation during a scan: lines may be queued out of their order | `collector.py:129` |
| `copied` | a copy was made, or one not yet seen moved up, during a scan, or a scan began before the truncation: the cursor it should be recognised by moves on first, or both files are read | `collector.py:145` |
| `reused` | a copy got the number of a file that a cursor is stored for; section 4 | `collector.py:144` |
| `emptied` | the log was truncated while it was being read | `collector.py:160` |

### InputHelper and WaylandInput

The helper has the keyboard to itself and types on a virtual one. `pending` is the key it
has asked about, `queue` those that wait behind it; `Expire` types all of them when the
verdict is late (`_type_unasked`) and reports them over `up`. What the parent sends travels
over `down`: verdicts, batches, the acknowledgement of what was typed unasked, the grab.
`HandleCommand` takes one of them; `Refuses` is the helper's comparison of the numbers in
a batch with those it has given since. Numbers wrap (`SeqModulus`, 0 is left out).

`hook` is the client's dispatch thread, which answers keys one by one: its places are the
statements between which the worker may run - the decision, the note of the key, the note
of a withheld action. The worker's labels are those of `inject_correction`,
`release_input` and `complete_action`; where it waits for the helper's answer (`reply`) the
others go on. Both threads send through one socket. The kernel drops a press of a key
that is down (`Heard`), as `wayland_helper.py:438-440` says. One window has the focus
throughout: changes of focus are in `WindowsInput`, whose engine is the same.

| Tag | What happened | Where |
|---|---|---|
| `raced` | a press was on its way to the engine when the late keys were collected, or an Enter while letters typed before it were taken along | `engine.py:4946` |
| `slipped` | the hold ended, or the replay changed what is withheld, between the dispatch thread's look at both and its note of an action; a double Enter then overwrites `_deferred_action` | `wayland_backend.py:732-743` |
| `released` | a key-up went on while the worker had the press of its key in hand | `wayland_backend.py:688-698` |
| `overtaken` | the helper typed a key kept back whose replay was on its way | `wayland_helper.py:513-532` |
| `ahead` | the helper typed a key in front of others that the parent keeps | `wayland_helper.py:526-532` |
| `muted` | the helper typed a press of a key whose key-up the parent keeps: the kernel drops it | `wayland_helper.py:438-440` |
| `gaveUp` | the worker gave up waiting for the answer to a word or an action (one second) while the helper was alive: `CommandTimesOut` | `wayland_helper.py:978` |
| `stranded` | the same with a key of the user's that is replayed: those behind it stay in `_held` until the next release | `wayland_helper.py:978`, `wayland_backend.py:551-559` |
| `forgotten` | another correction's release ended the hold of an action the helper typed, or reset its mark as broken: the finding `claim_forced` | `wayland_backend.py:561-566` |
| `died`, `locked` | the helper died; the session was locked and the grab given up | `wayland_native.py:2446`, `2319` |

A batch that was given up on is still on its way (`awaited` is off), or has been carried out
already: the helper may be busy for longer than the worker waits, since it waits up to
two seconds for the keys of a keyboard it takes (`wayland_helper.py:736-745`). It carries it out or refuses it as
any other, and its answer comes to nobody (`_resolve_reply`). `gaveUp` is left aside by no property: all
five hold with it.

After the helper's death a key that was down for the old one is typed to the new one
without a key-up before it, and keys kept back may stay in `_held` when their release
failed with the helper: `NeverCaptured` therefore speaks of the buffer only without the two, and
without `stranded`.

### Application

`events` is the queue every thread posts into; `DrainBegin` ... `DrainEnd` is one call of
`_drain_events`, and the actions it finds are done one by one, each a step of the window's
thread (`DoAttach`, `DoReport`, `DoSnapshot`, `DoPhase`, `DoQuit`, `DoInstall`).
`EngineLoader` builds or fails to build the engine (`Build`, `PostLoaded`); what the window
asks before waits in `waiting` and `startAsked` and is handed over by `Attach`. A job of
`Updates` is one thread of `run_in_background`: each of its statements that another thread
can see is a step, and telling the window (`Tell`) is a step after the one that changed the
state, as `_notify` is called without the lock. GitHub and the download answer or fail.

| Ghost | What happened | Where |
|---|---|---|
| `overruled` | an installation that could not be started took `_busy` from the job begun after it | `updates.py:610`, `639-650` |
| `outrun` | the window was told of a state after it had been told of a later one | `updates.py:450-471` |

Seen in the model, and no property of it: actions behind `quit` in the queue are still done
in the same drain, so that an installer may be started after the shutdown; `_attach` says of
a stopped engine that "its stop closes the backend", which does not happen when the
closing drops the post; a second report of a failed build by `start` is of no use to this
window; a subscription made after the build greets twice.

### RulesFile, HistoryFile and UserFiles

A file is what kind it is and which rules are in it; a rule is a value. `load` is a step for
the read (`LoadReads`, `LoadSetsAside`), for the copy of an old file (`LoadBacksUp`) and for
the save of its rules (`LoadConverts`): reads, writes and moves may fail at each and the
program may end between any two (`EndProgram`). A save writes a temporary file and
swaps it in, and therefore succeeds or leaves the file alone. `owned` is what the user may
believe to have: a rule is owned when its save succeeded, and no more from the moment the
user removes it.

| Ghost | What happened | Where |
|---|---|---|
| `stuck`, `savedOver` | the file could be neither read nor moved aside, and the next change saved over it. `CHANGELOG.md:1423-1426` says that this is never done | `config.py:96-100`, `learning.py:246` |
| `backupFailed` | the copy of the old file failed or was cut off; the next change of a rule saves over the old file all the same, and a copy that was cut off is taken for one at the next start. `docs/detection-research.md:228` promises the copy | `learning.py:250-251` |

The history is a sequence of pieces: a whole line, one without its end of line, a part, or
a part that ends within a letter. `HasItsLine` says which of them `read` takes for an
entry, `Undecodable` when `read_text` raises. `recorded` are the entries whose append
succeeded and which did not have to share a line with the rest of a torn one.

## 3. Runs

| Run | Bounds | Shows |
|---|---|---|
| `input_core` | 1 letter, space, Enter, 1 window, 5 key events, queue 6 | `TypeOK`, `TextInOrder`, `NoStuckKey`, `DeferredKeepsHold` |
| `input_moves` | 2 windows, the rule window, 4 key events, 1 click or change of window, queue 4 | `ErasesOnlyItsWord`, `ActionWhereTyped` |
| `input_faults` | 4 key events, 1 failing `SendInput`, also in the stopping thread, stop at any moment | `NeverCaptured`, `RestIsFree`, `EveryPressOnce`, `CorrectionHolds` |
| `input_live` | 3 key events, fair threads | `EveryActionResolved`, `KeyboardFreed` |
| `delivery` | 2 fragments, 1 interruption or lost answer, 1 move of the pin, 1 new chain, one upload per catalog, batches of 2 deletions | `ListedOnce`, `ClearingTellsApart`, `KeepsPromise`, `PinContinuesChain` |
| `delivery_live` | 1 fragment, 2 interruptions, the rest as above, a fair service loop | `NoneForgotten`, `ClearingEnds` |
| `collector` | 3 lines, 2 older paths, 3 inode numbers, 2 rotations, 1 interruption, fragments of up to 2 lines, 2 per scan, a queue of one, `include_existing` or not, a fair service loop | `QueuedInOrder`, `OldLinesStay`, `NoneSkipped`, `EveryLineQueued` |
| `wayland` | 1 letter, Enter, 4 key events, 1 late verdict, answer given up on, death of the helper or lock of the session; followed up to the first of the tags but `gaveUp`, `stranded`, `died` and `locked` | `TextInOrder`, `EveryPressOnce`, `ErasesOnlyItsWord`, `NoStuckKey`, `NeverCaptured` |
| `application` | 2 subscriptions, 2 checks or installations, 4 actions in the queue, fair threads | `HandedOverOnce`, `Serialized`, `ShowsTheState`, `NothingAfterClosing`, `WorkEnds` |
| `files` | 2 rules, 3 failures of reads, writes or the program; 4 corrections, a limit of 2, 2 torn writes | `RulesKept`, `BackedUpFirst`, `LastAreRead` |
| `claim_forced`, `claim_history` | the smallest that shows it | the findings below, each a counterexample |

Every passing run but `input_moves`, `input_faults` and the two for liveness checks a `TypeOK`.

**Why the bounds are enough.** Five key events are a letter down and up, a boundary
or an action down, a key typed after it and its key-up: every label of a
correction is reached with a key kept back, a key taken along and a withheld
action. One letter value suffices because presses are told apart by number; two
presses of one key are auto-repeat, which matters, and two different letters act
like a letter and a space for the buffer. One window change suffices for every
check-then-act of the code, since each compares two moments. The queue is larger
than the number of events in the runs where it must not overflow; four events and a
click fill the queue of `input_moves`.
For delivery, two fragments are the least with which packing, an upload left over
from an interrupted round, and two catalogs of one chain exist; a group of at most a
dozen messages and batches of two exercise the halving search; every
recovery path follows one interruption, and `delivery_live` allows two.
For the collection, two rotations give a copy of a copied log and a file that is
deleted and its number used again; three lines are one left out, one queued and
one to come; the queue of one is full after every fragment.
For Wayland, a letter and Enter down and up, one of them late, give every branch of the
helper but two: without auto-repeat no key is grabbed again while it is down, and no
withheld action stands in front of one that is replayed. The four troubles are each what
the code prepares for, and one of them is what happens between two key events. The same
configuration with `MaxTroubles = 2` (18 million states), and the one with
`MaxEvents = 5` (9 million states), hold as well; they take too long to be runs.
For the application, two jobs are the least with which the flag can be wrong; the run
follows an update only once the engine is loaded, since the two have only the queue in
common, and no further than the emptying of the queue in which the program closes: the
process ends with the main loop, and its threads are daemons.
For the files, three failures are the copy that fails, the save that fails and the end of
the program; a limit of 2 is passed by the third of four corrections, and two torn writes
make a line that hides the next one.

`CHECK_DEADLOCK FALSE` stands in the runs of `WindowsInput`: the number of key
events is bounded, and after the last one nothing need happen. So
it is in `wayland` and `files`, whose events and failures are bounded, and in `application`,
which ends. The runs of `Delivery` and `Collector` check for deadlock: their service loop
always has a step.

**Fairness.** For the input: the operating system runs the hook and each thread;
the worker's loop wakes at least every few hundredths of a second and runs its
timers when the queue is empty, so `ExpireAction` is fair; the stop, once begun,
goes on. Nothing is assumed of the user - a key may stay down for ever - nor of the
pause and the poll of the window. For delivery: `Service.run` calls
`deliver`, or continues a clearing, again and again while sending is on
(`service.py:82-202`), so the worker's steps together are weakly fair; collection,
others' pins, ageing and late requests are not, and interruptions are finitely many.
For the collection: the same loop scans (`service.py:136`) and delivers, and a
rotation once begun is finished; nothing is assumed of the writer. That uploads get
through again and again is assumed there and shown, for finitely many failures, in `Delivery`.
For the application: each thread runs, the main loop empties its queue again and again
(`_drain_events` asks the loop to call it anew), and a request to GitHub ends, by its
timeout if not before; nothing is assumed of the user. `WaylandInput` and `UserFiles` state
safety only.

Every property of a passing run has a mutant of a modelled definition, written
beside it and marked "Mutant:", under which the same run finds the property
violated. `PROJECT.json` lists them.

## 4. Findings

| Run | What is said | What the code does |
|---|---|---|
| `claim_forced` | after Enter was typed by the helper, "a correction of this hold can no longer know the text and is refused" (`wayland_backend.py:620`) | `_settle_forced` sets `_hold_broken` (646), but the `finally` of `release_input` (561-566) clears it whenever no action is withheld: the end of a correction made at a pause clears the mark of the Enter behind it, and the Backspaces of the next correction take the line break. The same clause sets `_holding` to `False`: when the helper types the Enter between the release's last look and its `finally`, the keys kept back for it stay behind while later ones, key-ups included, pass |
| `claim_history` | "a failed write stops nothing" (`engine.py:1778`) | an append that ran out of room within a Russian letter leaves a file that `read_text` cannot decode; `UnicodeDecodeError` is no `OSError`: the next correction ends with it, and so does the construction of the engine at every start (`engine.py:576`) |

Further places where the code does not do what is said of it, met while modelling and set
aside by a tag or by a bound of the runs:

* `release_input` retains "all following text until that action is completed"
  (`windows_backend.py:607-609`); the hook calls `hold_input` before it notes the action, a
  `release_input` between the two ends the holding, and the text after Enter overtakes
  Enter (tag `slipped`; `DeferredKeepsHold` without the tag is violated).
* Kept keys "can neither land between the backspaces and the replacement nor be lost"
  (`windows_backend.py:372-374`); when `SendInput` fails for one of them the others stay in
  `_held` with the keyboard free, until some later release types them (`RestIsFree` without
  the tag `failed` is violated).
* On "смене фокуса", a change of focus, a withheld action is cancelled
  (`docs/input-maturity.md:75-76`; `tests/test_action_boundary.py:299` says "without submitting
  to another field"). `complete_action` compares the focus with the place of the holding, which
  `hold_input` notes only when no holding is under way (`windows_backend.py:586`). An Enter that
  a correction kept back, and that is replayed and withheld in another window because the focus
  changed, inherits the place of that correction: when the focus goes back, Enter is sent, and to
  that window (`ActionWhereTyped` without the tag `stale` is violated with two moves).
* A withheld action is cancelled after two seconds (`docs/input-maturity.md:75-76`); if the
  rule window gets the keyboard between hook and worker, `_handle` returns at
  `engine.py:1020-1025` without a look at `event.deferred`, nobody completes the action, and the
  keyboard stays held until the program ends (`EveryActionResolved`, and `NeverCaptured` and `RestIsFree`
  without `Forgotten`, are violated with `RuleEditor` and one move). `docs/troubleshooting.md:221-224`
  knows two ends only: delivered once, or cancelled.
* The same happens when the event of a withheld Enter is lost: `_collect_late_input` puts back what it took
  from the queue and stops at a full one (`engine.py:4974-4979`), so that a click meanwhile can take
  the place of Enter's event (`RestIsFree` without `Forgotten` is violated with `QueueSize = 2`).
* In the rule window there is "not text to correct" (`engine.py:684`); the pause timer does
  not look at `_input_suspended`, and its Backspaces go to the rule window.
* A copy made by `copytruncate` is recognised and nothing of it sent again
  (`apps/logcourier/docs/RELEASE-0.1.5.md:8-12`); it is looked for only if no cursor is stored
  for its inode number (`collector.py:144`), and cursors of deleted files stay: a copy that
  gets such a number is read from its start (tag `reused`; `QueuedInOrder` and
  `OldLinesStay` without the tag are violated).
* `UpdateManager` serializes checks and downloads (`updates.py:408`); an installation that
  could not be started clears `_busy` under a check begun meanwhile, and with a third job
  two are at work (ghost `overruled`; `Serialized` without it is violated).

Two consequences of the time limit of the Wayland client (`wayland_helper.py:978`), which no
text of the repository speaks of:

* A correction that is given up on may be carried out after all. The worker then has dropped the letters it
  took along (`wayland_backend.py:904-930`), and the helper erases them: they are lost, and the word is
  replaced although the engine believes it is not. `EveryPressOnce` holds because these presses are
  named in `dropped`; the Backspaces still meet the text they were meant for, as `ErasesOnlyItsWord` says.
* A replayed key that is given up on ends the release: the keys behind it stay in `_held` with the keyboard
  free, so that newer ones overtake them, and they come with the next release, behind text they were typed
  before; a correction of a word typed meanwhile then erases other text, and a key-up that stays behind leaves
  its key down. `TextInOrder`, `EveryPressOnce` and `NoStuckKey` are violated without the tag `stranded`.

One of `stop` under Windows: if its `SendInput` fails, the hook stays installed (`raised`, section 2). An
action that the hook was about to note while `stop` gave up the one before it is then withheld for good, as
the second `complete_action` does not come. The hook must have passed it on while the other was withheld,
which takes a slip or another failure before (`NotedTooLate`, part of `Forgotten`).

The tags of section 2 tell of further races that the code leaves open; the
properties hold without them and are not claimed with them.

## 5. Proofs

`WindowsInputProofs` proves, for every set of keys and windows, every queue size and
every bound (`KeysAssumption`, `WindowsAssumption`, `BoundsAssumption`,
`NoneAssumption`):

| Theorem | States | Inductive invariant |
|---|---|---|
| `HoldTypesHold` | `[]HoldTypeOK` | `TypeInv`: the types, and that a caller at `send` or `submit` carries a key event (`Carries`). Without it `item` could be `None` when it is handed to the hook |
| `DeferredStaysHeld` | `[]DeferredKeepsHold` | `DeferInv`: also while the hook is between `hold_input` and its note (`hook.at = "defer"`) the holding is on, unless it `slipped` - the state before the one the property speaks of |
| `ActionsGoWhereTyped` | `ActionWhereTyped` | `PlaceInv`: a caller at `submit` is where the holding began, unless something `moved`; and `TypedInv`: that is where the action was withheld, unless the holding `slipped` or the place was `stale`. Then the action property follows step by step |
| `CorrectionsHold` | `[]CorrectionHolds` | `CorrectInv`: also, a caller whose replay the hook is answering waits at `sent`, so that no answer of the hook moves the worker; and a worker that was stopped outside a correction starts none |

Each proof has one step per action of `Next`. The steps of the hook, the callers and
the worker are first reduced to what they leave alone (`HookCarries`,
`WorkerTypes`, `StepCases`), because most of the worker's forty steps touch neither the
holding nor the action. `OddGrows` says that tags are never taken back, which is
what lets a property with a tag on its left be inductive at all.

It then says who gives the keyboard back. `FreeInv` names, for any
state, who that is: the hook between `hold_input` and its note, the withheld action, a caller that
goes on until the buffer is empty (`Empties`), or, after a failed `SendInput` only, a caller at its
`finally`. `StopInv` says that the stopping thread passes `complete_action` and `release_input`
twice, the second time after the hook is gone, so that it leaves no action behind - if its first pass did
not fail. If it did, stop has ended (`raised`) with the hook in place. No action is withheld from then on,
since the filter was taken off first; `FaultInv` says that one the hook was about to note when `stop` gave up
the action before it is the second that it passed on, which takes a slip or an earlier failure.

`WindowsInputProofs` also proves `WindowsTypes`, the whole of `TypeOK`. It is inductive only with what the
events are (`EventInv`): the hook and the buffer hold keys of the keyboard that are not marked as
withheld (`Fresh`), presses with a number; the queue holds those, clicks and the marked Enter and Tab;
and the word, the plan and the keys typed again are presses of the keyboard, never a click, a key-up or
a marked action. `Only` is a recursive function, and there is no induction here: what it
keeps (`OnlyAppend`, `OnlyIn`) is shown by the least place where it would fail (`UpTo`).

It also proves `KeyboardGivenBack` (`[]NeverCaptured`) and `NothingKeptBack` (`[]RestIsFree`). Neither is
inductive, because most states are not at rest. What `FreeInv` leaves is that a withheld action is
itself given up by somebody: `MindInv` says that while the program runs its event is in the queue or
in the worker's hand, or it waits for the word (`wDeferred`), or `complete_action` is under way - and at
rest it is none of these. `Phases` says what the worker has in hand by where it is (no event but at
an event, nothing taken from the queue but before it is refilled), `RunInv` that only the worker completes an action
while the program runs. The invariant failed where the code does: in `_handle`, which sets an event aside
in the rule window, in a full queue, and behind a stop that failed. These three are `Forgotten`, the only exception of both theorems (section 4).

`WindowsTextProofs` proves the two properties of the text, `PressesStayInOrder` (`[]TextInOrder`) and
`ErasesOnlyTheWord` (`ErasesOnlyItsWord`), and `NoKeyStaysDown` (`[]NoStuckKey`), from the same assumptions and
for any number of events, clicks and windows. The first two rest on one invariant, `WordInv`, whose first two parts
are proved at the end of `WindowsInputProofs`. Its parts are about a run that is still `Calm`: none of
the tags happened but `orphaned`, as in the two properties themselves.

| Part | What it says |
|---|---|
| `KeyInv` | who has the next press. At most one of the hook and the two callers is about to show one, and then nothing is withheld; a press that the hook lets through leaves none kept back before it, and none goes through while a correction replaces text. A keyboard that is not held keeps nothing (`Keys2`) |
| `TokenInv` | who completes a withheld action. Its event is in one place only: before the hook's note of it, in the worker's hand, in the queue (`Stream`), or set aside for the word (`wDeferred`); it is the last in the queue but for clicks (`Token`), and the word, the caret and the holding are of one window (`PlaceOK`) |
| `MirrorInv` | the word is what is on the screen: the text of the window in front ends in the presses of the word followed by those of the queue (`Mirror`, with what a correction has erased and not yet typed put back, `Whole`); if the focus has moved, the old window ends in the word and the new one in the queue |
| `OrderInv` | every number a window got (`Seen`) is below the one that is under way (`Going`), that below the kept ones (`Kept`), and the kept ones rise |

No part is inductive alone. `ErasesOnlyTheWord` is `Mirror` at the step that erases, with `PlaceOK` for the
window; but `Mirror` holds across a release only because of `Keys2`: a press that the hook passes
to the window and to the queue in two steps must not be overtaken by one that a thread replays. `Order`
needs `Mirror` where a correction types the plan again: the presses it types are those that stood at
the end of the text, so they are still above what is before them and below what is kept. And
`Mirror` needs `TokenInv`: a word that waits for its Enter would otherwise be forgotten with a key of it
still to come. The lemmas about what a sequence of events becomes are stated for any sequence
(`NumbersConcat`, `EndsLess`, `EndsAdd`, `ErasesExactly`, `DownNumbers`, `Rising`).

`NoKeyStaysDown` speaks of the state at rest, and the key-up that makes it true may be anywhere on its way: kept
back behind its press, passed by the lock and not yet followed, taken out of the buffer, or never to come because
the window did not get the press either. `KeysInv` adds four parts to `WordInv`; all but the first are about a run in
which no tag happened (`Clean`), as `NoStuckKey` is.

| Part | What it says |
|---|---|
| `WordKeys` | the word and the late keys are letters, the plan letters and spaces: an injection never types Enter or Tab, so `FollowKeys` never takes one from what the hook has noted |
| `ActionInv` | while the key of a withheld action is still down for the hook (`Pinned`), no release of it is behind the action's event in the queue yet, and if the worker has set the action aside the key is in `wPressed`. So the action is sent only once its key came up (`SubmitsReleased`) |
| `ConsumedInv` | a key taken from the window (`consumed`) is none that the window has down, and stays in `pressed`, and in `prior` while an action is withheld, until its release is answered; no window gets Enter or Tab from the user while there is a filter |
| `PairInv` | for every key the user has up: each of its presses in the buffer has its release behind it (`Matched`), but for a release of `prior` that the hook has let pass and not followed yet (`Follows`); a press of it on its way has a release in the buffer; and a window that has it down has a release to come |

What `_track_key_state` adds to the buffer (`TrackRelease`) is what `PairInv` is about: the auto-repeat of a
key pressed before the action is kept back, its release is not, and without the added release the replay would leave
the key down. The tag `orphaned` (section 4) is the step that breaks `Matched`, and the proof needs it at that
step only (`PairsClear`). `ActionInv` was not inductive at first, and rightly: the model let the worker forget any key at
a pause, also the one a withheld action waits for, and the action would have gone out under a key still down. The
code cannot: a key is stale after three seconds (`STALE_PRESS_SECONDS`), and a withheld action gives up after two
(`ACTION_TIMEOUT_SECONDS`), in the same turn of the timers at the latest. `PruneStalePresses` now says so.

`ApplicationProofs` proves, for every set of subscriptions and number of jobs
(`SubscriptionsAssumption`, `JobsAssumption`) and without the bounds of the run:

| Theorem | States | Inductive invariant |
|---|---|---|
| `OneJobAtATime` | `[]Serialized` | `SerializedInv`: also, a job that is about to tell the window of a state (`At(j, "tell")`) goes on at a place where it keeps the flag or has given it up. Without it a job could come back to work from the telling while another has begun |
| `NothingBeginsAfterClosing` | `NothingAfterClosing` | `ClosingInv`: once `closing`, the updates are closed with the flag down, the engine is stopped or told to stop as soon as it is built, and the window is in its main loop, so that nothing subscribes or starts |
| `ApplicationTypes` | `[]TypeOK` | `AppTyped`: also what the window does, and where each job is |
| `RequestsHandedOver` | `[]HandedOverOnce` | `HandedOverInv`: a subscription is in one place at a time - not made yet, waiting, or with the engine -, exactly one action to attach comes of a build that succeeded and none of one that failed (`Once`), and until it is done no start is told of |
| `WindowShowsTheState` | `[]ShowsTheState` | `ShownInv`: also while reports are in the queue, it *comes to* the state things are in (`ComesTo`: the last report of its kind says so, or there is none and it is shown), unless a report was outrun or a thread is about to post one |

`ComesTo` is what makes the third possible: the property speaks of an empty queue only, and
the invariant follows the queue as it is filled and emptied, an action at a time
(`PostedComes`, `TailComes`). The steps of a job are put into two lemmas, those that keep a job at work or out of it
(`SameWork`) and those that pass the flag (`BeginSerial`, `TransitionSerial`); the others
leave the flag alone (`OthersSerial`).

`UserFilesProofs` proves, for every set of rules, limit of the history and number of failures
(`FaultsAssumption`, `LimitAssumption`), `NoRuleLost`, `[]RulesKept`; `CopiedFirst`,
`BackedUpFirst`; `LastEntriesRead`, `[]LastAreRead`; and `UserFilesTypes`, `[]TypeOK`. `RulesKept` is not inductive: a save writes what is in memory, so `KeptInv` also
says that, once the file has been read, what the user has is in memory or in a copy too,
unless the file is `stuck`; and that between the read and the copy the memory is what the
old file holds. `SavesKeep` is the one lemma about a save, and every change of the user and the
conversion rest on it. `CopiedFirst` needs less (`CopyInv`): once the program
is on, a file that still has the old form has its copy, unless the copying failed or the file
is `stuck`. It is needed for the types too: what is copied is an old file.

`LastAreRead` speaks of what is read, and what is read of a piece may change with what is written
after it: a last line without its end is read until something follows. `HistInv` therefore speaks
of the pieces that are `Solid`, whole lines that follow a whole line, which keep their line
whatever comes; it says that the pieces are in the order of their entries and that every
recorded entry is `Remembered`: it is in a solid piece, or as many later ones as the limit are. An append
keeps the solid pieces (`AppendRemembers`); a trim leaves the last of what is read, and no more
than the limit can be read behind the first of them (`TrimRemembers`, by counting places,
`PlacesOf`). What the reading loop returns for a whole file is `ReadableIs`: the entries that have a
line of their own, all of them, in order. `Readable` is a recursive function over the pieces and
there is no induction here, so existence of the function (`ReadExists`) and the lemma are
shown by the least number of pieces for which they would fail.

`DeliveryProofs` proves, for every set of fragments, size of a batch, limit of a delivery and
number of faults (`LimitsAssumption`, and `NoneAssumption`: no clearing is not a clearing, and no
catalog in the making is none):

| Theorem | States | Inductive invariant |
|---|---|---|
| `ChainFollowsPin` | `PinContinuesChain` | `PinInv`: unless the pin moved since the worker looked, it is what the round found (`head`), and the new catalog once that is to be acknowledged |
| `ClearingTellsArchivesApart` | `[]ClearingTellsApart` | `ClearInv`: the rows' states agree with what the group holds (`StatesInv`), and that stays so because what is still to come is bounded: every deletion that a clearing asks for, or has asked for and that is carried out late, begins where the clearing is (`OfClearing`); what the halving search has found is deleted above `high`, and something below stays for good (`WorkInv`); and the message about to become a row's is deleted by none of them (`ItemInv`) |

`ClearingTellsApart` speaks of rows already cleared; a late request or a search in the wrong
half would break it long after the step that made it. `StaysForGood` is the lemma that
carries this: a batch with a message too old to delete is refused now and ever after.
What a step does to the group is put into one predicate (`GroupStep`, lemma `GroupNext`),
from which the parts of the invariant follow without looking at the actions again.

The second half of `DeliveryProofs` proves three more under the same assumptions, all from `PromiseInv`, which adds
`CatalogInv` and `LimitInv` to `ClearInv`:

| Theorem | States | What it rests on |
|---|---|---|
| `DeliveryTypes` | `[]TypeOK` | `GroupTyped`, `StoreTyped`, and `LimitInv`: what a clearing gives back is no more than it took, as nothing is uploaded while it goes on |
| `CatalogsListOnce` | `[]ListedOnce` | `PendingInv`: the catalog in the making lists the uploaded archives the store notes with it, and goes on with the chain (`Follows`); `ListedInv`: what the chain lists is in archives of the state `listed` |
| `ChainKeepsPromise` | `KeepsPromise`, the refinement of `Ledger` | `LedgerNext`: each step is one of the four of `Ledger` or a stutter |

`Chain` is a recursive function over a group that grows and is deleted from. `ChainExists` and
`ChainIsOne` show that it is one, by the least message for which it would not be; `ChainWithin` that it
ends behind `since`; and `ChainsStay` that no step but `restart_chain` changes it, because nothing sent
since then is ever deleted (`SinceInv`, which `Sound` carries over to the requests carried out late).
`CleanPins` is the part that was not to be foreseen: while the store knows no chain, a round takes up
whatever catalog the pin shows, and lists nothing twice only because the catalogs that can be pinned
then have no archive of this chain - those that have are behind `since`.

`CollectorProofs` proves `NothingSkipped`, `[]NoneSkipped`, for every number of inodes, rotations
and lines and every size of a fragment, a scan and the queue (`SizesAssumption`). The
inductive invariant `CollectInv` says that two files which hold the same line hold the
same lines before it (`FilesInv`: what a copy by `copytruncate` preserves, and why a
fingerprint of the last line is enough); which file has which path (`PathsInv`); that wherever
a cursor, stored or gathered, is believed, the lines before it were queued or left out
(`StoreInv`); and that the same holds of the file being read (`ReadInv`). The cursor that `_adopt_copy` takes
is the one with the largest offset: `LargestOne` is proved from the well-foundedness of `<`.

`CollectorTypes`, `[]TypeOK`, is proved there too, and is less plain than it looks: an offset is within
`0..MaxLines` only because the lines of a file are in the order of writing (`Sorted`), so that a file
has no more of them than were written. `BoundsInv` bounds the cursors by it. `SizesAssumption` asks for
`MaxLines > 1` because the run begins with up to two lines.

`QueueProofs` proves two theorems from the same assumption, beside `CollectInv`:

| Theorem | States | Inductive invariant |
|---|---|---|
| `OldLinesNeverQueued` | `[]OldLinesStay` | `OldInv`: every file is read behind the old lines in it (`OldLines`), and the baseline has been at the paths behind it (`BaseClear`) |
| `LinesQueuedInOrder` | `[]QueuedInOrder` | `QueueInv`: every file is read behind the lines queued (`OnceInv`), and behind all that were written before one of them (`InOrderInv`) |

All three parts are one argument about a set `S` of lines that must not be read any more. Outside the
baseline the file of each path is `Settled` - its own cursor is believed and stands behind
its lines of `S`, or it has none - or it is `Adoptable`: a copy without a cursor, not yet passed
by the scan, whose lines of `S` are behind the cursor of a newer file; and the file that is open is read
behind its lines of `S` (`ReadClear`). `ClearKeeps` proves that every step keeps this for a fixed `S`,
but for `Enqueue`, where `S` may grow (`ClearEnqueue`): the lines that come to it stand before the new
offset in the open file, and in any other file only where its cursor is behind them already. The
order of the scan, oldest first, is what keeps `Adoptable` alive: the cursor that a copy is to be recognised by
does not move before the copy is read. `S` is the lines before the baseline for the first theorem,
the lines queued for "once", and those up to the last line queued (`UpTo`) for "in order".

The growing `S` needs to know where the other files are. `OrderInv`: files of higher paths hold
older lines, but for a log just copied and not yet emptied (`Twins`). `ScanInv`: while a file is read, even
one that has been moved off all paths, no other has a line of it (`Apart`). `PassInv`: a scan
that no rotation overtakes has read the files behind it to their ends, if it may read on at all, and
reads the open one from its cursor on. `FragmentPlaces` is what a fragment does to the sequence of the lines queued.

Each tag that a property makes an exception for is used in one place: `uprooted` where a rotation would
meet the baseline, `copied` where a file without a cursor would move past the scan, `reused` where a
copy would get a number that has a cursor, `overtaken` where a path behind the scan would get
another file. Beside these, `NumbersInv` (a number has one path, and a rotation moves a file onto a path
that is free or the last) and `StartInv` (the baseline comes before the first line queued).

`WaylandProofs` proves, for every set of keys and every size of the wrapping numbers
(`HelperAssumption`, `ParentAssumption`) and without the bounds of the run - any number of
key events, late verdicts, answers given up on, deaths of the helper and locks of the session:

| Theorem | States | Inductive invariant |
|---|---|---|
| `WaylandTypes` | `[]TypeOK` | `Typed`: also the messages on their way in both directions, what the dispatch thread has in hand, and that the keys taken along are the engine's until the word is sent and the keyboard's after that |
| `KeyboardEndsFree` | `[]NeverCaptured` | `FreeInv`: a keyboard that is held is held for someone who will come to release it (`HeldForSomeone`) |

`HeldForSomeone` names them: the dispatch thread that is about to note an action, the withheld action
itself, a worker that is on its way to a release (`Empties`), or, once the helper has typed the action by
itself, the engine that still has the action in its queue or its hands (`Owed`). A withheld action is always
`Owed` (`ActionsWait`), so with nothing under way there is none. What the two sides tell each other is part of
the invariant: the worker waits for at most one batch (`OneBatch`; those it gave up on have no one), and a replayed
key fails only with the helper or when it is given up on (`Failing`), which is where keys may stay in the buffer.

Model-checked only: the liveness properties (TLAPS does not prove `ENABLED` or
liveness here); `EveryPressOnce` of both backends; `TextInOrder`, `ErasesOnlyItsWord` and
`NoStuckKey` of `WaylandInput`.

## 6. What is not modelled

*Of the backend and the engine:* the filter's answer for the prompt (a key shown to
the prompt instead of the window); a hook that Windows skips or removes for being
slow, and its detection by tick counts; modifiers, Caps Lock, shortcuts; layouts and
their switching; early switching, manual conversion, undo, toggle hotkeys, the
protection of a chosen layout; the wait for a field; foreign and injected input;
the stale trigger key; a `SendInput` that sends a part of its events; the extra
calls for `kept_tail` and `preserve_boundary_layout`; the read of the focus in the
tests' own field. When the `SendInput` fails by which a prompt's Enter gives the
keyboard back (`engine.py:1041`), `_recover_from_error` forgets the word as well; the model keeps it. Some steps are merged: `HookDefer` notes the action, the keys before
it and the event at once; after a stop one timer is run, not several in a pass. What
the detector decides, what a field shows and how long a pause takes are choices.

*Of the Wayland backend and helper:* modifiers and hotkeys beyond a key that is
consumed; auto-repeat, and the reset it brings; devices that come and go; layouts and the
desktop adapters; changes of focus, which `WindowsInput` has; the engine's stop; messages that are cut in two. The
engine's worker is reduced to a word, an action and a plan. There is no fairness: a verdict
that never comes is in the model, a worker that hangs too, and nothing is promised then but
safety. That a command is given up on is a choice at any moment the worker waits, not a clock; the
time limits of the other requests (`query_key_down`, `set_grab`) are not modelled.

*Of the application:* the GTK window of Linux (`ui.py`), presentation, the tray's own thread
beyond its request to quit; the progress told of during a download (`updates.py:621-637`); a step
between the statements of `shutdown` (`desktop_ui.py:2362-2366`), which is one here - a job's
change of state in between is told to a window that is closing; GitHub's answers, digests and the files of a download, which
fail or succeed as a whole.

*Of rules and history:* what a rule matches; the counters and forbidden directions that
`migrate_legacy` turns into rules (`learning.py:157-198`; an old file has the rules it converts to);
a single entry of a file that is no valid rule: `load` passes over it (236-238), and the next save leaves
it out without a copy; two copies of the program (there is a single
instance); the settings' values, their callbacks, and the early return of `set` for a
value that a failed save left in memory; personal words; a crash of the machine between
the write of the temporary file and the swap, which loses what the disk had not yet.

*Of the rest of the engine:* the learning prompt, whose deadline the hook's thread reads; the
selection commands on a borrowed clipboard.

*Of LogCourier's delivery:* several groups and a change of the group or token in
the middle of a request (`service.py:49-72`); waiting times and the rate limit; a
catalog that only announces program versions; keys of versions before 0.1.4;
retention (deleting acknowledged rows after a time); service messages about
pins; another device's catalog; the refusal of a group that is not a supergroup;
the capacity of the queue. The order of the queue is abstracted to "the uploaded
archives are the oldest".

*Of LogCourier's collection:* version markers, unfinished headers and the probe of the
live file; several sources, which share the budget of a scan; files that are
links or cannot be read, other than as an interruption; a writer that goes on with
the file it has open after a renaming; a copy that is read before it is complete;
lines that are alike at the place of a fingerprint.

*The rest* is listed in `PROJECT.json` with the reason. Presentation, packaging and
training have no states worth checking; the trained models are pure functions whose
quality is a matter of measurement.

## 7. What is left to do

1. Into `Collector`: several sources with one budget.
2. Several groups and the window's thread calling `update`, `reset`, `send_now`
   (`service.py:49`): no request for one group reaches the other.
3. The selection commands (`windows_backend.py:1096`) and the learning prompt
   (`engine.py:5989`).
4. Into `WindowsInput`: manual conversion and undo, early switching, the hook's gaps with
   their 32-bit times. Into `WaylandInput`: auto-repeat and its reset. The X11 matching of
   injected keys.
5. Proofs: `EveryPressOnce` of the two backends, `TextInOrder`, `ErasesOnlyItsWord` and
   `NoStuckKey` of the Wayland one.
