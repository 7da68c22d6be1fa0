------------------------------ MODULE Delivery ------------------------------
(***************************************************************************)
(* LogCourier's delivery (catalog.py, reset.py, store.py, batching.py of   *)
(* apps/logcourier): archives of log fragments are uploaded to a Telegram  *)
(* group and listed in catalogs; every catalog names the one before it,    *)
(* and the pin of the group shows the last. The user may start the chain   *)
(* anew, with or without deleting what is in the group.                    *)
(*                                                                         *)
(* One worker thread does all of it. What it knows beyond a restart is in  *)
(* the store (SQLite); the group is Telegram's. Between any two steps the  *)
(* worker may be stopped or fail, an answer of Telegram may get lost, a    *)
(* request given up on may be carried out later, and other members of the  *)
(* group, or a second copy of the program, may move the pin.               *)
(*                                                                         *)
(* A message is its number in the group; a document's digest stands for    *)
(* the message that carries it, since every catalog contains the time it   *)
(* was made. Message 1 is the group's own and cannot be deleted.           *)
(***************************************************************************)
EXTENDS Integers, FiniteSets, Sequences, FiniteSetsExt

CONSTANTS
    Fragments,      \* pieces of logs
    None,
    SendLimit,      \* DELIVERY_BATCH_LIMIT
    DeleteBatch,    \* DELETE_BATCH_MESSAGES
    MaxFaults,      \* bound: interruptions and lost answers
    MaxMeddling,    \* bound: pins and unpins by others
    MaxResets       \* bound: restarts of the chain the user asks for

ASSUME LimitsAssumption ==
    /\ SendLimit \in Nat \ {0} /\ DeleteBatch \in Nat \ {0}
    /\ MaxFaults \in Nat /\ MaxMeddling \in Nat /\ MaxResets \in Nat

ASSUME NoneAssumption ==
    /\ None \notin [next : Nat, kept : Nat]
    /\ None \notin [catalog : Nat, before : Nat,
                    rows : SUBSET [content : SUBSET Fragments, msg : Nat,
                                   state : {"queued", "held", "listed", "dropped"}]]

VARIABLES
    \* the group
    messages,   \* all messages ever sent, by number
    gone,       \* the deleted ones
    pins,       \* the pinned ones
    aged,       \* messages up to this one are too old for a bot to delete
    late,       \* requests given up on that Telegram may still carry out
    \* the store
    rows,       \* bundles: the archives and how far each one got
    pending,    \* PENDING_KEY: the catalog being made the last one
    known,      \* HEAD_DIGEST_KEY: the last catalog of the chain, 0 for none
    clearing,   \* RESET_KEY: the clearing under way
    \* the worker
    pc, head, item, low, high,
    \* bounds, and what the properties look back on
    faults, meddling, resets,
    unseen,     \* the pin moved since the worker last looked at it
    since       \* the last message before the chain was started anew

server == <<messages, gone, pins>>
store == <<rows, pending, known, clearing>>
scratch == <<item, low, high>>
bounds == <<meddling, resets>>
vars == <<server, aged, late, store, pc, head, scratch, faults, bounds, unseen, since>>

FirstRegular == 2       \* FIRST_REGULAR_MESSAGE_ID
Kinds == {"group", "archive", "catalog", "notice", "other"}
Document(kind, content, before) == [kind |-> kind, content |-> content, before |-> before]

-----------------------------------------------------------------------------
(* Telegram *)

\* getChat shows the newest of the pinned messages; 0 when there is none.
Pinned == IF pins = {} THEN 0 ELSE Max(pins)

\* current_catalog accepts no pin but a catalog of this bot.
Readable == Pinned # 0 => messages[Pinned].kind = "catalog"

\* deleteMessages is refused as a whole when one message is too old; numbers
\* without a message are passed over.
Deletable(first, last) == \A m \in first..last : m \in gone \/ (m > aged /\ m >= FirstRegular)

Sends(doc) == [op |-> "send", doc |-> doc, first |-> 0, last |-> 0]
Pins(m) == [op |-> "pin", doc |-> None, first |-> m, last |-> m]
UnpinsAll == [op |-> "unpin", doc |-> None, first |-> 0, last |-> 0]
Deletes(first, last) == [op |-> "delete", doc |-> None, first |-> first, last |-> last]

Accepts(r) ==
    CASE r.op = "pin" -> r.first \notin gone
      [] r.op = "delete" -> Deletable(r.first, r.last)
      [] OTHER -> TRUE

\* What the group is after request r. A deleted message is no longer pinned.
Effect(r) ==
    /\ Accepts(r)
    /\ messages' = IF r.op = "send" THEN Append(messages, r.doc) ELSE messages
    /\ gone' = IF r.op = "delete" THEN gone \cup (r.first..r.last) ELSE gone
    /\ pins' = CASE r.op = "pin" -> pins \cup {r.first}
                 [] r.op = "unpin" -> {}
                 [] r.op = "delete" -> pins \ gone'
                 [] OTHER -> pins

NewMessage == Len(messages) + 1

\* Request r is answered, and the worker goes on at label.
Calls(r, label) ==
    /\ Effect(r)
    /\ pc' = label
    /\ UNCHANGED <<aged, late, store, faults, bounds, unseen, since>>

\* A request carried out after the worker gave it up.
CarriedOutLate ==
    /\ \E r \in late :
         /\ late' = late \ {r}
         /\ IF Accepts(r) THEN Effect(r) ELSE UNCHANGED server
    /\ unseen' = (unseen \/ pins' # pins)
    /\ UNCHANGED <<aged, store, pc, head, scratch, faults, bounds, since>>

\* Messages get too old to be deleted, the oldest first.
Ages ==
    /\ aged < Len(messages)
    /\ aged' \in {aged + 1, Len(messages)}
    /\ UNCHANGED <<server, late, store, pc, head, scratch, faults, bounds, unseen, since>>

\* Others move the pin: a member takes it down or pins again what the worker
\* asked for, or pins a message of their own; a second copy of this collector
\* publishes a catalog.
OthersPin ==
    /\ meddling < MaxMeddling
    /\ meddling' = meddling + 1
    /\ unseen' = TRUE
    /\ \/ pins # {} /\ pins' = pins \ {Pinned} /\ UNCHANGED <<messages, gone>>
       \/ known \notin {0} \cup gone /\ Effect(Pins(known))
       \/ \E kind \in {"other", "catalog"} :
            /\ messages' = Append(messages, Document(kind, {}, Pinned))
            /\ pins' = pins \cup {NewMessage}
            /\ UNCHANGED gone
    /\ UNCHANGED <<aged, late, store, pc, head, scratch, faults, resets, since>>

-----------------------------------------------------------------------------
(* The store and the queue *)

Row(content) == [content |-> content, msg |-> 0, state |-> "queued"]
Queue == {r \in rows : r.state = "queued"}
Unsent == {r \in Queue : r.msg = 0}
Uploaded == {r \in Queue : r.msg # 0}
Contents(S) == UNION {r.content : r \in S}
With(S, state) == {[r EXCEPT !.state = state] : r \in S}

\* The worker is between two rounds of its loop.
Idle == pc = "idle"
Aside == <<server, aged, late, pc, head, scratch, faults, bounds, unseen, since>>

\* collector.scan: a new fragment; nothing is collected while the group is cleared.
Collect ==
    /\ Idle /\ clearing = None
    /\ \E f \in Fragments \ Contents(rows) : rows' = rows \cup {Row({f})}
    /\ UNCHANGED <<pending, known, clearing, Aside>>

\* Mutant: uploaded archives are packed again.
CompactUploaded ==
    /\ Idle /\ clearing = None
    /\ \E S \in SUBSET {r \in Queue : Cardinality(r.content) = 1} :
         /\ Cardinality(S) >= 2
         /\ rows' = (rows \ S) \cup {Row(Contents(S))}
    /\ UNCHANGED <<pending, known, clearing, Aside>>

\* compact: archives that have no receipt become one, in one transaction.
Compact ==
    /\ Idle /\ clearing = None
    /\ \E S \in SUBSET {r \in Unsent : Cardinality(r.content) = 1} :
         /\ Cardinality(S) >= 2
         /\ rows' = (rows \ S) \cup {Row(Contents(S))}
    /\ UNCHANGED <<pending, known, clearing, Aside>>

-----------------------------------------------------------------------------
(* deliver *)

Elsewhere == <<server, aged, late, faults, bounds, since>>
Goes(label) == pc' = label

\* The round ends with nothing done, or with an error: the user reads of it.
GivesUp ==
    /\ Goes("idle")
    /\ head' = 0 /\ item' = None /\ low' = 0 /\ high' = 0

\* The pin shows something else than the chain the store knows: LOST_PIN.
LostPin == pending = None /\ known \notin {0, Pinned}

\* A round starts with a look at the pin. An interrupted catalog comes first.
Deliver ==
    /\ Idle /\ clearing = None
    /\ unseen' = FALSE
    /\ IF ~Readable \/ LostPin
       THEN UNCHANGED <<pc, head, scratch>>
       ELSE /\ head' = Pinned
            /\ Goes(IF pending = None THEN "send" ELSE "finish")
            /\ UNCHANGED scratch
    /\ UNCHANGED <<Elsewhere, store>>

\* Mutant: the whole queue is uploaded for one catalog.
SendArchiveUnlimited ==
    /\ pc = "send"
    /\ \E r \in Unsent :
         /\ item' = [row |-> r, msg |-> NewMessage]
         /\ Calls(Sends(Document("archive", r.content, 0)), "receipt")
    /\ UNCHANGED <<head, low, high>>

\* Of the first SendLimit archives of the queue one is uploaded (the uploaded
\* ones are the oldest) ...
SendArchive ==
    /\ pc = "send" /\ Cardinality(Uploaded) < SendLimit
    /\ \E r \in Unsent :
         /\ item' = [row |-> r, msg |-> NewMessage]
         /\ Calls(Sends(Document("archive", r.content, 0)), "receipt")
    /\ UNCHANGED <<head, low, high>>

\* ... and its message noted.
Receipt ==
    /\ pc = "receipt"
    /\ rows' = (rows \ {item.row}) \cup {[item.row EXCEPT !.msg = item.msg]}
    /\ Goes("send")
    /\ item' = None
    /\ UNCHANGED <<Elsewhere, pending, known, clearing, head, low, high, unseen>>

\* Then all that are uploaded become entries of a catalog. Without any there is
\* no catalog.
Entries ==
    /\ pc = "send"
    /\ Unsent = {} \/ Cardinality(Uploaded) >= SendLimit
    /\ IF Uploaded = {} THEN GivesUp ELSE Goes("latest") /\ UNCHANGED <<head, scratch>>
    /\ UNCHANGED <<Elsewhere, store, unseen>>

\* Mutant: no second look at the pin.
CheckLatestNot ==
    /\ pc = "latest"
    /\ unseen' = FALSE
    /\ Goes("catalog")
    /\ UNCHANGED <<Elsewhere, store, head, scratch>>

\* Another writer is looked for before the catalog is replaced.
CheckLatest ==
    /\ pc = "latest"
    /\ unseen' = FALSE
    /\ IF Readable /\ Pinned = head THEN Goes("catalog") /\ UNCHANGED <<head, scratch>> ELSE GivesUp
    /\ UNCHANGED <<Elsewhere, store>>

NewCatalog == Document("catalog", Contents(Uploaded), head)

SendCatalog ==
    /\ pc = "catalog"
    /\ item' = [row |-> None, msg |-> NewMessage]
    /\ Calls(Sends(NewCatalog), "note")
    /\ UNCHANGED <<head, low, high>>

\* The new catalog is noted before it is pinned.
NotePending ==
    /\ pc = "note"
    /\ pending' = [catalog |-> item.msg, rows |-> Uploaded, before |-> head]
    /\ Goes("finish")
    /\ item' = None
    /\ UNCHANGED <<Elsewhere, rows, known, clearing, head, low, high, unseen>>

-----------------------------------------------------------------------------
(* finish_catalog *)

\* Mutant: a catalog that got pinned without an answer is taken for another's.
ForeignIfPinned == head # pending.before

\* The pin, as it was read, is neither the new catalog nor the one before it.
Foreign == head \notin {pending.before, pending.catalog}

FinishRefused ==
    /\ pc = "finish" /\ Foreign
    /\ GivesUp
    /\ UNCHANGED <<Elsewhere, store, unseen>>

\* The catalog was pinned in an earlier round.
FinishPinned ==
    /\ pc = "finish" /\ head = pending.catalog
    /\ Goes("acknowledge")
    /\ UNCHANGED <<Elsewhere, store, head, scratch, unseen>>

FinishPin ==
    /\ pc = "finish" /\ head = pending.before
    /\ Calls(Pins(pending.catalog), "fresh")
    /\ UNCHANGED <<head, scratch>>

\* The pin is looked at once more.
CheckFresh ==
    /\ pc = "fresh"
    /\ unseen' = FALSE
    /\ IF Readable /\ Pinned = pending.catalog
       THEN Goes("acknowledge") /\ UNCHANGED <<head, scratch>>
       ELSE GivesUp
    /\ UNCHANGED <<Elsewhere, store>>

\* Mutant: everything uploaded counts as listed.
AcknowledgeAll ==
    /\ pc = "acknowledge"
    /\ rows' = (rows \ Queue) \cup With(Queue, "listed")
    /\ known' = pending.catalog
    /\ pending' = None
    /\ GivesUp
    /\ UNCHANGED <<Elsewhere, clearing, unseen>>

\* acknowledge_index: the chain ends at the new catalog now.
Acknowledge ==
    /\ pc = "acknowledge"
    /\ rows' = (rows \ pending.rows) \cup With(rows \cap pending.rows, "listed")
    /\ known' = pending.catalog
    /\ pending' = None
    /\ GivesUp
    /\ UNCHANGED <<Elsewhere, clearing, unseen>>
-----------------------------------------------------------------------------
(* reset_group: restart and clear *)

\* Something ties the group to this collector.
Delivered == pending # None \/ known # 0 \/ \E r \in rows : r.msg # 0

\* The user asks for a new chain, with or without a clearing of the group.
Restart ==
    /\ Idle /\ clearing = None
    /\ resets < MaxResets
    /\ resets' = resets + 1
    /\ Readable /\ (Pinned = 0 => Delivered)
    /\ Goes("notice") \/ Goes("unpin")
    /\ unseen' = FALSE
    /\ UNCHANGED <<server, aged, late, faults, meddling, since, store, head, scratch>>

\* A message whose number is the newest: the group is cleared up to it.
Notice ==
    /\ pc = "notice"
    /\ item' = [row |-> None, msg |-> NewMessage]
    /\ Calls(Sends(Document("notice", {}, 0)), "unpin")
    /\ UNCHANGED <<head, low, high>>

Unpin ==
    /\ pc = "unpin"
    /\ Calls(UnpinsAll, "forget")
    /\ UNCHANGED <<head, scratch>>

\* restart_chain: the chain is forgotten; archives without a catalog wait for
\* the end of a clearing.
RestartChain ==
    /\ pc = "forget"
    /\ pending' = None
    /\ known' = 0
    /\ since' = Len(messages)
    /\ IF item = None
       THEN Goes("idle") /\ UNCHANGED <<rows, clearing>>
       ELSE /\ rows' = (rows \ Uploaded) \cup With(Uploaded, "held")
            /\ clearing' = [next |-> item.msg, kept |-> 0]
            /\ Goes("clear")
    /\ item' = None
    /\ UNCHANGED <<server, aged, late, faults, bounds, head, low, high, unseen>>

\* A clearing left unfinished goes on.
Clear ==
    /\ Idle /\ clearing # None
    /\ Goes("clear")
    /\ UNCHANGED <<Elsewhere, store, head, scratch, unseen>>

First == Max({FirstRegular, clearing.next - DeleteBatch + 1})
Last == clearing.next
Middle == (low + high) \div 2

\* A batch, the newest first, is deleted, or refused as a whole ...
DeleteABatch ==
    /\ pc = "clear" /\ Last >= FirstRegular
    /\ \/ /\ Calls(Deletes(First, Last), "progress")
          /\ low' = First /\ high' = 0
       \/ /\ ~Deletable(First, Last)
          /\ Goes("search")
          /\ low' = First + 1 /\ high' = Last + 1
          /\ UNCHANGED <<Elsewhere, store, unseen>>
    /\ UNCHANGED <<head, item>>

\* ... and then searched for where the part that can be deleted starts.
Search ==
    /\ pc = "search"
    /\ \/ /\ low < high
          /\ Calls(Deletes(Middle, Last), "search")
          /\ high' = Middle /\ UNCHANGED low
       \/ /\ low < high
          /\ ~Deletable(Middle, Last)
          /\ low' = Middle + 1
          /\ UNCHANGED <<Elsewhere, store, unseen, pc, high>>
       \/ /\ low >= high
          /\ Goes("progress")
          /\ UNCHANGED <<Elsewhere, store, unseen, low, high>>
    /\ UNCHANGED <<head, item>>

\* Mutant: the next batch starts where this one ended.
ProgressOverlaps ==
    /\ pc = "progress"
    /\ clearing' = IF low > First THEN [next |-> FirstRegular - 1, kept |-> low - 1]
                   ELSE [clearing EXCEPT !.next = First]
    /\ Goes("clear")
    /\ low' = 0 /\ high' = 0
    /\ UNCHANGED <<Elsewhere, rows, pending, known, head, item, unseen>>

\* Behind a message that is kept there are only kept ones.
Progress ==
    /\ pc = "progress"
    /\ clearing' = IF low > First THEN [next |-> FirstRegular - 1, kept |-> low - 1]
                   ELSE [clearing EXCEPT !.next = First - 1]
    /\ Goes("clear")
    /\ low' = 0 /\ high' = 0
    /\ UNCHANGED <<Elsewhere, rows, pending, known, head, item, unseen>>

Held == {r \in rows : r.state = "held"}
Kept == {r \in Held : r.msg <= clearing.kept}

\* Mutant: archives that are still in the group are dropped with the others.
FinishClearingDropsAll ==
    /\ pc = "clear" /\ Last < FirstRegular
    /\ rows' = (rows \ Held) \cup With(Held, "dropped")
    /\ clearing' = None
    /\ GivesUp
    /\ UNCHANGED <<Elsewhere, pending, known, unseen>>

\* finish_clearing: the archives that are still in the group wait for a catalog.
FinishClearing ==
    /\ pc = "clear" /\ Last < FirstRegular
    /\ rows' = (rows \ Held) \cup With(Kept, "queued") \cup With(Held \ Kept, "dropped")
    /\ clearing' = None
    /\ GivesUp
    /\ UNCHANGED <<Elsewhere, pending, known, unseen>>

-----------------------------------------------------------------------------
(* What goes wrong *)

\* The requests the worker may be about to make.
Requests ==
    CASE pc = "send" /\ Cardinality(Uploaded) < SendLimit -> {Sends(Document("archive", r.content, 0)) : r \in Unsent}
      [] pc = "catalog" -> {Sends(NewCatalog)}
      [] pc = "finish" /\ head = pending.before -> {Pins(pending.catalog)}
      [] pc = "notice" -> {Sends(Document("notice", {}, 0))}
      [] pc = "unpin" -> {UnpinsAll}
      [] pc = "clear" /\ Last >= FirstRegular -> {Deletes(First, Last)}
      [] pc = "search" /\ low < high -> {Deletes(Middle, Last)}
      [] OTHER -> {}

\* No answer comes: the request was carried out, or will be later. (One that
\* never arrives is like an interruption.)
NoAnswer ==
    /\ faults < MaxFaults
    /\ faults' = faults + 1
    /\ \E r \in Requests :
         \/ Effect(r) /\ UNCHANGED late
         \/ late' = late \cup {r} /\ UNCHANGED server
    /\ GivesUp
    /\ UNCHANGED <<aged, store, bounds, unseen, since>>

\* The program ends, a setting is changed, or a call or the store fails.
Interrupted ==
    /\ ~Idle
    /\ faults < MaxFaults
    /\ faults' = faults + 1
    /\ GivesUp
    /\ UNCHANGED <<server, aged, late, store, bounds, unseen, since>>

-----------------------------------------------------------------------------
(* The specification *)

Init ==
    /\ messages = <<Document("group", {}, 0)>> /\ gone = {} /\ pins = {} /\ aged = 0 /\ late = {}
    /\ rows = {} /\ pending = None /\ known = 0 /\ clearing = None
    /\ pc = "idle" /\ head = 0 /\ item = None /\ low = 0 /\ high = 0
    /\ faults = 0 /\ meddling = 0 /\ resets = 0 /\ unseen = FALSE /\ since = 0

Delivers == Deliver \/ SendArchive \/ Receipt \/ Entries \/ CheckLatest \/ SendCatalog
            \/ NotePending \/ FinishRefused \/ FinishPinned \/ FinishPin \/ CheckFresh \/ Acknowledge
Resets == Notice \/ Unpin \/ RestartChain \/ Clear \/ DeleteABatch \/ Search \/ Progress
          \/ FinishClearing
Others == Ages \/ OthersPin \/ CarriedOutLate

Next ==
    \/ Collect \/ Compact
    \/ Delivers
    \/ Restart
    \/ Resets
    \/ NoAnswer \/ Interrupted
    \/ Others

\* The service's loop goes on every few seconds while sending is on.
Fairness == WF_vars(Delivers \/ Resets)

Spec == Init /\ [][Next]_vars
FairSpec == Spec /\ Fairness

-----------------------------------------------------------------------------
(* Properties *)

Numbers == 0..Len(messages)
Labels == {"idle", "send", "receipt", "latest", "catalog", "note", "finish", "fresh", "acknowledge",
           "notice", "unpin", "forget", "clear", "progress", "search"}

\* Types of the group, the store and the worker: only messages that exist are
\* deleted, pinned, noted or known.
TypeOK ==
    /\ messages \in Seq([kind : Kinds, content : SUBSET Fragments, before : Nat])
    /\ gone \subseteq FirstRegular..Len(messages) /\ pins \subseteq (1..Len(messages)) \ gone
    /\ aged \in Numbers
    /\ rows \subseteq [content : SUBSET Fragments, msg : Numbers,
                        state : {"queued", "held", "listed", "dropped"}]
    /\ pending # None => pending.catalog \in Numbers /\ pending.before \in Numbers
    /\ known \in Numbers
    /\ clearing # None => clearing.next \in Numbers /\ clearing.kept \in Numbers
    /\ pc \in Labels /\ head \in Numbers /\ Cardinality(Uploaded) <= SendLimit
    /\ low \in 0..(Len(messages) + 1) /\ high \in 0..(Len(messages) + 1)

\* The catalogs a reader finds from c on, as far back as this chain goes.
Chain(c) ==
    LET catalogs[d \in Numbers] ==
            IF d <= since \/ d \in gone THEN {} ELSE {d} \cup catalogs[messages[d].before]
    IN  catalogs[c]
Listed == UNION {messages[c].content : c \in Chain(known)}
Settled(state) == Contents({r \in rows : r.state = state})

\* What the chain promises: a fragment waits until a catalog of the chain lists
\* it; what is listed stays listed until the user starts the chain anew.
Promise == INSTANCE Ledger WITH
    waiting <- Settled("queued") \cup Settled("held"),
    listed <- Listed,
    former <- (Settled("listed") \cup Settled("dropped")) \ Listed
KeepsPromise == Promise!Spec

\* No fragment is in two catalogs of a chain, whatever was uploaded twice.
ListedOnce ==
    \A c, d \in Chain(known) : c # d => messages[c].content \cap messages[d].content = {}

\* After a clearing an archive without a catalog is dropped exactly when its
\* message is gone; those Telegram kept wait for the new chain's catalog.
ClearingTellsApart ==
    \A r \in rows : /\ r.state = "dropped" => r.msg \in gone
                    /\ r.state = "queued" /\ clearing = None => r.msg \notin gone

\* The worker pins a catalog only over the one it names as the one before it, and
\* advances the chain only to a catalog that the pin shows; unless the pin moved
\* after the worker looked last (deliver, finish_catalog).
PinContinuesChain ==
    [][/\ pc = "finish" /\ pc' = "fresh" =>
            unseen \/ Pinned \in {pending.before, pending.catalog}
       /\ known' \notin {0, known} => unseen \/ Pinned = known']_vars

\* The user is told that the pin is not what it should be.
Told == ~Readable \/ LostPin \/ (pending # None /\ Pinned \notin {pending.before, pending.catalog})

\* A fragment does not wait for ever without a word: it gets into a catalog, or
\* the user is told of the pin.
NoneForgotten == \A f \in Fragments :
    []<>(f \notin Settled("queued") \cup Settled("held") \/ Told)

\* A clearing comes to its end.
ClearingEnds == clearing # None ~> clearing = None
=============================================================================
