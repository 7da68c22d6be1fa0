---------------------------- MODULE InputHelper ----------------------------
(***************************************************************************)
(* The process keyswitch/wayland_helper.py, which has the keyboard to      *)
(* itself (EVIOCGRAB) and types on a virtual keyboard of its own: every    *)
(* key, as the parent program answers - or without an answer when it does  *)
(* not come in time -, and the texts the parent asks it to type.           *)
(*                                                                         *)
(* One key is asked about at a time, the others wait. A key typed when its *)
(* time ran out is reported "forced"; until the parent acknowledges that,  *)
(* keys are typed at once and told. What arrives from the parent is left   *)
(* open here: WaylandInput joins the helper with the parent.               *)
(*                                                                         *)
(* A press is its number in the order of typing; the application's text is *)
(* the sequence of the presses that reached it. Keys are numbered again    *)
(* when they are asked about or told (seq), with the wrapping counter.     *)
(***************************************************************************)
EXTENDS Integers, Sequences, FiniteSets

CONSTANTS
    Keys,           \* keys of the keyboard
    None,
    SeqModulus,     \* UINT32_MODULO_MASK + 1
    MaxEvents       \* bound: key events the user makes

Event == [n : Nat, key : Keys, down : BOOLEAN, seq : 0..SeqModulus - 1]

ASSUME HelperAssumption ==
    /\ SeqModulus \in Nat /\ SeqModulus > 2 /\ MaxEvents \in Nat
    /\ IsFiniteSet(Keys) /\ None \notin Event \cup {"typed", "refused", "failed"}

VARIABLES
    \* the user
    phys, events, presses,
    \* the helper
    alive,          \* the process runs
    grabbed,        \* _grab_enabled: the keyboards are the helper's
    pending,        \* _pending: the key asked about
    queue,          \* _key_queue
    forced,         \* _forced_seq
    unverdicted,    \* _unverdicted_seq
    lastSeq,        \* _next_seq: the last number given
    passed,         \* _passed_keys: down in the virtual keyboard
    \* what leaves it: to the parent, and to the application
    up,             \* messages on their way, and those queued for the parent's dispatch thread
    reply,          \* EMIT_ACK on its way to the thread that waits for it
    text

userVars == <<phys, events, presses>>
askVars == <<pending, queue, forced, unverdicted, lastSeq>>
modeVars == <<alive, grabbed>>
helperVars == <<userVars, askVars, modeVars, passed, up, reply, text>>

-----------------------------------------------------------------------------
(* Numbers *)

\* seq_newer: did seq come after than, among numbers that wrap?
SeqNewer(seq, than) == seq # than /\ (seq - than) % SeqModulus <= (SeqModulus - 1) \div 2

\* The i-th number after seq; 0 is left out.
SeqAfter(seq, i) == ((seq - 1 + i) % (SeqModulus - 1)) + 1

-----------------------------------------------------------------------------
(* Typing *)

Numbered(ev, seq) == [ev EXCEPT !.seq = seq]
Tell(how, ev) == [how |-> how, ev |-> ev]
Reset == [how |-> "reset", ev |-> None]
KeysIn(s) == {s[i].key : i \in DOMAIN s}
NumbersIn(s) == [i \in DOMAIN s |-> s[i].n]
Downs(s) == {i \in DOMAIN s : s[i].down}

\* The places of S from the first to the last - there is one such function -, and what s has there.
InOrder(S) == {o \in [1..Cardinality(S) -> S] : \A i, j \in 1..Cardinality(S) : i < j => o[i] < o[j]}
Taken(s, o) == [i \in DOMAIN o |-> s[o[i]]]

\* The keys down in the virtual keyboard after the transitions of s.
Last(s, i) == \A j \in DOMAIN s : j > i => s[j].key # s[i].key
PassedAfter(s) == (passed \ KeysIn(s)) \cup {s[i].key : i \in {j \in Downs(s) : Last(s, j)}}

\* The kernel drops a press of a key that is down in the virtual keyboard already.
DownBefore(s, i) ==
    IF \E j \in 1..i - 1 : s[j].key = s[i].key
    THEN \E j \in 1..i - 1 : s[j].key = s[i].key /\ s[j].down
                             /\ \A k \in j + 1..i - 1 : s[k].key # s[i].key
    ELSE s[i].key \in passed
Muted(s) == {s[i].n : i \in {j \in Downs(s) : DownBefore(s, j)}}
Heard(s) == {i \in Downs(s) : ~DownBefore(s, i)}

\* _emit_physical_key, for each key of s.
TypePhysical(s) ==
    /\ \E o \in InOrder(Heard(s)) : text' = text \o NumbersIn(Taken(s, o))
    /\ passed' = PassedAfter(s)

-----------------------------------------------------------------------------
(* The keyboard *)

\* _dispatch_next_queued_key, with q waiting and the messages sent so far: the next key is asked about.
Dispatch(q, sent) ==
    IF q = <<>>
    THEN pending' = None /\ queue' = q /\ up' = sent /\ UNCHANGED lastSeq
    ELSE LET ev == Numbered(Head(q), SeqAfter(lastSeq, 1)) IN
         /\ pending' = ev
         /\ queue' = Tail(q)
         /\ lastSeq' = ev.seq
         /\ up' = Append(sent, Tell("ask", ev))

\* Mutant: a key typed unasked is not told.
TypeUnaskedSilently(ev) ==
    /\ TypePhysical(<<ev>>)
    /\ lastSeq' = ev.seq
    /\ unverdicted' = ev.seq
    /\ UNCHANGED <<pending, queue, up>>

\* _type_unasked
TypeUnasked(ev) ==
    /\ TypePhysical(<<ev>>)
    /\ lastSeq' = ev.seq
    /\ unverdicted' = ev.seq
    /\ up' = Append(up, Tell("told", ev))
    /\ UNCHANGED <<pending, queue>>

\* A key goes down or up, and _read_keyboard reads it; a keyboard the helper
\* has not grabbed types by itself.
PhysicalKey(k, down) ==
    LET ev == [n |-> IF down THEN presses + 1 ELSE 0, key |-> k, down |-> down, seq |-> 0] IN
    /\ events < MaxEvents
    /\ down <=> k \notin phys
    /\ events' = events + 1
    /\ presses' = IF down THEN presses + 1 ELSE presses
    /\ phys' = IF down THEN phys \cup {k} ELSE phys \ {k}
    /\ \/ /\ ~grabbed
          /\ text' = IF down THEN Append(text, ev.n) ELSE text
          /\ UNCHANGED <<askVars, passed, up>>
       \/ /\ grabbed /\ forced # None
          /\ TypeUnasked(Numbered(ev, SeqAfter(lastSeq, 1)))
          /\ UNCHANGED forced
       \/ /\ grabbed /\ forced = None /\ pending # None
          /\ queue' = Append(queue, ev)
          /\ UNCHANGED <<pending, forced, unverdicted, lastSeq, passed, up, text>>
       \/ /\ grabbed /\ forced = None /\ pending = None
          /\ Dispatch(Append(queue, ev), up)
          /\ UNCHANGED <<forced, unverdicted, passed, text>>
    /\ UNCHANGED <<modeVars, reply>>

\* Mutant: the keys that waited stay queued when the time runs out.
ExpireOne ==
    /\ pending # None
    /\ pending' = None
    /\ forced' = pending.seq
    /\ unverdicted' = pending.seq
    /\ TypePhysical(<<pending>>)
    /\ up' = Append(up, Tell("forced", pending))
    /\ UNCHANGED <<userVars, modeVars, queue, lastSeq, reply>>

\* _expire_pending_if_due: the key and all that waited for it are typed.
Expire ==
    /\ pending # None
    /\ LET told == [i \in DOMAIN queue |-> Numbered(queue[i], SeqAfter(lastSeq, i))]
           all == <<pending>> \o told
       IN  /\ TypePhysical(all)
           /\ forced' = pending.seq
           /\ unverdicted' = all[Len(all)].seq
           /\ lastSeq' = IF told = <<>> THEN lastSeq ELSE told[Len(told)].seq
           /\ up' = Append(up, Tell("forced", pending)) \o [i \in DOMAIN told |-> Tell("told", told[i])]
    /\ pending' = None
    /\ queue' = <<>>
    /\ UNCHANGED <<userVars, modeVars, reply>>

-----------------------------------------------------------------------------
(* Commands of the parent *)

\* _apply_verdict; one that comes late is for a key typed already.
Verdict(seq, swallow) ==
    IF pending = None \/ pending.seq # seq
    THEN UNCHANGED helperVars
    ELSE /\ IF swallow THEN UNCHANGED <<text, passed>> ELSE TypePhysical(<<pending>>)
         /\ Dispatch(queue, up)
         /\ UNCHANGED <<userVars, modeVars, forced, unverdicted, reply>>

SeqAck(seq) ==
    /\ forced' = IF forced = seq THEN None ELSE forced
    /\ UNCHANGED <<userVars, modeVars, pending, queue, unverdicted, lastSeq, passed, up, reply, text>>

\* A batch: the presses it means to erase - the helper is told their number only -, the transitions
\* typed then, the check it asks for, and whether the parent still waits for the answer: an
\* EMIT_ACK nobody waits for is dropped (_resolve_reply).
\* Mutant: a text is typed whatever was typed since.
RefusesActions(b) ==
    b.check = "action" /\ (forced # None \/ (unverdicted # 0 /\ ~SeqNewer(b.known, unverdicted)))

\* _refuses
Refuses(b) ==
    \/ b.check = "text" /\ (forced # None \/ SeqNewer(unverdicted, b.known))
    \/ b.check = "action" /\ (forced # None \/ (unverdicted # 0 /\ ~SeqNewer(b.known, unverdicted)))

\* The parent types the key it is still to answer.
Settles(b) == b.check = "action" /\ pending # None /\ pending.seq = b.known

\* The text without its last n presses; Backspace in an empty field does nothing.
Without(n) == SubSeq(text, 1, Len(text) - n)

EmitBatch(b) ==
    IF Refuses(b)
    THEN /\ reply' = IF b.awaited THEN "refused" ELSE reply
         /\ UNCHANGED <<userVars, askVars, modeVars, passed, up, text>>
    ELSE /\ \E o \in InOrder(Downs(b.items)) : text' = Without(Len(b.erase)) \o NumbersIn(Taken(b.items, o))
         /\ passed' = PassedAfter(b.items)
         /\ reply' = IF b.awaited THEN "typed" ELSE reply
         /\ IF Settles(b) THEN Dispatch(queue, up) ELSE UNCHANGED <<pending, queue, lastSeq, up>>
         /\ UNCHANGED <<userVars, modeVars, forced, unverdicted>>

\* _set_grab_enabled: given up while the session is locked. The keys that
\* waited are gone, and none stays down.
SetGrab(on) ==
    IF on = grabbed
    THEN UNCHANGED helperVars
    ELSE /\ grabbed' = on
         /\ up' = Append(up, Reset)
         /\ IF on THEN UNCHANGED <<pending, queue, forced, passed>>
            ELSE pending' = None /\ queue' = <<>> /\ forced' = None /\ passed' = {}
         /\ UNCHANGED <<userVars, alive, unverdicted, lastSeq, reply, text>>

-----------------------------------------------------------------------------
(* The process *)

Fresh ==
    /\ pending' = None /\ queue' = <<>> /\ forced' = None /\ unverdicted' = 0 /\ lastSeq' = 1
    /\ passed' = {}

\* It ends: its grab and its virtual keyboard end with it, and so do the keys
\* it had. Who waits for an answer gets the failure.
Die(awaited) ==
    /\ alive
    /\ alive' = FALSE
    /\ grabbed' = FALSE
    /\ Fresh
    /\ reply' = IF awaited /\ reply = None THEN "failed" ELSE reply
    /\ UNCHANGED <<userVars, up, text>>

HelperInit ==
    /\ phys = {} /\ events = 0 /\ presses = 0
    /\ alive = TRUE /\ grabbed = TRUE
    /\ pending = None /\ queue = <<>> /\ forced = None /\ unverdicted = 0 /\ lastSeq = 1
    /\ passed = {} /\ up = <<>> /\ reply = None /\ text = <<>>
=============================================================================
