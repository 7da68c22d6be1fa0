---------------------------- MODULE WaylandProofs ----------------------------
(***************************************************************************)
(* Proofs about WaylandInput, for every keyboard, every number of events   *)
(* and of troubles, and every size of the wrapping numbers: the types of   *)
(* what the helper and the backend keep, and that a keyboard with nothing  *)
(* under way is free.                                                      *)
(***************************************************************************)
EXTENDS WaylandInput, FiniteSetTheorems, SequenceTheorems, WellFoundedInduction, TLAPS

-----------------------------------------------------------------------------
(* Types *)

Numbers == 0..SeqModulus - 1
Message == [how : {"ask", "told", "forced"}, ev : Event] \cup {Reset}
Answered == [kind : {"held", "passed", "consumed", "deferred"}, ev : Event]
Batches == [cmd : {"batch"}, check : {"none", "text", "action"}, known : Numbers, erase : Seq(Nat), items : Seq(Event),
            awaited : BOOLEAN]
Commands == [cmd : {"verdict"}, seq : Numbers, swallow : BOOLEAN] \cup [cmd : {"ack"}, seq : Numbers]
            \cup [cmd : {"grab"}, on : BOOLEAN] \cup Batches

IsAwaited(c) == c.cmd = "batch" /\ c.awaited

\* The dispatch thread has a key unless it waits for one.
Hooks == {Idle} \cup [at : {"track", "defer", "send"}, ev : Event, how : {"ask", "told", "forced"}, swallow : BOOLEAN]

\* What the engine hears of, and what it may take for a letter of a word.
Told == [n : Nat, key : Keys \cup {Pointer}, down : BOOLEAN, deferred : BOOLEAN]
Struck == [n : Nat, key : Keys, down : BOOLEAN, deferred : BOOLEAN]

HelperTyped ==
    /\ pending \in Event \cup {None} /\ queue \in Seq(Event) /\ (pending = None => queue = <<>>)
    /\ lastSeq \in Numbers /\ up \in Seq(Message)
    /\ passed \subseteq Keys /\ text \in Seq(Nat) /\ presses \in Nat

BackendTyped ==
    /\ hook \in Hooks /\ known \in Numbers /\ holdKnown \in Numbers
    /\ held \in Seq(Event) /\ deferred \in Event \cup {None} /\ answer \in Answered \cup {None}
    /\ down \in Seq(Commands) /\ inbox \in Seq(Told)

\* Keys taken along are the engine's until the word is sent, and strokes of the keyboard after that.
WorkerTyped ==
    /\ releases \in 0..3 /\ next \in {"ready", "landed"}
    /\ strokes \in Seq(Struck) /\ plan \in Seq(Struck)
    /\ pc \in {"check", "send", "sent"} => late \in Seq(Struck)
    /\ pc \notin {"check", "send", "sent"} => late \in Seq(Event)
    /\ pc = "send" => item \in [known : Numbers]
    /\ pc \in {"replay", "posted", "acting"} => item \in Event

\* Inductive.
Typed == HelperTyped /\ BackendTyped /\ WorkerTyped

-----------------------------------------------------------------------------
(* The sequences *)

\* A function on the first n numbers is a sequence.
LEMMA FunctionIsSeq ==
  ASSUME NEW S, NEW n \in Nat, NEW f, DOMAIN f = 1..n, f = [i \in 1..n |-> f[i]], \A i \in 1..n : f[i] \in S
  PROVE  f \in Seq(S) /\ Len(f) = n
  OBVIOUS

\* A set of numbers that is not empty has a least one.
LEMMA LeastExists ==
  ASSUME NEW S, S \subseteq Nat, S # {}
  PROVE  Least(S) \in S
  <1>1. \E i \in S : \A j \in S : <<j, i>> \notin OpToRel(<, Nat)
    BY NatLessThanWellFounded, WFMin
  <1>2. PICK i \in S : \A j \in S : ~(j < i)
    BY <1>1 DEF OpToRel
  <1>3. \A j \in S : i <= j
    BY <1>2
  <1> QED
    BY <1>3 DEF Least

LEMMA AppendTypes ==
  ASSUME NEW S, NEW s \in Seq(S), NEW e \in S
  PROVE  Append(s, e) \in Seq(S)
  OBVIOUS

LEMMA TailTypes ==
  ASSUME NEW S, NEW s \in Seq(S), s # <<>>
  PROVE  Head(s) \in S /\ Tail(s) \in Seq(S)
  OBVIOUS

LEMMA RemovedTypes ==
  ASSUME NEW S, NEW s \in Seq(S), NEW i \in DOMAIN s
  PROVE  Removed(s, i) \in Seq(S)
  <1>1. i \in 1..Len(s) /\ Len(s) \in Nat /\ \A j \in 1..Len(s) : s[j] \in S
    OBVIOUS
  <1>2. SubSeq(s, 1, i - 1) \in Seq(S)
    <2>1. \A j \in 1..i - 1 : s[j] \in S
      BY <1>1
    <2> QED
      BY <1>1, <2>1, SubSeqProperties
  <1>3. SubSeq(s, i + 1, Len(s)) \in Seq(S)
    <2>1. \A j \in i + 1..Len(s) : s[j] \in S
      BY <1>1
    <2> QED
      BY <1>1, <2>1, SubSeqProperties
  <1> QED
    BY <1>2, <1>3 DEF Removed

LEMMA WithoutTypes ==
  ASSUME text \in Seq(Nat), NEW n \in Nat
  PROVE  Without(n) \in Seq(Nat)
  <1>1. \A j \in 1..Len(text) - n : text[j] \in Nat
    OBVIOUS
  <1>2. 1 \in Int /\ Len(text) - n \in Int
    OBVIOUS
  <1>3. SubSeq(text, 1, Len(text) - n) \in Seq(Nat)
    BY <1>1, <1>2, SubSeqProperties
  <1> QED
    BY <1>3 DEF Without

\* What stands at places of a sequence, one after the other.
LEMMA TakenTypes ==
  ASSUME NEW S, NEW s \in Seq(S), NEW P \in SUBSET DOMAIN s, NEW o \in InOrder(P)
  PROVE  Taken(s, o) \in Seq(S) /\ \A i \in DOMAIN Taken(s, o) : \E j \in P : Taken(s, o)[i] = s[j]
  <1>1. P \subseteq 1..Len(s) /\ Len(s) \in Nat
    OBVIOUS
  <1>2. Cardinality(P) \in Nat
    <2>1. IsFiniteSet(1..Len(s))
      BY <1>1, FS_Interval
    <2>2. IsFiniteSet(P)
      BY <1>1, <2>1, FS_Subset
    <2> QED
      BY <2>2, FS_CardinalityType
  <1>3. o \in [1..Cardinality(P) -> P]
    BY DEF InOrder
  <1>4. \A i \in 1..Cardinality(P) : s[o[i]] \in S
    BY <1>1, <1>3
  <1>5. Taken(s, o) = [i \in 1..Cardinality(P) |-> s[o[i]]]
    BY <1>3 DEF Taken
  <1>6. Taken(s, o) \in Seq(S)
    BY <1>2, <1>4, <1>5, FunctionIsSeq
  <1>7. \A i \in DOMAIN Taken(s, o) : o[i] \in P /\ Taken(s, o)[i] = s[o[i]]
    BY <1>3, <1>5
  <1> QED
    BY <1>6, <1>7

LEMMA NumbersInTypes ==
  ASSUME NEW S, NEW s \in Seq(S), \A e \in S : e.n \in Nat
  PROVE  NumbersIn(s) \in Seq(Nat)
  <1>1. Len(s) \in Nat /\ DOMAIN s = 1..Len(s) /\ \A i \in 1..Len(s) : s[i] \in S
    OBVIOUS
  <1>2. NumbersIn(s) = [i \in 1..Len(s) |-> s[i].n]
    BY <1>1 DEF NumbersIn
  <1>3. \A i \in 1..Len(s) : s[i].n \in Nat
    BY <1>1
  <1> QED
    BY <1>1, <1>2, <1>3, FunctionIsSeq

-----------------------------------------------------------------------------
(* The helper *)

LEMMA SeqAfterTypes ==
  ASSUME NEW seq \in Numbers, NEW i \in Nat
  PROVE  SeqAfter(seq, i) \in Numbers
  <1>1. SeqModulus - 1 \in Nat \ {0} /\ seq - 1 + i \in Int
    BY HelperAssumption DEF Numbers
  <1>2. PICK m \in Nat \ {0} : m = SeqModulus - 1
    BY <1>1
  <1>3. PICK a \in Int : a = seq - 1 + i
    BY <1>1
  <1>4. a % m \in 0..m - 1
    OBVIOUS
  <1>5. (a % m) + 1 \in 0..m
    BY <1>4
  <1>6. SeqAfter(seq, i) = (a % m) + 1
    BY <1>2, <1>3 DEF SeqAfter
  <1> QED
    BY <1>2, <1>5, <1>6 DEF Numbers

LEMMA NumberedTypes ==
  ASSUME NEW ev \in Event, NEW seq \in Numbers
  PROVE  Numbered(ev, seq) \in Event /\ Numbered(ev, seq).seq = seq
  BY DEF Numbered, Event, Numbers

LEMMA TellTypes ==
  ASSUME NEW how \in {"ask", "told", "forced"}, NEW ev \in Event
  PROVE  Tell(how, ev) \in Message
  BY DEF Tell, Message

LEMMA PassedTypes ==
  ASSUME NEW s \in Seq(Event), passed \subseteq Keys
  PROVE  PassedAfter(s) \subseteq Keys
  <1>1. \A i \in DOMAIN s : s[i] \in Event
    OBVIOUS
  <1>2. \A i \in DOMAIN s : s[i].key \in Keys
    BY <1>1 DEF Event
  <1> QED
    BY <1>2 DEF PassedAfter, Downs

LEMMA TypedPresses ==
  ASSUME NEW s \in Seq(Event), NEW P \in SUBSET DOMAIN s, NEW o \in InOrder(P), NEW before \in Seq(Nat)
  PROVE  before \o NumbersIn(Taken(s, o)) \in Seq(Nat)
  <1>1. Taken(s, o) \in Seq(Event)
    BY TakenTypes
  <1>2. NumbersIn(Taken(s, o)) \in Seq(Nat)
    <2>1. \A e \in Event : e.n \in Nat
      BY DEF Event
    <2> QED
      BY <1>1, <2>1, NumbersInTypes
  <1> QED
    BY <1>2

\* What a correction means to erase: the word, and the keys taken along.
LEMMA WordTypes ==
  ASSUME plan \in Seq(Struck), late \in Seq(Struck)
  PROVE  NumbersIn(plan \o late) \in Seq(Nat)
  <1>1. \A e \in Struck : e.n \in Nat
    BY DEF Struck
  <1>2. plan \o late \in Seq(Struck)
    OBVIOUS
  <1> QED
    BY <1>1, <1>2, NumbersInTypes

LEMMA TypePhysicalTypes ==
  ASSUME text \in Seq(Nat), passed \subseteq Keys, NEW s \in Seq(Event), TypePhysical(s)
  PROVE  text' \in Seq(Nat) /\ passed' \subseteq Keys
  <1>1. PICK o \in InOrder(Heard(s)) : text' = text \o NumbersIn(Taken(s, o))
    BY DEF TypePhysical
  <1>2. Heard(s) \in SUBSET DOMAIN s
    BY DEF Heard, Downs
  <1> QED
    BY <1>1, <1>2, TypedPresses, PassedTypes DEF TypePhysical

LEMMA DispatchTypes ==
  ASSUME lastSeq \in Numbers, NEW q \in Seq(Event), NEW sent \in Seq(Message), Dispatch(q, sent)
  PROVE  /\ pending' \in Event \cup {None} /\ queue' \in Seq(Event) /\ (pending' = None => queue' = <<>>)
         /\ lastSeq' \in Numbers /\ up' \in Seq(Message)
  <1>1. CASE q = <<>>
    BY <1>1 DEF Dispatch
  <1>2. CASE q # <<>>
    <2>1. Head(q) \in Event /\ Tail(q) \in Seq(Event)
      BY <1>2, TailTypes
    <2>2. PICK seq : seq = SeqAfter(lastSeq, 1)
      OBVIOUS
    <2>3. seq \in Numbers
      BY <2>2, SeqAfterTypes
    <2>4. PICK ev : ev = Numbered(Head(q), seq)
      OBVIOUS
    <2>5. ev \in Event /\ ev.seq = seq
      BY <2>1, <2>3, <2>4, NumberedTypes
    <2>6. pending' = ev /\ queue' = Tail(q) /\ lastSeq' = ev.seq /\ up' = Append(sent, Tell("ask", ev))
      BY <1>2, <2>2, <2>4 DEF Dispatch
    <2>7. up' \in Seq(Message)
      BY <2>5, <2>6, TellTypes, AppendTypes
    <2>8. ev # None
      BY <2>5, HelperAssumption
    <2> QED
      BY <2>1, <2>3, <2>5, <2>6, <2>7, <2>8
  <1> QED
    BY <1>1, <1>2

LEMMA PhysicalKeyTypes ==
  ASSUME HelperTyped, NEW k \in Keys, NEW isDown \in BOOLEAN, PhysicalKey(k, isDown)
  PROVE  HelperTyped'
  <1> USE DEF HelperTyped
  <1>1. PICK ev : ev = [n |-> IF isDown THEN presses + 1 ELSE 0, key |-> k, down |-> isDown, seq |-> 0]
    OBVIOUS
  <1>2. ev \in Event /\ ev.n \in Nat
    BY <1>1, HelperAssumption DEF Event
  <1>3. presses' \in Nat
    BY DEF PhysicalKey
  <1>4. CASE ~grabbed
    <2>1. /\ UNCHANGED <<askVars, passed, up>>
          /\ text' = IF isDown THEN Append(text, ev.n) ELSE text
      BY <1>1, <1>4, SMTT(30) DEF PhysicalKey
    <2>2. text' \in Seq(Nat)
      BY <1>2, <2>1
    <2> QED
      BY <1>3, <2>1, <2>2 DEF askVars
  <1>5. CASE grabbed /\ forced # None
    <2>1. PICK told : told = Numbered(ev, SeqAfter(lastSeq, 1))
      OBVIOUS
    <2>2. told \in Event
      BY <1>2, <2>1, SeqAfterTypes, NumberedTypes
    <2>3. TypeUnasked(told)
      BY <1>1, <1>5, <2>1 DEF PhysicalKey
    <2>4. <<told>> \in Seq(Event)
      BY <2>2
    <2>5. text' \in Seq(Nat) /\ passed' \subseteq Keys
      BY <2>3, <2>4, TypePhysicalTypes DEF TypeUnasked
    <2>6. told.seq \in Numbers
      BY <2>2 DEF Event, Numbers
    <2>7. up' \in Seq(Message)
      BY <2>2, <2>3, TellTypes, AppendTypes DEF TypeUnasked
    <2> QED
      BY <1>3, <2>3, <2>5, <2>6, <2>7 DEF TypeUnasked
  <1>6. CASE grabbed /\ forced = None /\ pending # None
    <2>1. queue' = Append(queue, ev) /\ UNCHANGED <<pending, lastSeq, passed, up, text>>
      BY <1>1, <1>6 DEF PhysicalKey
    <2>2. queue' \in Seq(Event)
      BY <1>2, <2>1
    <2> QED
      BY <1>3, <1>6, <2>1, <2>2
  <1>7. CASE grabbed /\ forced = None /\ pending = None
    <2>1. PICK q : q = Append(queue, ev)
      OBVIOUS
    <2>2. q \in Seq(Event)
      BY <1>2, <2>1
    <2>3. Dispatch(q, up) /\ UNCHANGED <<passed, text>>
      BY <1>1, <1>7, <2>1 DEF PhysicalKey
    <2> QED
      BY <1>3, <2>2, <2>3, DispatchTypes
  <1> QED
    BY <1>4, <1>5, <1>6, <1>7

LEMMA ExpireTypes ==
  ASSUME HelperTyped, Expire
  PROVE  HelperTyped'
  <1> USE DEF HelperTyped
  <1>1. PICK told : told = [i \in DOMAIN queue |-> Numbered(queue[i], SeqAfter(lastSeq, i))]
    OBVIOUS
  <1>2. Len(queue) \in Nat /\ DOMAIN queue = 1..Len(queue) /\ \A i \in 1..Len(queue) : queue[i] \in Event
    OBVIOUS
  <1>3. ASSUME NEW i \in 1..Len(queue) PROVE told[i] \in Event
    <2>1. told[i] = Numbered(queue[i], SeqAfter(lastSeq, i)) /\ i \in Nat
      BY <1>1, <1>2
    <2> QED
      BY <1>2, <2>1, SeqAfterTypes, NumberedTypes
  <1>4. told \in Seq(Event)
    BY <1>1, <1>2, <1>3, FunctionIsSeq
  <1>5. pending \in Event
    BY DEF Expire
  <1>6. PICK all : all = <<pending>> \o told
    OBVIOUS
  <1>7. all \in Seq(Event)
    BY <1>4, <1>5, <1>6
  <1>8. TypePhysical(all)
    BY <1>1, <1>6 DEF Expire
  <1>9. text' \in Seq(Nat) /\ passed' \subseteq Keys
    BY <1>7, <1>8, TypePhysicalTypes
  <1>10. lastSeq' = (IF told = <<>> THEN lastSeq ELSE told[Len(told)].seq) /\ presses' = presses
         /\ pending' = None /\ queue' = <<>>
    BY <1>1 DEF Expire, userVars
  <1>11. lastSeq' \in Numbers
    <2>1. CASE told # <<>>
      <3>1. told[Len(told)] \in Event
        BY <1>4, <2>1
      <3> QED
        BY <1>10, <2>1, <3>1 DEF Event, Numbers
    <2> QED
      BY <1>10, <2>1
  <1>12. PICK tells : tells = [i \in DOMAIN told |-> Tell("told", told[i])]
    OBVIOUS
  <1>13. tells \in Seq(Message)
    <2>1. Len(told) \in Nat /\ DOMAIN told = 1..Len(told) /\ \A i \in 1..Len(told) : told[i] \in Event
      BY <1>4
    <2>2. \A i \in 1..Len(told) : tells[i] \in Message
      BY <1>12, <2>1, TellTypes
    <2> QED
      BY <1>12, <2>1, <2>2, FunctionIsSeq
  <1>14. up' = Append(up, Tell("forced", pending)) \o tells
    BY <1>1, <1>12 DEF Expire
  <1>15. PICK first : first = Tell("forced", pending)
    OBVIOUS
  <1>16. first \in Message
    BY <1>5, <1>15, TellTypes
  <1>17. up' \in Seq(Message)
    BY <1>13, <1>14, <1>15, <1>16
  <1> QED
    BY <1>9, <1>10, <1>11, <1>17

LEMMA VerdictTypes ==
  ASSUME HelperTyped, NEW seq, NEW swallow \in BOOLEAN, Verdict(seq, swallow)
  PROVE  HelperTyped' /\ reply' = reply
  <1> USE DEF HelperTyped
  <1>1. CASE pending = None \/ pending.seq # seq
    BY <1>1 DEF Verdict, helperVars, userVars, askVars
  <1>2. CASE ~(pending = None \/ pending.seq # seq)
    <2>1. Dispatch(queue, up) /\ presses' = presses /\ reply' = reply
          /\ (UNCHANGED <<text, passed>> \/ TypePhysical(<<pending>>))
      BY <1>2 DEF Verdict, userVars
    <2>2. <<pending>> \in Seq(Event)
      BY <1>2
    <2>3. text' \in Seq(Nat) /\ passed' \subseteq Keys
      BY <2>1, <2>2, TypePhysicalTypes
    <2> QED
      BY <2>1, <2>3, DispatchTypes
  <1> QED
    BY <1>1, <1>2

LEMMA EmitBatchTypes ==
  ASSUME HelperTyped, NEW b \in Batches, EmitBatch(b)
  PROVE  HelperTyped'
  <1> USE DEF HelperTyped
  <1>1. CASE Refuses(b)
    BY <1>1 DEF EmitBatch, userVars, askVars
  <1>2. CASE ~Refuses(b)
    <2>1. PICK o \in InOrder(Downs(b.items)) : text' = Without(Len(b.erase)) \o NumbersIn(Taken(b.items, o))
      BY <1>2 DEF EmitBatch
    <2>2. b.items \in Seq(Event) /\ Len(b.erase) \in Nat
      BY DEF Batches
    <2>3. Without(Len(b.erase)) \in Seq(Nat)
      BY <2>2, WithoutTypes
    <2>4. Downs(b.items) \in SUBSET DOMAIN b.items
      BY DEF Downs
    <2>5. text' \in Seq(Nat)
      BY <2>1, <2>2, <2>3, <2>4, TypedPresses
    <2>6. passed' \subseteq Keys
      BY <1>2, <2>2, PassedTypes DEF EmitBatch
    <2>7. presses' = presses
          /\ (Dispatch(queue, up) \/ UNCHANGED <<pending, queue, lastSeq, up>>)
      BY <1>2 DEF EmitBatch, userVars
    <2>8. CASE Dispatch(queue, up)
      BY <1>2, <2>5, <2>6, <2>7, <2>8, DispatchTypes
    <2>9. CASE UNCHANGED <<pending, queue, lastSeq, up>>
      BY <1>2, <2>5, <2>6, <2>7, <2>9
    <2> QED
      BY <2>7, <2>8, <2>9
  <1> QED
    BY <1>1, <1>2

LEMMA SetGrabTypes ==
  ASSUME HelperTyped, NEW on \in BOOLEAN, SetGrab(on)
  PROVE  HelperTyped' /\ reply' = reply
  <1> USE DEF HelperTyped
  <1>1. CASE on = grabbed
    BY <1>1 DEF SetGrab, helperVars, userVars, askVars
  <1>2. CASE on # grabbed
    <2>1. up' = Append(up, Reset) /\ Reset \in Message
      BY <1>2 DEF SetGrab, Message
    <2>2. up' \in Seq(Message)
      BY <2>1, AppendTypes
    <2>3. UNCHANGED <<pending, queue, passed>> \/ (pending' = None /\ queue' = <<>> /\ passed' = {})
      BY <1>2 DEF SetGrab
    <2>4. UNCHANGED <<lastSeq, presses, text, reply>>
      BY <1>2 DEF SetGrab, userVars
    <2>5. CASE UNCHANGED <<pending, queue, passed>>
      BY <2>2, <2>4, <2>5
    <2>6. CASE pending' = None /\ queue' = <<>> /\ passed' = {}
      BY <2>2, <2>4, <2>6
    <2> QED
      BY <2>3, <2>5, <2>6
  <1> QED
    BY <1>1, <1>2

-----------------------------------------------------------------------------
(* The dispatch thread *)

helperState == <<pending, queue, lastSeq, up, passed, text, presses>>
backendState == <<hook, known, holdKnown, held, deferred, answer, down, inbox>>
workerState == <<releases, strokes, plan, late, pc, next, item>>

LEMMA HelperStays == HelperTyped /\ UNCHANGED helperState => HelperTyped'
  BY DEF HelperTyped, helperState

LEMMA BackendStays == BackendTyped /\ UNCHANGED backendState => BackendTyped'
  BY DEF BackendTyped, backendState

LEMMA WorkerStays == WorkerTyped /\ UNCHANGED workerState => WorkerTyped'
  BY DEF WorkerTyped, workerState

LEMMA EngineEventTypes ==
  ASSUME NEW ev \in Event, NEW isDeferred \in BOOLEAN
  PROVE  EngineEvent(ev, isDeferred) \in Told
  BY DEF EngineEvent, Event, Told

LEMMA ListenTypes ==
  ASSUME inbox \in Seq(Told), NEW ev \in Event, NEW decision, Listen(ev, decision)
  PROVE  inbox' \in Seq(Told)
  <1>1. PICK e : e = EngineEvent(ev, decision = "deferred")
    OBVIOUS
  <1>2. e \in Told
    BY <1>1, EngineEventTypes
  <1>3. inbox' = inbox \/ inbox' = Append(inbox, e)
    BY <1>1 DEF Listen
  <1> QED
    BY <1>2, <1>3

LEMMA ResetInputTypes ==
  ASSUME inbox \in Seq(Told), ResetInput
  PROVE  inbox' \in Seq(Told)
  <1>1. PICK e : e = EngineEvent([n |-> 0, key |-> Pointer, down |-> TRUE], FALSE)
    OBVIOUS
  <1>2. e \in Told
    BY <1>1 DEF EngineEvent, Told
  <1>3. inbox' = Append(inbox, e)
    BY <1>1 DEF ResetInput
  <1> QED
    BY <1>2, <1>3

LEMMA TrackTypes ==
  ASSUME NEW ev \in Event, NEW kept \in Seq(Event), Track(ev, kept)
  PROVE  held' \in Seq(Event)
  BY DEF Track

LEMMA HoldTypes ==
  ASSUME known \in Numbers, holdKnown \in Numbers, NEW isDown, Hold(isDown)
  PROVE  holdKnown' \in Numbers
  BY DEF Hold

LEMMA MessageHasKey ==
  ASSUME up \in Seq(Message), up # <<>>, NEW how \in {"ask", "told", "forced"}, Head(up).how = how
  PROVE  Head(up).ev \in Event
  <1>1. Head(up) \in Message
    BY TailTypes
  <1> QED
    BY <1>1 DEF Message, Reset

LEMMA EventSeq ==
  ASSUME NEW ev \in Event
  PROVE  ev.seq \in Numbers
  BY DEF Event, Numbers

LEMMA HandleResetTypes == Typed /\ HandleReset => Typed'
  <1> SUFFICES ASSUME Typed, HandleReset PROVE Typed'
    OBVIOUS
  <1> USE DEF Typed
  <1>1. HelperTyped'
    <2>1. up' \in Seq(Message)
      BY TailTypes DEF HandleReset, HelperTyped
    <2> QED
      BY <2>1 DEF HandleReset, HelperTyped, userVars, askVars
  <1>2. BackendTyped'
    <2>1. inbox' \in Seq(Told)
      BY ResetInputTypes DEF HandleReset, BackendTyped
    <2> QED
      BY <2>1 DEF HandleReset, BackendTyped, actionVars
  <1>3. WorkerTyped'
    BY WorkerStays DEF HandleReset, workerState, stepVars, wordVars
  <1> QED
    BY <1>1, <1>2, <1>3

LEMMA HandleKeyTypes == Typed /\ HandleKey => Typed'
  <1> SUFFICES ASSUME Typed, HandleKey PROVE Typed'
    OBVIOUS
  <1> USE DEF Typed
  <1>1. PICK ev \in Event : ev = Head(up).ev
    BY MessageHasKey DEF HandleKey, HelperTyped
  <1>2. PICK how \in {"ask", "told"} : how = Head(up).how
    BY DEF HandleKey
  <1>3. PICK keep \in BOOLEAN : keep = (how = "ask" /\ holding /\ ~Passes(ev))
    OBVIOUS
  <1>4. hook' = [at |-> IF keep THEN "send" ELSE "track", ev |-> ev, how |-> how, swallow |-> keep]
        /\ known' = (IF keep THEN ev.seq ELSE known)
        /\ held' = (IF keep THEN Append(held, ev) ELSE held)
        /\ answer' = (IF keep THEN [kind |-> "held", ev |-> ev] ELSE answer)
    BY <1>1, <1>2, <1>3 DEF HandleKey
  <1>5. HelperTyped'
    <2>1. up' \in Seq(Message)
      BY TailTypes DEF HandleKey, HelperTyped
    <2> QED
      BY <2>1 DEF HandleKey, HelperTyped, userVars, askVars
  <1>6. BackendTyped'
    <2>1. hook' \in Hooks
      BY <1>4 DEF Hooks
    <2>2. known' \in Numbers
      BY <1>4, EventSeq DEF BackendTyped
    <2>3. held' \in Seq(Event)
      BY <1>4 DEF BackendTyped
    <2>4. answer' \in Answered \cup {None}
      BY <1>4 DEF BackendTyped, Answered
    <2> QED
      BY <2>1, <2>2, <2>3, <2>4 DEF HandleKey, BackendTyped, actionVars, workerVars
  <1>7. WorkerTyped'
    BY WorkerStays DEF HandleKey, workerState, workerVars, stepVars, wordVars
  <1> QED
    BY <1>5, <1>6, <1>7

\* The dispatch thread at work has a key of the keyboard.
LEMMA HookHasKey ==
  ASSUME hook \in Hooks, hook.at # "idle"
  PROVE  /\ hook.at \in {"track", "defer", "send"} /\ hook.ev \in Event
         /\ hook.how \in {"ask", "told", "forced"} /\ hook.swallow \in BOOLEAN
         /\ hook = [at |-> hook.at, ev |-> hook.ev, how |-> hook.how, swallow |-> hook.swallow]
  BY DEF Hooks, Idle

LEMMA HookGoesOn ==
  ASSUME hook \in Hooks, hook.at # "idle", NEW place \in {"track", "defer", "send"}, NEW swallow \in BOOLEAN
  PROVE  /\ [hook EXCEPT !.at = place] \in Hooks
         /\ [hook EXCEPT !.at = place, !.swallow = swallow] \in Hooks
  BY HookHasKey DEF Hooks, Idle

LEMMA TrackKeyTypes == Typed /\ TrackKey => Typed'
  <1> SUFFICES ASSUME Typed, TrackKey PROVE Typed'
    OBVIOUS
  <1> USE DEF Typed
  <1>1. hook.at = "track" /\ hook.ev \in Event /\ hook \in Hooks
    BY HookHasKey DEF TrackKey, BackendTyped
  <1>2. PICK decision :
          /\ hook' = IF hook.how = "told" THEN Idle
                     ELSE [hook EXCEPT !.at = IF decision = "deferred" THEN "defer" ELSE "send",
                                       !.swallow = decision # "passed"]
          /\ IF decision = "deferred" THEN UNCHANGED known ELSE Handled(hook.ev)
          /\ answer' = IF hook.how = "ask" /\ decision # "deferred"
                       THEN [kind |-> IF decision = "passed" THEN "passed" ELSE "consumed", ev |-> hook.ev]
                       ELSE answer
          /\ IF decision = "deferred"
             THEN Hold(pressed') /\ UNCHANGED inbox
             ELSE Listen(hook.ev, decision) /\ UNCHANGED holdVars
    BY DEF TrackKey
  <1>3. HelperTyped'
    BY HelperStays DEF TrackKey, helperState, helperVars, userVars, askVars
  <1>4. BackendTyped'
    <2>1. hook' \in Hooks
      <3>1. Idle \in Hooks
        BY DEF Hooks
      <3>2. [hook EXCEPT !.at = "defer", !.swallow = decision # "passed"] \in Hooks
        BY <1>1, HookGoesOn
      <3>3. [hook EXCEPT !.at = "send", !.swallow = decision # "passed"] \in Hooks
        BY <1>1, HookGoesOn
      <3>4. CASE decision = "deferred"
        BY <1>2, <3>1, <3>2, <3>4
      <3>5. CASE decision # "deferred"
        BY <1>2, <3>1, <3>3, <3>5
      <3> QED
        BY <3>4, <3>5
    <2>2. known' \in Numbers
      BY <1>1, <1>2, EventSeq DEF BackendTyped, Handled
    <2>3. held' \in Seq(Event)
      BY <1>1, TrackTypes DEF TrackKey, BackendTyped
    <2>4. answer' \in Answered \cup {None}
      BY <1>1, <1>2 DEF BackendTyped, Answered
    <2>5. inbox' \in Seq(Told) /\ holdKnown' \in Numbers
      <3>1. CASE decision = "deferred"
        BY <1>2, <3>1, HoldTypes DEF BackendTyped
      <3>2. CASE decision # "deferred"
        BY <1>1, <1>2, <3>2, ListenTypes DEF BackendTyped, holdVars
      <3> QED
        BY <3>1, <3>2
    <2> QED
      BY <2>1, <2>2, <2>3, <2>4, <2>5 DEF TrackKey, BackendTyped
  <1>5. WorkerTyped'
    BY WorkerStays DEF TrackKey, workerState, stepVars, wordVars
  <1> QED
    BY <1>3, <1>4, <1>5

LEMMA DeferKeyTypes == Typed /\ DeferKey => Typed'
  <1> SUFFICES ASSUME Typed, DeferKey PROVE Typed'
    OBVIOUS
  <1> USE DEF Typed
  <1>1. hook.at = "defer" /\ hook.ev \in Event /\ hook \in Hooks
    BY HookHasKey DEF DeferKey, BackendTyped
  <1>2. HelperTyped'
    BY HelperStays DEF DeferKey, helperState, helperVars, userVars, askVars
  <1>3. BackendTyped'
    <2>1. hook' \in Hooks
      BY <1>1, HookGoesOn DEF DeferKey, HookAt
    <2>2. known' \in Numbers
      BY <1>1, EventSeq DEF DeferKey, Handled
    <2>3. answer' \in Answered
      BY <1>1 DEF DeferKey, Answered
    <2>4. inbox' \in Seq(Told)
      BY <1>1, ListenTypes DEF DeferKey, BackendTyped
    <2> QED
      BY <1>1, <2>1, <2>2, <2>3, <2>4 DEF DeferKey, BackendTyped, holdVars
  <1>4. WorkerTyped'
    BY WorkerStays DEF DeferKey, workerState, stepVars, wordVars
  <1> QED
    BY <1>2, <1>3, <1>4

LEMMA HandleForcedTypes == Typed /\ HandleForced => Typed'
  <1> SUFFICES ASSUME Typed, HandleForced PROVE Typed'
    OBVIOUS
  <1> USE DEF Typed
  <1>1. PICK ev \in Event : ev = Head(up).ev
    BY MessageHasKey DEF HandleForced, HelperTyped
  <1>2. PICK kind : kind = IF answer # None /\ answer.ev.seq = ev.seq THEN answer.kind ELSE "passed"
    OBVIOUS
  <1>3. PICK at : at = {i \in DOMAIN held : held[i] = ev}
    OBVIOUS
  <1>4. hook' = [at |-> "send", ev |-> ev, how |-> "forced", swallow |-> FALSE] /\ Handled(ev)
        /\ (answer' = None \/ answer' = answer)
    BY <1>1 DEF HandleForced
  <1>5. \/ /\ at # {} /\ Track(ev, Removed(held, IndexOf(held, ev))) /\ Listen(ev, "passed")
           /\ UNCHANGED deferred
        \/ SettleDeferred(ev) /\ UNCHANGED <<held, inbox>>
        \/ UNCHANGED <<held, inbox, deferred>>
    <2>1. CASE kind = "held" /\ at # {}
      BY <1>1, <1>2, <1>3, <2>1 DEF HandleForced
    <2>2. CASE kind = "deferred"
      BY <1>1, <1>2, <1>3, <2>2 DEF HandleForced
    <2>3. CASE ~(kind = "held" /\ at # {}) /\ kind # "deferred"
      BY <1>1, <1>2, <1>3, <2>3 DEF HandleForced, actionVars
    <2> QED
      BY <2>1, <2>2, <2>3
  <1>6. HelperTyped'
    <2>1. up' \in Seq(Message)
      BY TailTypes DEF HandleForced, HelperTyped
    <2> QED
      BY <2>1 DEF HandleForced, HelperTyped, userVars, askVars
  <1>7. BackendTyped'
    <2>1. hook' \in Hooks
      BY <1>4 DEF Hooks
    <2>2. known' \in Numbers
      BY <1>4, EventSeq DEF Handled
    <2>3. held' \in Seq(Event) /\ inbox' \in Seq(Told) /\ deferred' \in Event \cup {None}
      <3>1. CASE at # {} /\ Track(ev, Removed(held, IndexOf(held, ev))) /\ Listen(ev, "passed")
                 /\ UNCHANGED deferred
        <4>1. IndexOf(held, ev) \in DOMAIN held
          BY <1>3, <3>1 DEF IndexOf
        <4>2. Removed(held, IndexOf(held, ev)) \in Seq(Event)
          BY <4>1, RemovedTypes DEF BackendTyped
        <4> QED
          BY <3>1, <4>2, TrackTypes, ListenTypes DEF BackendTyped
      <3>2. CASE SettleDeferred(ev) /\ UNCHANGED <<held, inbox>>
        BY <3>2 DEF SettleDeferred, BackendTyped, actionVars
      <3>3. CASE UNCHANGED <<held, inbox, deferred>>
        BY <3>3 DEF BackendTyped
      <3> QED
        BY <1>5, <3>1, <3>2, <3>3
    <2> QED
      BY <1>4, <2>1, <2>2, <2>3 DEF HandleForced, BackendTyped
  <1>8. WorkerTyped'
    BY WorkerStays DEF HandleForced, workerState, stepVars, wordVars
  <1> QED
    BY <1>6, <1>7, <1>8

LEMMA AnswerTypes == Typed /\ Answer => Typed'
  <1> SUFFICES ASSUME Typed, Answer PROVE Typed'
    OBVIOUS
  <1> USE DEF Typed
  <1>1. hook.ev \in Event /\ hook.swallow \in BOOLEAN
    BY HookHasKey DEF Answer, BackendTyped
  <1>2. PICK c : c = IF hook.how = "ask" THEN [cmd |-> "verdict", seq |-> hook.ev.seq, swallow |-> hook.swallow]
                                         ELSE [cmd |-> "ack", seq |-> hook.ev.seq]
    OBVIOUS
  <1>3. c \in Commands
    BY <1>1, <1>2, EventSeq DEF Commands
  <1>4. (down' = Append(down, c) /\ up' = up) \/ (up' = <<>> /\ down' = down)
    BY <1>2 DEF Answer
  <1>5. HelperTyped'
    <2>1. up' \in Seq(Message)
      <3>1. up \in Seq(Message)
        BY DEF HelperTyped
      <3>2. <<>> \in Seq(Message)
        OBVIOUS
      <3> QED
        BY <1>4, <3>1, <3>2
    <2> QED
      BY <2>1 DEF Answer, HelperTyped, userVars, askVars
  <1>6. BackendTyped'
    <2>1. down' \in Seq(Commands)
      <3>1. down \in Seq(Commands)
        BY DEF BackendTyped
      <3>2. Append(down, c) \in Seq(Commands)
        BY <1>3, <3>1, AppendTypes
      <3> QED
        BY <1>4, <3>1, <3>2
    <2>2. hook' \in Hooks
      BY DEF Answer, Hooks
    <2> QED
      BY <2>1, <2>2 DEF Answer, BackendTyped, keyVars, holdVars, actionVars, workerVars
  <1>7. WorkerTyped'
    BY WorkerStays DEF Answer, workerState, workerVars, stepVars, wordVars
  <1> QED
    BY <1>5, <1>6, <1>7

LEMMA DispatchesTypes == Typed /\ Dispatches => Typed'
  BY HandleResetTypes, HandleKeyTypes, TrackKeyTypes, DeferKeyTypes, HandleForcedTypes, AnswerTypes DEF Dispatches

-----------------------------------------------------------------------------
(* The worker *)

\* A step of the worker leaves the helper as it is, but for the answer to a batch.
helperRest == <<pending, queue, lastSeq, up, passed, text, presses, alive, grabbed>>

LEMMA QuietStays ==
  ASSUME HelperTyped, BackendTyped, UNCHANGED quiet, inbox' \in Seq(Told)
  PROVE  HelperTyped' /\ BackendTyped'
  <1>1. HelperTyped'
    BY HelperStays DEF quiet, helperState, helperVars, userVars, askVars
  <1>2. BackendTyped'
    BY DEF quiet, BackendTyped, backendVars, keyVars, holdVars, actionVars
  <1> QED
    BY <1>1, <1>2

LEMMA EventsTypes == Typed /\ HandleEvent => Typed'
  <1> SUFFICES ASSUME Typed, HandleEvent PROVE Typed'
    OBVIOUS
  <1> USE DEF Typed
  <1>1. inbox' \in Seq(Told) /\ Head(inbox) \in Told
    BY TailTypes DEF HandleEvent, BackendTyped
  <1>2. HelperTyped' /\ BackendTyped'
    BY <1>1, QuietStays DEF HandleEvent
  <1>3. pc' \in {"ready", "cancel", "deliver", "hold"} /\ UNCHANGED <<releases, late>>
        /\ next' \in {"ready", "landed"}
    BY DEF HandleEvent, Ready, ClearWord, MaybeExecute, Call, WorkerTyped
  <1>4. PICK ev \in Told : ev = Head(inbox)
    BY <1>1
  <1>5. \/ strokes' = <<>> \/ strokes' = strokes
        \/ (ev.key # Pointer /\ strokes' = Append(strokes, ev))
    <2>1. CASE ev.key = Pointer
      BY <1>4, <2>1 DEF HandleEvent, ClearWord
    <2>2. CASE ev.key # Pointer /\ ~ev.down
      BY <1>4, <2>2 DEF HandleEvent, MaybeExecute
    <2>3. CASE ev.key # Pointer /\ ev.down
      BY <1>4, <2>3 DEF HandleEvent, ClearWord
    <2> QED
      BY <2>1, <2>2, <2>3
  <1>6. strokes' \in Seq(Struck)
    <2>1. CASE ev.key # Pointer /\ strokes' = Append(strokes, ev)
      <3>1. ev \in Struck
        BY <2>1 DEF Told, Struck
      <3> QED
        BY <2>1, <3>1, AppendTypes DEF WorkerTyped
    <2>2. strokes \in Seq(Struck) /\ <<>> \in Seq(Struck)
      BY DEF WorkerTyped
    <2> QED
      BY <1>5, <2>1, <2>2
  <1>7. plan' \in Seq(Struck)
    <2>1. plan' = plan \/ plan' = strokes
      BY DEF HandleEvent, MaybeExecute
    <2> QED
      BY <2>1 DEF WorkerTyped
  <1>8. WorkerTyped'
    BY <1>3, <1>6, <1>7 DEF WorkerTyped, HandleEvent, Ready
  <1> QED
    BY <1>2, <1>8

LEMMA TimersTypes == Typed /\ (PauseCorrect \/ ExpireAction) => Typed'
  <1> SUFFICES ASSUME Typed, PauseCorrect \/ ExpireAction PROVE Typed'
    OBVIOUS
  <1> USE DEF Typed
  <1>1. UNCHANGED quiet /\ UNCHANGED <<inbox, releases, late>>
    BY DEF PauseCorrect, ExpireAction
  <1>2. HelperTyped' /\ BackendTyped'
    BY <1>1, QuietStays DEF BackendTyped
  <1>3. pc = "ready" /\ pc' \in {"ready", "cancel", "deliver", "hold"} /\ next' \in {"ready", "landed"}
    BY DEF PauseCorrect, ExpireAction, Ready, ClearWord, MaybeExecute, Call, WorkerTyped
  <1>4. (strokes' = <<>> \/ strokes' = strokes) /\ (plan' = plan \/ plan' = strokes)
    BY DEF PauseCorrect, ExpireAction, ClearWord, MaybeExecute
  <1>5. strokes' \in Seq(Struck) /\ plan' \in Seq(Struck)
    <2>1. strokes \in Seq(Struck) /\ plan \in Seq(Struck) /\ <<>> \in Seq(Struck)
      BY DEF WorkerTyped
    <2> QED
      BY <1>4, <2>1
  <1>6. WorkerTyped'
    BY <1>1, <1>3, <1>5 DEF WorkerTyped
  <1> QED
    BY <1>2, <1>6

\* A batch is added to the commands, or fails at once.
LEMMA PostTypes ==
  ASSUME down \in Seq(Commands), NEW batch \in Batches, NEW label, Post(batch, label)
  PROVE  down' \in Seq(Commands) /\ pc' = label
  <1>1. batch \in Commands
    BY DEF Commands
  <1>2. Append(down, batch) \in Seq(Commands)
    BY <1>1, AppendTypes
  <1> QED
    BY <1>2 DEF Post, Worker

LEMMA TapsTypes ==
  ASSUME NEW s, NEW S, s \in Seq(S), \A e \in S : e.n \in Nat /\ e.key \in Keys
  PROVE  Taps(s) \in Seq(Event)
  <1>1. Len(s) \in Nat /\ 2 * Len(s) \in Nat
    OBVIOUS
  <1>2. ASSUME NEW i \in 1..2 * Len(s) PROVE Taps(s)[i] \in Event
    <2>1. (i + 1) \div 2 \in 1..Len(s)
      BY <1>1
    <2>2. PICK e \in S : e = s[(i + 1) \div 2]
      BY <2>1
    <2>3. PICK isDown \in BOOLEAN : isDown = (i % 2 = 1)
      OBVIOUS
    <2>4. Taps(s)[i] = Tapped(e, isDown)
      BY <2>2, <2>3 DEF Taps
    <2>5. Tapped(e, isDown) \in Event
      BY <2>2, HelperAssumption DEF Tapped, Event
    <2> QED
      BY <2>4, <2>5
  <1> QED
    BY <1>1, <1>2, FunctionIsSeq DEF Taps

LEMMA FollowKeysTypes ==
  ASSUME held \in Seq(Event), NEW ks, FollowKeys(ks)
  PROVE  held' \in Seq(Event)
  <1>1. PICK S : S = {k \in ks \cap prior : PressHeld(k)}
    OBVIOUS
  <1>2. PICK o \in Orders(S) : held' = held \o [i \in DOMAIN o |-> ReleaseOf(o[i])]
    BY <1>1 DEF FollowKeys
  <1>3. S \subseteq Keys
    <2>1. \A i \in DOMAIN held : held[i] \in Event
      OBVIOUS
    <2>2. \A i \in DOMAIN held : held[i].key \in Keys
      BY <2>1 DEF Event
    <2> QED
      BY <1>1, <2>2 DEF PressHeld, PressIn
  <1>4. Cardinality(S) \in Nat
    <2>1. IsFiniteSet(S)
      BY <1>3, HelperAssumption, FS_Subset
    <2> QED
      BY <2>1, FS_CardinalityType
  <1>5. o \in [1..Cardinality(S) -> S]
    BY <1>2 DEF Orders
  <1>6. PICK r : r = [i \in DOMAIN o |-> ReleaseOf(o[i])]
    OBVIOUS
  <1>7. r = [i \in 1..Cardinality(S) |-> ReleaseOf(o[i])]
    BY <1>5, <1>6
  <1>8. \A i \in 1..Cardinality(S) : r[i] \in Event
    <2>1. \A i \in 1..Cardinality(S) : o[i] \in Keys
      BY <1>3, <1>5
    <2> QED
      BY <1>7, <2>1, HelperAssumption DEF ReleaseOf, Event
  <1>9. r \in Seq(Event)
    BY <1>4, <1>7, <1>8, FunctionIsSeq
  <1> QED
    BY <1>2, <1>6, <1>9

LEMMA HoldInputTypes == Typed /\ HoldInput => Typed'
  <1> SUFFICES ASSUME Typed, HoldInput PROVE Typed'
    OBVIOUS
  <1> USE DEF Typed
  <1>1. HelperTyped'
    BY HelperStays DEF HoldInput, helperState, helperVars, userVars, askVars
  <1>2. BackendTyped'
    <2>1. holdKnown' \in Numbers
      BY HoldTypes DEF HoldInput, BackendTyped
    <2> QED
      BY <2>1 DEF HoldInput, BackendTyped, keyVars, actionVars
  <1>3. WorkerTyped'
    BY DEF HoldInput, WorkerTyped, Worker, wordVars
  <1> QED
    BY <1>1, <1>2, <1>3

\* What is taken along or left in the engine's queue is what stood in it.
LEMMA CollectLateKeeps ==
  ASSUME inbox \in Seq(Told), CollectLate, pc' = "check"
  PROVE  /\ late' \in Seq(Struck) /\ inbox' \in Seq(Told)
         /\ \A i \in DOMAIN inbox' : \E j \in DOMAIN inbox : inbox'[i] = inbox[j]
         /\ \A i \in DOMAIN inbox : inbox[i].down => inbox[i].key \in Letters
  <1>1. ~ \E i \in DOMAIN inbox : inbox[i].down /\ inbox[i].key \notin Letters
    BY DEF CollectLate, Releases, Worker
  <1>2. PICK o \in InOrder(Downs(inbox)) : late' = Taken(inbox, o)
    BY <1>1 DEF CollectLate
  <1>3. PICK p \in InOrder(DOMAIN inbox \ Downs(inbox)) : inbox' = Taken(inbox, p)
    BY <1>1 DEF CollectLate
  <1>4. Downs(inbox) \in SUBSET DOMAIN inbox /\ DOMAIN inbox \ Downs(inbox) \in SUBSET DOMAIN inbox
    BY DEF Downs
  <1>5. inbox' \in Seq(Told) /\ \A i \in DOMAIN inbox' : \E j \in DOMAIN inbox : inbox'[i] = inbox[j]
    BY <1>3, <1>4, TakenTypes
  <1>6. late' \in Seq(Told) /\ \A i \in DOMAIN late' : \E j \in Downs(inbox) : late'[i] = inbox[j]
    BY <1>2, <1>4, TakenTypes
  <1>7. ASSUME NEW i \in DOMAIN late' PROVE late'[i] \in Struck
    <2>1. PICK j \in Downs(inbox) : late'[i] = inbox[j]
      BY <1>6
    <2>2. j \in DOMAIN inbox /\ inbox[j].down /\ inbox[j] \in Told
      BY DEF Downs
    <2>3. inbox[j].key \in Keys
      BY <1>1, <2>2 DEF Letters
    <2> QED
      BY <2>1, <2>2, <2>3 DEF Told, Struck
  <1>8. late' \in Seq(Struck)
    <2>1. Len(late') \in Nat /\ DOMAIN late' = 1..Len(late') /\ late' = [i \in 1..Len(late') |-> late'[i]]
      BY <1>6
    <2> QED
      BY <1>7, <2>1, FunctionIsSeq
  <1> QED
    BY <1>1, <1>5, <1>8

LEMMA CollectLateTypes == Typed /\ CollectLate => Typed'
  <1> SUFFICES ASSUME Typed, CollectLate PROVE Typed'
    OBVIOUS
  <1> USE DEF Typed
  <1>1. HelperTyped'
    BY HelperStays DEF CollectLate, helperState, helperVars, userVars, askVars
  <1>2. pc = "collect" /\ UNCHANGED <<strokes, plan, next>>
    BY DEF CollectLate
  <1>3. CASE pc' = "check"
    <2>1. late' \in Seq(Struck) /\ inbox' \in Seq(Told)
      BY <1>3, CollectLateKeeps DEF BackendTyped
    <2>2. BackendTyped'
      BY <2>1 DEF CollectLate, BackendTyped, backendVars, keyVars, holdVars, actionVars
    <2>3. releases' = releases
      BY <1>3 DEF CollectLate, Releases, Worker
    <2> QED
      BY <1>1, <1>2, <1>3, <2>1, <2>2, <2>3 DEF WorkerTyped
  <1>4. CASE pc' # "check"
    <2>1. pc' = "release" /\ releases' = 1 /\ UNCHANGED <<inbox, late>>
      BY <1>4 DEF CollectLate, Releases, Worker
    <2>2. BackendTyped'
      BY <2>1, BackendStays DEF CollectLate, backendState, backendVars, keyVars, holdVars, actionVars
    <2> QED
      BY <1>1, <1>2, <2>1, <2>2 DEF WorkerTyped
  <1> QED
    BY <1>3, <1>4

LEMMA CheckHoldTypes == Typed /\ CheckHold => Typed'
  <1> SUFFICES ASSUME Typed, CheckHold PROVE Typed'
    OBVIOUS
  <1> USE DEF Typed
  <1>1. HelperTyped'
    BY HelperStays DEF CheckHold, helperState, helperVars, userVars, askVars
  <1>2. BackendTyped'
    BY BackendStays DEF CheckHold, backendState, backendVars, keyVars, holdVars, actionVars
  <1>3. WorkerTyped'
    <2>1. CASE broken
      BY <2>1 DEF CheckHold, WorkerTyped, Releases, Worker
    <2>2. CASE ~broken
      <3>1. item' \in [known : Numbers]
        BY <2>2 DEF CheckHold, BackendTyped
      <3> QED
        BY <2>2, <3>1 DEF CheckHold, WorkerTyped, Worker
    <2> QED
      BY <2>1, <2>2
  <1> QED
    BY <1>1, <1>2, <1>3

LEMMA SendWordTypes == Typed /\ SendWord => Typed'
  <1> SUFFICES ASSUME Typed, SendWord PROVE Typed'
    OBVIOUS
  <1> USE DEF Typed
  <1>1. PICK word : word = NumbersIn(plan \o late)
    OBVIOUS
  <1>2. word \in Seq(Nat)
    BY <1>1, WordTypes DEF SendWord, WorkerTyped
  <1>3. PICK taps : taps = Taps(plan)
    OBVIOUS
  <1>4. taps \in Seq(Event)
    <2>1. \A e \in Struck : e.n \in Nat /\ e.key \in Keys
      BY DEF Struck
    <2> QED
      BY <1>3, <2>1, TapsTypes DEF WorkerTyped
  <1>5. PICK b : b = Batch("text", item.known, word, taps)
    OBVIOUS
  <1>6. b \in Batches
    BY <1>2, <1>4, <1>5 DEF Batch, Batches, SendWord, WorkerTyped
  <1>7. Post(b, "sent")
    BY <1>1, <1>3, <1>5 DEF SendWord
  <1>8. down' \in Seq(Commands) /\ pc' = "sent"
    BY <1>6, <1>7, PostTypes DEF BackendTyped
  <1>9. HelperTyped'
    BY HelperStays DEF SendWord, helperState, posting, userVars, askVars
  <1>10. BackendTyped'
    BY <1>8 DEF SendWord, BackendTyped, posting, keyVars, holdVars, actionVars
  <1>11. WorkerTyped'
    BY <1>8 DEF SendWord, WorkerTyped, wordVars
  <1> QED
    BY <1>9, <1>10, <1>11

LEMMA WordSentTypes == Typed /\ WordSent => Typed'
  <1> SUFFICES ASSUME Typed, WordSent PROVE Typed'
    OBVIOUS
  <1> USE DEF Typed
  <1>1. HelperTyped'
    BY HelperStays DEF WordSent, helperState, userVars, askVars
  <1>2. BackendTyped'
    <2>1. held' \in Seq(Event)
      BY FollowKeysTypes DEF WordSent, BackendTyped
    <2> QED
      BY <2>1 DEF WordSent, BackendTyped, holdVars
  <1>3. WorkerTyped'
    <2>1. Taps(late) \in Seq(Event)
      <3>1. \A e \in Struck : e.n \in Nat /\ e.key \in Keys
        BY DEF Struck
      <3> QED
        BY <3>1, TapsTypes DEF WordSent, WorkerTyped
    <2>2. late' \in Seq(Event)
      <3>1. <<>> \in Seq(Event)
        OBVIOUS
      <3> QED
        BY <2>1, <3>1 DEF WordSent
    <2>3. pc' \in {"release", "retype"} /\ releases' \in 0..3 /\ UNCHANGED <<strokes, plan, next>>
      BY DEF WordSent, WorkerTyped, Releases, Worker
    <2> QED
      BY <2>2, <2>3 DEF WorkerTyped
  <1> QED
    BY <1>1, <1>2, <1>3

LEMMA RetypeTypes == Typed /\ Retype => Typed'
  <1> SUFFICES ASSUME Typed, Retype PROVE Typed'
    OBVIOUS
  <1> USE DEF Typed
  <1>1. HelperTyped' /\ BackendTyped'
    BY QuietStays DEF Retype, BackendTyped
  <1>2. WorkerTyped'
    <2>1. late \in Seq(Event) /\ UNCHANGED <<strokes, plan, next>>
      BY DEF Retype, WorkerTyped
    <2>2. CASE late = <<>>
      BY <2>1, <2>2 DEF Retype, WorkerTyped, Releases, Worker
    <2>3. CASE late # <<>>
      <3>1. Head(late) \in Event /\ Tail(late) \in Seq(Event)
        BY <2>1, <2>3, TailTypes
      <3> QED
        BY <2>1, <2>3, <3>1 DEF Retype, WorkerTyped, Worker
    <2> QED
      BY <2>2, <2>3
  <1> QED
    BY <1>1, <1>2

LEMMA LandedTypes == Typed /\ Landed => Typed'
  <1> SUFFICES ASSUME Typed, Landed PROVE Typed'
    OBVIOUS
  <1> USE DEF Typed
  <1>1. HelperTyped' /\ BackendTyped'
    BY QuietStays DEF Landed, BackendTyped
  <1>2. strokes' \in {<<>>, strokes, plan} /\ plan' = <<>> /\ UNCHANGED <<releases, late>>
    BY DEF Landed
  <1>3. pc = "landed" /\ pc' \in {"deliver", "cancel", "ready"} /\ next' \in {"ready", "landed"}
    BY DEF Landed, Call, Worker, WorkerTyped
  <1>4. strokes' \in Seq(Struck) /\ plan' \in Seq(Struck)
    <2>1. strokes \in Seq(Struck) /\ plan \in Seq(Struck) /\ <<>> \in Seq(Struck)
      BY DEF WorkerTyped
    <2> QED
      BY <1>2, <2>1
  <1> QED
    BY <1>1, <1>2, <1>3, <1>4 DEF WorkerTyped

\* The number of a key that is replayed is the keyboard's no more.
LEMMA TakeHeldTypes ==
  ASSUME held \in Seq(Event), NEW i \in DOMAIN held, TakeHeld(i)
  PROVE  item' \in Event /\ held' \in Seq(Event) /\ pc' = "replay" /\ releases' = releases
  <1>1. held[i] \in Event
    OBVIOUS
  <1>2. 0 \in Numbers
    BY HelperAssumption DEF Numbers
  <1> QED
    BY <1>1, <1>2, NumberedTypes, RemovedTypes DEF TakeHeld, Worker

LEMMA ReleaseTypes == Typed /\ Release => Typed'
  <1> SUFFICES ASSUME Typed, Release PROVE Typed'
    OBVIOUS
  <1> USE DEF Typed
  <1>1. HelperTyped'
    BY HelperStays DEF Release, helperState, helperVars, userVars, askVars
  <1>2. UNCHANGED <<hook, known, holdKnown, deferred, answer, down, inbox, next, strokes, plan, late>>
        /\ pc \in {"release", "loop"}
    BY DEF Release, actionVars, wordVars
  <1>3. held \in Seq(Event)
    BY DEF BackendTyped
  <1>4. \/ pc' = next /\ releases' = 0 /\ UNCHANGED <<item, held>>
        \/ pc' = "finally" /\ UNCHANGED <<item, held, releases>>
        \/ \E i \in DOMAIN held : TakeHeld(i)
    <2>1. CASE pc = "loop" /\ deferred # None /\ PriorReleases # {}
      <3>1. PriorReleases \subseteq DOMAIN held /\ PriorReleases \subseteq Nat
        BY <1>3 DEF PriorReleases
      <3>2. Least(PriorReleases) \in DOMAIN held
        BY <2>1, <3>1, LeastExists
      <3> QED
        BY <2>1, <3>2 DEF Release
    <2>2. CASE pc \in {"release", "loop"} /\ deferred = None /\ held # <<>>
      <3>1. 1 \in DOMAIN held
        BY <1>3, <2>2
      <3> QED
        BY <2>2, <3>1 DEF Release
    <2>3. CASE ~(pc = "loop" /\ deferred # None /\ PriorReleases # {})
               /\ ~(pc \in {"release", "loop"} /\ deferred = None /\ held # <<>>)
      BY <2>3 DEF Release, Worker
    <2> QED
      BY <2>1, <2>2, <2>3
  <1>5. held' \in Seq(Event)
    BY <1>3, <1>4, TakeHeldTypes
  <1>6. BackendTyped'
    BY <1>2, <1>5 DEF BackendTyped
  <1>7. WorkerTyped'
    <2>1. CASE pc' = next /\ releases' = 0 /\ UNCHANGED <<item, held>>
      BY <1>2, <2>1 DEF WorkerTyped
    <2>2. CASE pc' = "finally" /\ UNCHANGED <<item, held, releases>>
      BY <1>2, <2>2 DEF WorkerTyped
    <2>3. ASSUME NEW i \in DOMAIN held, TakeHeld(i) PROVE WorkerTyped'
      BY <1>2, <1>3, <2>3, TakeHeldTypes DEF WorkerTyped
    <2> QED
      BY <1>4, <2>1, <2>2, <2>3
  <1> QED
    BY <1>1, <1>6, <1>7

LEMMA ReplayTypes == Typed /\ Replay => Typed'
  <1> SUFFICES ASSUME Typed, Replay PROVE Typed'
    OBVIOUS
  <1> USE DEF Typed
  <1>1. item \in Event /\ pc = "replay" /\ late \in Seq(Event)
    BY DEF Replay, WorkerTyped
  <1>2. PICK decision :
          /\ Listen(item, decision)
          /\ IF decision = "deferred"
             THEN Hold(pressed') /\ deferred' = item
             ELSE UNCHANGED <<holdVars, deferred>>
          /\ IF decision = "passed"
             THEN Post(Batch("none", 0, <<>>, <<item>>), "posted")
             ELSE Worker(IF releases = 0 THEN "retype" ELSE "loop") /\ UNCHANGED <<down, reply>>
    BY DEF Replay
  <1>3. HelperTyped'
    BY HelperStays DEF Replay, helperState, userVars, askVars
  <1>4. down' \in Seq(Commands) /\ pc' \in {"posted", "retype", "loop"}
    <2>1. CASE decision = "passed"
      <3>1. PICK items : items = <<item>>
        OBVIOUS
      <3>2. items \in Seq(Event)
        BY <1>1, <3>1
      <3>3. PICK b : b = Batch("none", 0, <<>>, items)
        OBVIOUS
      <3>4. b \in Batches
        BY <3>2, <3>3, HelperAssumption DEF Batch, Batches, Numbers
      <3>5. Post(b, "posted")
        BY <1>2, <2>1, <3>1, <3>3
      <3> QED
        BY <3>4, <3>5, PostTypes DEF BackendTyped
    <2>2. CASE decision # "passed"
      BY <1>2, <2>2 DEF BackendTyped, Worker
    <2> QED
      BY <2>1, <2>2
  <1>5. BackendTyped'
    <2>1. inbox' \in Seq(Told)
      BY <1>1, <1>2, ListenTypes DEF BackendTyped
    <2>2. held' \in Seq(Event)
      BY <1>1, TrackTypes DEF Replay, BackendTyped
    <2>3. holdKnown' \in Numbers /\ deferred' \in Event \cup {None}
      <3>1. CASE decision = "deferred"
        BY <1>1, <1>2, <3>1, HoldTypes DEF BackendTyped
      <3>2. CASE decision # "deferred"
        BY <1>2, <3>2 DEF BackendTyped, holdVars
      <3> QED
        BY <3>1, <3>2
    <2> QED
      BY <1>4, <2>1, <2>2, <2>3 DEF Replay, BackendTyped
  <1>6. WorkerTyped'
    BY <1>1, <1>4 DEF Replay, WorkerTyped, wordVars
  <1> QED
    BY <1>3, <1>5, <1>6

LEMMA PostedTypes == Typed /\ Posted => Typed'
  <1> SUFFICES ASSUME Typed, Posted PROVE Typed'
    OBVIOUS
  <1> USE DEF Typed
  <1>1. HelperTyped'
    BY HelperStays DEF Posted, helperState, userVars, askVars
  <1>2. BackendTyped'
    BY BackendStays DEF Posted, backendState, backendVars, keyVars, holdVars, actionVars
  <1>3. pc' \in {"retype", "loop", "release", "finally"} /\ releases' \in 0..3 /\ late' \in {late, <<>>}
        /\ UNCHANGED <<next, strokes, plan>>
    BY DEF Posted, WorkerTyped, Releases, Worker
  <1>4. late' \in Seq(Event)
    <2>1. late \in Seq(Event) /\ <<>> \in Seq(Event)
      BY DEF Posted, WorkerTyped
    <2> QED
      BY <1>3, <2>1
  <1> QED
    BY <1>1, <1>2, <1>3, <1>4 DEF WorkerTyped

LEMMA ReleaseEndsTypes == Typed /\ ReleaseEnds => Typed'
  <1> SUFFICES ASSUME Typed, ReleaseEnds PROVE Typed'
    OBVIOUS
  <1> USE DEF Typed
  <1>1. HelperTyped'
    BY HelperStays DEF ReleaseEnds, helperState, helperVars, userVars, askVars
  <1>2. BackendTyped'
    BY BackendStays DEF ReleaseEnds, backendState, keyVars, actionVars
  <1>3. \/ pc' = "release" /\ releases' = releases - 1 /\ releases > 1
        \/ pc' = next /\ releases' = 0
    BY DEF ReleaseEnds, EndRelease, Again, Releases, Worker
  <1>4. pc' \in {"release", "ready", "landed"} /\ releases' \in 0..3
    BY <1>3 DEF WorkerTyped
  <1> QED
    BY <1>1, <1>2, <1>4 DEF ReleaseEnds, WorkerTyped, wordVars

LEMMA ActionGoneTypes == Typed /\ (ActionGone \/ CancelAction) => Typed'
  <1> SUFFICES ASSUME Typed, ActionGone \/ CancelAction PROVE Typed'
    OBVIOUS
  <1> USE DEF Typed
  <1>1. HelperTyped'
    BY HelperStays DEF ActionGone, CancelAction, helperState, helperVars, userVars, askVars
  <1>2. BackendTyped'
    BY DEF ActionGone, CancelAction, BackendTyped, keyVars, holdVars
  <1>3. pc \in {"deliver", "cancel"} /\ pc' \in {"release", "ready", "landed"} /\ releases' \in 0..3
        /\ UNCHANGED <<next, strokes, plan, late>>
    BY DEF ActionGone, CancelAction, WorkerTyped, Releases, Worker, wordVars
  <1> QED
    BY <1>1, <1>2, <1>3 DEF WorkerTyped

LEMMA SendActionTypes == Typed /\ SendAction => Typed'
  <1> SUFFICES ASSUME Typed, SendAction PROVE Typed'
    OBVIOUS
  <1> USE DEF Typed
  <1>1. deferred \in Event
    BY DEF SendAction, BackendTyped
  <1>2. PICK taps : taps = Taps(<<deferred>>)
    OBVIOUS
  <1>3. taps \in Seq(Event)
    <2>1. \A e \in Event : e.n \in Nat /\ e.key \in Keys
      BY DEF Event
    <2>2. <<deferred>> \in Seq(Event)
      BY <1>1
    <2> QED
      BY <1>2, <2>1, <2>2, TapsTypes
  <1>4. PICK check \in {"none", "action"} : check = IF deferred.seq = 0 THEN "none" ELSE "action"
    OBVIOUS
  <1>5. PICK b : b = Batch(check, deferred.seq, <<>>, taps)
    OBVIOUS
  <1>6. b \in Batches
    BY <1>1, <1>3, <1>5, EventSeq DEF Batch, Batches
  <1>7. Post(b, "acting")
    BY <1>2, <1>4, <1>5 DEF SendAction
  <1>8. down' \in Seq(Commands) /\ pc' = "acting"
    BY <1>6, <1>7, PostTypes DEF BackendTyped
  <1>9. HelperTyped'
    BY HelperStays DEF SendAction, helperState, posting, userVars, askVars
  <1>10. BackendTyped'
    BY <1>8 DEF SendAction, BackendTyped, posting, keyVars, holdVars, actionVars
  <1>11. WorkerTyped'
    BY <1>1, <1>8 DEF SendAction, WorkerTyped, wordVars
  <1> QED
    BY <1>9, <1>10, <1>11

LEMMA ActionSentTypes == Typed /\ ActionSent => Typed'
  <1> SUFFICES ASSUME Typed, ActionSent PROVE Typed'
    OBVIOUS
  <1> USE DEF Typed
  <1>1. HelperTyped'
    BY HelperStays DEF ActionSent, helperState, userVars, askVars
  <1>2. BackendTyped'
    <2>1. held' \in Seq(Event)
      BY FollowKeysTypes DEF ActionSent, BackendTyped
    <2> QED
      BY <2>1 DEF ActionSent, BackendTyped, holdVars
  <1>3. WorkerTyped'
    BY DEF ActionSent, WorkerTyped, Worker, wordVars
  <1> QED
    BY <1>1, <1>2, <1>3

LEMMA ActionEndsTypes == Typed /\ ActionEnds => Typed'
  <1> SUFFICES ASSUME Typed, ActionEnds PROVE Typed'
    OBVIOUS
  <1> USE DEF Typed
  <1>1. HelperTyped'
    BY HelperStays DEF ActionEnds, helperState, helperVars, userVars, askVars
  <1>2. BackendTyped'
    BY DEF ActionEnds, BackendTyped, keyVars, holdVars
  <1>3. WorkerTyped'
    BY DEF ActionEnds, WorkerTyped, Releases, Worker, wordVars
  <1> QED
    BY <1>1, <1>2, <1>3

LEMMA WorkerStepTypes == Typed /\ WorkerStep => Typed'
  BY EventsTypes, HoldInputTypes, CollectLateTypes, CheckHoldTypes, SendWordTypes, WordSentTypes, RetypeTypes,
     LandedTypes, ReleaseTypes, ReplayTypes, PostedTypes, ReleaseEndsTypes, ActionGoneTypes, SendActionTypes,
     ActionSentTypes, ActionEndsTypes DEF WorkerStep

-----------------------------------------------------------------------------
(* The helper's steps, and what may go wrong *)

LEMMA ParentStays ==
  ASSUME BackendTyped, WorkerTyped, UNCHANGED parentVars, down' \in Seq(Commands)
  PROVE  BackendTyped' /\ WorkerTyped'
  <1>1. BackendTyped'
    BY DEF parentVars, BackendTyped, keyVars, holdVars, actionVars, workerVars
  <1>2. WorkerTyped'
    BY WorkerStays DEF parentVars, workerVars, stepVars, wordVars, workerState
  <1> QED
    BY <1>1, <1>2

\* What a command does, by its kind.
LEMMA CommandCases ==
  ASSUME BackendTyped, HandleCommand
  PROVE  /\ Head(down) \in Commands /\ down # <<>>
         /\ \/ \E seq, swallow : swallow \in BOOLEAN /\ Head(down).cmd = "verdict" /\ Verdict(seq, swallow)
            \/ \E seq : Head(down).cmd = "ack" /\ SeqAck(seq)
            \/ \E on \in BOOLEAN : Head(down).cmd = "grab" /\ SetGrab(on)
            \/ Head(down) \in Batches /\ EmitBatch(Head(down))
  <1>1. PICK c \in Commands : c = Head(down)
    BY TailTypes DEF BackendTyped, HandleCommand
  <1>2. down # <<>>
    BY DEF HandleCommand
  <1>3. CASE c.cmd = "verdict"
    BY <1>1, <1>2, <1>3 DEF HandleCommand, Commands, Batches
  <1>4. CASE c.cmd = "ack"
    BY <1>1, <1>2, <1>4 DEF HandleCommand
  <1>5. CASE c.cmd = "grab"
    <2>1. c.on \in BOOLEAN
      BY <1>5 DEF Commands, Batches
    <2> QED
      BY <1>1, <1>2, <1>5, <2>1 DEF HandleCommand
  <1>6. CASE c.cmd \notin {"verdict", "ack", "grab"}
    <2>1. c \in Batches
      BY <1>6 DEF Commands
    <2>2. EmitBatch(c)
      BY <1>1, <1>6 DEF HandleCommand
    <2> QED
      BY <1>1, <1>2, <2>1, <2>2
  <1> QED
    BY <1>3, <1>4, <1>5, <1>6

LEMMA HandleCommandTypes == Typed /\ HandleCommand => Typed'
  <1> SUFFICES ASSUME Typed, HandleCommand PROVE Typed'
    OBVIOUS
  <1> USE DEF Typed
  <1>1. HelperTyped'
    <2>1. ASSUME NEW seq, SeqAck(seq) PROVE HelperTyped'
      BY <2>1 DEF SeqAck, HelperTyped, userVars
    <2> QED
      BY <2>1, CommandCases, VerdictTypes, SetGrabTypes, EmitBatchTypes
  <1>2. down' \in Seq(Commands)
    BY TailTypes DEF HandleCommand, BackendTyped
  <1> QED
    BY <1>1, <1>2, ParentStays DEF HandleCommand

LEMMA TroubleTypes ==
  Typed /\ (TimeRunsOut \/ HelperDies \/ \E on \in BOOLEAN : LockScreen(on)) => Typed'
  <1> SUFFICES ASSUME Typed, TimeRunsOut \/ HelperDies \/ \E on \in BOOLEAN : LockScreen(on) PROVE Typed'
    OBVIOUS
  <1> USE DEF Typed
  <1>1. CASE TimeRunsOut
    BY <1>1, ExpireTypes, ParentStays DEF TimeRunsOut, BackendTyped
  <1>2. CASE HelperDies
    <2>1. HelperTyped'
      <3>1. 1 \in Numbers
        BY HelperAssumption DEF Numbers
      <3>2. pending' = None /\ queue' = <<>> /\ lastSeq' = 1 /\ passed' = {} /\ UNCHANGED <<up, text, presses>>
        BY <1>2 DEF HelperDies, Die, Fresh, userVars
      <3> QED
        BY <3>1, <3>2 DEF HelperTyped
    <2>2. down' \in Seq(Commands)
      <3>1. <<>> \in Seq(Commands)
        OBVIOUS
      <3> QED
        BY <1>2, <3>1 DEF HelperDies
    <2> QED
      BY <1>2, <2>1, <2>2, ParentStays DEF HelperDies
  <1>3. ASSUME NEW on \in BOOLEAN, LockScreen(on) PROVE Typed'
    <2>1. PICK c : c = [cmd |-> "grab", on |-> on]
      OBVIOUS
    <2>2. c \in Commands
      BY <2>1 DEF Commands
    <2>3. down' \in Seq(Commands)
      <3>1. Append(down, c) \in Seq(Commands)
        BY <2>2, AppendTypes DEF BackendTyped
      <3> QED
        BY <1>3, <2>1, <3>1 DEF LockScreen
    <2>4. HelperTyped'
      BY <1>3, HelperStays DEF LockScreen, helperState, helperVars, userVars, askVars
    <2> QED
      BY <1>3, <2>3, <2>4, ParentStays DEF LockScreen
  <1> QED
    BY <1>1, <1>2, <1>3

\* The batches on their way when the worker gives up.
GaveUp(c) == IF c.cmd = "batch" THEN [c EXCEPT !.awaited = FALSE] ELSE c

LEMMA GaveUpTypes ==
  ASSUME down \in Seq(Commands), CommandTimesOut
  PROVE  /\ down' \in Seq(Commands)
         /\ \A i \in DOMAIN down' : ~IsAwaited(down'[i])
  <1>1. Len(down) \in Nat /\ DOMAIN down = 1..Len(down) /\ \A i \in 1..Len(down) : down[i] \in Commands
    OBVIOUS
  <1>2. down' = [i \in 1..Len(down) |-> GaveUp(down[i])]
    BY <1>1 DEF CommandTimesOut, GaveUp
  <1>3. ASSUME NEW c \in Commands PROVE GaveUp(c) \in Commands /\ ~IsAwaited(GaveUp(c))
    <2>1. CASE c.cmd = "batch"
      <3>1. c \in Batches
        BY <2>1 DEF Commands
      <3>2. GaveUp(c) = [c EXCEPT !.awaited = FALSE]
        BY <2>1 DEF GaveUp
      <3>3. GaveUp(c) \in Batches /\ GaveUp(c).awaited = FALSE
        BY <3>1, <3>2 DEF Batches
      <3> QED
        BY <3>3 DEF Commands, IsAwaited
    <2>2. CASE c.cmd # "batch"
      BY <2>2 DEF GaveUp, IsAwaited
    <2> QED
      BY <2>1, <2>2
  <1>4. down' \in Seq(Commands) /\ Len(down') = Len(down)
    BY <1>1, <1>2, <1>3, FunctionIsSeq
  <1> QED
    BY <1>1, <1>2, <1>3, <1>4

LEMMA TimedOutTypes == Typed /\ CommandTimesOut => Typed'
  <1> SUFFICES ASSUME Typed, CommandTimesOut PROVE Typed'
    OBVIOUS
  <1> USE DEF Typed
  <1>1. HelperTyped'
    BY HelperStays DEF CommandTimesOut, helperState, userVars, askVars
  <1>2. down' \in Seq(Commands)
    BY GaveUpTypes DEF BackendTyped
  <1>3. BackendTyped'
    BY <1>2 DEF CommandTimesOut, BackendTyped, keyVars, holdVars, actionVars, workerVars
  <1>4. WorkerTyped'
    BY WorkerStays DEF CommandTimesOut, workerVars, stepVars, wordVars, workerState
  <1> QED
    BY <1>1, <1>3, <1>4

LEMMA RestartTypes == Typed /\ Restart => Typed'
  <1> SUFFICES ASSUME Typed, Restart PROVE Typed'
    OBVIOUS
  <1> USE DEF Typed
  <1>1. HelperTyped'
    BY HelperStays DEF Restart, helperState, userVars, askVars
  <1>2. BackendTyped'
    <2>1. inbox' \in Seq(Told)
      BY ResetInputTypes DEF Restart, BackendTyped
    <2> QED
      BY <2>1 DEF Restart, BackendTyped, actionVars
  <1>3. WorkerTyped'
    BY WorkerStays DEF Restart, workerState, stepVars, wordVars
  <1> QED
    BY <1>1, <1>2, <1>3

LEMMA TypeTypes == Typed /\ Type => Typed'
  <1> SUFFICES ASSUME Typed, Type PROVE Typed'
    OBVIOUS
  <1> USE DEF Typed
  <1>1. HelperTyped'
    BY PhysicalKeyTypes DEF Type
  <1>2. BackendTyped'
    BY BackendStays DEF Type, backendState, backendVars, keyVars, holdVars, actionVars, workerVars
  <1>3. WorkerTyped'
    BY WorkerStays DEF Type, workerState, workerVars, stepVars, wordVars
  <1> QED
    BY <1>1, <1>2, <1>3

LEMMA TypesNext == Typed /\ [Next]_vars => Typed'
  <1> SUFFICES ASSUME Typed, [Next]_vars PROVE Typed'
    OBVIOUS
  <1>1. CASE UNCHANGED vars
    <2>1. UNCHANGED <<helperState, backendState, workerState>>
      BY <1>1 DEF vars, helperVars, userVars, askVars, backendVars, keyVars, holdVars, actionVars, workerVars,
                  stepVars, wordVars, helperState, backendState, workerState
    <2> QED
      BY <2>1, HelperStays, BackendStays, WorkerStays DEF Typed
  <1>2. CASE Next
    BY <1>2, TypeTypes, HandleCommandTypes, TroubleTypes, DispatchesTypes, WorkerStepTypes, TimersTypes,
       TimedOutTypes, RestartTypes DEF Next
  <1> QED
    BY <1>1, <1>2

LEMMA TypesInit == Init => Typed
  <1> SUFFICES ASSUME Init PROVE Typed
    OBVIOUS
  <1>1. 0 \in Numbers /\ 1 \in Numbers
    BY HelperAssumption DEF Numbers
  <1>2. HelperTyped
    BY <1>1 DEF Init, HelperInit, HelperTyped
  <1>3. BackendTyped
    BY <1>1 DEF Init, BackendTyped, Hooks
  <1>4. WorkerTyped
    BY DEF Init, WorkerTyped
  <1> QED
    BY <1>2, <1>3, <1>4 DEF Typed

LEMMA TypedAlways == Spec => []Typed
  BY TypesInit, TypesNext, PTL DEF Spec

\* What the helper and the backend keep has its type in every state, for every
\* keyboard and every size of the wrapping numbers; in particular no key waits in
\* the helper's queue while none is asked about (_expire_pending_if_due,
\* _dispatch_next_queued_key).
THEOREM WaylandTypes == Spec => []TypeOK
  <1>1. Typed => TypeOK
    BY DEF Typed, HelperTyped, BackendTyped, WorkerTyped, TypeOK, Numbers
  <1> QED
    BY <1>1, TypedAlways, PTL

-----------------------------------------------------------------------------
(* The free keyboard                                                       *)

\* The engine has been told of a withheld action, or is coming to an end with it.
Owed ==
    \/ wDeferred
    \/ pc \in {"deliver", "cancel", "acting", "acted"}
    \/ \E i \in DOMAIN inbox : inbox[i].deferred

\* The worker is on its way to a release.
Empties == pc \in {"collect", "check", "send", "sent", "retype", "release", "loop", "replay", "posted"}

\* A withheld action is a press of Enter or Tab, which a correction does not take along.
ActionsWait ==
    /\ hook.at = "defer" => hook.ev.down /\ hook.ev.key \in ActionKeys
    /\ \A i \in DOMAIN inbox : inbox[i].deferred => inbox[i].down /\ inbox[i].key \in ActionKeys
    /\ deferred # None => Owed

\* The worker waits for the one batch that is on its way; a replayed key is never refused.
OneBatch ==
    /\ \A i \in DOMAIN down : IsAwaited(down[i]) =>
          Awaiting /\ reply = None /\ (pc = "posted" => down[i].check = "none")
    /\ \A i, j \in DOMAIN down : IsAwaited(down[i]) /\ IsAwaited(down[j]) => i = j
    /\ pc = "posted" => reply \in {None, "typed", "failed"}

\* A replayed key fails with the helper, or is given up on.
Failing == ~alive \/ (pc = "posted" /\ reply = "failed") => ~Orderly

\* The keyboard is held for someone who will come to release it.
HeldForSomeone ==
    /\ holding => \/ hook.at = "defer" \/ deferred # None \/ Empties
                  \/ ~Orderly /\ pc = "finally"
                  \/ actionForced /\ Owed
    /\ held # <<>> /\ Orderly => deferred # None \/ Empties \/ (actionForced /\ Owed)

\* Inductive, with Typed.
FreeInv == ActionsWait /\ OneBatch /\ Failing /\ HeldForSomeone

-----------------------------------------------------------------------------
(* The withheld action and the engine's queue *)

LEMMA DeferredIsAction ==
  ASSUME NEW ev, NEW decision \in Decisions(ev), decision = "deferred"
  PROVE  ev.down /\ ev.key \in ActionKeys
  BY DEF Decisions

\* The queue grows by an event at most.
LEMMA QueueGrows ==
  ASSUME inbox \in Seq(Told), NEW e \in Told, inbox' = inbox \/ inbox' = Append(inbox, e)
  PROVE  /\ (\E i \in DOMAIN inbox : inbox[i].deferred) => (\E i \in DOMAIN inbox' : inbox'[i].deferred)
         /\ \A i \in DOMAIN inbox' : inbox'[i] = e \/ \E j \in DOMAIN inbox : inbox'[i] = inbox[j]
         /\ inbox' = Append(inbox, e) /\ e.deferred => \E i \in DOMAIN inbox' : inbox'[i].deferred
  <1>1. CASE inbox' = inbox
    <2>1. Append(inbox, e) # inbox
      OBVIOUS
    <2> QED
      BY <1>1, <2>1
  <1>2. CASE inbox' = Append(inbox, e)
    <2>1. /\ \A i \in DOMAIN inbox : i \in DOMAIN inbox' /\ inbox'[i] = inbox[i]
          /\ Len(inbox) + 1 \in DOMAIN inbox' /\ inbox'[Len(inbox) + 1] = e
          /\ \A i \in DOMAIN inbox' : i \in DOMAIN inbox \/ i = Len(inbox) + 1
      BY <1>2
    <2> QED
      BY <2>1
  <1> QED
    BY <1>1, <1>2

\* What the engine hears of a key that is not withheld changes nothing for the actions.
LEMMA HearsOther ==
  ASSUME ActionsWait, inbox \in Seq(Told), NEW e \in Told, ~e.deferred,
         inbox' = inbox \/ inbox' = Append(inbox, e),
         UNCHANGED wDeferred,
         pc \in {"deliver", "cancel", "acting", "acted"} => pc' \in {"deliver", "cancel", "acting", "acted"}
  PROVE  /\ Owed => Owed'
         /\ \A i \in DOMAIN inbox' : inbox'[i].deferred => inbox'[i].down /\ inbox'[i].key \in ActionKeys
  <1>1. Owed => Owed'
    BY QueueGrows DEF Owed
  <1>2. ASSUME NEW i \in DOMAIN inbox', inbox'[i].deferred
        PROVE  inbox'[i].down /\ inbox'[i].key \in ActionKeys
    <2>1. PICK j \in DOMAIN inbox : inbox'[i] = inbox[j]
      BY <1>2, QueueGrows
    <2> QED
      BY <1>2, <2>1 DEF ActionsWait
  <1> QED
    BY <1>1, <1>2

\* A press of an action that is withheld is told to the engine.
LEMMA HearsAction ==
  ASSUME ActionsWait, inbox \in Seq(Told), NEW ev \in Event, ev.down, ev.key \in ActionKeys, Listen(ev, "deferred")
  PROVE  /\ Owed'
         /\ \A i \in DOMAIN inbox' : inbox'[i].deferred => inbox'[i].down /\ inbox'[i].key \in ActionKeys
  <1>1. PICK e : e = EngineEvent(ev, TRUE)
    OBVIOUS
  <1>2. e \in Told /\ e.deferred /\ e.down /\ e.key \in ActionKeys
    <2>1. e \in Told
      BY <1>1, EngineEventTypes
    <2> QED
      BY <1>1, <2>1 DEF EngineEvent
  <1>3. inbox' = Append(inbox, e)
    BY <1>1 DEF Listen
  <1>4. Owed'
    BY <1>2, <1>3, QueueGrows DEF Owed
  <1>5. ASSUME NEW i \in DOMAIN inbox', inbox'[i].deferred
        PROVE  inbox'[i].down /\ inbox'[i].key \in ActionKeys
    <2>1. inbox'[i] = e \/ \E j \in DOMAIN inbox : inbox'[i] = inbox[j]
      BY <1>2, <1>3, QueueGrows
    <2> QED
      BY <1>2, <1>5, <2>1 DEF ActionsWait
  <1> QED
    BY <1>4, <1>5

LEMMA HearsKey ==
  ASSUME ActionsWait, inbox \in Seq(Told), NEW ev \in Event, NEW decision, decision # "deferred", Listen(ev, decision),
         UNCHANGED wDeferred,
         pc \in {"deliver", "cancel", "acting", "acted"} => pc' \in {"deliver", "cancel", "acting", "acted"}
  PROVE  /\ Owed => Owed'
         /\ \A i \in DOMAIN inbox' : inbox'[i].deferred => inbox'[i].down /\ inbox'[i].key \in ActionKeys
  <1>1. PICK e : e = EngineEvent(ev, FALSE)
    OBVIOUS
  <1>2. e \in Told /\ ~e.deferred
    <2>1. e \in Told
      BY <1>1, EngineEventTypes
    <2> QED
      BY <1>1, <2>1 DEF EngineEvent
  <1>3. inbox' = inbox \/ inbox' = Append(inbox, e)
    BY <1>1 DEF Listen
  <1> QED
    BY <1>2, <1>3, HearsOther

LEMMA HearsReset ==
  ASSUME ActionsWait, inbox \in Seq(Told), ResetInput, UNCHANGED <<wDeferred, pc>>
  PROVE  /\ Owed => Owed'
         /\ \A i \in DOMAIN inbox' : inbox'[i].deferred => inbox'[i].down /\ inbox'[i].key \in ActionKeys
  <1>1. PICK e : e = EngineEvent([n |-> 0, key |-> Pointer, down |-> TRUE], FALSE)
    OBVIOUS
  <1>2. e \in Told /\ ~e.deferred
    BY <1>1 DEF EngineEvent, Told
  <1>3. inbox' = Append(inbox, e)
    BY <1>1 DEF ResetInput
  <1> QED
    BY <1>2, <1>3, HearsOther

-----------------------------------------------------------------------------
(* Batches *)

LEMMA NoneOnItsWay ==
  ASSUME OneBatch, ~(Awaiting /\ reply = None)
  PROVE  \A i \in DOMAIN down : ~IsAwaited(down[i])
  BY DEF OneBatch

LEMMA NoBatches ==
  ASSUME \A i \in DOMAIN down : ~IsAwaited(down[i]), UNCHANGED down, pc' # "posted"
  PROVE  OneBatch'
  BY DEF OneBatch

LEMMA BatchStays == OneBatch /\ UNCHANGED <<down, pc, reply>> => OneBatch'
  BY DEF OneBatch, Awaiting

LEMMA CommandAdded ==
  ASSUME OneBatch, down \in Seq(Commands), NEW c \in Commands, ~IsAwaited(c),
         down' = Append(down, c), UNCHANGED <<pc, reply>>
  PROVE  OneBatch'
  <1>1. \A i \in DOMAIN down' : \/ i \in DOMAIN down /\ down'[i] = down[i]
                                \/ i = Len(down) + 1 /\ down'[i] = c
    OBVIOUS
  <1>2. \A i \in DOMAIN down' : IsAwaited(down'[i]) => i \in DOMAIN down /\ down'[i] = down[i]
    BY <1>1
  <1> QED
    BY <1>2 DEF OneBatch, Awaiting

LEMMA CommandTaken ==
  ASSUME OneBatch, down \in Seq(Commands), down # <<>>, down' = Tail(down), UNCHANGED pc,
         IF IsAwaited(Head(down))
         THEN reply' = "typed" \/ (Head(down).check # "none" /\ reply' = "refused")
         ELSE UNCHANGED reply
  PROVE  OneBatch'
  <1>1. \A i \in DOMAIN down' : i + 1 \in DOMAIN down /\ down'[i] = down[i + 1]
    OBVIOUS
  <1>2. 1 \in DOMAIN down /\ Head(down) = down[1]
    OBVIOUS
  <1>3. CASE IsAwaited(Head(down))
    <2>1. \A i \in DOMAIN down' : ~IsAwaited(down'[i])
      <3> SUFFICES ASSUME NEW i \in DOMAIN down', IsAwaited(down'[i]) PROVE FALSE
        OBVIOUS
      <3>1. i + 1 = 1
        BY <1>1, <1>2, <1>3 DEF OneBatch
      <3>2. i \in 1..Len(down')
        BY <1>1
      <3> QED
        BY <3>1, <3>2
    <2>2. pc = "posted" => Head(down).check = "none"
      BY <1>2, <1>3 DEF OneBatch
    <2> QED
      BY <1>3, <2>1, <2>2 DEF OneBatch
  <1>4. CASE ~IsAwaited(Head(down))
    <2>1. \A i, j \in DOMAIN down' : IsAwaited(down'[i]) /\ IsAwaited(down'[j]) => i = j
      <3> SUFFICES ASSUME NEW i \in DOMAIN down', NEW j \in DOMAIN down',
                          IsAwaited(down'[i]), IsAwaited(down'[j])
                   PROVE  i = j
        OBVIOUS
      <3>1. i + 1 = j + 1
        BY <1>1 DEF OneBatch
      <3>2. i \in Nat /\ j \in Nat
        BY <1>1
      <3> QED
        BY <3>1, <3>2
    <2> QED
      BY <1>1, <1>4, <2>1 DEF OneBatch, Awaiting
  <1> QED
    BY <1>3, <1>4

\* A batch is sent while none is on its way.
LEMMA BatchPosted ==
  ASSUME OneBatch, down \in Seq(Commands), ~Awaiting, NEW batch \in Batches,
         NEW label \in {"sent", "posted", "acting"}, label = "posted" => batch.check = "none", Post(batch, label)
  PROVE  OneBatch'
  <1>1. \A i \in DOMAIN down : ~IsAwaited(down[i])
    BY NoneOnItsWay
  <1>2. pc' = label
    BY DEF Post, Worker
  <1>3. CASE alive
    <2>1. down' = Append(down, batch) /\ reply' = None
      BY <1>3 DEF Post
    <2>2. \A i \in DOMAIN down' : \/ i \in DOMAIN down /\ down'[i] = down[i]
                                  \/ i = Len(down) + 1 /\ down'[i] = batch
      BY <2>1
    <2>3. \A i \in DOMAIN down' : IsAwaited(down'[i]) => i = Len(down) + 1 /\ down'[i] = batch
      BY <1>1, <2>2
    <2> QED
      BY <1>2, <2>1, <2>3 DEF OneBatch, Awaiting
  <1>4. CASE ~alive
    <2>1. UNCHANGED down /\ reply' = "failed"
      BY <1>4 DEF Post
    <2> QED
      BY <1>1, <1>2, <2>1 DEF OneBatch
  <1> QED
    BY <1>3, <1>4

-----------------------------------------------------------------------------
(* The dispatch thread leaves the keyboard held for someone *)

\* What is added to the keys kept back comes behind one that is kept back.
LEMMA TrackAdds ==
  ASSUME NEW ev, NEW kept \in Seq(Event), Track(ev, kept), held' # <<>>
  PROVE  kept # <<>>
  BY DEF Track, PressIn

LEMMA HandleResetFree == Typed /\ FreeInv /\ HandleReset => FreeInv'
  <1> SUFFICES ASSUME Typed, FreeInv, HandleReset PROVE FreeInv'
    OBVIOUS
  <1> USE DEF FreeInv
  <1>1. UNCHANGED <<hook, held, holding, down, deferred, actionForced, wDeferred, pc, alive, reply, odd>>
    BY DEF HandleReset, actionVars, stepVars, wordVars, modeVars, pastVars
  <1>2. (Owed => Owed')
        /\ \A i \in DOMAIN inbox' : inbox'[i].deferred => inbox'[i].down /\ inbox'[i].key \in ActionKeys
    BY <1>1, HearsReset DEF HandleReset, Typed, BackendTyped
  <1>3. ActionsWait'
    BY <1>1, <1>2 DEF ActionsWait
  <1>4. OneBatch' /\ Failing'
    BY <1>1, BatchStays DEF Failing, Orderly
  <1>5. HeldForSomeone'
    BY <1>1, <1>2 DEF HeldForSomeone, Empties, Orderly
  <1> QED
    BY <1>3, <1>4, <1>5

LEMMA HandleKeyFree == Typed /\ FreeInv /\ HandleKey => FreeInv'
  <1> SUFFICES ASSUME Typed, FreeInv, HandleKey PROVE FreeInv'
    OBVIOUS
  <1> USE DEF FreeInv
  <1>1. UNCHANGED <<inbox, holding, down, deferred, actionForced, wDeferred, pc, alive, reply>>
        /\ hook.at = "idle" /\ hook'.at \in {"send", "track"} /\ odd \subseteq odd'
        /\ (held' = held \/ holding)
    BY DEF HandleKey, actionVars, workerVars, stepVars, wordVars, modeVars, Remember
  <1>2. Owed' <=> Owed
    BY <1>1 DEF Owed
  <1>3. ActionsWait'
    BY <1>1, <1>2 DEF ActionsWait
  <1>4. OneBatch' /\ Failing'
    BY <1>1, BatchStays DEF Failing, Orderly
  <1>5. HeldForSomeone'
    BY <1>1, <1>2 DEF HeldForSomeone, Empties, Orderly
  <1> QED
    BY <1>3, <1>4, <1>5

LEMMA TrackKeyFree == Typed /\ FreeInv /\ TrackKey => FreeInv'
  <1> SUFFICES ASSUME Typed, FreeInv, TrackKey PROVE FreeInv'
    OBVIOUS
  <1> USE DEF FreeInv
  <1>1. UNCHANGED <<down, deferred, actionForced, wDeferred, pc, alive, reply>> /\ hook.at = "track"
        /\ odd \subseteq odd'
    BY DEF TrackKey, stepVars, wordVars, helperVars, modeVars, Remember
  <1>2. hook \in Hooks /\ hook.ev \in Event /\ inbox \in Seq(Told) /\ held \in Seq(Event)
    BY <1>1, HookHasKey DEF Typed, BackendTyped
  <1>3. held' # <<>> => held # <<>>
    BY <1>2, TrackAdds DEF TrackKey
  <1>4. PICK decision \in IF hook.how = "told" THEN {"passed"} ELSE Decisions(hook.ev) :
          /\ hook' = IF hook.how = "told" THEN Idle
                     ELSE [hook EXCEPT !.at = IF decision = "deferred" THEN "defer" ELSE "send",
                                       !.swallow = decision # "passed"]
          /\ IF decision = "deferred"
             THEN Hold(pressed') /\ UNCHANGED inbox
             ELSE Listen(hook.ev, decision) /\ UNCHANGED holdVars
    BY DEF TrackKey
  <1>5. OneBatch' /\ Failing'
    BY <1>1, BatchStays DEF Failing, Orderly
  <1>6. CASE decision = "deferred"
    <2>1. hook.ev.down /\ hook.ev.key \in ActionKeys /\ hook.how # "told"
      BY <1>4, <1>6, DeferredIsAction
    <2>2. hook'.at = "defer" /\ hook'.ev = hook.ev /\ UNCHANGED inbox
      BY <1>2, <1>4, <1>6, <2>1, HookHasKey, <1>1
    <2>3. Owed' <=> Owed
      BY <1>1, <2>2 DEF Owed
    <2>4. ActionsWait'
      BY <1>1, <2>1, <2>2, <2>3 DEF ActionsWait
    <2>5. HeldForSomeone'
      BY <1>1, <1>3, <2>2, <2>3 DEF HeldForSomeone, Empties, Orderly
    <2> QED
      BY <1>5, <2>4, <2>5
  <1>7. CASE decision # "deferred"
    <2>1. (Owed => Owed')
          /\ \A i \in DOMAIN inbox' : inbox'[i].deferred => inbox'[i].down /\ inbox'[i].key \in ActionKeys
      BY <1>1, <1>2, <1>4, <1>7, HearsKey
    <2>2. hook'.at # "defer" /\ UNCHANGED holding
      BY <1>1, <1>2, <1>4, <1>7, HookHasKey DEF Idle, holdVars
    <2>3. ActionsWait'
      BY <1>1, <2>1, <2>2 DEF ActionsWait
    <2>4. HeldForSomeone'
      BY <1>1, <1>3, <2>1, <2>2 DEF HeldForSomeone, Empties, Orderly
    <2> QED
      BY <1>5, <2>3, <2>4
  <1> QED
    BY <1>6, <1>7

LEMMA DeferKeyFree == Typed /\ FreeInv /\ DeferKey => FreeInv'
  <1> SUFFICES ASSUME Typed, FreeInv, DeferKey PROVE FreeInv'
    OBVIOUS
  <1> USE DEF FreeInv
  <1>1. UNCHANGED <<down, holding, held, actionForced, wDeferred, pc, alive, reply>> /\ hook.at = "defer"
        /\ odd \subseteq odd' /\ deferred' = hook.ev /\ hook'.at # "defer"
    BY HookHasKey DEF DeferKey, HookAt, holdVars, stepVars, wordVars, helperVars, modeVars, Remember, Typed,
                      BackendTyped
  <1>2. hook.ev \in Event
    BY <1>1, HookHasKey DEF Typed, BackendTyped
  <1>3. hook.ev.down /\ hook.ev.key \in ActionKeys
    BY <1>1 DEF ActionsWait
  <1>4. Owed' /\ \A i \in DOMAIN inbox' : inbox'[i].deferred => inbox'[i].down /\ inbox'[i].key \in ActionKeys
    BY <1>2, <1>3, HearsAction DEF DeferKey, Typed, BackendTyped
  <1>5. deferred' # None
    BY <1>1, <1>2, HelperAssumption
  <1>6. ActionsWait'
    BY <1>1, <1>4 DEF ActionsWait
  <1>7. OneBatch' /\ Failing'
    BY <1>1, BatchStays DEF Failing, Orderly
  <1>8. HeldForSomeone'
    BY <1>5 DEF HeldForSomeone, Orderly
  <1> QED
    BY <1>6, <1>7, <1>8

LEMMA HandleForcedFree == Typed /\ FreeInv /\ HandleForced => FreeInv'
  <1> SUFFICES ASSUME Typed, FreeInv, HandleForced PROVE FreeInv'
    OBVIOUS
  <1> USE DEF FreeInv
  <1>1. UNCHANGED <<down, holding, wDeferred, pc, alive, reply, odd>> /\ hook.at = "idle"
    BY DEF HandleForced, stepVars, wordVars, modeVars, pastVars
  <1>2. PICK ev \in Event : ev = Head(up).ev
    BY MessageHasKey DEF HandleForced, Typed, HelperTyped
  <1>3. hook'.at # "defer"
    BY DEF HandleForced
  <1>4. PICK at : at = {i \in DOMAIN held : held[i] = ev}
    OBVIOUS
  <1>5. PICK kind : kind = IF answer # None /\ answer.ev.seq = ev.seq THEN answer.kind ELSE "passed"
    OBVIOUS
  <1>6. \/ at # {} /\ Listen(ev, "passed") /\ UNCHANGED <<deferred, actionForced>>
        \/ SettleDeferred(ev) /\ UNCHANGED <<held, inbox>>
        \/ UNCHANGED <<held, inbox, deferred, actionForced>>
    <2>1. CASE kind = "held" /\ at # {}
      BY <1>2, <1>4, <1>5, <2>1 DEF HandleForced
    <2>2. CASE kind = "deferred"
      BY <1>2, <1>4, <1>5, <2>2 DEF HandleForced
    <2>3. CASE ~(kind = "held" /\ at # {}) /\ kind # "deferred"
      BY <1>2, <1>4, <1>5, <2>3 DEF HandleForced, actionVars
    <2> QED
      BY <2>1, <2>2, <2>3
  <1>7. OneBatch' /\ Failing'
    BY <1>1, BatchStays DEF Failing, Orderly
  <1>8. CASE at # {} /\ Listen(ev, "passed") /\ UNCHANGED <<deferred, actionForced>>
    <2>1. (Owed => Owed')
          /\ \A i \in DOMAIN inbox' : inbox'[i].deferred => inbox'[i].down /\ inbox'[i].key \in ActionKeys
      BY <1>1, <1>8, HearsKey DEF Typed, BackendTyped
    <2>2. held # <<>>
      BY <1>4, <1>8
    <2>3. ActionsWait'
      BY <1>1, <1>3, <1>8, <2>1 DEF ActionsWait
    <2>4. HeldForSomeone'
      BY <1>1, <1>8, <2>1, <2>2 DEF HeldForSomeone, Empties, Orderly
    <2> QED
      BY <1>7, <2>3, <2>4
  <1>9. CASE SettleDeferred(ev) /\ UNCHANGED <<held, inbox>>
    <2>1. Owed' <=> Owed
      BY <1>1, <1>9 DEF Owed
    <2>2. CASE deferred = ev
      <3>1. deferred' = None /\ actionForced'
        BY <1>9, <2>2 DEF SettleDeferred
      <3>2. Owed'
        BY <2>1, <2>2, HelperAssumption DEF ActionsWait
      <3>3. ActionsWait'
        BY <1>3, <1>9, <3>1 DEF ActionsWait
      <3>4. HeldForSomeone'
        BY <3>1, <3>2 DEF HeldForSomeone, Orderly
      <3> QED
        BY <1>7, <3>3, <3>4
    <2>3. CASE deferred # ev
      <3>1. UNCHANGED <<deferred, actionForced>>
        BY <1>9, <2>3 DEF SettleDeferred, actionVars
      <3>2. ActionsWait'
        BY <1>3, <1>9, <2>1, <3>1 DEF ActionsWait
      <3>3. HeldForSomeone'
        BY <1>1, <1>9, <2>1, <3>1 DEF HeldForSomeone, Empties, Orderly
      <3> QED
        BY <1>7, <3>2, <3>3
    <2> QED
      BY <2>2, <2>3
  <1>10. CASE UNCHANGED <<held, inbox, deferred, actionForced>>
    <2>1. Owed' <=> Owed
      BY <1>1, <1>10 DEF Owed
    <2>2. ActionsWait'
      BY <1>3, <1>10, <2>1 DEF ActionsWait
    <2>3. HeldForSomeone'
      BY <1>1, <1>10, <2>1 DEF HeldForSomeone, Empties, Orderly
    <2> QED
      BY <1>7, <2>2, <2>3
  <1> QED
    BY <1>6, <1>8, <1>9, <1>10

LEMMA AnswerFree == Typed /\ FreeInv /\ Answer => FreeInv'
  <1> SUFFICES ASSUME Typed, FreeInv, Answer PROVE FreeInv'
    OBVIOUS
  <1> USE DEF FreeInv
  <1>1. UNCHANGED <<held, holding, inbox, deferred, actionForced, wDeferred, pc, alive, reply, odd>>
        /\ hook.at = "send" /\ hook'.at = "idle"
    BY DEF Answer, Idle, keyVars, holdVars, actionVars, workerVars, stepVars, wordVars, modeVars, pastVars
  <1>2. PICK c : c = IF hook.how = "ask" THEN [cmd |-> "verdict", seq |-> hook.ev.seq, swallow |-> hook.swallow]
                                         ELSE [cmd |-> "ack", seq |-> hook.ev.seq]
    OBVIOUS
  <1>3. c \in Commands /\ ~IsAwaited(c)
    <2>1. hook.ev \in Event /\ hook.swallow \in BOOLEAN
      BY <1>1, HookHasKey DEF Typed, BackendTyped
    <2> QED
      BY <1>2, <2>1, EventSeq DEF Commands, IsAwaited
  <1>4. down' = Append(down, c) \/ UNCHANGED down
    BY <1>2 DEF Answer
  <1>5. OneBatch' /\ Failing'
    BY <1>1, <1>3, <1>4, BatchStays, CommandAdded DEF Failing, Typed, BackendTyped, Orderly
  <1>6. Owed' <=> Owed
    BY <1>1 DEF Owed
  <1>7. ActionsWait'
    BY <1>1, <1>6 DEF ActionsWait
  <1>8. HeldForSomeone'
    BY <1>1, <1>6 DEF HeldForSomeone, Empties, Orderly
  <1> QED
    BY <1>5, <1>7, <1>8

LEMMA DispatchesFree == Typed /\ FreeInv /\ Dispatches => FreeInv'
  BY HandleResetFree, HandleKeyFree, TrackKeyFree, DeferKeyFree, HandleForcedFree, AnswerFree DEF Dispatches

-----------------------------------------------------------------------------
(* The worker comes to release it *)

\* A step of the worker that changes neither the hold nor what is kept back.
holdState == <<hook, deferred, alive, holding, actionForced, held, down, reply, odd>>

LEMMA QuietHolds == UNCHANGED quiet => UNCHANGED holdState
  BY DEF quiet, holdState, helperVars, modeVars, backendVars, keyVars, holdVars, actionVars, pastVars

\* The worker gets on with its events: who was owed something still is.
LEMMA EventOwes ==
  ASSUME Typed, FreeInv, HandleEvent, Owed
  PROVE  Owed'
  <1>1. PICK ev \in Told : ev = Head(inbox)
    BY TailTypes DEF HandleEvent, Typed, BackendTyped
  <1>2. inbox \in Seq(Told) /\ inbox # <<>> /\ inbox' = Tail(inbox) /\ pc = "ready" /\ ev = inbox[1]
    BY <1>1 DEF HandleEvent, Typed, BackendTyped, Ready
  <1>3. CASE wDeferred
    <2>1. CASE ev.key = Pointer
      BY <1>1, <1>3, <2>1 DEF HandleEvent, ClearWord, Call, Owed
    <2>2. CASE ev.key # Pointer /\ ~ev.down
      BY <1>1, <1>3, <2>2 DEF HandleEvent, MaybeExecute, Call, Owed
    <2>3. CASE ev.key # Pointer /\ ev.down
      BY <1>1, <1>3, <2>3 DEF HandleEvent, ClearWord, Call, Owed
    <2> QED
      BY <2>1, <2>2, <2>3
  <1>4. CASE \E i \in DOMAIN inbox : inbox[i].deferred
    <2>1. PICK i \in DOMAIN inbox : inbox[i].deferred
      BY <1>4
    <2>2. CASE i = 1
      <3>1. ev.deferred /\ ev.down /\ ev.key \in ActionKeys
        BY <1>2, <2>1, <2>2 DEF FreeInv, ActionsWait
      <3>2. ev.key # Pointer
        BY <3>1, ParentAssumption
      <3> QED
        BY <1>1, <3>1, <3>2 DEF HandleEvent, Owed
    <2>3. CASE i # 1
      <3>1. i - 1 \in DOMAIN inbox' /\ inbox'[i - 1] = inbox[i]
        BY <1>2, <2>1, <2>3
      <3> QED
        BY <2>1, <3>1 DEF Owed
    <2> QED
      BY <2>2, <2>3
  <1> QED
    BY <1>2, <1>3, <1>4 DEF Owed

LEMMA EventsFree == Typed /\ FreeInv /\ HandleEvent => FreeInv'
  <1> SUFFICES ASSUME Typed, FreeInv, HandleEvent PROVE FreeInv'
    OBVIOUS
  <1> USE DEF FreeInv
  <1>1. UNCHANGED holdState /\ pc = "ready" /\ pc' \in {"ready", "cancel", "deliver", "hold"}
    BY QuietHolds DEF HandleEvent, Ready, ClearWord, MaybeExecute, Call
  <1>2. Owed => Owed'
    BY EventOwes
  <1>3. \A i \in DOMAIN inbox' : inbox'[i].deferred => inbox'[i].down /\ inbox'[i].key \in ActionKeys
    <2>1. \A i \in DOMAIN inbox' : i + 1 \in DOMAIN inbox /\ inbox'[i] = inbox[i + 1]
      BY DEF HandleEvent, Typed, BackendTyped
    <2> QED
      BY <2>1 DEF ActionsWait
  <1>4. ActionsWait'
    BY <1>1, <1>2, <1>3 DEF ActionsWait, holdState
  <1>5. OneBatch'
    BY <1>1, NoneOnItsWay, NoBatches DEF Awaiting, holdState
  <1>6. Failing'
    BY <1>1 DEF Failing, holdState, Orderly
  <1>7. HeldForSomeone'
    BY <1>1, <1>2 DEF HeldForSomeone, Empties, holdState, Orderly
  <1> QED
    BY <1>4, <1>5, <1>6, <1>7

LEMMA TimersFree == Typed /\ FreeInv /\ (PauseCorrect \/ ExpireAction) => FreeInv'
  <1> SUFFICES ASSUME Typed, FreeInv, PauseCorrect \/ ExpireAction PROVE FreeInv'
    OBVIOUS
  <1> USE DEF FreeInv
  <1>1. UNCHANGED holdState /\ UNCHANGED inbox /\ pc = "ready" /\ pc' \in {"ready", "cancel", "deliver", "hold"}
    BY QuietHolds DEF PauseCorrect, ExpireAction, Ready, ClearWord, MaybeExecute, Call
  <1>2. Owed => Owed'
    <2>1. CASE PauseCorrect
      BY <1>1, <2>1 DEF PauseCorrect, Owed
    <2>2. CASE ExpireAction
      BY <1>1, <2>2 DEF ExpireAction, ClearWord, MaybeExecute, Call, Owed
    <2> QED
      BY <2>1, <2>2
  <1>3. ActionsWait'
    BY <1>1, <1>2 DEF ActionsWait, holdState
  <1>4. OneBatch'
    BY <1>1, NoneOnItsWay, NoBatches DEF Awaiting, holdState
  <1>5. Failing'
    BY <1>1 DEF Failing, holdState, Orderly
  <1>6. HeldForSomeone'
    BY <1>1, <1>2 DEF HeldForSomeone, Empties, holdState, Orderly
  <1> QED
    BY <1>3, <1>4, <1>5, <1>6

\* A step of a correction: the worker goes on to a release, and the actions wait as before.
LEMMA CorrectionFree ==
  ASSUME FreeInv, UNCHANGED <<hook, deferred, inbox, wDeferred, alive>>, odd \subseteq odd',
         pc \notin {"deliver", "cancel", "acting", "acted"}, Empties',
         OneBatch', pc' # "posted" \/ reply' # "failed" \/ ~alive
  PROVE  FreeInv'
  <1> USE DEF FreeInv
  <1>1. Owed => Owed'
    BY DEF Owed
  <1>2. ActionsWait'
    BY <1>1 DEF ActionsWait
  <1>3. Failing'
    BY DEF Failing, Orderly
  <1>4. HeldForSomeone'
    BY DEF HeldForSomeone, Orderly
  <1> QED
    BY <1>2, <1>3, <1>4

LEMMA HoldInputFree == Typed /\ FreeInv /\ HoldInput => FreeInv'
  <1> SUFFICES ASSUME Typed, FreeInv, HoldInput PROVE FreeInv'
    OBVIOUS
  <1>1. UNCHANGED <<hook, deferred, inbox, wDeferred, alive, down, reply, odd>> /\ pc = "hold" /\ pc' = "collect"
    BY DEF HoldInput, Worker, helperVars, modeVars, actionVars, wordVars, pastVars
  <1>2. OneBatch'
    BY <1>1, NoneOnItsWay, NoBatches DEF Awaiting, FreeInv
  <1> QED
    BY <1>1, <1>2, CorrectionFree DEF Empties

LEMMA CheckHoldFree == Typed /\ FreeInv /\ (CheckHold \/ Retype) => FreeInv'
  <1> SUFFICES ASSUME Typed, FreeInv, CheckHold \/ Retype PROVE FreeInv'
    OBVIOUS
  <1>1. UNCHANGED <<hook, deferred, inbox, wDeferred, alive, down, reply>> /\ odd \subseteq odd'
        /\ pc \in {"check", "retype"} /\ pc' \in {"release", "send", "replay"}
    <2>1. CASE CheckHold
      BY <2>1 DEF CheckHold, Releases, Worker, helperVars, modeVars, backendVars, actionVars, Remember
    <2>2. CASE Retype
      BY <2>2, QuietHolds DEF Retype, Releases, Worker, holdState
    <2> QED
      BY <2>1, <2>2
  <1>2. OneBatch'
    BY <1>1, NoneOnItsWay, NoBatches DEF Awaiting, FreeInv
  <1> QED
    BY <1>1, <1>2, CorrectionFree DEF Empties

LEMMA CollectLateFree == Typed /\ FreeInv /\ CollectLate => FreeInv'
  <1> SUFFICES ASSUME Typed, FreeInv, CollectLate PROVE FreeInv'
    OBVIOUS
  <1>1. UNCHANGED <<hook, deferred, wDeferred, alive, down, reply, holding, held, actionForced>> /\ odd \subseteq odd'
        /\ pc = "collect"
    BY DEF CollectLate, helperVars, modeVars, backendVars, keyVars, holdVars, actionVars, Remember
  <1>2. pc' = "check" \/ (pc' = "release" /\ UNCHANGED inbox)
    BY DEF CollectLate, Releases, Worker
  <1>3. OneBatch'
    BY <1>1, <1>2, NoneOnItsWay, NoBatches DEF Awaiting, FreeInv
  <1>4. CASE pc' = "release" /\ UNCHANGED inbox
    BY <1>1, <1>3, <1>4, CorrectionFree DEF Empties
  <1>5. CASE pc' = "check"
    <2>1. /\ \A i \in DOMAIN inbox' : \E j \in DOMAIN inbox : inbox'[i] = inbox[j]
          /\ \A i \in DOMAIN inbox : inbox[i].down => inbox[i].key \in Letters
      BY <1>5, CollectLateKeeps DEF Typed, BackendTyped
    <2>2. \A i \in DOMAIN inbox : ~inbox[i].deferred
      BY <2>1 DEF FreeInv, ActionsWait, Letters
    <2>3. Owed => Owed'
      BY <1>1, <2>2 DEF Owed
    <2>4. ActionsWait'
      BY <1>1, <2>1, <2>3 DEF FreeInv, ActionsWait
    <2>5. Failing'
      BY <1>1, <1>5 DEF FreeInv, Failing, Orderly
    <2>6. HeldForSomeone'
      BY <1>5 DEF HeldForSomeone, Empties, Orderly
    <2> QED
      BY <1>3, <2>4, <2>5, <2>6 DEF FreeInv
  <1> QED
    BY <1>2, <1>4, <1>5

LEMMA SendWordFree == Typed /\ FreeInv /\ SendWord => FreeInv'
  <1> SUFFICES ASSUME Typed, FreeInv, SendWord PROVE FreeInv'
    OBVIOUS
  <1>1. UNCHANGED <<hook, deferred, inbox, wDeferred, alive, odd>> /\ pc = "send"
    BY DEF SendWord, posting, modeVars, actionVars, wordVars, pastVars
  <1>2. PICK word : word = NumbersIn(plan \o late)
    OBVIOUS
  <1>3. word \in Seq(Nat)
    BY <1>1, <1>2, WordTypes DEF Typed, WorkerTyped
  <1>4. PICK taps : taps = Taps(plan)
    OBVIOUS
  <1>5. taps \in Seq(Event)
    <2>1. \A e \in Struck : e.n \in Nat /\ e.key \in Keys
      BY DEF Struck
    <2> QED
      BY <1>4, <2>1, TapsTypes DEF Typed, WorkerTyped
  <1>6. PICK b : b = Batch("text", item.known, word, taps)
    OBVIOUS
  <1>7. b \in Batches
    BY <1>1, <1>3, <1>5, <1>6 DEF Batch, Batches, Typed, WorkerTyped
  <1>8. Post(b, "sent")
    BY <1>2, <1>4, <1>6 DEF SendWord
  <1>9. pc' = "sent" /\ (reply' = None \/ ~alive)
    BY <1>8 DEF Post, Worker
  <1>10. OneBatch'
    BY <1>1, <1>7, <1>8, BatchPosted DEF Awaiting, FreeInv, Typed, BackendTyped
  <1>11. reply' # "failed" \/ reply' = reply \/ ~alive
    BY <1>8, <1>9, HelperAssumption DEF Post
  <1> QED
    BY <1>1, <1>9, <1>10, <1>11, CorrectionFree DEF Empties

\* What follows the keys typed comes behind a press that is kept back.
LEMMA FollowAdds ==
  ASSUME held \in Seq(Event), NEW ks, FollowKeys(ks), held' # <<>>
  PROVE  held # <<>>
  <1> SUFFICES ASSUME held = <<>> PROVE held' = <<>>
    OBVIOUS
  <1>1. PICK S : S = {k \in ks \cap prior : PressHeld(k)}
    OBVIOUS
  <1>2. S = {}
    BY <1>1 DEF PressHeld, PressIn
  <1>3. PICK o \in Orders(S) : held' = held \o [i \in DOMAIN o |-> ReleaseOf(o[i])]
    BY <1>1 DEF FollowKeys
  <1>4. DOMAIN o = {}
    BY <1>2, <1>3, FS_EmptySet DEF Orders
  <1>5. [i \in DOMAIN o |-> ReleaseOf(o[i])] = <<>>
    BY <1>4
  <1> QED
    BY <1>3, <1>5

LEMMA WordSentFree == Typed /\ FreeInv /\ WordSent => FreeInv'
  <1> SUFFICES ASSUME Typed, FreeInv, WordSent PROVE FreeInv'
    OBVIOUS
  <1>1. UNCHANGED <<hook, deferred, inbox, wDeferred, alive, down, odd>> /\ pc = "sent"
        /\ pc' \in {"release", "retype"} /\ reply # None /\ reply' = None
    BY DEF WordSent, Releases, Worker, modeVars, pastVars
  <1>2. OneBatch'
    BY <1>1, NoneOnItsWay, NoBatches DEF FreeInv
  <1> QED
    BY <1>1, <1>2, HelperAssumption, CorrectionFree DEF Empties

LEMMA LandedFree == Typed /\ FreeInv /\ Landed => FreeInv'
  <1> SUFFICES ASSUME Typed, FreeInv, Landed PROVE FreeInv'
    OBVIOUS
  <1> USE DEF FreeInv
  <1>1. UNCHANGED holdState /\ UNCHANGED inbox /\ pc = "landed" /\ pc' \in {"ready", "cancel", "deliver"}
    BY QuietHolds DEF Landed, Call, Worker
  <1>2. Owed => Owed'
    BY <1>1 DEF Landed, Call, Owed
  <1>3. ActionsWait'
    BY <1>1, <1>2 DEF ActionsWait, holdState
  <1>4. OneBatch'
    BY <1>1, NoneOnItsWay, NoBatches DEF Awaiting, holdState
  <1>5. Failing'
    BY <1>1 DEF Failing, holdState, Orderly
  <1>6. HeldForSomeone'
    BY <1>1, <1>2 DEF HeldForSomeone, Empties, holdState, Orderly
  <1> QED
    BY <1>3, <1>4, <1>5, <1>6

LEMMA ReleaseFree == Typed /\ FreeInv /\ Release => FreeInv'
  <1> SUFFICES ASSUME Typed, FreeInv, Release PROVE FreeInv'
    OBVIOUS
  <1> USE DEF FreeInv
  <1>1. UNCHANGED <<hook, deferred, inbox, wDeferred, alive, down, reply, actionForced>> /\ odd \subseteq odd'
        /\ pc \in {"release", "loop"}
    BY DEF Release, TakeHeld, helperVars, modeVars, actionVars, wordVars, Remember
  <1>2. pc' \in {next, "replay", "finally"} /\ pc' # "posted"
    BY DEF Release, TakeHeld, Worker, Typed, WorkerTyped
  <1>3. \/ pc' = "replay"
        \/ deferred # None
        \/ holding' = FALSE /\ held = <<>> /\ UNCHANGED held
    BY DEF Release, TakeHeld, Worker
  <1>4. Owed => Owed'
    BY <1>1 DEF Owed
  <1>5. ActionsWait'
    BY <1>1, <1>4 DEF ActionsWait
  <1>6. OneBatch'
    BY <1>1, <1>2, NoneOnItsWay, NoBatches DEF Awaiting
  <1>7. Failing'
    BY <1>1, <1>2 DEF Failing, Orderly
  <1>8. HeldForSomeone'
    BY <1>1, <1>3 DEF HeldForSomeone, Empties, Orderly
  <1> QED
    BY <1>5, <1>6, <1>7, <1>8

LEMMA ReplayFree == Typed /\ FreeInv /\ Replay => FreeInv'
  <1> SUFFICES ASSUME Typed, FreeInv, Replay PROVE FreeInv'
    OBVIOUS
  <1> USE DEF FreeInv
  <1>1. UNCHANGED <<hook, wDeferred, alive, actionForced, odd>> /\ pc = "replay"
    BY DEF Replay, modeVars, wordVars
  <1>2. item \in Event /\ inbox \in Seq(Told) /\ down \in Seq(Commands)
    BY <1>1 DEF Typed, WorkerTyped, BackendTyped
  <1>3. PICK decision \in Decisions(item) :
          /\ Listen(item, decision)
          /\ IF decision = "deferred"
             THEN Hold(pressed') /\ deferred' = item
             ELSE UNCHANGED <<holdVars, deferred>>
          /\ IF decision = "passed"
             THEN Post(Batch("none", 0, <<>>, <<item>>), "posted")
             ELSE Worker(IF releases = 0 THEN "retype" ELSE "loop") /\ UNCHANGED <<down, reply>>
    BY DEF Replay
  <1>4. ActionsWait'
    <2>1. CASE decision = "deferred"
      <3>1. item.down /\ item.key \in ActionKeys
        BY <1>3, <2>1, DeferredIsAction
      <3> QED
        BY <1>1, <1>2, <1>3, <2>1, <3>1, HearsAction DEF ActionsWait
    <2>2. CASE decision # "deferred"
      BY <1>1, <1>2, <1>3, <2>2, HearsKey DEF ActionsWait
    <2> QED
      BY <2>1, <2>2
  <1>5. OneBatch' /\ pc' \in {"posted", "retype", "loop"} /\ (pc' # "posted" \/ reply' = None \/ ~alive)
    <2>1. CASE decision = "passed"
      <3>1. PICK items : items = <<item>>
        OBVIOUS
      <3>2. items \in Seq(Event)
        BY <1>2, <3>1
      <3>3. PICK b : b = Batch("none", 0, <<>>, items)
        OBVIOUS
      <3>4. b \in Batches /\ b.check = "none"
        BY <3>2, <3>3, HelperAssumption DEF Batch, Batches, Numbers
      <3>5. Post(b, "posted")
        BY <1>3, <2>1, <3>1, <3>3
      <3>6. OneBatch'
        BY <1>1, <1>2, <3>4, <3>5, BatchPosted DEF Awaiting
      <3> QED
        BY <3>5, <3>6 DEF Post, Worker
    <2>2. CASE decision # "passed"
      <3>1. UNCHANGED <<down, reply>> /\ pc' \in {"retype", "loop"}
        BY <1>3, <2>2 DEF Worker
      <3> QED
        BY <1>1, <3>1, NoneOnItsWay, NoBatches DEF Awaiting
    <2> QED
      BY <2>1, <2>2
  <1>6. Failing'
    BY <1>1, <1>5, HelperAssumption DEF Failing, Orderly
  <1>7. HeldForSomeone'
    BY <1>5 DEF HeldForSomeone, Empties, Orderly
  <1> QED
    BY <1>4, <1>5, <1>6, <1>7

LEMMA PostedFree == Typed /\ FreeInv /\ Posted => FreeInv'
  <1> SUFFICES ASSUME Typed, FreeInv, Posted PROVE FreeInv'
    OBVIOUS
  <1> USE DEF FreeInv
  <1>1. UNCHANGED <<hook, deferred, inbox, wDeferred, alive, down, odd, holding, held, actionForced>> /\ pc = "posted"
        /\ reply # None /\ reply' = None
    BY DEF Posted, modeVars, backendVars, keyVars, holdVars, actionVars
  <1>2. pc' \in {"retype", "loop", "release"} \/ (pc' = "finally" /\ reply # "typed")
    BY DEF Posted, Releases, Worker
  <1>3. OneBatch'
    BY <1>1, <1>2, NoneOnItsWay, NoBatches
  <1>4. CASE pc' \in {"retype", "loop", "release"}
    BY <1>1, <1>3, <1>4, HelperAssumption, CorrectionFree DEF Empties
  <1>5. CASE pc' = "finally" /\ reply # "typed"
    <2>1. ~Orderly
      BY <1>1, <1>5 DEF OneBatch, Failing, Orderly
    <2>2. Owed => Owed'
      BY <1>1 DEF Owed
    <2>3. ActionsWait'
      BY <1>1, <2>2 DEF ActionsWait
    <2>4. Failing' /\ HeldForSomeone'
      BY <1>1, <1>5, <2>1 DEF Failing, HeldForSomeone, Orderly
    <2> QED
      BY <1>3, <2>3, <2>4
  <1> QED
    BY <1>2, <1>4, <1>5

LEMMA ReleaseEndsFree == Typed /\ FreeInv /\ ReleaseEnds => FreeInv'
  <1> SUFFICES ASSUME Typed, FreeInv, ReleaseEnds PROVE FreeInv'
    OBVIOUS
  <1> USE DEF FreeInv
  <1>1. UNCHANGED <<hook, deferred, inbox, wDeferred, alive, down, reply, held, actionForced>> /\ odd \subseteq odd'
        /\ pc = "finally"
    BY DEF ReleaseEnds, helperVars, modeVars, keyVars, actionVars, wordVars, Remember
  <1>2. pc' \in {"release", "ready", "landed"}
    BY DEF ReleaseEnds, EndRelease, Releases, Worker, Typed, WorkerTyped
  <1>3. deferred # None \/ holding' = FALSE
    BY DEF ReleaseEnds
  <1>4. Owed => Owed'
    BY <1>1 DEF Owed
  <1>5. ActionsWait'
    BY <1>1, <1>4 DEF ActionsWait
  <1>6. OneBatch'
    BY <1>1, <1>2, NoneOnItsWay, NoBatches DEF Awaiting
  <1>7. Failing'
    BY <1>1, <1>2 DEF Failing, Orderly
  <1>8. HeldForSomeone'
    BY <1>1, <1>3, <1>4 DEF HeldForSomeone, Empties, Orderly
  <1> QED
    BY <1>5, <1>6, <1>7, <1>8

LEMMA ActionGoneFree == Typed /\ FreeInv /\ ActionGone => FreeInv'
  <1> SUFFICES ASSUME Typed, FreeInv, ActionGone PROVE FreeInv'
    OBVIOUS
  <1> USE DEF FreeInv
  <1>1. UNCHANGED <<hook, deferred, inbox, wDeferred, alive, down, reply, holding, held, odd>>
        /\ pc \in {"deliver", "cancel"} /\ deferred = None
    BY DEF ActionGone, helperVars, modeVars, keyVars, holdVars, wordVars, pastVars
  <1>2. IF actionForced THEN pc' = "release" ELSE pc' \in {"ready", "landed"}
    BY DEF ActionGone, Releases, Worker, Typed, WorkerTyped
  <1>3. ActionsWait'
    BY <1>1 DEF ActionsWait
  <1>4. OneBatch'
    BY <1>1, <1>2, NoneOnItsWay, NoBatches DEF Awaiting
  <1>5. Failing'
    BY <1>1, <1>2 DEF Failing, Orderly
  <1>6. HeldForSomeone'
    BY <1>1, <1>2 DEF HeldForSomeone, Empties, Orderly
  <1> QED
    BY <1>3, <1>4, <1>5, <1>6

LEMMA CancelFree == Typed /\ FreeInv /\ (CancelAction \/ ActionEnds) => FreeInv'
  <1> SUFFICES ASSUME Typed, FreeInv, CancelAction \/ ActionEnds PROVE FreeInv'
    OBVIOUS
  <1> USE DEF FreeInv
  <1>1. UNCHANGED <<hook, inbox, alive, down, reply, odd>> /\ pc \in {"cancel", "acted"} /\ deferred' = None
        /\ pc' = "release"
    BY DEF CancelAction, ActionEnds, Releases, Worker, helperVars, modeVars, pastVars
  <1>2. ActionsWait'
    BY <1>1 DEF ActionsWait
  <1>3. OneBatch'
    BY <1>1, NoneOnItsWay, NoBatches DEF Awaiting
  <1>4. Failing' /\ HeldForSomeone'
    BY <1>1 DEF Failing, HeldForSomeone, Empties, Orderly
  <1> QED
    BY <1>2, <1>3, <1>4

LEMMA SendActionFree == Typed /\ FreeInv /\ SendAction => FreeInv'
  <1> SUFFICES ASSUME Typed, FreeInv, SendAction PROVE FreeInv'
    OBVIOUS
  <1> USE DEF FreeInv
  <1>1. UNCHANGED <<hook, deferred, inbox, alive, odd>> /\ pc = "deliver" /\ deferred # None
    BY DEF SendAction, posting, modeVars, actionVars, pastVars
  <1>2. deferred \in Event
    BY <1>1 DEF Typed, BackendTyped
  <1>3. PICK taps : taps = Taps(<<deferred>>)
    OBVIOUS
  <1>4. taps \in Seq(Event)
    <2>1. \A e \in Event : e.n \in Nat /\ e.key \in Keys
      BY DEF Event
    <2>2. <<deferred>> \in Seq(Event)
      BY <1>2
    <2> QED
      BY <1>3, <2>1, <2>2, TapsTypes
  <1>5. PICK check \in {"none", "action"} : check = IF deferred.seq = 0 THEN "none" ELSE "action"
    OBVIOUS
  <1>6. PICK b : b = Batch(check, deferred.seq, <<>>, taps)
    OBVIOUS
  <1>7. b \in Batches
    BY <1>2, <1>4, <1>6, EventSeq DEF Batch, Batches
  <1>8. Post(b, "acting")
    BY <1>3, <1>5, <1>6 DEF SendAction
  <1>9. pc' = "acting" /\ (reply' = None \/ ~alive)
    BY <1>8 DEF Post, Worker
  <1>10. OneBatch'
    BY <1>1, <1>7, <1>8, BatchPosted DEF Awaiting, Typed, BackendTyped
  <1>11. ActionsWait'
    BY <1>1, <1>9 DEF ActionsWait, Owed
  <1>12. Failing' /\ HeldForSomeone'
    BY <1>1, <1>9, HelperAssumption DEF Failing, HeldForSomeone, Orderly
  <1> QED
    BY <1>10, <1>11, <1>12

LEMMA ActionSentFree == Typed /\ FreeInv /\ ActionSent => FreeInv'
  <1> SUFFICES ASSUME Typed, FreeInv, ActionSent PROVE FreeInv'
    OBVIOUS
  <1> USE DEF FreeInv
  <1>1. UNCHANGED <<hook, deferred, inbox, wDeferred, alive, down, odd, holding, actionForced>> /\ pc = "acting"
        /\ pc' = "acted" /\ reply # None /\ reply' = None
    BY DEF ActionSent, Worker, modeVars, holdVars, wordVars
  <1>2. held' # <<>> => held # <<>>
    BY FollowAdds DEF ActionSent, Typed, BackendTyped
  <1>3. Owed /\ Owed'
    BY <1>1 DEF Owed
  <1>4. ActionsWait'
    BY <1>1, <1>3 DEF ActionsWait
  <1>5. OneBatch'
    BY <1>1, NoneOnItsWay, NoBatches
  <1>6. Failing'
    BY <1>1, HelperAssumption DEF Failing, Orderly
  <1>7. HeldForSomeone'
    BY <1>1, <1>2, <1>3 DEF HeldForSomeone, Empties, Orderly
  <1> QED
    BY <1>4, <1>5, <1>6, <1>7

LEMMA WorkerStepFree == Typed /\ FreeInv /\ WorkerStep => FreeInv'
  BY EventsFree, HoldInputFree, CollectLateFree, CheckHoldFree, SendWordFree, WordSentFree, LandedFree, ReleaseFree,
     ReplayFree, PostedFree, ReleaseEndsFree, ActionGoneFree, CancelFree, SendActionFree, ActionSentFree
  DEF WorkerStep

-----------------------------------------------------------------------------
(* The helper's steps keep what was promised *)

\* Whatever happens in the helper, the parent goes on with what it had.
LEMMA ParentKeepsPromise ==
  ASSUME FreeInv, UNCHANGED parentVars, odd \subseteq odd', OneBatch', Failing'
  PROVE  FreeInv'
  <1> USE DEF FreeInv
  <1>1. UNCHANGED <<hook, deferred, inbox, wDeferred, pc, holding, held, actionForced>>
    BY DEF parentVars, keyVars, holdVars, actionVars, workerVars, stepVars, wordVars
  <1>2. Owed' <=> Owed
    BY <1>1 DEF Owed
  <1>3. ActionsWait'
    BY <1>1, <1>2 DEF ActionsWait
  <1>4. HeldForSomeone'
    BY <1>1, <1>2 DEF HeldForSomeone, Empties, Orderly
  <1> QED
    BY <1>3, <1>4

LEMMA HandleCommandFree == Typed /\ FreeInv /\ HandleCommand => FreeInv'
  <1> SUFFICES ASSUME Typed, FreeInv, HandleCommand PROVE FreeInv'
    OBVIOUS
  <1>1. down \in Seq(Commands) /\ down # <<>> /\ down' = Tail(down) /\ UNCHANGED parentVars /\ odd \subseteq odd'
        /\ alive /\ pc' = pc
    BY DEF HandleCommand, Typed, BackendTyped, Remember, parentVars, workerVars, stepVars
  <1>2. /\ IF IsAwaited(Head(down))
           THEN reply' = "typed" \/ (Head(down).check # "none" /\ reply' = "refused")
           ELSE UNCHANGED reply
        /\ alive'
    <2>1. ASSUME NEW seq, NEW swallow \in BOOLEAN, Head(down).cmd = "verdict", Verdict(seq, swallow)
          PROVE  UNCHANGED reply /\ alive' = alive /\ ~IsAwaited(Head(down))
      BY <2>1 DEF Verdict, helperVars, modeVars, IsAwaited
    <2>2. ASSUME NEW seq, Head(down).cmd = "ack", SeqAck(seq)
          PROVE  UNCHANGED reply /\ alive' = alive /\ ~IsAwaited(Head(down))
      BY <2>2 DEF SeqAck, modeVars, IsAwaited
    <2>3. ASSUME NEW on \in BOOLEAN, Head(down).cmd = "grab", SetGrab(on)
          PROVE  UNCHANGED reply /\ alive' = alive /\ ~IsAwaited(Head(down))
      BY <2>3 DEF SetGrab, helperVars, modeVars, IsAwaited
    <2>4. ASSUME Head(down) \in Batches, EmitBatch(Head(down))
          PROVE  /\ IF IsAwaited(Head(down))
                    THEN reply' = "typed" \/ (Head(down).check # "none" /\ reply' = "refused")
                    ELSE UNCHANGED reply
                 /\ alive' = alive
      <3>1. Refuses(Head(down)) => Head(down).check # "none"
        BY DEF Refuses
      <3>2. Head(down).cmd = "batch"
        BY <2>4 DEF Batches
      <3> QED
        BY <2>4, <3>1, <3>2 DEF EmitBatch, modeVars, IsAwaited
    <2> QED
      BY <1>1, <2>1, <2>2, <2>3, <2>4, CommandCases DEF Typed
  <1>3. OneBatch'
    BY <1>1, <1>2, CommandTaken DEF FreeInv
  <1>4. Failing'
    BY <1>1, <1>2 DEF FreeInv, Failing, Orderly
  <1> QED
    BY <1>1, <1>3, <1>4, ParentKeepsPromise

LEMMA TroubleFree ==
  Typed /\ FreeInv /\ (TimeRunsOut \/ HelperDies \/ \E on \in BOOLEAN : LockScreen(on)) => FreeInv'
  <1> SUFFICES ASSUME Typed, FreeInv, TimeRunsOut \/ HelperDies \/ \E on \in BOOLEAN : LockScreen(on)
               PROVE  FreeInv'
    OBVIOUS
  <1>1. CASE TimeRunsOut
    <2>1. UNCHANGED parentVars /\ UNCHANGED <<down, alive, reply, pc>> /\ odd \subseteq odd'
      BY <1>1 DEF TimeRunsOut, Expire, modeVars, parentVars, workerVars, stepVars, Remember
    <2>2. OneBatch' /\ Failing'
      BY <2>1, BatchStays DEF FreeInv, Failing, Orderly
    <2> QED
      BY <2>1, <2>2, ParentKeepsPromise
  <1>2. CASE HelperDies
    <2>1. UNCHANGED parentVars /\ UNCHANGED pc /\ down' = <<>> /\ odd' = odd \cup {"died"}
          /\ reply' \in {reply, "failed"}
      BY <1>2 DEF HelperDies, Die, parentVars, workerVars, stepVars, Remember
    <2>2. OneBatch' /\ Failing'
      BY <2>1 DEF FreeInv, OneBatch, Failing, Orderly
    <2> QED
      BY <2>1, <2>2, ParentKeepsPromise
  <1>3. ASSUME NEW on \in BOOLEAN, LockScreen(on) PROVE FreeInv'
    <2>1. UNCHANGED parentVars /\ UNCHANGED <<alive, reply, pc>> /\ odd \subseteq odd'
      BY <1>3 DEF LockScreen, helperVars, modeVars, parentVars, workerVars, stepVars, Remember
    <2>2. PICK c : c = [cmd |-> "grab", on |-> on]
      OBVIOUS
    <2>3. c \in Commands /\ ~IsAwaited(c) /\ down' = Append(down, c)
      BY <1>3, <2>2 DEF LockScreen, Commands, IsAwaited
    <2>4. OneBatch' /\ Failing'
      BY <2>1, <2>3, CommandAdded DEF FreeInv, Failing, Typed, BackendTyped, Orderly
    <2> QED
      BY <2>1, <2>4, ParentKeepsPromise
  <1> QED
    BY <1>1, <1>2, <1>3

\* Whoever waited gets the failure; of a key that is replayed the rest may stay kept back.
LEMMA TimedOutFree == Typed /\ FreeInv /\ CommandTimesOut => FreeInv'
  <1> SUFFICES ASSUME Typed, FreeInv, CommandTimesOut PROVE FreeInv'
    OBVIOUS
  <1> USE DEF FreeInv
  <1>1. UNCHANGED <<hook, deferred, inbox, wDeferred, pc, alive, holding, held, actionForced>>
        /\ reply' = "failed" /\ odd \subseteq odd' /\ (pc = "posted" => "stranded" \in odd')
    BY DEF CommandTimesOut, modeVars, keyVars, holdVars, actionVars, workerVars, stepVars, wordVars, Remember
  <1>2. Owed' <=> Owed
    BY <1>1 DEF Owed
  <1>3. ActionsWait'
    BY <1>1, <1>2 DEF ActionsWait
  <1>4. OneBatch'
    BY <1>1, GaveUpTypes DEF OneBatch, Typed, BackendTyped
  <1>5. Failing'
    BY <1>1 DEF Failing, Orderly
  <1>6. HeldForSomeone'
    BY <1>1, <1>2 DEF HeldForSomeone, Empties, Orderly
  <1> QED
    BY <1>3, <1>4, <1>5, <1>6

LEMMA RestartFree == Typed /\ FreeInv /\ Restart => FreeInv'
  <1> SUFFICES ASSUME Typed, FreeInv, Restart PROVE FreeInv'
    OBVIOUS
  <1> USE DEF FreeInv
  <1>1. UNCHANGED <<hook, held, holding, down, deferred, actionForced, wDeferred, pc, reply, odd>> /\ ~alive
    BY DEF Restart, actionVars, stepVars, wordVars, pastVars
  <1>2. (Owed => Owed')
        /\ \A i \in DOMAIN inbox' : inbox'[i].deferred => inbox'[i].down /\ inbox'[i].key \in ActionKeys
    BY <1>1, HearsReset DEF Restart, Typed, BackendTyped
  <1>3. ActionsWait'
    BY <1>1, <1>2 DEF ActionsWait
  <1>4. OneBatch' /\ Failing'
    BY <1>1, BatchStays DEF Failing, Orderly
  <1>5. HeldForSomeone'
    BY <1>1, <1>2 DEF HeldForSomeone, Empties, Orderly
  <1> QED
    BY <1>3, <1>4, <1>5

LEMMA TypeFree == FreeInv /\ Type => FreeInv'
  <1> SUFFICES ASSUME FreeInv, Type PROVE FreeInv'
    OBVIOUS
  <1>1. UNCHANGED parentVars /\ UNCHANGED <<down, alive, reply, pc>> /\ odd \subseteq odd'
    BY DEF Type, PhysicalKey, modeVars, parentVars, backendVars, workerVars, stepVars, Remember
  <1>2. OneBatch' /\ Failing'
    BY <1>1, BatchStays DEF FreeInv, Failing, Orderly
  <1> QED
    BY <1>1, <1>2, ParentKeepsPromise

LEMMA FreeNext == Typed /\ FreeInv /\ [Next]_vars => FreeInv'
  <1> SUFFICES ASSUME Typed, FreeInv, [Next]_vars PROVE FreeInv'
    OBVIOUS
  <1>1. CASE UNCHANGED vars
    <2>1. UNCHANGED parentVars /\ UNCHANGED <<down, alive, reply, pc, odd>>
      BY <1>1 DEF vars, helperVars, modeVars, backendVars, workerVars, stepVars, pastVars, parentVars
    <2>2. OneBatch' /\ Failing'
      BY <2>1, BatchStays DEF FreeInv, Failing, Orderly
    <2> QED
      BY <2>1, <2>2, ParentKeepsPromise
  <1>2. CASE Next
    BY <1>2, TypeFree, HandleCommandFree, TroubleFree, DispatchesFree, WorkerStepFree, TimersFree, TimedOutFree,
       RestartFree
    DEF Next
  <1> QED
    BY <1>1, <1>2

LEMMA FreeInit == Init => FreeInv
  <1> SUFFICES ASSUME Init PROVE FreeInv
    OBVIOUS
  <1>1. hook.at = "idle" /\ deferred = None /\ inbox = <<>> /\ down = <<>> /\ held = <<>> /\ ~holding
        /\ pc = "ready" /\ alive /\ reply = None
    BY DEF Init, HelperInit, Idle
  <1>2. ActionsWait
    BY <1>1 DEF ActionsWait
  <1>3. OneBatch
    BY <1>1 DEF OneBatch
  <1>4. Failing /\ HeldForSomeone
    BY <1>1, HelperAssumption DEF Failing, HeldForSomeone, Orderly
  <1> QED
    BY <1>2, <1>3, <1>4 DEF FreeInv

\* With nothing under way between helper, dispatch thread and worker, the
\* keyboard is not held and no Enter or Tab is withheld (hold_input,
\* release_input, complete_action) - after any number of late verdicts, answers
\* given up on (_request), deaths of the helper and locks of the session, and
\* whatever slips of the code there were; and no key is kept back, if there was
\* none of these, though words and actions may have been given up on.
THEOREM KeyboardEndsFree == Spec => []NeverCaptured
  <1>1. Typed /\ FreeInv => NeverCaptured
    <2> SUFFICES ASSUME Typed, FreeInv, Quiet PROVE ~holding /\ deferred = None /\ (Orderly => held = <<>>)
      BY DEF NeverCaptured
    <2>1. pc = "ready" /\ inbox = <<>> /\ ~wDeferred /\ hook.at = "idle"
      BY DEF Quiet, Ready
    <2>2. ~Owed
      BY <2>1 DEF Owed
    <2>3. deferred = None
      BY <2>2 DEF FreeInv, ActionsWait
    <2>4. ~holding /\ (Orderly => held = <<>>)
      BY <2>1, <2>2, <2>3 DEF FreeInv, HeldForSomeone, Empties, Orderly
    <2> QED
      BY <2>3, <2>4 DEF Orderly
  <1>2. Init => Typed /\ FreeInv
    BY TypesInit, FreeInit
  <1>3. (Typed /\ FreeInv) /\ [Next]_vars => (Typed /\ FreeInv)'
    BY TypesNext, FreeNext
  <1> QED
    BY <1>1, <1>2, <1>3, PTL DEF Spec
=============================================================================
