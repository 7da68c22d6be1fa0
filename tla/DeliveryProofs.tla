--------------------------- MODULE DeliveryProofs ---------------------------
(***************************************************************************)
(* Proofs about Delivery, for every set of fragments, size of a batch and  *)
(* number of faults: the chain goes on only where the pin showed it; a     *)
(* clearing tells the archives it deleted from those it could not delete;  *)
(* no fragment is in two catalogs of a chain, and the chain keeps the      *)
(* promise of Ledger. A chain goes back from a catalog to the one it names *)
(* and is as long as it is, so what it lists is followed along the whole   *)
(* of it, and from one state of the group to the next.                     *)
(***************************************************************************)
EXTENDS Delivery, FiniteSetTheorems, WellFoundedInduction, TLAPS

-----------------------------------------------------------------------------
(* The pin.                                                                *)

\* The labels of a round between its look at the pin and the pinning of its catalog.
Round == {"send", "receipt", "latest", "catalog", "note", "finish"}

\* Inductive: unless it moved since the worker looked last, the pin is what the worker found
\* when the round began, and the new catalog once that is to be acknowledged.
PinInv ==
    /\ pc \in Round => unseen \/ Pinned = head
    /\ pc = "acknowledge" => unseen \/ Pinned = pending.catalog

\* What every step does of which the property speaks.
Continues ==
    /\ pc = "finish" /\ pc' = "fresh" => unseen \/ Pinned \in {pending.before, pending.catalog}
    /\ known' \notin {0, known} => unseen \/ Pinned = known'

LEMMA PinInit == Init => PinInv
  BY DEF Init, PinInv, Round

\* The pin is where the pins are.
LEMMA SamePin ==
  ASSUME UNCHANGED pins
  PROVE  Pinned' = Pinned
  BY DEF Pinned

\* A round that ends has nothing to keep.
LEMMA IdlePin ==
  ASSUME pc' = "idle", UNCHANGED known
  PROVE  PinInv' /\ Continues
  BY DEF PinInv, Continues, Round

\* What is sent to the group moves no pin.
LEMMA SendsLeavePins ==
  ASSUME NEW doc, NEW label, Calls(Sends(doc), label)
  PROVE  /\ UNCHANGED <<pins, unseen, store>>
         /\ pc' = label
  BY DEF Calls, Effect, Sends

LEMMA DeliversPin ==
  ASSUME PinInv, Delivers
  PROVE  PinInv' /\ Continues
  <1>1. CASE Deliver
    <2>1. UNCHANGED <<pins, known>>
      BY <1>1 DEF Deliver, Elsewhere, server, store
    <2>2. CASE UNCHANGED pc
      BY <1>1, <2>1, <2>2 DEF Deliver, Idle, PinInv, Continues, Round
    <2>3. CASE head' = Pinned /\ pc' \in {"send", "finish"}
      BY <1>1, <2>1, <2>3, SamePin DEF Deliver, Idle, PinInv, Continues, Round
    <2> QED
      BY <1>1, <2>2, <2>3 DEF Deliver, Goes
  <1>2. CASE SendArchive
    <2>1. PICK r \in Unsent : Calls(Sends(Document("archive", r.content, 0)), "receipt")
      BY <1>2 DEF SendArchive
    <2> QED
      BY <1>2, <2>1, SendsLeavePins, SamePin DEF SendArchive, PinInv, Continues, Round, store
  <1>3. CASE Receipt
    BY <1>3, SamePin DEF Receipt, Goes, Elsewhere, server, PinInv, Continues, Round
  <1>4. CASE Entries
    <2>1. UNCHANGED <<pins, known, unseen>>
      BY <1>4 DEF Entries, Elsewhere, server, store
    <2>2. CASE GivesUp
      BY <2>1, <2>2, IdlePin DEF GivesUp, Goes
    <2>3. CASE pc' = "latest" /\ UNCHANGED head
      BY <1>4, <2>1, <2>3, SamePin DEF Entries, PinInv, Continues, Round
    <2> QED
      BY <1>4, <2>2, <2>3 DEF Entries, Goes
  <1>5. CASE CheckLatest
    <2>1. UNCHANGED <<pins, known>>
      BY <1>5 DEF CheckLatest, Elsewhere, server, store
    <2>2. CASE GivesUp
      BY <2>1, <2>2, IdlePin DEF GivesUp, Goes
    <2>3. CASE Pinned = head /\ pc' = "catalog" /\ UNCHANGED head
      BY <1>5, <2>1, <2>3, SamePin DEF CheckLatest, PinInv, Continues, Round
    <2> QED
      BY <1>5, <2>2, <2>3 DEF CheckLatest, Goes
  <1>6. CASE SendCatalog
    BY <1>6, SendsLeavePins, SamePin DEF SendCatalog, PinInv, Continues, Round, store
  <1>7. CASE NotePending
    BY <1>7, SamePin DEF NotePending, Goes, Elsewhere, server, PinInv, Continues, Round
  <1>8. CASE FinishRefused
    BY <1>8, IdlePin DEF FinishRefused, GivesUp, Goes, store
  <1>9. CASE FinishPinned
    BY <1>9, SamePin DEF FinishPinned, Goes, Elsewhere, server, store, PinInv, Continues, Round
  <1>10. CASE FinishPin
    <2>1. pc = "finish" /\ pc' = "fresh" /\ head = pending.before /\ UNCHANGED known
      BY <1>10 DEF FinishPin, Calls, store
    <2> QED
      BY <2>1 DEF PinInv, Continues, Round
  <1>11. CASE CheckFresh
    <2>1. UNCHANGED <<pins, known, pending>>
      BY <1>11 DEF CheckFresh, Elsewhere, server, store
    <2>2. CASE GivesUp
      BY <2>1, <2>2, IdlePin DEF GivesUp, Goes
    <2>3. CASE Pinned = pending.catalog /\ pc' = "acknowledge"
      BY <1>11, <2>1, <2>3, SamePin DEF CheckFresh, PinInv, Continues, Round
    <2> QED
      BY <1>11, <2>2, <2>3 DEF CheckFresh, Goes
  <1>12. CASE Acknowledge
    BY <1>12 DEF Acknowledge, GivesUp, Goes, PinInv, Continues, Round
  <1> QED
    BY <1>1, <1>2, <1>3, <1>4, <1>5, <1>6, <1>7, <1>8, <1>9, <1>10, <1>11, <1>12 DEF Delivers

\* A new chain, and a clearing, are outside a round; the chain ends at none.
LEMMA ResetsPin ==
  ASSUME PinInv, Restart \/ Resets
  PROVE  PinInv' /\ Continues
  <1> DEFINE outside == {"idle", "unpin", "forget", "clear", "search", "progress", "notice"}
  <1>1. pc' \in outside
    BY DEF Restart, Resets, Notice, Unpin, RestartChain, Clear, DeleteABatch, Search, Progress,
           FinishClearing, Calls, Goes, GivesUp
  <1>2. known' \in {0, known}
    BY DEF Restart, Resets, Notice, Unpin, RestartChain, Clear, DeleteABatch, Search, Progress,
           FinishClearing, Calls, store
  <1> QED
    BY <1>1, <1>2 DEF PinInv, Continues, Round

\* What others do to the pin is noted.
LEMMA OthersMovePin ==
  ASSUME PinInv, Others
  PROVE  PinInv' /\ Continues
  <1>1. UNCHANGED <<pc, head, pending, known>>
    BY DEF Others, Ages, OthersPin, CarriedOutLate, store
  <1>2. unseen' \/ UNCHANGED pins
    BY DEF Others, Ages, OthersPin, CarriedOutLate, server
  <1>3. unseen => unseen'
    BY DEF Others, Ages, OthersPin, CarriedOutLate
  <1> QED
    BY <1>1, <1>2, <1>3, SamePin DEF PinInv, Continues

LEMMA PinNext == PinInv /\ [Next]_vars => PinInv' /\ Continues
  <1> SUFFICES ASSUME PinInv, [Next]_vars PROVE PinInv' /\ Continues
    OBVIOUS
  <1>1. CASE Collect \/ Compact
    BY <1>1, SamePin DEF Collect, Compact, Aside, server, PinInv, Continues
  <1>2. CASE NoAnswer \/ Interrupted
    BY <1>2, IdlePin DEF NoAnswer, Interrupted, GivesUp, Goes, store
  <1>3. CASE UNCHANGED vars
    BY <1>3, SamePin DEF vars, server, store, PinInv, Continues
  <1> QED
    BY <1>1, <1>2, <1>3, DeliversPin, ResetsPin, OthersMovePin DEF Next

\* However the pin is moved, and wherever a round is cut off: the worker pins a catalog only
\* over the one it names, and goes on from a catalog only if the pin showed it, unless the pin
\* moved after it looked last (deliver, finish_catalog).
THEOREM ChainFollowsPin == Spec => PinContinuesChain
  <1>1. PinInv /\ [Next]_vars => [Continues]_vars
    BY PinNext
  <1>2. Spec => []PinInv
    BY PinInit, PinNext, PTL DEF Spec
  <1> QED
    BY <1>1, <1>2, PTL DEF Spec, PinContinuesChain, Continues

-----------------------------------------------------------------------------
(* The clearing.                                                           *)

States == {"queued", "held", "listed", "dropped"}
RowType == [content : SUBSET Fragments, msg : Nat, state : States]

\* Nobody can delete message m any more.
Stays(m) == m \notin gone /\ (m <= aged \/ m < FirstRegular)

InRange(d, m) == d.op = "delete" /\ m \in d.first..d.last

\* No message is deleted before it is sent; a deletion is asked for only up to the last message.
MessagesInv ==
    /\ (\E S : messages \in Seq(S)) /\ messages # <<>>
    /\ aged \in Nat
    /\ gone \subseteq FirstRegular..Len(messages)
    /\ \A d \in late : d.op = "delete" =>
         /\ d.first \in Nat /\ d.last \in Nat
         /\ FirstRegular <= d.first /\ d.last <= Len(messages)

RowsInv ==
    /\ rows \subseteq RowType
    /\ \A r \in rows : r.msg # 1 /\ r.msg <= Len(messages)

\* The message that is to become a row's, and the one a clearing is to start at.
ItemInv ==
    /\ pc = "idle" => item = None
    /\ pc = "receipt" =>
         /\ item.row \in RowType /\ item.row.state = "queued"
         /\ item.msg \in FirstRegular..Len(messages)
         /\ item.msg \notin gone /\ \A d \in late : ~InRange(d, item.msg)
    /\ pc \in {"unpin", "forget"} /\ item # None =>
         /\ item.msg \in FirstRegular..Len(messages)
         /\ \A r \in rows : r.msg <= item.msg

\* Behind a message that is kept nothing is left to delete.
ClearingInv ==
    clearing # None =>
      /\ clearing \in [next : Nat, kept : Nat]
      /\ clearing.next \in 1..Len(messages)
      /\ clearing.kept # 0 => clearing.next < FirstRegular

Delivering == Round \cup {"fresh", "acknowledge", "notice", "unpin", "forget"}

\* A batch is deleted from some place on, and before that place is a message that stays.
WorkInv ==
    /\ pc \in Delivering => clearing = None
    /\ pc \in {"clear", "search", "progress"} => clearing # None
    /\ pc \in {"search", "progress"} =>
         /\ clearing.kept = 0 /\ clearing.next >= FirstRegular
         /\ low \in Int /\ First <= low /\ low <= clearing.next + 1
    /\ pc = "search" =>
         /\ high \in Int /\ First < low /\ low <= high /\ high <= clearing.next + 1
         /\ high..clearing.next \subseteq gone
         /\ \E m \in (low - 1)..clearing.next : Stays(m)
    /\ pc = "progress" =>
         /\ low..clearing.next \subseteq gone
         /\ low > First => Stays(low - 1)

\* A request of the clearing deletes from the newest message on that is still to be deleted.
OfClearing(first, last) ==
    clearing # None /\ clearing.kept = 0 /\ last = clearing.next /\ first \in FirstRegular..last

\* Nothing that is asked for deletes the message of r.
Safe(r) ==
    /\ r.msg \notin gone
    /\ \A d \in late : InRange(d, r.msg) => Stays(r.msg)

\* An archive held while the clearing comes down to it, and once some message was kept.
HeldInv(r) ==
    /\ clearing # None /\ r.msg # 0
    /\ clearing.kept = 0 =>
         /\ r.msg > clearing.next => r.msg \in gone
         /\ r.msg \in gone => r.msg..clearing.next \subseteq gone
         /\ \A d \in late : InRange(d, r.msg) =>
              Stays(r.msg) \/ r.msg \in gone \/ d.last >= clearing.next
    /\ clearing.kept # 0 => IF r.msg <= clearing.kept THEN Safe(r) ELSE r.msg \in gone

RowInv(r) ==
    /\ r.state = "queued" => Safe(r) /\ (clearing # None => r.msg = 0)
    /\ r.state = "held" => HeldInv(r)
    /\ r.state = "dropped" => r.msg \in gone

StatesInv == \A r \in rows : RowInv(r)

\* Inductive: where the clearing is, and what is still asked for, bounds what can be deleted.
ClearInv == MessagesInv /\ RowsInv /\ ItemInv /\ ClearingInv /\ WorkInv /\ StatesInv

\* What every step does to the group.
GroupStep ==
    /\ (\E S : messages' \in Seq(S)) /\ Len(messages) <= Len(messages')
    /\ aged' \in Nat /\ aged <= aged'
    /\ \/ gone' = gone
       \/ \E first, last \in Nat :
            /\ OfClearing(first, last)
                 \/ \E d \in late : d.op = "delete" /\ d.first = first /\ d.last = last
            /\ Deletable(first, last)
            /\ gone' = gone \cup (first..last)
    /\ \A d \in late' : d.op = "delete" => d \in late \/ OfClearing(d.first, d.last)

\* The larger of two.
LEMMA MaxOfTwo ==
  ASSUME NEW a \in Int, NEW b \in Int, NEW S, S = {a, b}
  PROVE  Max(S) \in S /\ Max(S) >= a /\ Max(S) >= b
  <1>1. \E x \in S : \A y \in S : x >= y
    BY a >= b \/ b >= a
  <1> QED
    BY <1>1 DEF Max

LEMMA FirstOfBatch ==
  ASSUME clearing.next \in Nat
  PROVE  /\ First \in Nat /\ FirstRegular <= First
         /\ clearing.next >= FirstRegular => First <= clearing.next
  <1> DEFINE x == clearing.next - DeleteBatch + 1
  <1> DEFINE both == {FirstRegular, x}
  <1>2. First = Max(both)
    BY DEF First
  <1>3. x \in Int /\ x <= clearing.next /\ FirstRegular \in Int /\ both = {FirstRegular, x}
    BY LimitsAssumption DEF FirstRegular
  <1> HIDE DEF x, both
  <1>4. Max(both) \in both /\ Max(both) >= FirstRegular /\ Max(both) >= x
    BY <1>3, MaxOfTwo
  <1> QED
    BY <1>2, <1>3, <1>4 DEF FirstRegular

LEMMA LastMessage ==
  ASSUME MessagesInv
  PROVE  Len(messages) \in Nat /\ Len(messages) >= 1
  <1>1. PICK S : messages \in Seq(S)
    BY DEF MessagesInv
  <1> QED
    BY <1>1 DEF MessagesInv

LEMMA OneMoreMessage ==
  ASSUME MessagesInv, NEW doc, messages' = Append(messages, doc)
  PROVE  /\ \E S : messages' \in Seq(S)
         /\ Len(messages') = Len(messages) + 1
  <1>1. PICK S : messages \in Seq(S)
    BY DEF MessagesInv
  <1> DEFINE T == S \cup {doc}
  <1>2. messages \in Seq(T)
    BY <1>1
  <1>3. messages' \in Seq(T) /\ Len(messages') = Len(messages) + 1
    BY <1>2
  <1> QED
    BY <1>3


\* What a request does to the group when it is carried out.
LEMMA EffectOnGroup ==
  ASSUME MessagesInv, NEW r, Effect(r), aged' = aged, late' \subseteq late,
         r.op = "delete" =>
           /\ r.first \in Nat /\ r.last \in Nat
           /\ OfClearing(r.first, r.last) \/ r \in late
  PROVE  GroupStep
  <1>1. (\E S : messages' \in Seq(S)) /\ Len(messages) <= Len(messages')
    <2>1. CASE r.op = "send"
      BY <2>1, OneMoreMessage, LastMessage DEF Effect
    <2>2. CASE r.op # "send"
      BY <2>2, LastMessage DEF Effect, MessagesInv
    <2> QED
      BY <2>1, <2>2
  <1>2. gone' = gone \/ \E first, last \in Nat :
          /\ OfClearing(first, last)
               \/ \E d \in late : d.op = "delete" /\ d.first = first /\ d.last = last
          /\ Deletable(first, last)
          /\ gone' = gone \cup (first..last)
    BY DEF Effect, Accepts
  <1>3. aged' \in Nat /\ aged <= aged'
    BY DEF MessagesInv
  <1> QED
    BY <1>1, <1>2, <1>3 DEF GroupStep

\* The batch, and its part that is tried, are of the clearing.
LEMMA BatchOfClearing ==
  ASSUME ClearingInv, pc = "clear", clearing # None, Last >= FirstRegular
  PROVE  OfClearing(First, Last) /\ First \in Nat /\ Last \in Nat
  <1>1. clearing.next \in Nat /\ clearing.kept = 0
    BY DEF ClearingInv, Last, FirstRegular
  <1>2. First \in Nat /\ FirstRegular <= First /\ First <= clearing.next
    BY <1>1, FirstOfBatch DEF Last
  <1> QED
    BY <1>1, <1>2 DEF OfClearing, Last, FirstRegular

LEMMA MiddleOfClearing ==
  ASSUME ClearingInv, WorkInv, pc = "search", low < high
  PROVE  /\ OfClearing(Middle, Last) /\ Middle \in Nat /\ Last \in Nat
         /\ low <= Middle /\ Middle < high
  <1>1. /\ clearing # None /\ clearing.kept = 0 /\ low \in Int /\ high \in Int
        /\ First <= low /\ high <= clearing.next + 1 /\ clearing.next \in Nat
    BY DEF WorkInv, ClearingInv
  <1>2. First \in Nat /\ FirstRegular <= First
    BY <1>1, FirstOfBatch
  <1>3. Middle \in Int /\ low <= Middle /\ Middle < high
    BY <1>1 DEF Middle
  <1> QED
    BY <1>1, <1>2, <1>3 DEF OfClearing, Last, FirstRegular

\* A request that the worker may be about to make deletes only what the clearing is at.
LEMMA RequestsOfClearing ==
  ASSUME ClearingInv, WorkInv, NEW r \in Requests, r.op = "delete"
  PROVE  /\ r.first \in Nat /\ r.last \in Nat
         /\ OfClearing(r.first, r.last)
  <1>1. CASE pc = "clear" /\ Last >= FirstRegular
    BY <1>1, BatchOfClearing DEF Requests, Deletes, WorkInv
  <1>2. CASE pc = "search" /\ low < high
    BY <1>2, MiddleOfClearing DEF Requests, Deletes
  <1>3. CASE ~(pc = "clear" /\ Last >= FirstRegular) /\ ~(pc = "search" /\ low < high)
    BY <1>3 DEF Requests, Sends, Pins, UnpinsAll
  <1> QED
    BY <1>1, <1>2, <1>3

LEMMA GroupNext == ClearInv /\ [Next]_vars => GroupStep
  <1> SUFFICES ASSUME ClearInv, [Next]_vars PROVE GroupStep
    OBVIOUS
  <1> USE DEF ClearInv
  <1>1. CASE UNCHANGED <<messages, gone, aged, late>>
    BY <1>1, LastMessage DEF GroupStep, MessagesInv
  <1>2. CASE NoAnswer
    <2>1. PICK r \in Requests :
            (Effect(r) /\ UNCHANGED late) \/ (late' = late \cup {r} /\ UNCHANGED server)
      BY <1>2 DEF NoAnswer
    <2>2. UNCHANGED aged
      BY <1>2 DEF NoAnswer
    <2>3. CASE Effect(r) /\ UNCHANGED late
      BY <2>2, <2>3, EffectOnGroup, RequestsOfClearing
    <2>4. CASE late' = late \cup {r} /\ UNCHANGED server
      BY <2>2, <2>4, RequestsOfClearing, LastMessage DEF GroupStep, MessagesInv, server
    <2> QED
      BY <2>1, <2>3, <2>4
  <1>3. CASE Others
    <2>1. CASE Ages
      BY <2>1, LastMessage DEF Ages, server, GroupStep, MessagesInv
    <2>2. CASE OthersPin
      <3>1. Effect(Pins(known)) => UNCHANGED <<messages, gone>>
        <4> DEFINE r == Pins(known)
        <4>1. r.op = "pin"
          BY DEF Pins
        <4> HIDE DEF r
        <4>2. Effect(r) => UNCHANGED <<messages, gone>>
          BY <4>1 DEF Effect
        <4> QED
          BY <4>2 DEF r
      <3>2. /\ UNCHANGED <<gone, aged, late>>
            /\ UNCHANGED messages \/ \E doc : messages' = Append(messages, doc)
        BY <2>2, <3>1 DEF OthersPin
      <3> QED
        BY <3>1, <3>2, LastMessage, OneMoreMessage DEF GroupStep, MessagesInv
    <2>3. CASE CarriedOutLate
      <3>1. PICK r \in late : /\ late' = late \ {r}
                              /\ IF Accepts(r) THEN Effect(r) ELSE UNCHANGED server
        BY <2>3 DEF CarriedOutLate
      <3>2. UNCHANGED aged
        BY <2>3 DEF CarriedOutLate
      <3>3. CASE Effect(r)
        BY <3>1, <3>2, <3>3, EffectOnGroup DEF MessagesInv
      <3>4. CASE UNCHANGED server
        BY <3>1, <3>2, <3>4, LastMessage DEF GroupStep, MessagesInv, server
      <3> QED
        BY <3>1, <3>3, <3>4
    <2> QED
      BY <1>3, <2>1, <2>2, <2>3 DEF Others
  <1>4. ASSUME NEW r, NEW label, Calls(r, label), r.op # "delete"
        PROVE  GroupStep
    BY <1>4, EffectOnGroup DEF Calls
  <1>5. CASE SendArchive \/ SendCatalog \/ FinishPin \/ Notice \/ Unpin
    <2>1. \/ \E doc, label : Calls(Sends(doc), label)
          \/ \E m, label : Calls(Pins(m), label)
          \/ \E label : Calls(UnpinsAll, label)
      BY <1>5, Zenon DEF SendArchive, SendCatalog, FinishPin, Notice, Unpin
    <2>2. /\ \A doc : Sends(doc).op # "delete"
          /\ \A m : Pins(m).op # "delete"
          /\ UnpinsAll.op # "delete"
      BY DEF Sends, Pins, UnpinsAll
    <2> QED
      BY <1>4, <2>1, <2>2
  <1>6. CASE DeleteABatch
    <2>1. CASE Calls(Deletes(First, Last), "progress")
      <3>1. OfClearing(First, Last) /\ First \in Nat /\ Last \in Nat
        BY <1>6, BatchOfClearing DEF DeleteABatch, WorkInv
      <3> QED
        BY <2>1, <3>1, EffectOnGroup DEF Calls, Deletes
    <2> QED
      BY <1>6, <2>1, <1>1 DEF DeleteABatch, Elsewhere, server
  <1>7. CASE Search
    <2>1. CASE low < high /\ Calls(Deletes(Middle, Last), "search")
      <3>1. OfClearing(Middle, Last) /\ Middle \in Nat /\ Last \in Nat
        BY <1>7, <2>1, MiddleOfClearing DEF Search
      <3> QED
        BY <2>1, <3>1, EffectOnGroup DEF Calls, Deletes
    <2> QED
      BY <1>7, <2>1, <1>1 DEF Search, Elsewhere, server
  <1>8. CASE Deliver \/ Receipt \/ Entries \/ CheckLatest \/ NotePending \/ FinishRefused
             \/ FinishPinned \/ CheckFresh \/ Acknowledge
    BY <1>8, <1>1 DEF Deliver, Receipt, Entries, CheckLatest, NotePending, FinishRefused,
         FinishPinned, CheckFresh, Acknowledge, Elsewhere, server
  <1>9. CASE Collect \/ Compact \/ Restart \/ RestartChain \/ Clear \/ Progress \/ FinishClearing
             \/ Interrupted
    BY <1>9, <1>1 DEF Collect, Compact, Restart, RestartChain, Clear, Progress, FinishClearing,
         Interrupted, Aside, Elsewhere, server
  <1>10. CASE UNCHANGED vars
    BY <1>10, <1>1 DEF vars, server
  <1> QED
    BY <1>2, <1>3, <1>5, <1>6, <1>7, <1>8, <1>9, <1>10 DEF Next, Delivers, Resets

\* What stays does so for good.
LEMMA StaysForGood ==
  ASSUME ClearInv, GroupStep, NEW m \in Int, Stays(m)
  PROVE  Stays(m)'
  <1>1. m \notin gone'
    <2>1. ASSUME NEW first \in Nat, NEW last \in Nat, Deletable(first, last), m \in first..last
          PROVE  FALSE
      BY <2>1 DEF ClearInv, MessagesInv, Deletable, Stays, FirstRegular
    <2> QED
      BY <2>1 DEF GroupStep, Stays
  <1> QED
    BY <1>1 DEF ClearInv, MessagesInv, GroupStep, Stays, FirstRegular

LEMMA MessagesNext ==
  ASSUME ClearInv, GroupStep
  PROVE  MessagesInv'
  <1>1. Len(messages) \in Nat /\ Len(messages) >= 1 /\ Len(messages') \in Nat
    BY LastMessage DEF ClearInv, GroupStep
  <1>2. ASSUME NEW first, NEW last, OfClearing(first, last)
        PROVE  first \in FirstRegular..last /\ last \in Nat /\ last <= Len(messages)
    BY <1>2 DEF OfClearing, ClearInv, ClearingInv
  <1>3. gone' \subseteq FirstRegular..Len(messages')
    <2>1. gone \subseteq FirstRegular..Len(messages')
      BY <1>1 DEF ClearInv, MessagesInv, GroupStep, FirstRegular
    <2>2. ASSUME NEW first \in Nat, NEW last \in Nat,
                 OfClearing(first, last)
                   \/ \E d \in late : d.op = "delete" /\ d.first = first /\ d.last = last
          PROVE  first..last \subseteq FirstRegular..Len(messages')
      BY <1>1, <1>2, <2>2 DEF ClearInv, MessagesInv, GroupStep, FirstRegular
    <2> QED
      BY <2>1, <2>2 DEF GroupStep
  <1>4. \A d \in late' : d.op = "delete" =>
          /\ d.first \in Nat /\ d.last \in Nat
          /\ FirstRegular <= d.first /\ d.last <= Len(messages')
    BY <1>1, <1>2 DEF ClearInv, MessagesInv, GroupStep, FirstRegular
  <1>5. messages' # <<>>
    BY <1>1 DEF GroupStep
  <1> QED
    BY <1>3, <1>4, <1>5 DEF MessagesInv, GroupStep

\* What is deleted, and asked for, leaves every row as its state says.
LEMMA StatesStay ==
  ASSUME ClearInv, GroupStep, UNCHANGED clearing, NEW r \in rows
  PROVE  RowInv(r)'
  <1> USE DEF ClearInv
  <1> DEFINE m == r.msg
  <1>1. m \in Nat /\ m # 1 /\ m <= Len(messages) /\ RowInv(r)
    BY DEF RowsInv, StatesInv, RowType
  <1>2. gone \subseteq gone'
    BY DEF GroupStep
  <1>3. Stays(m) => Stays(m)'
    BY <1>1, StaysForGood
  <1>4. ASSUME m \notin gone, m \in gone'
        PROVE  \E first, last \in Nat :
                 /\ m \in first..last /\ first..last \subseteq gone'
                 /\ FirstRegular <= first
                 /\ OfClearing(first, last)
                      \/ \E d \in late : InRange(d, m) /\ d.first = first /\ d.last = last
                 /\ ~Stays(m)
    <2>1. PICK first, last \in Nat :
            /\ OfClearing(first, last)
                 \/ \E d \in late : d.op = "delete" /\ d.first = first /\ d.last = last
            /\ Deletable(first, last)
            /\ gone' = gone \cup (first..last)
      BY <1>4 DEF GroupStep
    <2>2. m \in first..last
      BY <1>4, <2>1
    <2>3. ~Stays(m)
      BY <1>1, <1>4, <2>1, <2>2 DEF Deletable, Stays, MessagesInv, FirstRegular
    <2>4. FirstRegular <= first
      BY <2>1 DEF OfClearing, MessagesInv
    <2> QED
      BY <2>1, <2>2, <2>3, <2>4 DEF InRange
  <1>5. ASSUME NEW d \in late', InRange(d, m)
        PROVE  d \in late \/ (OfClearing(d.first, d.last) /\ m # 0)
    BY <1>5, <1>1 DEF GroupStep, InRange, OfClearing, FirstRegular
  <1> HIDE DEF m
  <1>6. ASSUME Safe(r), clearing # None /\ clearing.kept = 0 => m = 0
        PROVE  Safe(r)'
    <2>1. m \notin gone'
      <3>1. SUFFICES ASSUME m \in gone' PROVE FALSE
        OBVIOUS
      <3> QED
        BY <1>1, <1>4, <1>6, <3>1 DEF Safe, OfClearing, InRange, FirstRegular, m
    <2>2. ASSUME NEW d \in late', InRange(d, m) PROVE Stays(m)'
      BY <1>1, <1>3, <1>5, <1>6, <2>2 DEF Safe, OfClearing, m
    <2> QED
      BY <2>1, <2>2 DEF Safe, m, InRange
  <1>7. r.state = "queued" => Safe(r)' /\ (clearing' # None => m = 0)
    BY <1>1, <1>6 DEF RowInv, m
  <1>8. r.state = "dropped" => m \in gone'
    BY <1>1, <1>2 DEF RowInv, m
  <1>9. ASSUME HeldInv(r) PROVE HeldInv(r)'
    <2>1. CASE clearing.kept = 0
      <3>1. m > clearing.next => m \in gone'
        BY <1>2, <1>9, <2>1 DEF HeldInv, m
      <3>2. ASSUME m \in gone' PROVE m..clearing.next \subseteq gone'
        <4>1. CASE m \in gone
          BY <1>2, <1>9, <2>1, <4>1 DEF HeldInv, m
        <4>2. CASE m \notin gone
          <5>1. PICK first, last \in Nat :
                  /\ m \in first..last /\ first..last \subseteq gone'
                  /\ OfClearing(first, last)
                       \/ \E d \in late : InRange(d, m) /\ d.first = first /\ d.last = last
                  /\ ~Stays(m)
            BY <1>4, <3>2, <4>2
          <5>2. last >= clearing.next
            BY <1>9, <2>1, <4>2, <5>1 DEF HeldInv, OfClearing, ClearingInv, m
          <5> QED
            BY <1>1, <1>9, <5>1, <5>2 DEF ClearingInv, HeldInv
        <4> QED
          BY <4>1, <4>2
      <3>3. ASSUME NEW d \in late', InRange(d, m)
            PROVE  Stays(m)' \/ m \in gone' \/ d.last >= clearing.next
        BY <1>2, <1>3, <1>5, <1>9, <2>1, <3>3 DEF HeldInv, OfClearing, ClearingInv, m
      <3> QED
        BY <1>9, <2>1, <3>1, <3>2, <3>3 DEF HeldInv, m, InRange
    <2>2. CASE clearing.kept # 0
      BY <1>2, <1>6, <1>9, <2>2 DEF HeldInv, m
    <2> QED
      BY <2>1, <2>2
  <1> QED
    BY <1>1, <1>7, <1>8, <1>9 DEF RowInv, m

\* Where the worker goes from, and to, decides about its message and about the clearing.
LEMMA ItemNext ==
  ASSUME ClearInv, GroupStep, [Next]_vars
  PROVE  ItemInv'
  <1> USE DEF ClearInv
  <1>1. Len(messages) \in Nat /\ Len(messages) >= 1 /\ Len(messages) <= Len(messages')
        /\ Len(messages') \in Nat
    BY LastMessage DEF GroupStep
  <1>2. CASE UNCHANGED <<pc, item>> /\ (pc # "idle" => UNCHANGED rows)
    <2>1. pc' = "idle" => item' = None
      BY <1>2 DEF ItemInv
    <2>2. ASSUME pc' \in {"unpin", "forget"}, item' # None
          PROVE  /\ item'.msg \in FirstRegular..Len(messages')
                 /\ \A r \in rows' : r.msg <= item'.msg
      BY <1>1, <1>2, <2>2 DEF ItemInv, FirstRegular
    <2>3. ASSUME pc' = "receipt"
          PROVE  /\ item'.row \in RowType /\ item'.row.state = "queued"
                 /\ item'.msg \in FirstRegular..Len(messages')
                 /\ item'.msg \notin gone' /\ \A d \in late' : ~InRange(d, item'.msg)
      <3>1. /\ item.row \in RowType /\ item.row.state = "queued"
            /\ item.msg \in FirstRegular..Len(messages)
            /\ item.msg \notin gone /\ \A d \in late : ~InRange(d, item.msg)
        BY <1>2, <2>3 DEF ItemInv
      <3>2. clearing = None
        BY <1>2, <2>3 DEF WorkInv, Delivering, Round
      <3>3. item.msg \notin gone' /\ \A d \in late' : ~InRange(d, item.msg)
        BY <3>1, <3>2 DEF GroupStep, OfClearing, InRange
      <3> QED
        BY <1>1, <1>2, <3>1, <3>3 DEF FirstRegular
    <2> QED
      BY <2>1, <2>2, <2>3 DEF ItemInv, InRange
  <1>3. CASE SendArchive
    <2>1. PICK r \in Unsent :
            /\ item' = [row |-> r, msg |-> NewMessage]
            /\ Calls(Sends(Document("archive", r.content, 0)), "receipt")
      BY <1>3 DEF SendArchive
    <2>2. /\ pc' = "receipt" /\ UNCHANGED late
          /\ gone' = gone /\ Len(messages') = Len(messages) + 1
      <3>1. \E doc : messages' = Append(messages, doc)
        BY <2>1 DEF Calls, Effect, Sends
      <3>2. Len(messages') = Len(messages) + 1
        BY <3>1, OneMoreMessage
      <3> QED
        BY <2>1, <3>2 DEF Calls, Effect, Sends
    <2>3. r \in RowType /\ r.state = "queued"
      BY DEF Unsent, Queue, RowsInv
    <2>4. NewMessage \notin gone /\ \A d \in late : ~InRange(d, NewMessage)
      BY <1>1 DEF NewMessage, MessagesInv, InRange, FirstRegular
    <2> QED
      BY <1>1, <2>1, <2>2, <2>3, <2>4 DEF ItemInv, NewMessage, FirstRegular, InRange
  <1>4. CASE Notice
    <2>1. /\ item' = [row |-> None, msg |-> NewMessage] /\ pc' = "unpin" /\ UNCHANGED rows
          /\ \E doc : messages' = Append(messages, doc)
      BY <1>4 DEF Notice, Calls, Effect, Sends, store
    <2>2. Len(messages') = Len(messages) + 1
      BY <2>1, OneMoreMessage
    <2>3. \A r \in rows : r.msg <= NewMessage
      BY <1>1 DEF RowsInv, RowType, NewMessage
    <2> QED
      BY <1>1, <2>1, <2>2, <2>3 DEF ItemInv, NewMessage, FirstRegular
  <1>5. CASE Unpin
    <2>1. pc = "unpin" /\ pc' = "forget" /\ UNCHANGED <<rows, item>>
      BY <1>5 DEF Unpin, Calls, store, scratch
    <2> QED
      BY <1>1, <2>1 DEF ItemInv, FirstRegular
  <1>6. CASE pc' = "idle" /\ item' = None
    BY <1>6 DEF ItemInv
  <1>7. CASE pc' \notin {"idle", "receipt", "unpin", "forget"}
    BY <1>7 DEF ItemInv
  <1>8. CASE Restart
    <2>1. pc' \in {"notice", "unpin"} /\ item' = None
      BY <1>8 DEF Restart, Idle, Goes, scratch, ItemInv
    <2> QED
      BY <2>1 DEF ItemInv
  <1>9. CASE Delivers /\ ~SendArchive
    <2>1. CASE Deliver
      <3>1. UNCHANGED <<pc, item, rows>> \/ pc' \in {"send", "finish"}
        BY <2>1 DEF Deliver, Goes, scratch, store
      <3> QED
        BY <1>2, <1>7, <3>1
    <2>2. CASE Receipt \/ Entries \/ CheckLatest \/ SendCatalog \/ NotePending \/ FinishRefused
               \/ FinishPinned \/ FinishPin \/ CheckFresh \/ Acknowledge
      <3>1. (pc' = "idle" /\ item' = None)
            \/ pc' \in {"send", "latest", "catalog", "note", "finish", "acknowledge", "fresh"}
        BY <2>2 DEF Receipt, Entries, CheckLatest, SendCatalog, NotePending, FinishRefused,
             FinishPinned, FinishPin, CheckFresh, Acknowledge, GivesUp, Goes, Calls
      <3> QED
        BY <1>6, <1>7, <3>1
    <2> QED
      BY <1>9, <2>1, <2>2 DEF Delivers
  <1>10. CASE RestartChain \/ Clear \/ DeleteABatch \/ Search \/ Progress \/ FinishClearing
    <2>1. (pc' = "idle" /\ item' = None) \/ pc' \in {"clear", "search", "progress"}
      BY <1>10 DEF RestartChain, Clear, DeleteABatch, Search, Progress, FinishClearing, GivesUp,
           Goes, Calls
    <2> QED
      BY <1>6, <1>7, <2>1
  <1>11. CASE NoAnswer \/ Interrupted
    BY <1>6, <1>11 DEF NoAnswer, Interrupted, GivesUp, Goes
  <1>12. CASE Collect \/ Compact \/ Others \/ UNCHANGED vars
    <2>1. UNCHANGED <<pc, item>> /\ (pc # "idle" => UNCHANGED rows)
      BY <1>12 DEF Collect, Compact, Idle, Aside, Others, Ages, OthersPin, CarriedOutLate, store,
           scratch, vars
    <2> QED
      BY <1>2, <2>1
  <1> QED
    BY <1>3, <1>4, <1>5, <1>8, <1>9, <1>10, <1>11, <1>12 DEF Next, Resets

\* Progress keeps the clearing between the messages and its end.
LEMMA ClearingNext ==
  ASSUME ClearInv, GroupStep, [Next]_vars
  PROVE  ClearingInv'
  <1> USE DEF ClearInv
  <1>1. Len(messages) \in Nat /\ Len(messages) <= Len(messages') /\ Len(messages') \in Nat
    BY LastMessage DEF GroupStep
  <1>2. CASE UNCHANGED clearing
    BY <1>1, <1>2 DEF ClearingInv
  <1>3. CASE RestartChain
    BY <1>1, <1>2, <1>3 DEF RestartChain, ItemInv, ClearingInv, FirstRegular
  <1>4. CASE Progress
    <2>1. /\ clearing \in [next : Nat, kept : Nat] /\ clearing.next \in 1..Len(messages)
          /\ clearing.kept = 0 /\ low \in Int /\ clearing.next >= FirstRegular
      BY <1>4 DEF Progress, ClearingInv, WorkInv
    <2>2. First \in Nat /\ FirstRegular <= First /\ First <= clearing.next
      BY <2>1, FirstOfBatch
    <2>3. CASE low > First
      <3>1. clearing' = [next |-> FirstRegular - 1, kept |-> low - 1]
        BY <1>4, <2>3 DEF Progress
      <3> QED
        BY <1>1, <2>1, <2>2, <2>3, <3>1 DEF ClearingInv, FirstRegular
    <2>4. CASE ~(low > First)
      <3>1. clearing' = [next |-> First - 1, kept |-> 0]
        BY <1>4, <2>1, <2>4 DEF Progress
      <3> QED
        BY <1>1, <2>1, <2>2, <3>1 DEF ClearingInv, FirstRegular
    <2> QED
      BY <2>3, <2>4
  <1>5. CASE FinishClearing
    BY <1>5 DEF FinishClearing, ClearingInv
  <1>6. CASE ~(RestartChain \/ Progress \/ FinishClearing)
    <2>1. UNCHANGED clearing
      BY <1>6 DEF Next, Collect, Compact, Delivers, Deliver, SendArchive, Receipt, Entries,
           CheckLatest, SendCatalog, NotePending, FinishRefused, FinishPinned, FinishPin,
           CheckFresh, Acknowledge, Restart, Resets, Notice, Unpin, Clear, DeleteABatch, Search,
           NoAnswer, Interrupted, Others, Ages, OthersPin, CarriedOutLate, Calls, store, vars
    <2> QED
      BY <1>2, <2>1
  <1> QED
    BY <1>3, <1>4, <1>5, <1>6

\* The search closes in on the first message of the newest ones that can all be deleted.
LEMMA SearchNext ==
  ASSUME ClearInv, GroupStep, Search
  PROVE  WorkInv'
  <1> USE DEF ClearInv
  <1>1. /\ pc = "search" /\ clearing # None /\ UNCHANGED clearing
        /\ clearing.kept = 0 /\ clearing.next >= FirstRegular /\ clearing.next \in Nat
        /\ low \in Int /\ high \in Int
        /\ First < low /\ low <= high /\ high <= clearing.next + 1
        /\ high..clearing.next \subseteq gone
    BY DEF Search, WorkInv, ClearingInv, Calls, store
  <1>2. First \in Nat /\ FirstRegular <= First /\ First' = First /\ Last \in Nat
    BY <1>1, FirstOfBatch DEF First, Last
  <1>3. PICK m \in (low - 1)..clearing.next : Stays(m)
    BY <1>1 DEF WorkInv
  <1>4. m \in Int /\ Stays(m)'
    BY <1>1, <1>3, StaysForGood
  <1>5. CASE low < high /\ Calls(Deletes(Middle, Last), "search") /\ high' = Middle /\ UNCHANGED low
    <2>1. Middle \in Nat /\ low <= Middle /\ Middle < high
      BY <1>1, <1>5, MiddleOfClearing
    <2>2. pc' = "search" /\ gone' = gone \cup (Middle..clearing.next)
      BY <1>5 DEF Calls, Effect, Deletes, Last
    <2> QED
      BY <1>1, <1>2, <1>3, <1>4, <1>5, <2>1, <2>2 DEF WorkInv, Delivering, Round
  <1>6. CASE /\ low < high /\ ~Deletable(Middle, Last) /\ low' = Middle + 1
             /\ UNCHANGED <<Elsewhere, store, unseen, pc, high>>
    <2>1. Middle \in Nat /\ low <= Middle /\ Middle < high
      BY <1>1, <1>6, MiddleOfClearing
    <2>2. PICK n \in Middle..Last : Stays(n)
      BY <1>1, <1>2, <1>6, <2>1 DEF Deletable, Stays, MessagesInv, FirstRegular
    <2>3. n \in Int /\ Stays(n)'
      BY <1>2, <2>1, <2>2, StaysForGood
    <2>4. gone' = gone /\ pc' = "search" /\ high' = high
      BY <1>1, <1>6 DEF Elsewhere, server
    <2>5. n \in (low' - 1)..clearing.next
      BY <1>1, <1>6, <2>1, <2>2 DEF Last
    <2> QED
      BY <1>1, <1>2, <1>6, <2>1, <2>3, <2>4, <2>5 DEF WorkInv, Delivering, Round
  <1>7. CASE /\ low >= high /\ Goes("progress")
             /\ UNCHANGED <<Elsewhere, store, unseen, low, high>>
    <2>1. gone' = gone /\ pc' = "progress" /\ low' = low
      BY <1>7 DEF Elsewhere, server, Goes
    <2>2. low = high
      BY <1>1, <1>7
    <2>3. m = low - 1
      BY <1>1, <1>3, <2>2 DEF Stays
    <2> QED
      BY <1>1, <1>2, <1>4, <2>1, <2>2, <2>3 DEF WorkInv, Delivering, Round
  <1> QED
    BY <1>5, <1>6, <1>7 DEF Search

LEMMA WorkNext ==
  ASSUME ClearInv, GroupStep, [Next]_vars
  PROVE  WorkInv'
  <1> USE DEF ClearInv
  <1>1. CASE UNCHANGED <<pc, clearing, low, high>>
    <2>1. gone \subseteq gone' /\ First' = First
      BY <1>1 DEF GroupStep, First
    <2>2. CASE pc = "search"
      <3>1. PICK m \in (low - 1)..clearing.next : Stays(m)
        BY <2>2 DEF WorkInv
      <3>2. m \in Int /\ low \in Int /\ clearing.next \in Nat
        BY <2>2, <3>1 DEF WorkInv, ClearingInv
      <3>3. Stays(m)'
        BY <3>1, <3>2, StaysForGood
      <3> QED
        BY <1>1, <2>1, <2>2, <3>1, <3>3 DEF WorkInv, Delivering, Round
    <2>3. CASE pc = "progress"
      <3>1. low \in Int
        BY <2>3 DEF WorkInv
      <3>2. Stays(low - 1) => Stays(low - 1)'
        BY <1>1, <3>1, StaysForGood
      <3> QED
        BY <1>1, <2>1, <2>3, <3>2 DEF WorkInv, Delivering, Round, Stays
    <2>4. CASE pc \notin {"search", "progress"}
      BY <1>1, <2>4 DEF WorkInv
    <2> QED
      BY <2>2, <2>3, <2>4
  <1>2. CASE pc' = "idle"
    BY <1>2 DEF WorkInv, Delivering, Round
  <1>3. CASE pc' \in Delivering /\ clearing = None /\ UNCHANGED clearing
    BY <1>3 DEF WorkInv, Delivering, Round
  <1>4. CASE pc' = "clear" /\ clearing' # None
    BY <1>4 DEF WorkInv, Delivering, Round
  <1>5. CASE Deliver \/ Restart
    <2>1. UNCHANGED <<pc, clearing, low, high>>
          \/ (pc' \in Delivering /\ clearing = None /\ UNCHANGED clearing)
      BY <1>5 DEF Deliver, Restart, Goes, store, scratch, Delivering, Round
    <2> QED
      BY <1>1, <1>3, <2>1
  <1>6. CASE SendArchive \/ Receipt \/ Entries \/ CheckLatest \/ SendCatalog \/ NotePending
             \/ FinishPinned \/ FinishPin \/ CheckFresh \/ Notice \/ Unpin
    <2>1. pc \in Delivering /\ UNCHANGED clearing
      BY <1>6 DEF SendArchive, Receipt, Entries, CheckLatest, SendCatalog, NotePending,
           FinishPinned, FinishPin, CheckFresh, Notice, Unpin, Calls, store, Delivering, Round
    <2>2. pc' \in Delivering \cup {"idle"}
      BY <1>6 DEF SendArchive, Receipt, Entries, CheckLatest, SendCatalog, NotePending,
           FinishPinned, FinishPin, CheckFresh, Notice, Unpin, Calls, Goes, GivesUp, Delivering, Round
    <2> QED
      BY <1>2, <1>3, <2>1, <2>2 DEF WorkInv
  <1>7. CASE FinishRefused \/ Acknowledge \/ FinishClearing \/ NoAnswer \/ Interrupted
    BY <1>2, <1>7 DEF FinishRefused, Acknowledge, FinishClearing, NoAnswer, Interrupted, GivesUp, Goes
  <1>8. CASE RestartChain
    <2>1. CASE item = None
      BY <1>2, <1>8, <2>1 DEF RestartChain, Goes
    <2>2. CASE item # None
      <3>1. item.msg \in Nat
        BY <1>8, <2>2, LastMessage DEF RestartChain, ItemInv, FirstRegular
      <3>2. clearing' = [next |-> item.msg, kept |-> 0] /\ pc' = "clear"
        BY <1>8, <2>2 DEF RestartChain, Goes
      <3> QED
        BY <1>4, <3>1, <3>2, NoneAssumption
    <2> QED
      BY <2>1, <2>2
  <1>9. CASE Clear
    BY <1>4, <1>9 DEF Clear, Goes, store
  <1>10. CASE Progress
    <2>1. /\ clearing \in [next : Nat, kept : Nat] /\ clearing.kept = 0 /\ low \in Int
          /\ clearing.next >= FirstRegular
      BY <1>10 DEF Progress, ClearingInv, WorkInv
    <2>2. First \in Nat /\ FirstRegular <= First
      BY <2>1, FirstOfBatch
    <2>3. clearing' \in [next : Nat, kept : Nat] /\ pc' = "clear"
      BY <1>10, <2>1, <2>2 DEF Progress, Goes, FirstRegular
    <2> QED
      BY <1>4, <2>3, NoneAssumption
  <1>11. CASE DeleteABatch
    <2>1. /\ pc = "clear" /\ clearing # None /\ Last >= FirstRegular /\ UNCHANGED clearing
          /\ First' = First
      <3>1. pc = "clear" /\ clearing # None /\ Last >= FirstRegular /\ UNCHANGED clearing
        BY <1>11 DEF DeleteABatch, WorkInv, Calls, store
      <3> QED
        BY <3>1 DEF First
    <2> /\ clearing.kept = 0 /\ clearing.next \in Nat /\ Last = clearing.next
      BY <2>1 DEF ClearingInv, FirstRegular, Last
    <2>2. First \in Nat /\ FirstRegular <= First /\ First <= Last
      BY <2>1, FirstOfBatch
    <2>3. CASE Calls(Deletes(First, Last), "progress") /\ low' = First /\ high' = 0
      <3>1. pc' = "progress" /\ gone' = gone \cup (First..Last)
        BY <2>3 DEF Calls, Effect, Deletes
      <3> QED
        BY <2>1, <2>2, <2>3, <3>1 DEF WorkInv, Delivering, Round
    <2>4. CASE /\ ~Deletable(First, Last) /\ Goes("search")
               /\ low' = First + 1 /\ high' = Last + 1
      <3>1. PICK m \in First..Last : Stays(m)
        BY <2>1, <2>2, <2>4 DEF Deletable, Stays, MessagesInv, FirstRegular
      <3>2. Stays(m)'
        BY <2>1, <2>2, <3>1, StaysForGood
      <3>3. /\ pc' = "search" /\ m \in (low' - 1)..clearing.next
            /\ high'..clearing.next = {}
        BY <2>1, <2>2, <2>4, <3>1 DEF Goes
      <3> QED
        BY <2>1, <2>2, <2>4, <3>2, <3>3 DEF WorkInv, Delivering, Round
    <2> QED
      BY <1>11, <2>3, <2>4 DEF DeleteABatch
  <1>12. CASE Search
    BY <1>12, SearchNext
  <1>13. CASE Collect \/ Compact \/ Others \/ UNCHANGED vars
    <2>1. UNCHANGED <<pc, clearing, low, high>>
      BY <1>13 DEF Collect, Compact, Aside, Others, Ages, OthersPin, CarriedOutLate, store,
           scratch, vars
    <2> QED
      BY <1>1, <2>1
  <1> QED
    BY <1>5, <1>6, <1>7, <1>8, <1>9, <1>10, <1>11, <1>12, <1>13 DEF Next, Delivers, Resets

\* While nothing of the group changes, a row is what it was; one without a message is queued.
LEMMA RowsStay ==
  ASSUME ClearInv, GroupStep, UNCHANGED <<messages, gone, aged, late, clearing>>,
         NEW r, r \in rows \/ (r \in RowType /\ r.state = "queued" /\ r.msg = 0)
  PROVE  /\ r \in RowType /\ r.msg # 1 /\ r.msg <= Len(messages')
         /\ RowInv(r)'
  <1> USE DEF ClearInv
  <1>1. CASE r \in rows
    BY <1>1, StatesStay DEF RowsInv
  <1>2. CASE r \in RowType /\ r.state = "queued" /\ r.msg = 0
    <2>1. r.msg \notin gone /\ \A d \in late : ~InRange(d, r.msg)
      BY <1>2 DEF MessagesInv, InRange, FirstRegular
    <2>2. Len(messages) >= 0
      BY LastMessage
    <2> QED
      BY <1>2, <2>1, <2>2 DEF RowInv, Safe, InRange
  <1> QED
    BY <1>1, <1>2

\* What the clearing keeps, and deletes, before it goes on.
LEMMA ProgressRows ==
  ASSUME ClearInv, GroupStep, Progress, NEW r \in rows
  PROVE  RowInv(r)'
  <1> USE DEF ClearInv
  <1> DEFINE m == r.msg
  <1>1. /\ clearing # None /\ clearing \in [next : Nat, kept : Nat]
        /\ clearing.kept = 0 /\ clearing.next >= FirstRegular
        /\ low \in Int /\ First <= low /\ low <= clearing.next + 1
        /\ low..clearing.next \subseteq gone
        /\ low > First => Stays(low - 1)
    BY DEF Progress, WorkInv, ClearingInv
  <1>2. First \in Nat /\ FirstRegular <= First /\ First <= clearing.next
    BY <1>1, FirstOfBatch
  <1>3. UNCHANGED <<gone, aged, late>>
    BY DEF Progress, Elsewhere, server
  <1>4. m \in Nat /\ RowInv(r)
    BY DEF RowsInv, RowType, StatesInv
  <1>5. ASSUME HeldInv(r) PROVE m >= low => m \in gone
    BY <1>1, <1>4, <1>5 DEF HeldInv
  <1>6. CASE low > First
    <2>1. clearing' = [next |-> FirstRegular - 1, kept |-> low - 1]
      BY <1>6 DEF Progress
    <2>2. clearing' # None /\ clearing'.kept # 0
      BY <1>1, <1>2, <1>6, <2>1, NoneAssumption DEF FirstRegular
    <2>3. ASSUME HeldInv(r), m <= low - 1 PROVE Stays(m)
      <3>1. m \notin gone
        BY <1>1, <1>4, <1>6, <2>3 DEF HeldInv, Stays
      <3> QED
        BY <1>1, <1>2, <1>4, <1>6, <2>3, <3>1 DEF Stays, MessagesInv, FirstRegular
    <2>4. HeldInv(r) => HeldInv(r)'
      BY <1>1, <1>3, <1>4, <1>5, <2>1, <2>2, <2>3 DEF HeldInv, Safe, Stays, InRange
    <2> QED
      BY <1>1, <1>3, <1>4, <2>4 DEF RowInv, Safe, Stays, InRange
  <1>7. CASE ~(low > First)
    <2>1. clearing' = [next |-> First - 1, kept |-> 0] /\ low = First
      BY <1>1, <1>2, <1>7 DEF Progress
    <2>2. clearing' # None
      BY <1>2, <2>1, NoneAssumption DEF FirstRegular
    <2>3. ASSUME HeldInv(r) PROVE HeldInv(r)'
      <3>1. m > First - 1 => m \in gone
        BY <1>1, <1>2, <1>4, <1>5, <2>1, <2>3
      <3>2. m \in gone => m..(First - 1) \subseteq gone
        BY <1>1, <1>2, <1>4, <2>3 DEF HeldInv
      <3>3. \A d \in late : InRange(d, m) => Stays(m) \/ m \in gone \/ d.last >= First - 1
        BY <1>1, <1>2, <2>3 DEF HeldInv, MessagesInv, InRange
      <3> QED
        BY <1>3, <2>1, <2>2, <2>3, <3>1, <3>2, <3>3 DEF HeldInv, Stays, InRange
    <2> QED
      BY <1>1, <1>3, <1>4, <2>3 DEF RowInv, Safe, Stays, InRange
  <1> QED
    BY <1>6, <1>7

LEMMA StatesNext ==
  ASSUME ClearInv, GroupStep, [Next]_vars
  PROVE  RowsInv' /\ StatesInv'
  <1> USE DEF ClearInv
  <1>1. CASE UNCHANGED <<rows, clearing>>
    <2>1. Len(messages) \in Nat /\ Len(messages) <= Len(messages') /\ Len(messages') \in Nat
      BY LastMessage DEF GroupStep
    <2>2. RowsInv'
      BY <1>1, <2>1 DEF RowsInv, RowType
    <2> QED
      BY <1>1, <2>2, StatesStay DEF StatesInv
  <1>2. CASE Collect \/ Compact
    <2>1. UNCHANGED <<messages, gone, aged, late, clearing>>
      BY <1>2 DEF Collect, Compact, Aside, server
    <2>2. ASSUME NEW r \in rows'
          PROVE  r \in rows \/ (r \in RowType /\ r.state = "queued" /\ r.msg = 0)
      <3>1. CASE Collect
        BY <2>2, <3>1 DEF Collect, Row, RowType, States
      <3>2. CASE Compact
        <4>1. PICK S \in SUBSET rows : rows' = (rows \ S) \cup {Row(Contents(S))}
          BY <3>2 DEF Compact, Unsent, Queue
        <4>2. Contents(S) \subseteq Fragments
          BY <4>1 DEF Contents, RowsInv, RowType
        <4> QED
          BY <2>2, <4>1, <4>2 DEF Row, RowType, States
      <3> QED
        BY <1>2, <3>1, <3>2
    <2> QED
      BY <2>1, <2>2, RowsStay DEF RowsInv, StatesInv
  <1>3. CASE Receipt
    <2>1. /\ UNCHANGED <<messages, gone, aged, late, clearing>>
          /\ rows' = (rows \ {item.row}) \cup {[item.row EXCEPT !.msg = item.msg]}
          /\ pc = "receipt"
      BY <1>3 DEF Receipt, Elsewhere, server
    <2> PICK n : n = [item.row EXCEPT !.msg = item.msg]
      OBVIOUS
    <2>2. /\ item.row \in RowType /\ item.row.state = "queued"
          /\ item.msg \in FirstRegular..Len(messages)
          /\ item.msg \notin gone /\ \A d \in late : ~InRange(d, item.msg)
          /\ clearing = None
      BY <2>1 DEF ItemInv, WorkInv, Delivering, Round
    <2>3. /\ n \in RowType /\ n.msg = item.msg /\ n.state = "queued"
          /\ n.msg # 1 /\ n.msg <= Len(messages)
      BY <2>2, LastMessage DEF RowType, States, FirstRegular
    <2>4. RowInv(n)'
      BY <2>1, <2>2, <2>3 DEF RowInv, Safe, InRange
    <2>5. rows' \subseteq rows \cup {n}
      BY <2>1
    <2> QED
      BY <2>1, <2>3, <2>4, <2>5, RowsStay DEF RowsInv, StatesInv
  <1>4. CASE Acknowledge
    <2>1. /\ UNCHANGED <<messages, gone, aged, late, clearing>>
          /\ rows' = (rows \ pending.rows) \cup With(rows \cap pending.rows, "listed")
      BY <1>4 DEF Acknowledge, Elsewhere, server
    <2>2. ASSUME NEW r \in rows
          PROVE  LET n == [r EXCEPT !.state = "listed"] IN
                 /\ n \in RowType /\ n.msg # 1 /\ n.msg <= Len(messages)
                 /\ RowInv(n)'
      BY DEF RowInv, RowsInv, RowType, States
    <2> QED
      BY <2>1, <2>2, RowsStay DEF RowsInv, StatesInv, With
  <1>5. CASE RestartChain
    <2>1. UNCHANGED <<messages, gone, aged, late>> /\ clearing = None
      BY <1>5 DEF RestartChain, server, WorkInv, Delivering, Round
    <2>2. CASE item = None
      BY <1>1, <1>5, <2>2 DEF RestartChain
    <2>3. CASE item # None
      <3>1. /\ rows' = (rows \ Uploaded) \cup With(Uploaded, "held")
            /\ clearing' = [next |-> item.msg, kept |-> 0]
            /\ item.msg \in FirstRegular..Len(messages)
            /\ \A r \in rows : r.msg <= item.msg
        BY <1>5, <2>3 DEF RestartChain, ItemInv
      <3>2. clearing' # None /\ item.msg \in Nat
        BY <3>1, NoneAssumption, LastMessage DEF FirstRegular
      <3>3. ASSUME NEW r \in rows \ Uploaded
            PROVE  RowInv(r)'
        BY <2>1, <3>3 DEF RowInv, Uploaded, Queue, StatesInv, HeldInv, Safe, Stays, InRange
      <3>4. ASSUME NEW r \in Uploaded
            PROVE  LET n == [r EXCEPT !.state = "held"] IN
                   /\ n \in RowType /\ n.msg # 1 /\ n.msg <= Len(messages)
                   /\ RowInv(n)'
        <4> DEFINE n == [r EXCEPT !.state = "held"]
        <4>1. r \in rows /\ r \in RowType /\ r.state = "queued" /\ r.msg # 0 /\ Safe(r)
          BY DEF Uploaded, Queue, RowsInv, StatesInv, RowInv
        <4>2. /\ n \in RowType /\ n.msg = r.msg /\ n.state = "held"
              /\ n.msg # 1 /\ n.msg <= Len(messages)
          BY <4>1 DEF RowType, States, RowsInv
        <4> HIDE DEF n
        <4>3. n.msg <= item.msg /\ n.msg \in Nat
          BY <3>1, <4>1, <4>2 DEF RowType
        <4>4. HeldInv(n)'
          BY <2>1, <3>1, <3>2, <4>1, <4>2, <4>3 DEF HeldInv, Safe, Stays, InRange
        <4> QED
          BY <4>2, <4>4 DEF RowInv, n
      <3>5. ASSUME NEW r \in rows \ Uploaded
            PROVE  r \in RowType /\ r.msg # 1 /\ r.msg <= Len(messages)
        BY <3>5 DEF RowsInv
      <3> QED
        BY <2>1, <3>1, <3>3, <3>4, <3>5 DEF RowsInv, StatesInv, With
    <2> QED
      BY <2>2, <2>3
  <1>6. CASE Progress
    <2>1. UNCHANGED <<messages, rows>>
      BY <1>6 DEF Progress, Elsewhere, server
    <2> QED
      BY <1>6, <2>1, ProgressRows DEF RowsInv, StatesInv
  <1>7. CASE FinishClearing
    <2>1. /\ UNCHANGED <<messages, gone, aged, late>>
          /\ rows' = (rows \ Held) \cup With(Kept, "queued") \cup With(Held \ Kept, "dropped")
          /\ clearing' = None /\ clearing # None
          /\ clearing.next \in Nat /\ clearing.next < FirstRegular /\ clearing.kept \in Nat
      BY <1>7 DEF FinishClearing, Elsewhere, server, Last, WorkInv, ClearingInv
    <2>2. ASSUME NEW r \in rows
          PROVE  r \in RowType /\ r.msg \in Nat /\ r.msg # 1 /\ r.msg <= Len(messages) /\ RowInv(r)
      BY DEF RowsInv, RowType, StatesInv
    <2>3. ASSUME NEW r \in rows \ Held PROVE RowInv(r)'
      BY <2>1, <2>2 DEF RowInv, Held, Safe, Stays, InRange
    <2>4. ASSUME NEW r \in Held
          PROVE  /\ r \in rows /\ HeldInv(r)
                 /\ r \in Kept => Safe(r)
                 /\ r \notin Kept => r.msg \in gone
      <3>1. r \in rows /\ HeldInv(r)
        BY <2>2 DEF Held, RowInv
      <3> QED
        BY <2>1, <2>2, <3>1 DEF HeldInv, Kept, FirstRegular
    <2>5. ASSUME NEW r \in Kept
          PROVE  LET n == [r EXCEPT !.state = "queued"] IN
                 /\ n \in RowType /\ n.msg # 1 /\ n.msg <= Len(messages)
                 /\ RowInv(n)'
      <3> DEFINE n == [r EXCEPT !.state = "queued"]
      <3>1. r \in rows /\ Safe(r)
        BY <2>4 DEF Kept
      <3>2. /\ n \in RowType /\ n.msg = r.msg /\ n.state = "queued"
            /\ n.msg # 1 /\ n.msg <= Len(messages)
        BY <2>2, <3>1 DEF RowType, States
      <3> HIDE DEF n
      <3>3. RowInv(n)'
        BY <2>1, <3>1, <3>2 DEF RowInv, Safe, Stays, InRange
      <3> QED
        BY <3>2, <3>3 DEF n
    <2>6. ASSUME NEW r \in Held \ Kept
          PROVE  LET n == [r EXCEPT !.state = "dropped"] IN
                 /\ n \in RowType /\ n.msg # 1 /\ n.msg <= Len(messages)
                 /\ RowInv(n)'
      <3> DEFINE n == [r EXCEPT !.state = "dropped"]
      <3>1. /\ n \in RowType /\ n.msg = r.msg /\ n.state = "dropped"
            /\ n.msg # 1 /\ n.msg <= Len(messages)
        BY <2>2, <2>4 DEF RowType, States
      <3> HIDE DEF n
      <3>2. RowInv(n)'
        BY <2>1, <2>4, <3>1 DEF RowInv
      <3> QED
        BY <3>1, <3>2 DEF n
    <2> QED
      BY <2>1, <2>2, <2>3, <2>5, <2>6 DEF RowsInv, StatesInv, With
  <1>8. CASE ~(Collect \/ Compact \/ Receipt \/ Acknowledge \/ RestartChain \/ Progress
               \/ FinishClearing)
    <2>1. UNCHANGED <<rows, clearing>>
      BY <1>8 DEF Next, Delivers, Deliver, SendArchive, Entries, CheckLatest, SendCatalog,
           NotePending, FinishRefused, FinishPinned, FinishPin, CheckFresh, Restart, Resets,
           Notice, Unpin, Clear, DeleteABatch, Search, NoAnswer, Interrupted, Others, Ages,
           OthersPin, CarriedOutLate, Calls, store, vars
    <2> QED
      BY <1>1, <2>1
  <1> QED
    BY <1>2, <1>3, <1>4, <1>5, <1>6, <1>7, <1>8

LEMMA ClearInit == Init => ClearInv
  <1> SUFFICES ASSUME Init PROVE ClearInv
    OBVIOUS
  <1> DEFINE doc == Document("group", {}, 0)
  <1>1. messages = <<doc>> /\ messages \in Seq({doc}) /\ messages # <<>>
    BY DEF Init
  <1>2. MessagesInv
    BY <1>1 DEF Init, MessagesInv
  <1>3. RowsInv /\ ItemInv /\ ClearingInv /\ StatesInv
    BY DEF Init, RowsInv, ItemInv, ClearingInv, StatesInv
  <1>4. WorkInv
    BY DEF Init, WorkInv, Delivering, Round
  <1> QED
    BY <1>2, <1>3, <1>4 DEF ClearInv

LEMMA ClearNext == ClearInv /\ [Next]_vars => ClearInv'
  <1> SUFFICES ASSUME ClearInv, [Next]_vars PROVE ClearInv'
    OBVIOUS
  <1>1. GroupStep
    BY GroupNext
  <1> QED
    BY <1>1, MessagesNext, ItemNext, ClearingNext, WorkNext, StatesNext DEF ClearInv

\* Wherever the clearing, or the sending before it, is cut off, and whenever a request given up
\* on is carried out after all: an archive is dropped only if its message is deleted, and one
\* that waits for a catalog still has its message (restart_chain, finish_clearing).
THEOREM ClearingTellsArchivesApart == Spec => []ClearingTellsApart
  <1>1. ClearInv => ClearingTellsApart
    BY DEF ClearInv, StatesInv, RowInv, Safe, ClearingTellsApart
  <1>2. Spec => []ClearInv
    BY ClearInit, ClearNext, PTL DEF Spec
  <1> QED
    BY <1>1, <1>2, PTL

-----------------------------------------------------------------------------
(* The chain of catalogs.                                                  *)

\* A set of numbers that is not empty has a least one.
LEMMA LeastOne ==
  ASSUME NEW S, S \subseteq Nat, S # {}
  PROVE  \E i \in S : \A j \in S : i <= j
  <1>1. \E i \in S : \A j \in S : <<j, i>> \notin OpToRel(<, Nat)
    BY NatLessThanWellFounded, WFMin
  <1>2. PICK i \in S : \A j \in S : ~(j < i)
    BY <1>1 DEF OpToRel
  <1> QED
    BY <1>2

\* A set of numbers with an upper bound has a largest one.
LEMMA LargestOne ==
  ASSUME NEW b \in Nat, NEW T, T \subseteq 0..b, T # {}
  PROVE  \E m \in T : \A n \in T : n <= m
  <1> DEFINE below == {b - n : n \in T}
  <1>1. below \subseteq Nat /\ below # {}
    <2>1. \A n \in T : n \in Nat /\ b - n \in Nat
      OBVIOUS
    <2> QED
      BY <2>1
  <1>2. \E x \in below : \A y \in below : <<y, x>> \notin OpToRel(<, Nat)
    BY <1>1, NatLessThanWellFounded, WFMin
  <1>3. PICK x \in below : \A y \in below : ~(y < x)
    BY <1>1, <1>2 DEF OpToRel
  <1>4. b - x \in T /\ x \in Nat
    BY <1>1
  <1>5. ASSUME NEW n \in T PROVE n <= b - x
    <2>1. b - n \in below
      OBVIOUS
    <2>2. ~(b - n < x)
      BY <1>3, <2>1
    <2>3. n \in Int
      OBVIOUS
    <2> QED
      BY <1>4, <2>2, <2>3
  <1> QED
    BY <1>4, <1>5

\* Chain, as a function of the catalog it begins with, for any group.
ChainUpTo(n, msgs, from, deleted, f) ==
    f = [d \in 0..n |-> IF d <= from \/ d \in deleted THEN {} ELSE {d} \cup f[msgs[d].before]]
ChainIn(msgs, from, deleted) == CHOOSE f : ChainUpTo(Len(msgs), msgs, from, deleted, f)

\* A catalog names an earlier message.
Backwards(msgs) == Len(msgs) \in Nat /\ \A m \in 1..Len(msgs) : msgs[m].before \in 0..m - 1

LEMMA ChainIsIn == ASSUME NEW c PROVE Chain(c) = ChainIn(messages, since, gone)[c]
  BY DEF Chain, ChainIn, ChainUpTo, Numbers

LEMMA ChainIsInNext == ASSUME NEW c PROVE Chain(c)' = ChainIn(messages', since', gone')[c]
  BY DEF Chain, ChainIn, ChainUpTo, Numbers

\* There is such a function, message by message.
LEMMA ChainExists ==
  ASSUME NEW msgs, Backwards(msgs), NEW from \in Nat, NEW deleted
  PROVE  \E f : ChainUpTo(Len(msgs), msgs, from, deleted, f)
  <1> DEFINE T == {n \in 0..Len(msgs) : ~\E f : ChainUpTo(n, msgs, from, deleted, f)}
  <1>0. Len(msgs) \in Nat /\ \A m \in 1..Len(msgs) : msgs[m].before \in 0..m - 1
    BY DEF Backwards
  <1> SUFFICES ASSUME T # {} PROVE FALSE
    BY <1>0
  <1>a. T \subseteq Nat
    BY <1>0
  <1> HIDE DEF T
  <1>1. PICK m \in T : \A n \in T : m <= n
    BY <1>a, LeastOne
  <1> USE DEF T
  <1>b. m \in 0..Len(msgs) /\ m \in Nat
    BY <1>0, <1>1
  <1>2. CASE m = 0
    <2> DEFINE g == [d \in 0..0 |-> {}]
    <2>1. g = [d \in 0..0 |-> IF d <= from \/ d \in deleted THEN {} ELSE {d} \cup g[msgs[d].before]]
      OBVIOUS
    <2> QED
      BY <1>1, <1>2, <2>1 DEF ChainUpTo
  <1>3. CASE m # 0
    <2>1. m - 1 \in 0..Len(msgs) /\ m - 1 \notin T /\ m \in 1..Len(msgs)
      BY <1>0, <1>b, <1>1, <1>3
    <2>2. PICK f : ChainUpTo(m - 1, msgs, from, deleted, f)
      BY <2>1
    <2>3. f = [d \in 0..m - 1 |-> IF d <= from \/ d \in deleted THEN {} ELSE {d} \cup f[msgs[d].before]]
      BY <2>2 DEF ChainUpTo
    <2>4. \A d \in 0..m - 1 :
            f[d] = IF d <= from \/ d \in deleted THEN {} ELSE {d} \cup f[msgs[d].before]
      BY <2>3
    <2> DEFINE g == [d \in 0..m |-> IF d = m THEN IF m <= from \/ m \in deleted THEN {} ELSE {m} \cup f[msgs[m].before]
                                   ELSE f[d]]
    <2>5. ASSUME NEW d \in 0..m
          PROVE  g[d] = IF d <= from \/ d \in deleted THEN {} ELSE {d} \cup g[msgs[d].before]
      <3>0. m \in Nat /\ (d = m \/ d \in 0..m - 1)
        BY <1>b
      <3>1. CASE d <= from
        BY <2>4, <3>0, <3>1
      <3>2. CASE ~(d <= from)
        <4>1. d \in 1..Len(msgs) /\ d <= m
          BY <2>1, <3>2
        <4>2. msgs[d].before \in 0..d - 1
          BY <1>0, <4>1
        <4>3. msgs[d].before \in 0..m /\ msgs[d].before # m
          BY <2>1, <4>1, <4>2
        <4>4. g[msgs[d].before] = f[msgs[d].before]
          BY <4>3
        <4>5. CASE d = m
          BY <4>4, <4>5
        <4>6. CASE d \in 0..m - 1
          <5>1. f[d] = IF d <= from \/ d \in deleted THEN {} ELSE {d} \cup f[msgs[d].before]
            BY <2>4, <4>6
          <5>2. g[d] = f[d]
            BY <1>b, <4>6
          <5> QED
            BY <4>4, <5>1, <5>2
        <4> QED
          BY <3>0, <4>5, <4>6
      <3> QED
        BY <3>1, <3>2
    <2>6. g = [d \in 0..m |-> g[d]]
      OBVIOUS
    <2> HIDE DEF g
    <2>7. g = [d \in 0..m |-> IF d <= from \/ d \in deleted THEN {} ELSE {d} \cup g[msgs[d].before]]
      BY <2>5, <2>6
    <2> QED
      BY <1>1, <2>7 DEF ChainUpTo
  <1> QED
    BY <1>2, <1>3

LEMMA ChainIsOne ==
  ASSUME NEW msgs, Backwards(msgs), NEW from \in Nat, NEW deleted
  PROVE  ChainUpTo(Len(msgs), msgs, from, deleted, ChainIn(msgs, from, deleted))
  BY ChainExists DEF ChainIn

\* It goes back from c, and not beyond the start of the chain.
LEMMA ChainWithin ==
  ASSUME NEW msgs, Backwards(msgs), NEW from \in Nat, NEW deleted, NEW c \in 0..Len(msgs)
  PROVE  ChainIn(msgs, from, deleted)[c] \subseteq (from + 1)..c
  <1>0. Len(msgs) \in Nat /\ \A m \in 1..Len(msgs) : msgs[m].before \in 0..m - 1
    BY DEF Backwards
  <1>1. PICK f : f = ChainIn(msgs, from, deleted)
    OBVIOUS
  <1>2. ASSUME NEW d \in 0..Len(msgs)
        PROVE  f[d] = IF d <= from \/ d \in deleted THEN {} ELSE {d} \cup f[msgs[d].before]
    <2>1. ChainUpTo(Len(msgs), msgs, from, deleted, f)
      BY <1>1, ChainIsOne
    <2> QED
      BY <2>1 DEF ChainUpTo
  <1> DEFINE T == {d \in 0..Len(msgs) : ~(f[d] \subseteq (from + 1)..d)}
  <1> SUFFICES ASSUME T # {} PROVE FALSE
    BY <1>1
  <1>a. T \subseteq Nat
    BY <1>0
  <1> HIDE DEF T
  <1>3. PICK m \in T : \A n \in T : m <= n
    BY <1>a, LeastOne
  <1> USE DEF T
  <1>b. m \in 0..Len(msgs) /\ ~(f[m] \subseteq (from + 1)..m)
    BY <1>3
  <1>4. ~(m <= from) /\ f[m] = {m} \cup f[msgs[m].before] /\ m \in 1..Len(msgs)
    <2>1. f[m] = IF m <= from \/ m \in deleted THEN {} ELSE {m} \cup f[msgs[m].before]
      BY <1>2, <1>b
    <2>2. f[m] # {}
      BY <1>b
    <2>3. ~(m <= from) /\ f[m] = {m} \cup f[msgs[m].before]
      BY <2>1, <2>2
    <2> QED
      BY <1>0, <1>b, <2>3
  <1>5. PICK b \in 0..m - 1 : b = msgs[m].before
    BY <1>0, <1>4
  <1>6. b \notin T /\ b \in 0..Len(msgs)
    BY <1>0, <1>3, <1>4, <1>5
  <1>7. f[b] \subseteq (from + 1)..b
    BY <1>6
  <1>8. f[m] \subseteq (from + 1)..m
    BY <1>4, <1>5, <1>7
  <1> QED
    BY <1>3, <1>8

\* It stays what it is while messages are added, and deleted before its start.
LEMMA ChainStays ==
  ASSUME NEW msgs, NEW more, Backwards(msgs), Backwards(more), NEW from \in Nat, NEW deleted, NEW erased,
         Len(msgs) <= Len(more), \A m \in 1..Len(msgs) : more[m].before = msgs[m].before,
         deleted \subseteq 0..from, erased \subseteq 0..from,
         NEW c \in 0..Len(msgs)
  PROVE  /\ ChainIn(more, from, erased)[c] \subseteq ChainIn(msgs, from, deleted)[c]
         /\ ChainIn(msgs, from, deleted)[c] \subseteq ChainIn(more, from, erased)[c]
  <1>0. Len(msgs) \in Nat /\ Len(more) \in Nat /\ \A m \in 1..Len(msgs) : msgs[m].before \in 0..m - 1
    BY DEF Backwards
  <1>1. PICK f : f = ChainIn(msgs, from, deleted)
    OBVIOUS
  <1>2. PICK g : g = ChainIn(more, from, erased)
    OBVIOUS
  <1>3. ASSUME NEW d \in 0..Len(msgs) PROVE f[d] = IF d <= from THEN {} ELSE {d} \cup f[msgs[d].before]
    <2>1. d \in deleted => d <= from
      OBVIOUS
    <2>2. ChainUpTo(Len(msgs), msgs, from, deleted, f)
      BY <1>1, ChainIsOne
    <2>3. f[d] = IF d <= from \/ d \in deleted THEN {} ELSE {d} \cup f[msgs[d].before]
      BY <2>2 DEF ChainUpTo
    <2> QED
      BY <2>1, <2>3
  <1>4. ASSUME NEW d \in 0..Len(msgs) PROVE g[d] = IF d <= from THEN {} ELSE {d} \cup g[more[d].before]
    <2>1. d \in 0..Len(more) /\ (d \in erased => d <= from)
      BY <1>0
    <2>2. ChainUpTo(Len(more), more, from, erased, g)
      BY <1>2, ChainIsOne
    <2>3. g[d] = IF d <= from \/ d \in erased THEN {} ELSE {d} \cup g[more[d].before]
      BY <2>1, <2>2 DEF ChainUpTo
    <2> QED
      BY <2>1, <2>3
  <1> DEFINE T == {d \in 0..Len(msgs) : g[d] # f[d]}
  <1> SUFFICES ASSUME T # {} PROVE FALSE
    BY <1>1, <1>2
  <1>a. T \subseteq Nat
    BY <1>0
  <1> HIDE DEF T
  <1>5. PICK m \in T : \A n \in T : m <= n
    BY <1>a, LeastOne
  <1> USE DEF T
  <1>b. m \in 0..Len(msgs) /\ g[m] # f[m]
    BY <1>5
  <1>6. ~(m <= from) /\ m \in 1..Len(msgs)
    <2>1. f[m] = IF m <= from THEN {} ELSE {m} \cup f[msgs[m].before]
      BY <1>3, <1>b
    <2>2. g[m] = IF m <= from THEN {} ELSE {m} \cup g[more[m].before]
      BY <1>4, <1>b
    <2> QED
      BY <1>0, <1>b, <2>1, <2>2
  <1>7. PICK b \in 0..m - 1 : b = msgs[m].before /\ b = more[m].before
    BY <1>0, <1>6
  <1>8. b \notin T /\ b \in 0..Len(msgs)
    BY <1>0, <1>5, <1>6, <1>7
  <1>9. f[m] = {m} \cup f[b] /\ g[m] = {m} \cup g[b]
    <2>1. f[m] = {m} \cup f[msgs[m].before]
      BY <1>3, <1>b, <1>6
    <2>2. g[m] = {m} \cup g[more[m].before]
      BY <1>4, <1>b, <1>6
    <2> QED
      BY <1>7, <2>1, <2>2
  <1>10. g[b] = f[b]
    BY <1>8
  <1> QED
    BY <1>b, <1>9, <1>10

-----------------------------------------------------------------------------
(* The catalogs and the archives they list.                                *)

DocType == [kind : Kinds, content : SUBSET Fragments, before : Nat]

\* Beside MessagesInv: a message names an earlier one, and only what is in the group is pinned.
GroupTyped ==
    /\ messages \in Seq(DocType) /\ \A m \in 1..Len(messages) : messages[m].before < m
    /\ pins \subseteq (1..Len(messages)) \ gone
    /\ aged <= Len(messages)

\* A request that can be carried out, now or later.
Sound(r) ==
    /\ r.op = "send" => r.doc \in DocType /\ r.doc.before <= Len(messages)
    /\ r.op = "pin" => r.first \in 1..Len(messages)
    /\ r.op = "delete" => r.first \in FirstRegular..since /\ r.last \in FirstRegular..since

\* Nothing is deleted that was sent since the chain was started anew.
SinceInv ==
    /\ since \in 0..Len(messages) /\ gone \subseteq 0..since
    /\ clearing # None => clearing.next <= since
    /\ \A r \in late : Sound(r)

StoreTyped ==
    /\ known \in 0..Len(messages) /\ head \in 0..Len(messages)
    /\ pending # None => pending.before \in 0..Len(messages) /\ pending.rows \subseteq rows
    /\ clearing # None => clearing.kept <= Len(messages)
    /\ pc \in Labels /\ low \in 0..Len(messages) + 1 /\ high \in 0..Len(messages) + 1

\* No fragment is in two archives.
RowsApart ==
    /\ \A r, s \in rows : r # s => r.content \cap s.content = {}
    /\ pc = "receipt" => item.row \in Unsent

\* No catalog of the chain from c on lists an archive: others pinned it.
Clean(c) == \A d \in Chain(c) : messages[d].content = {}

\* A catalog that names c goes on with the chain.
Follows(c) == c = known \/ (known = 0 /\ Clean(c))

Making == {"send", "receipt", "latest", "catalog", "note"}
Finishing == {"finish", "fresh", "acknowledge"}

RoundInv ==
    /\ pc \in Making => pending = None /\ Follows(head)
    /\ pc \in Finishing => pending # None
    /\ pc = "note" => /\ item.msg \in (since + 1)..Len(messages)
                      /\ messages[item.msg].content = Contents(Uploaded)
                      /\ messages[item.msg].before = head

PendingInv ==
    pending # None =>
        /\ pending.catalog \in (since + 1)..Len(messages)
        /\ messages[pending.catalog].content = Contents(pending.rows)
        /\ messages[pending.catalog].before = pending.before
        /\ pending.rows \subseteq Uploaded
        /\ Follows(pending.before)

\* With no chain and no catalog in the making, what is pinned or may be is another's.
CleanPins ==
    pending = None /\ known = 0 =>
        /\ \A m \in pins : Clean(m)
        /\ \A r \in late : r.op = "pin" => Clean(r.first)

ListedRows == {r \in rows : r.state = "listed"}
ListedInv == Listed \subseteq Contents(ListedRows) /\ ListedOnce

\* Inductive, with ClearInv.
CatalogInv ==
    /\ GroupTyped /\ SinceInv /\ StoreTyped /\ RowsApart
    /\ RoundInv /\ PendingInv /\ CleanPins /\ ListedInv

\* Messages are added, and none is changed.
Grown == Len(messages) <= Len(messages') /\ \A m \in 1..Len(messages) : messages'[m] = messages[m]

LEMMA GroupBackwards ==
  ASSUME GroupTyped
  PROVE  Backwards(messages)
  <1>1. Len(messages) \in Nat /\ \A m \in 1..Len(messages) : messages[m] \in DocType /\ messages[m].before < m
    BY DEF GroupTyped
  <1>2. ASSUME NEW m \in 1..Len(messages) PROVE messages[m].before \in 0..m - 1
    <2>1. messages[m].before \in Nat /\ messages[m].before < m
      BY <1>1 DEF DocType
    <2> QED
      BY <1>1, <2>1
  <1> QED
    BY <1>1, <1>2 DEF Backwards

\* The chains of a state.
LEMMA ChainsNow ==
  ASSUME GroupTyped, since \in Nat, NEW c \in 0..Len(messages)
  PROVE  /\ Chain(c) \subseteq (since + 1)..c
         /\ Chain(c) = IF c <= since \/ c \in gone THEN {} ELSE {c} \cup Chain(messages[c].before)
  <1>1. Backwards(messages)
    BY GroupBackwards
  <1>2. PICK f : f = ChainIn(messages, since, gone)
    OBVIOUS
  <1>3. ChainUpTo(Len(messages), messages, since, gone, f)
    BY <1>1, <1>2, ChainIsOne
  <1>4. f[c] = IF c <= since \/ c \in gone THEN {} ELSE {c} \cup f[messages[c].before]
    BY <1>3 DEF ChainUpTo
  <1>5. \A d : Chain(d) = f[d]
    BY <1>2, ChainIsIn
  <1>6. f[c] \subseteq (since + 1)..c
    BY <1>1, <1>2, ChainWithin
  <1> QED
    BY <1>4, <1>5, <1>6

LEMMA EmptyChain ==
  ASSUME GroupTyped, since \in Nat, NEW c \in 0..Len(messages), c <= since
  PROVE  Chain(c) = {} /\ Clean(c)
  BY ChainsNow DEF Clean

\* And in the next state: as long as the chain is not started anew, they are the same.
LEMMA ChainsStay ==
  ASSUME GroupTyped, SinceInv, GroupTyped', SinceInv', Grown, since' = since
  PROVE  \A c \in 0..Len(messages) : Chain(c)' = Chain(c) /\ (Clean(c)' <=> Clean(c))
  <1>1. Backwards(messages)
    BY GroupBackwards
  <1>2. Backwards(messages')
    <2>1. Len(messages') \in Nat /\ \A m \in 1..Len(messages') : messages'[m] \in DocType /\ messages'[m].before < m
      BY DEF GroupTyped
    <2>2. ASSUME NEW m \in 1..Len(messages') PROVE messages'[m].before \in 0..m - 1
      <3>1. messages'[m].before \in Nat /\ messages'[m].before < m
        BY <2>1 DEF DocType
      <3> QED
        BY <2>1, <3>1
    <2> QED
      BY <2>1, <2>2 DEF Backwards
  <1>3. gone \subseteq 0..since /\ gone' \subseteq 0..since /\ since \in Nat
    BY DEF SinceInv
  <1>4. Len(messages) <= Len(messages') /\ \A m \in 1..Len(messages) : messages'[m].before = messages[m].before
    BY DEF Grown
  <1>5. ASSUME NEW c \in 0..Len(messages) PROVE Chain(c)' = Chain(c) /\ (Clean(c)' <=> Clean(c))
    <2>1. ChainIn(messages', since, gone')[c] = ChainIn(messages, since, gone)[c]
      <3>1. /\ ChainIn(messages', since, gone')[c] \subseteq ChainIn(messages, since, gone)[c]
            /\ ChainIn(messages, since, gone)[c] \subseteq ChainIn(messages', since, gone')[c]
        BY <1>1, <1>2, <1>3, <1>4, ChainStays
      <3> QED
        BY <3>1
    <2>2. Chain(c)' = ChainIn(messages', since', gone')[c]
      BY ChainIsInNext
    <2>3. Chain(c) = ChainIn(messages, since, gone)[c]
      BY ChainIsIn
    <2>4. Chain(c)' = Chain(c)
      BY <2>1, <2>2, <2>3
    <2>5. Chain(c) \subseteq 1..Len(messages)
      <3>1. Chain(c) \subseteq (since + 1)..c
        BY <1>3, ChainsNow
      <3> QED
        BY <1>1, <1>3, <3>1 DEF Backwards
    <2>6. \A d \in Chain(c) : messages'[d] = messages[d]
      BY <2>5 DEF Grown
    <2> QED
      BY <2>4, <2>6 DEF Clean
  <1> QED
    BY <1>5

-----------------------------------------------------------------------------
(* What a step does to the group.                                          *)

Moves ==
    /\ \/ UNCHANGED server /\ late' \subseteq late \cup Requests
       \/ \E r \in Requests \cup late : Effect(r) /\ late' \subseteq late
       \/ OthersPin /\ UNCHANGED late
    /\ aged' = aged \/ (aged' \in {aged + 1, Len(messages)} /\ aged < Len(messages) /\ UNCHANGED messages)

\* Every request of the worker is one of those that may get lost.
LEMMA CallsRequest ==
  ASSUME NEW r \in Requests, NEW label, Calls(r, label)
  PROVE  Moves
  BY DEF Calls, Moves

LEMMA DeliversMove ==
  ASSUME Delivers
  PROVE  Moves
  <1>1. CASE SendArchive
    <2>1. PICK r \in Unsent : Calls(Sends(Document("archive", r.content, 0)), "receipt")
      BY <1>1 DEF SendArchive
    <2>2. Sends(Document("archive", r.content, 0)) \in Requests
      BY <1>1 DEF SendArchive, Requests
    <2> QED
      BY <2>1, <2>2, CallsRequest
  <1>2. CASE SendCatalog
    <2>1. Calls(Sends(NewCatalog), "note") /\ Sends(NewCatalog) \in Requests
      BY <1>2 DEF SendCatalog, Requests
    <2> QED
      BY <2>1, CallsRequest
  <1>3. CASE FinishPin
    <2>1. Calls(Pins(pending.catalog), "fresh") /\ Pins(pending.catalog) \in Requests
      BY <1>3 DEF FinishPin, Requests
    <2> QED
      BY <2>1, CallsRequest
  <1>4. CASE Deliver \/ Receipt \/ Entries \/ CheckLatest \/ NotePending \/ FinishRefused \/ FinishPinned
             \/ CheckFresh \/ Acknowledge
    BY <1>4 DEF Deliver, Receipt, Entries, CheckLatest, NotePending, FinishRefused, FinishPinned,
                CheckFresh, Acknowledge, Elsewhere, Moves
  <1> QED
    BY <1>1, <1>2, <1>3, <1>4 DEF Delivers

LEMMA ResetsMove ==
  ASSUME Restart \/ Resets
  PROVE  Moves
  <1>1. CASE Notice
    <2>1. Calls(Sends(Document("notice", {}, 0)), "unpin") /\ Sends(Document("notice", {}, 0)) \in Requests
      BY <1>1 DEF Notice, Requests
    <2> QED
      BY <2>1, CallsRequest
  <1>2. CASE Unpin
    <2>1. Calls(UnpinsAll, "forget") /\ UnpinsAll \in Requests
      BY <1>2 DEF Unpin, Requests
    <2> QED
      BY <2>1, CallsRequest
  <1>3. CASE DeleteABatch
    <2>1. Deletes(First, Last) \in Requests
      BY <1>3 DEF DeleteABatch, Requests
    <2>2. CASE Calls(Deletes(First, Last), "progress")
      BY <2>1, <2>2, CallsRequest
    <2>3. CASE ~Deletable(First, Last) /\ UNCHANGED <<Elsewhere>>
      BY <2>3 DEF Elsewhere, Moves
    <2> QED
      BY <1>3, <2>2, <2>3 DEF DeleteABatch
  <1>4. CASE Search
    <2>1. CASE low < high /\ Calls(Deletes(Middle, Last), "search")
      <3>1. Deletes(Middle, Last) \in Requests
        BY <1>4, <2>1 DEF Search, Requests
      <3> QED
        BY <2>1, <3>1, CallsRequest
    <2>2. CASE UNCHANGED <<Elsewhere>>
      BY <2>2 DEF Elsewhere, Moves
    <2> QED
      BY <1>4, <2>1, <2>2 DEF Search
  <1>5. CASE Restart \/ RestartChain \/ Clear \/ Progress \/ FinishClearing
    BY <1>5 DEF Restart, RestartChain, Clear, Progress, FinishClearing, Elsewhere, Moves
  <1> QED
    BY <1>1, <1>2, <1>3, <1>4, <1>5 DEF Resets

LEMMA EveryMove == [Next]_vars => Moves
  <1> SUFFICES ASSUME [Next]_vars PROVE Moves
    OBVIOUS
  <1>1. CASE Collect \/ Compact
    BY <1>1 DEF Collect, Compact, Aside, Moves
  <1>2. CASE NoAnswer
    <2>1. PICK r \in Requests :
            (Effect(r) /\ UNCHANGED late) \/ (late' = late \cup {r} /\ UNCHANGED server)
      BY <1>2 DEF NoAnswer
    <2> QED
      BY <1>2, <2>1 DEF NoAnswer, Moves
  <1>3. CASE Interrupted
    BY <1>3 DEF Interrupted, Moves
  <1>4. CASE Ages
    BY <1>4 DEF Ages, Moves, server
  <1>5. CASE OthersPin
    BY <1>5 DEF OthersPin, Moves
  <1>6. CASE CarriedOutLate
    <2>1. PICK r \in late : /\ late' = late \ {r}
                            /\ IF Accepts(r) THEN Effect(r) ELSE UNCHANGED server
      BY <1>6 DEF CarriedOutLate
    <2>2. UNCHANGED aged
      BY <1>6 DEF CarriedOutLate
    <2> QED
      BY <2>1, <2>2 DEF Moves
  <1>7. CASE UNCHANGED vars
    BY <1>7 DEF vars, Moves
  <1> QED
    BY <1>1, <1>2, <1>3, <1>4, <1>5, <1>6, <1>7, DeliversMove, ResetsMove DEF Next, Others

-----------------------------------------------------------------------------
(* The group stays typed.                                                  *)

LEMMA DocumentTypes ==
  ASSUME NEW kind \in Kinds, NEW content \in SUBSET Fragments, NEW before \in Nat
  PROVE  Document(kind, content, before) \in DocType /\ Document(kind, content, before).before = before
  BY DEF Document, DocType

LEMMA ContentsTypes ==
  ASSUME RowsInv, NEW S \in SUBSET rows
  PROVE  Contents(S) \in SUBSET Fragments
  BY DEF RowsInv, RowType, Contents

LEMMA GroupLength ==
  ASSUME GroupTyped
  PROVE  /\ Len(messages) \in Nat /\ \A m \in 1..Len(messages) : messages[m] \in DocType
         /\ Pinned \in 0..Len(messages) /\ (Pinned # 0 => Pinned \in pins)
  <1>1. Len(messages) \in Nat /\ \A m \in 1..Len(messages) : messages[m] \in DocType
    BY DEF GroupTyped
  <1>2. CASE pins = {}
    BY <1>1, <1>2 DEF Pinned
  <1>3. CASE pins # {}
    <2>1. pins \subseteq 0..Len(messages)
      BY <1>1 DEF GroupTyped
    <2>2. \E m \in pins : \A n \in pins : n <= m
      BY <1>1, <1>3, <2>1, LargestOne
    <2>3. Max(pins) \in pins
      BY <2>1, <2>2 DEF Max
    <2> QED
      BY <1>1, <1>3, <2>1, <2>3 DEF Pinned
  <1> QED
    BY <1>1, <1>2, <1>3

LEMMA RequestsSound ==
  ASSUME ClearInv, CatalogInv, NEW r \in Requests
  PROVE  Sound(r)
  <1>0. Len(messages) \in Nat
    BY GroupLength DEF CatalogInv
  <1>1. CASE r.op = "delete"
    <2>1. r.first \in Nat /\ r.last \in Nat /\ OfClearing(r.first, r.last)
      BY <1>1, RequestsOfClearing DEF ClearInv
    <2>2. clearing.next <= since /\ since \in Nat
      BY <1>0, <2>1 DEF OfClearing, CatalogInv, SinceInv
    <2> QED
      BY <1>1, <2>1, <2>2 DEF OfClearing, Sound, FirstRegular
  <1>2. CASE pc = "send" /\ Cardinality(Uploaded) < SendLimit
    <2>1. PICK x \in Unsent : r = Sends(Document("archive", x.content, 0))
      BY <1>2 DEF Requests
    <2>2. x.content \in SUBSET Fragments
      BY <2>1 DEF Unsent, Queue, ClearInv, RowsInv, RowType
    <2>3. Document("archive", x.content, 0) \in DocType /\ Document("archive", x.content, 0).before = 0
      BY <2>2, DocumentTypes DEF Kinds
    <2> QED
      BY <1>0, <2>1, <2>3 DEF Sends, Sound
  <1>3. CASE pc = "catalog"
    <2>1. r = Sends(NewCatalog)
      BY <1>3 DEF Requests
    <2>2. Contents(Uploaded) \in SUBSET Fragments
      BY ContentsTypes DEF ClearInv, Uploaded, Queue
    <2>3. head \in Nat /\ head <= Len(messages)
      BY <1>0 DEF CatalogInv, StoreTyped
    <2>4. NewCatalog \in DocType /\ NewCatalog.before = head
      BY <2>2, <2>3, DocumentTypes DEF NewCatalog, Kinds
    <2> QED
      BY <2>1, <2>3, <2>4 DEF Sends, Sound
  <1>4. CASE pc = "finish" /\ head = pending.before
    <2>1. r = Pins(pending.catalog)
      BY <1>4 DEF Requests
    <2>2. pending.catalog \in (since + 1)..Len(messages) /\ since \in Nat
      BY <1>0, <1>4 DEF CatalogInv, RoundInv, Finishing, PendingInv, SinceInv
    <2> QED
      BY <1>0, <2>1, <2>2 DEF Pins, Sound
  <1>5. CASE pc = "notice"
    <2>1. r = Sends(Document("notice", {}, 0))
      BY <1>5 DEF Requests
    <2>2. Document("notice", {}, 0) \in DocType /\ Document("notice", {}, 0).before = 0
      BY DocumentTypes DEF Kinds
    <2> QED
      BY <1>0, <2>1, <2>2 DEF Sends, Sound
  <1>6. CASE pc = "unpin"
    BY <1>6 DEF Requests, UnpinsAll, Sound
  <1>7. CASE pc \in {"clear", "search"}
    BY <1>1, <1>7 DEF Requests, Deletes
  <1>8. pc \notin {"send", "catalog", "finish", "notice", "unpin", "clear", "search"} => Requests = {}
    BY DEF Requests
  <1> QED
    BY <1>2, <1>3, <1>4, <1>5, <1>6, <1>7, <1>8 DEF Requests

\* What a request that can be carried out does.
LEMMA SoundEffect ==
  ASSUME GroupTyped, since \in 0..Len(messages), gone \subseteq 0..since, NEW r, Sound(r), Effect(r)
  PROVE  /\ messages' \in Seq(DocType) /\ Grown
         /\ \A m \in 1..Len(messages') : messages'[m].before < m
         /\ gone' \subseteq 0..since
         /\ pins' \subseteq (1..Len(messages')) \ gone'
         /\ \A m \in pins' : m \in pins \/ (r.op = "pin" /\ m = r.first)
  <1>0. Len(messages) \in Nat /\ since \in Nat /\ messages \in Seq(DocType)
    BY DEF GroupTyped
  <1>1. CASE r.op = "send"
    <2>1. messages' = Append(messages, r.doc) /\ r.doc \in DocType /\ r.doc.before <= Len(messages)
      BY <1>1 DEF Effect, Sound
    <2>2. /\ messages' \in Seq(DocType) /\ Len(messages') = Len(messages) + 1
          /\ \A m \in 1..Len(messages) : messages'[m] = messages[m]
          /\ messages'[Len(messages) + 1] = r.doc
      BY <1>0, <2>1
    <2>3. r.doc.before \in Nat
      BY <2>1 DEF DocType
    <2>4. \A m \in 1..Len(messages') : messages'[m].before < m
      <3>1. ASSUME NEW m \in 1..Len(messages') PROVE messages'[m].before < m
        <4>1. m \in 1..Len(messages) \/ m = Len(messages) + 1
          BY <1>0, <2>2
        <4> QED
          BY <1>0, <2>1, <2>2, <2>3, <4>1 DEF GroupTyped
      <3> QED
        BY <3>1
    <2>5. gone' = gone /\ pins' = pins
      BY <1>1 DEF Effect
    <2> QED
      BY <1>0, <2>2, <2>4, <2>5 DEF GroupTyped, Grown
  <1>2. CASE r.op # "send"
    <2>1. messages' = messages
      BY <1>2 DEF Effect
    <2>2. /\ gone' \subseteq 0..since /\ pins' \subseteq (1..Len(messages)) \ gone'
          /\ \A m \in pins' : m \in pins \/ (r.op = "pin" /\ m = r.first)
      <3>1. CASE r.op = "pin"
        BY <3>1 DEF Effect, Accepts, Sound, GroupTyped
      <3>2. CASE r.op = "delete"
        <4>1. gone' = gone \cup (r.first..r.last) /\ pins' = pins \ gone'
          BY <3>2 DEF Effect
        <4>2. r.first..r.last \subseteq 0..since
          BY <1>0, <3>2 DEF Sound, FirstRegular
        <4> QED
          BY <4>1, <4>2 DEF GroupTyped
      <3>3. CASE r.op = "unpin"
        BY <3>3 DEF Effect
      <3>4. CASE r.op \notin {"pin", "delete", "unpin"}
        BY <1>2, <3>4 DEF Effect, GroupTyped
      <3> QED
        BY <3>1, <3>2, <3>3, <3>4
    <2> QED
      BY <1>0, <2>1, <2>2 DEF GroupTyped, Grown
  <1> QED
    BY <1>1, <1>2

\* Others pin a message of the group, or send one first; then no chain is taken up.
LEMMA OthersEffect ==
  ASSUME GroupTyped, since \in 0..Len(messages), gone \subseteq 0..since, StoreTyped, OthersPin
  PROVE  /\ messages' \in Seq(DocType) /\ Grown
         /\ \A m \in 1..Len(messages') : messages'[m].before < m
         /\ gone' = gone
         /\ pins' \subseteq (1..Len(messages')) \ gone'
         /\ \/ pins' \subseteq pins
            \/ known # 0 /\ UNCHANGED messages
            \/ /\ Len(messages') = Len(messages) + 1 /\ pins' \subseteq pins \cup {Len(messages')}
               /\ messages'[Len(messages')].before = Pinned /\ messages'[Len(messages')].content = {}
  <1>0. Len(messages) \in Nat /\ since \in Nat /\ messages \in Seq(DocType)
    BY DEF GroupTyped
  <1>1. CASE pins # {} /\ pins' = pins \ {Pinned} /\ UNCHANGED <<messages, gone>>
    <2>1. pins' \subseteq pins /\ messages' = messages /\ gone' = gone
      BY <1>1
    <2> HIDE <1>1
    <2> QED
      BY <1>0, <2>1 DEF GroupTyped, Grown
  <1>2. CASE known \notin {0} \cup gone /\ Effect(Pins(known))
    <2>1. UNCHANGED <<messages, gone>> /\ pins' = pins \cup {known}
      BY <1>2 DEF Effect, Pins
    <2>2. known \in 1..Len(messages)
      BY <1>0, <1>2 DEF StoreTyped
    <2> QED
      BY <1>0, <1>2, <2>1, <2>2 DEF GroupTyped, Grown
  <1>3. ASSUME NEW kind \in {"other", "catalog"},
               messages' = Append(messages, Document(kind, {}, Pinned)),
               pins' = pins \cup {NewMessage}, UNCHANGED gone
        PROVE  /\ messages' \in Seq(DocType) /\ Grown
               /\ \A m \in 1..Len(messages') : messages'[m].before < m
               /\ pins' \subseteq (1..Len(messages')) \ gone'
               /\ Len(messages') = Len(messages) + 1 /\ pins' \subseteq pins \cup {Len(messages')}
               /\ messages'[Len(messages')].before = Pinned /\ messages'[Len(messages')].content = {}
    <2>1. Pinned \in 0..Len(messages)
      BY GroupLength
    <2>2. PICK doc : doc = Document(kind, {}, Pinned)
      OBVIOUS
    <2>3. doc \in DocType /\ doc.before = Pinned /\ doc.content = {}
      <3>1. Pinned \in Nat /\ kind \in Kinds
        BY <2>1 DEF Kinds
      <3> QED
        BY <2>2, <3>1, DocumentTypes DEF Document
    <2>4. /\ messages' \in Seq(DocType) /\ Len(messages') = Len(messages) + 1
          /\ \A m \in 1..Len(messages) : messages'[m] = messages[m]
          /\ messages'[Len(messages) + 1] = doc
      BY <1>0, <1>3, <2>2, <2>3
    <2>5. ASSUME NEW m \in 1..Len(messages') PROVE messages'[m].before < m
      <3>1. m \in 1..Len(messages) \/ m = Len(messages) + 1
        BY <1>0, <2>4
      <3> QED
        BY <1>0, <2>1, <2>3, <2>4, <3>1 DEF GroupTyped
    <2>6. pins' \subseteq (1..Len(messages')) \ gone'
      <3>1. NewMessage = Len(messages) + 1 /\ NewMessage \notin gone /\ NewMessage \in 1..Len(messages')
        BY <1>0, <2>4 DEF NewMessage
      <3>2. pins \subseteq (1..Len(messages')) \ gone
        BY <1>0, <2>4 DEF GroupTyped
      <3> QED
        BY <1>3, <3>1, <3>2
    <2> QED
      BY <1>0, <1>3, <2>3, <2>4, <2>5, <2>6 DEF Grown, NewMessage
  <1>4. CASE \E kind \in {"other", "catalog"} :
                 /\ messages' = Append(messages, Document(kind, {}, Pinned))
                 /\ pins' = pins \cup {NewMessage}
                 /\ UNCHANGED gone
    BY <1>3, <1>4
  <1> QED
    BY <1>1, <1>2, <1>4 DEF OthersPin


LEMMA GroupTypes ==
  ASSUME ClearInv, CatalogInv, [Next]_vars
  PROVE  GroupTyped' /\ Grown /\ gone' \subseteq 0..since
  <1>0. GroupTyped /\ since \in 0..Len(messages) /\ gone \subseteq 0..since /\ StoreTyped
    BY DEF CatalogInv, SinceInv
  <1>1. Moves
    BY EveryMove
  <1>2. Len(messages) \in Nat /\ aged \in Nat /\ aged <= Len(messages) /\ messages \in Seq(DocType)
    BY <1>0 DEF GroupTyped, ClearInv, MessagesInv
  <1> DEFINE Group == /\ messages' \in Seq(DocType) /\ Grown
                      /\ \A m \in 1..Len(messages') : messages'[m].before < m
                      /\ gone' \subseteq 0..since
                      /\ pins' \subseteq (1..Len(messages')) \ gone'
  <1>3. Group
    <2>1. CASE UNCHANGED server
      BY <1>0, <1>2, <2>1 DEF server, GroupTyped, Grown
    <2>2. CASE \E r \in Requests \cup late : Effect(r)
      <3>1. PICK r \in Requests \cup late : Effect(r)
        BY <2>2
      <3>2. Sound(r)
        BY RequestsSound DEF CatalogInv, SinceInv
      <3> QED
        BY <1>0, <3>1, <3>2, SoundEffect
    <2>3. CASE OthersPin
      <3>1. gone' = gone
        BY <1>0, <2>3, OthersEffect
      <3> QED
        BY <1>0, <2>3, <3>1, OthersEffect
    <2> QED
      BY <1>1, <2>1, <2>2, <2>3 DEF Moves
  <1>4. aged' <= Len(messages')
    <2>1. Len(messages') \in Nat
      BY <1>3
    <2> QED
      BY <1>1, <1>2, <1>3, <2>1 DEF Moves, Grown
  <1> QED
    BY <1>3, <1>4 DEF GroupTyped

\* The chain is started anew by one step only.
LEMMA SinceMoves ==
  ASSUME [Next]_vars, ~RestartChain
  PROVE  since' = since /\ (known' = known \/ Acknowledge)
  BY DEF Next, Collect, Compact, Delivers, Deliver, SendArchive, Receipt, Entries,
         CheckLatest, SendCatalog, NotePending, FinishRefused, FinishPinned, FinishPin,
         CheckFresh, Acknowledge, Restart, Resets, Notice, Unpin, Clear, DeleteABatch, Search, Progress,
         FinishClearing, NoAnswer, Interrupted, Others, Ages, OthersPin, CarriedOutLate, Calls, store, vars,
         Aside, Elsewhere

LEMMA ClearingMoves ==
  ASSUME [Next]_vars, ~(RestartChain \/ Progress \/ FinishClearing)
  PROVE  UNCHANGED clearing
  BY DEF Next, Collect, Compact, Delivers, Deliver, SendArchive, Receipt, Entries,
         CheckLatest, SendCatalog, NotePending, FinishRefused, FinishPinned, FinishPin,
         CheckFresh, Acknowledge, Restart, Resets, Notice, Unpin, Clear, DeleteABatch, Search,
         NoAnswer, Interrupted, Others, Ages, OthersPin, CarriedOutLate, Calls, store, vars

LEMMA SinceNext ==
  ASSUME ClearInv, CatalogInv, [Next]_vars
  PROVE  SinceInv'
  <1>0. /\ GroupTyped' /\ Grown /\ gone' \subseteq 0..since
        /\ since \in 0..Len(messages) /\ Len(messages) \in Nat /\ Len(messages') \in Nat
        /\ clearing # None => clearing.next <= since
    BY GroupTypes, GroupLength DEF CatalogInv, SinceInv, GroupTyped
  <1>1. late' \subseteq late \cup Requests
    BY EveryMove DEF Moves
  <1>2. since <= since' /\ since' \in 0..Len(messages')
    <2>1. CASE RestartChain
      BY <1>0, <2>1 DEF RestartChain, server, Grown
    <2>2. CASE ~RestartChain
      BY <1>0, <2>2, SinceMoves DEF Grown
    <2> QED
      BY <2>1, <2>2
  <1>3. \A r \in late' : Sound(r)'
    <2>1. ASSUME NEW r, Sound(r) PROVE Sound(r)'
      BY <1>0, <1>2, <2>1 DEF Sound, Grown, FirstRegular, DocType
    <2>2. \A r \in late \cup Requests : Sound(r)
      BY RequestsSound DEF CatalogInv, SinceInv
    <2> QED
      BY <1>1, <2>1, <2>2
  <1>4. clearing' # None => clearing'.next <= since'
    <2>1. CASE UNCHANGED clearing
      <3>1. clearing # None => clearing.next \in Nat
        BY DEF ClearInv, ClearingInv
      <3> QED
        BY <1>0, <1>2, <2>1, <3>1
    <2>2. CASE RestartChain
      <3>1. clearing = None
        BY <2>2 DEF RestartChain, ClearInv, WorkInv, Delivering, Round
      <3>2. CASE item = None
        BY <2>2, <3>1, <3>2 DEF RestartChain
      <3>3. CASE item # None
        <4>1. clearing' = [next |-> item.msg, kept |-> 0] /\ item.msg \in FirstRegular..Len(messages)
          BY <2>2, <3>3 DEF RestartChain, ClearInv, ItemInv
        <4>2. since' = Len(messages)
          BY <2>2 DEF RestartChain
        <4> QED
          BY <1>0, <4>1, <4>2
      <3> QED
        BY <3>2, <3>3
    <2>3. CASE Progress
      <3>1. clearing # None /\ clearing \in [next : Nat, kept : Nat] /\ clearing.next >= FirstRegular
        BY <2>3 DEF Progress, ClearInv, WorkInv, ClearingInv
      <3>2. First \in Nat /\ First <= clearing.next
        BY <3>1, FirstOfBatch
      <3>3. clearing' = [next |-> FirstRegular - 1, kept |-> low - 1] \/ clearing' = [clearing EXCEPT !.next = First - 1]
        BY <2>3 DEF Progress
      <3>4. clearing'.next <= clearing.next
        BY <3>1, <3>2, <3>3 DEF FirstRegular
      <3>5. clearing'.next \in Int
        BY <3>1, <3>2, <3>3 DEF FirstRegular
      <3> QED
        BY <1>0, <1>2, <3>1, <3>4, <3>5
    <2>4. CASE FinishClearing
      BY <2>4 DEF FinishClearing
    <2> QED
      BY <2>1, <2>2, <2>3, <2>4, ClearingMoves
  <1>5. gone' \subseteq 0..since'
    BY <1>0, <1>2
  <1> QED
    BY <1>2, <1>3, <1>4, <1>5 DEF SinceInv

-----------------------------------------------------------------------------
(* The store and the worker stay typed.                                    *)

\* What a step makes of the store and the worker, as far as types go.
LEMMA StoreMoves ==
  ASSUME [Next]_vars
  PROVE  /\ pending' = pending \/ pending' = None \/ (NotePending /\ pending' = [catalog |-> item.msg, rows |-> Uploaded, before |-> head])
         /\ known' = known \/ known' = 0 \/ (Acknowledge /\ known' = pending.catalog)
         /\ head' = head \/ head' = 0 \/ (Deliver /\ head' = Pinned)
         /\ pc' = pc \/ pc' \in Labels
  <1>1. CASE Delivers
    BY <1>1 DEF Delivers, Deliver, SendArchive, Receipt, Entries, CheckLatest, SendCatalog, NotePending,
                FinishRefused, FinishPinned, FinishPin, CheckFresh, Acknowledge, Calls, Goes, GivesUp, store, Elsewhere,
                Labels, scratch
  <1>2. CASE Restart \/ Resets
    BY <1>2 DEF Restart, Resets, Notice, Unpin, RestartChain, Clear, DeleteABatch, Search, Progress,
                FinishClearing, Calls, Goes, GivesUp, store, Elsewhere, Labels, scratch
  <1>3. CASE Collect \/ Compact \/ NoAnswer \/ Interrupted \/ Others
    BY <1>3 DEF Collect, Compact, NoAnswer, Interrupted, Others, Ages, OthersPin, CarriedOutLate, GivesUp, Goes,
                Aside, store, Labels
  <1>4. CASE UNCHANGED vars
    BY <1>4 DEF vars, store
  <1> QED
    BY <1>1, <1>2, <1>3, <1>4 DEF Next

\* low and high stay within the messages.
LEMMA SearchTypes ==
  ASSUME ClearInv, CatalogInv, [Next]_vars, Grown, Len(messages') \in Nat
  PROVE  low' \in 0..Len(messages') + 1 /\ high' \in 0..Len(messages') + 1
  <1>0. low \in 0..Len(messages) + 1 /\ high \in 0..Len(messages) + 1 /\ Len(messages) \in Nat
    BY GroupLength DEF CatalogInv, StoreTyped
  <1>1. CASE DeleteABatch
    <2>1. OfClearing(First, Last) /\ First \in Nat /\ Last \in Nat
      BY <1>1, BatchOfClearing DEF DeleteABatch, ClearInv, WorkInv
    <2>2. First <= Last /\ Last <= Len(messages)
      BY <2>1 DEF OfClearing, ClearInv, ClearingInv, FirstRegular
    <2>3. (low' = First /\ high' = 0) \/ (low' = First + 1 /\ high' = Last + 1)
      BY <1>1 DEF DeleteABatch
    <2> QED
      BY <1>0, <2>1, <2>2, <2>3 DEF Grown
  <1>2. CASE Search
    <2>1. pc = "search"
      BY <1>2 DEF Search
    <2>2. low < high => Middle \in Nat /\ low <= Middle /\ Middle < high
      BY <2>1, MiddleOfClearing DEF ClearInv
    <2>3. low' = low \/ (low < high /\ low' = Middle + 1)
      BY <1>2 DEF Search
    <2>4. high' = high \/ (low < high /\ high' = Middle)
      BY <1>2 DEF Search
    <2> QED
      BY <1>0, <2>2, <2>3, <2>4 DEF Grown
  <1>3. CASE ~(DeleteABatch \/ Search)
    <2>1. (low' = low \/ low' = 0) /\ (high' = high \/ high' = 0)
      <3>1. CASE Delivers
        BY <3>1 DEF Delivers, Deliver, SendArchive, Receipt, Entries, CheckLatest, SendCatalog, NotePending,
                    FinishRefused, FinishPinned, FinishPin, CheckFresh, Acknowledge, GivesUp, scratch
      <3>2. CASE Restart \/ Resets
        BY <1>3, <3>2 DEF Restart, Resets, Notice, Unpin, RestartChain, Clear, Progress, FinishClearing, GivesUp,
                    scratch
      <3>3. CASE Collect \/ Compact \/ NoAnswer \/ Interrupted \/ Others
        BY <3>3 DEF Collect, Compact, NoAnswer, Interrupted, Others, Ages, OthersPin, CarriedOutLate, GivesUp,
                    Aside, scratch
      <3>4. CASE UNCHANGED vars
        BY <3>4 DEF vars, scratch
      <3> QED
        BY <3>1, <3>2, <3>3, <3>4 DEF Next
    <2> QED
      BY <1>0, <2>1 DEF Grown
  <1> QED
    BY <1>1, <1>2, <1>3

LEMMA RowsOfPending ==
  ASSUME ClearInv, CatalogInv, [Next]_vars, pending' = pending, pending # None
  PROVE  pending.rows \subseteq Uploaded'
  <1>0. pending.rows \subseteq Uploaded
    BY DEF CatalogInv, PendingInv
  <1>1. CASE UNCHANGED rows
    BY <1>0, <1>1 DEF Uploaded, Queue
  <1>2. CASE Collect \/ Compact
    <2>1. \A r \in Uploaded : r \in rows'
      BY <1>2 DEF Collect, Compact, Uploaded, Queue, Unsent
    <2> QED
      BY <1>0, <2>1 DEF Uploaded, Queue
  <1>3. CASE Receipt \/ Acknowledge
    BY <1>3, NoneAssumption DEF Receipt, Acknowledge, CatalogInv, RoundInv, Making
  <1>4. CASE RestartChain
    BY <1>4 DEF RestartChain
  <1>5. CASE FinishClearing
    <2>1. \A r \in Uploaded : r \in rows'
      BY <1>5 DEF FinishClearing, Uploaded, Queue, Held
    <2> QED
      BY <1>0, <2>1 DEF Uploaded, Queue
  <1>6. CASE ~(Collect \/ Compact \/ Receipt \/ Acknowledge \/ RestartChain \/ FinishClearing)
    <2>1. UNCHANGED rows
      BY <1>6 DEF Next, Delivers, Deliver, SendArchive, Entries, CheckLatest, SendCatalog,
           NotePending, FinishRefused, FinishPinned, FinishPin, CheckFresh, Restart, Resets,
           Notice, Unpin, Clear, DeleteABatch, Search, Progress, NoAnswer, Interrupted, Others, Ages,
           OthersPin, CarriedOutLate, Calls, store, vars
    <2> QED
      BY <1>1, <2>1
  <1> QED
    BY <1>2, <1>3, <1>4, <1>5, <1>6

LEMMA StoreTypesNext ==
  ASSUME ClearInv, CatalogInv, [Next]_vars
  PROVE  StoreTyped'
  <1>0. /\ Grown /\ Len(messages) \in Nat /\ Len(messages') \in Nat /\ Len(messages) <= Len(messages')
        /\ StoreTyped /\ since \in Nat
    BY GroupTypes, GroupLength DEF CatalogInv, SinceInv, GroupTyped, Grown
  <1>1. known' \in 0..Len(messages')
    <2>1. Acknowledge => pending # None /\ pending.catalog \in (since + 1)..Len(messages)
      BY DEF Acknowledge, CatalogInv, RoundInv, Finishing, PendingInv
    <2> QED
      BY <1>0, <2>1, StoreMoves DEF StoreTyped
  <1>2. head' \in 0..Len(messages')
    <2>1. Pinned \in 0..Len(messages)
      BY GroupLength DEF CatalogInv
    <2> QED
      BY <1>0, <2>1, StoreMoves DEF StoreTyped
  <1>3. ASSUME pending' # None PROVE pending'.before \in 0..Len(messages') /\ pending'.rows \subseteq rows'
    <2>1. CASE pending' = pending
      <3>1. pending.rows \subseteq Uploaded'
        BY <1>3, <2>1, RowsOfPending
      <3> QED
        BY <1>0, <1>3, <2>1, <3>1 DEF StoreTyped, Uploaded, Queue
    <2>2. CASE NotePending /\ pending' = [catalog |-> item.msg, rows |-> Uploaded, before |-> head]
      <3>1. rows' = rows
        BY <2>2 DEF NotePending
      <3> QED
        BY <1>0, <2>2, <3>1 DEF StoreTyped, Uploaded, Queue
    <2> QED
      BY <1>3, <2>1, <2>2, StoreMoves
  <1>4. ASSUME clearing' # None PROVE clearing'.kept <= Len(messages')
    <2>1. CASE UNCHANGED clearing
      <3>1. clearing # None => clearing.kept \in Nat
        BY DEF ClearInv, ClearingInv
      <3> QED
        BY <1>0, <1>4, <2>1, <3>1 DEF StoreTyped
    <2>2. CASE RestartChain
      <3>1. clearing = None
        BY <2>2 DEF RestartChain, ClearInv, WorkInv, Delivering, Round
      <3>2. clearing' = [next |-> item.msg, kept |-> 0]
        BY <1>4, <2>2, <3>1 DEF RestartChain
      <3> QED
        BY <1>0, <3>2
    <2>3. CASE Progress
      <3>1. clearing # None /\ clearing \in [next : Nat, kept : Nat] /\ clearing.kept = 0
        BY <2>3 DEF Progress, ClearInv, WorkInv, ClearingInv
      <3>2. low \in 0..Len(messages) + 1
        BY <1>0 DEF StoreTyped
      <3>3. clearing' = [next |-> FirstRegular - 1, kept |-> low - 1] \/ clearing' = [clearing EXCEPT !.next = First - 1]
        BY <2>3 DEF Progress
      <3> QED
        BY <1>0, <3>1, <3>2, <3>3
    <2>4. CASE FinishClearing
      BY <1>4, <2>4 DEF FinishClearing
    <2> QED
      BY <2>1, <2>2, <2>3, <2>4, ClearingMoves
  <1>5. pc' \in Labels
    BY <1>0, StoreMoves DEF StoreTyped
  <1> QED
    BY <1>0, <1>1, <1>2, <1>3, <1>4, <1>5, SearchTypes DEF StoreTyped

-----------------------------------------------------------------------------
(* The archives stay apart.                                                *)

Apart(S) == \A r, s \in S : r # s => r.content \cap s.content = {}

\* Archives that change their state only, some to x and some to y, stay apart.
LEMMA StatesChange ==
  ASSUME NEW S, S \subseteq RowType, Apart(S), NEW A, NEW B, NEW C, NEW x, NEW y,
         A \subseteq S, B \subseteq S, C \subseteq S, A \cap B = {}, A \cap C = {}, B \cap C = {}
  PROVE  Apart(A \cup With(B, x) \cup With(C, y))
  <1> DEFINE From(s, o) == \/ o \in A /\ s = o
                           \/ o \in B /\ s = [o EXCEPT !.state = x]
                           \/ o \in C /\ s = [o EXCEPT !.state = y]
  <1>1. ASSUME NEW s \in A \cup With(B, x) \cup With(C, y)
        PROVE  \E o \in S : From(s, o)
    BY DEF With
  <1>2. ASSUME NEW s, NEW o \in S, From(s, o) PROVE s.content = o.content
    <2>1. o \in RowType
      OBVIOUS
    <2> QED
      BY <1>2, <2>1 DEF RowType
  <1>3. ASSUME NEW r, NEW s, NEW o, From(r, o), From(s, o) PROVE r = s
    BY <1>3
  <1>4. ASSUME NEW r \in A \cup With(B, x) \cup With(C, y), NEW s \in A \cup With(B, x) \cup With(C, y), r # s
        PROVE  r.content \cap s.content = {}
    <2>1. PICK o \in S : From(r, o)
      BY <1>1
    <2>2. PICK p \in S : From(s, p)
      BY <1>1
    <2>3. o # p
      BY <1>3, <1>4, <2>1, <2>2
    <2>4. o.content \cap p.content = {}
      BY <2>3 DEF Apart
    <2> QED
      BY <1>2, <2>1, <2>2, <2>4
  <1> QED
    BY <1>4 DEF Apart

\* A state says nothing of the content.
LEMMA ContentsOfStates ==
  ASSUME NEW S, S \subseteq RowType, NEW x
  PROVE  Contents(With(S, x)) = Contents(S)
  <1>1. ASSUME NEW r \in S PROVE [r EXCEPT !.state = x].content = r.content
    BY DEF RowType
  <1>2. ASSUME NEW f PROVE (\E r \in With(S, x) : f \in r.content) <=> (\E r \in S : f \in r.content)
    BY <1>1 DEF With
  <1> QED
    BY <1>2 DEF Contents

LEMMA ReceiptMoves ==
  ASSUME [Next]_vars, pc' = "receipt", ~SendArchive
  PROVE  UNCHANGED <<pc, item, rows>>
  <1>1. CASE Delivers
    BY <1>1 DEF Delivers, Deliver, Receipt, Entries, CheckLatest, SendCatalog, NotePending, FinishRefused,
                FinishPinned, FinishPin, CheckFresh, Acknowledge, Calls, Goes, GivesUp, store, scratch
  <1>2. CASE Restart \/ Resets
    BY <1>2 DEF Restart, Resets, Notice, Unpin, RestartChain, Clear, DeleteABatch, Search, Progress,
                FinishClearing, Calls, Goes, GivesUp
  <1>3. CASE Collect \/ Compact \/ NoAnswer \/ Interrupted \/ Others
    BY <1>3 DEF Collect, Compact, NoAnswer, Interrupted, Others, Ages, OthersPin, CarriedOutLate, GivesUp, Goes,
                Idle, Aside, store, scratch
  <1>4. CASE UNCHANGED vars
    BY <1>4 DEF vars, store, scratch
  <1> QED
    BY <1>1, <1>2, <1>3, <1>4 DEF Next

LEMMA ApartNext ==
  ASSUME ClearInv, CatalogInv, [Next]_vars
  PROVE  Apart(rows')
  <1>0. Apart(rows) /\ rows \subseteq RowType
    BY DEF CatalogInv, RowsApart, ClearInv, RowsInv, Apart
  <1>1. CASE UNCHANGED rows
    BY <1>0, <1>1
  <1>2. CASE Collect
    <2>1. PICK f \in Fragments \ Contents(rows) : rows' = rows \cup {Row({f})}
      BY <1>2 DEF Collect
    <2>2. PICK n : n = Row({f})
      OBVIOUS
    <2>3. n.content = {f} /\ \A r \in rows : f \notin r.content
      BY <2>1, <2>2 DEF Row, Contents
    <2>4. rows' = rows \cup {n}
      BY <2>1, <2>2
    <2> QED
      BY <1>0, <2>3, <2>4 DEF Apart
  <1>3. CASE Compact
    <2>1. PICK S \in SUBSET rows : rows' = (rows \ S) \cup {Row(Contents(S))}
      BY <1>3 DEF Compact, Unsent, Queue
    <2>2. PICK n : n = Row(Contents(S))
      OBVIOUS
    <2>3. n.content = Contents(S)
      BY <2>2 DEF Row
    <2>4. \A r \in rows \ S : r.content \cap n.content = {}
      BY <1>0, <2>1, <2>3 DEF Apart, Contents
    <2>5. rows' = (rows \ S) \cup {n}
      BY <2>1, <2>2
    <2> QED
      BY <1>0, <2>4, <2>5 DEF Apart
  <1>4. CASE Receipt
    <2>1. PICK n : n = [item.row EXCEPT !.msg = item.msg]
      OBVIOUS
    <2>2. item.row \in rows
      BY <1>4 DEF Receipt, CatalogInv, RowsApart, Unsent, Queue
    <2>3. n.content = item.row.content
      BY <1>0, <2>1, <2>2 DEF RowType
    <2>4. rows' = (rows \ {item.row}) \cup {n}
      BY <1>4, <2>1 DEF Receipt
    <2> QED
      BY <1>0, <2>2, <2>3, <2>4 DEF Apart
  <1>5. CASE Acknowledge
    <2>1. rows' = (rows \ pending.rows) \cup With(rows \cap pending.rows, "listed") \cup With({}, "listed")
      BY <1>5 DEF Acknowledge, With
    <2>2. Apart((rows \ pending.rows) \cup With(rows \cap pending.rows, "listed") \cup With({}, "listed"))
      <3>1. PICK A, B : A = rows \ pending.rows /\ B = rows \cap pending.rows
        OBVIOUS
      <3>2. A \subseteq rows /\ B \subseteq rows /\ {} \subseteq rows
            /\ A \cap B = {} /\ A \cap {} = {} /\ B \cap {} = {}
        BY <3>1
      <3>3. Apart(A \cup With(B, "listed") \cup With({}, "listed"))
        BY <1>0, <3>2, StatesChange
      <3> QED
        BY <3>1, <3>3
    <2> QED
      BY <2>1, <2>2
  <1>6. CASE RestartChain
    <2>1. rows' = rows \/ rows' = (rows \ Uploaded) \cup With(Uploaded, "held") \cup With({}, "held")
      BY <1>6 DEF RestartChain, With
    <2>2. Uploaded \subseteq rows
      BY DEF Uploaded, Queue
    <2>3. Apart((rows \ Uploaded) \cup With(Uploaded, "held") \cup With({}, "held"))
      BY <1>0, <2>2, StatesChange
    <2> QED
      BY <1>0, <2>1, <2>3
  <1>7. CASE FinishClearing
    <2>1. rows' = (rows \ Held) \cup With(Kept, "queued") \cup With(Held \ Kept, "dropped")
      BY <1>7 DEF FinishClearing
    <2>2. Held \subseteq rows /\ Kept \subseteq Held
      BY DEF Held, Kept
    <2>3. Apart((rows \ Held) \cup With(Kept, "queued") \cup With(Held \ Kept, "dropped"))
      <3>1. PICK A, B, C : A = rows \ Held /\ B = Kept /\ C = Held \ Kept
        OBVIOUS
      <3>2. A \subseteq rows /\ B \subseteq rows /\ C \subseteq rows
            /\ A \cap B = {} /\ A \cap C = {} /\ B \cap C = {}
        BY <2>2, <3>1
      <3>3. Apart(A \cup With(B, "queued") \cup With(C, "dropped"))
        BY <1>0, <3>2, StatesChange
      <3> QED
        BY <3>1, <3>3
    <2> QED
      BY <2>1, <2>3
  <1>8. CASE ~(Collect \/ Compact \/ Receipt \/ Acknowledge \/ RestartChain \/ FinishClearing)
    <2>1. UNCHANGED rows
      BY <1>8 DEF Next, Delivers, Deliver, SendArchive, Entries, CheckLatest, SendCatalog,
           NotePending, FinishRefused, FinishPinned, FinishPin, CheckFresh, Restart, Resets,
           Notice, Unpin, Clear, DeleteABatch, Search, Progress, NoAnswer, Interrupted, Others, Ages,
           OthersPin, CarriedOutLate, Calls, store, vars
    <2> QED
      BY <1>1, <2>1
  <1> QED
    BY <1>2, <1>3, <1>4, <1>5, <1>6, <1>7, <1>8

LEMMA RowsApartNext ==
  ASSUME ClearInv, CatalogInv, [Next]_vars
  PROVE  RowsApart'
  <1>1. Apart(rows')
    BY ApartNext
  <1>2. ASSUME pc' = "receipt" PROVE item'.row \in Unsent'
    <2>1. CASE SendArchive
      <3>1. PICK r \in Unsent : /\ item' = [row |-> r, msg |-> NewMessage]
                                /\ Calls(Sends(Document("archive", r.content, 0)), "receipt")
        BY <2>1 DEF SendArchive
      <3>2. UNCHANGED rows
        BY <3>1 DEF Calls, store
      <3> QED
        BY <3>1, <3>2 DEF Unsent, Queue
    <2>2. CASE ~SendArchive
      <3>1. UNCHANGED <<pc, item, rows>>
        BY <1>2, <2>2, ReceiptMoves
      <3> QED
        BY <1>2, <3>1 DEF CatalogInv, RowsApart, Unsent, Queue
    <2> QED
      BY <2>1, <2>2
  <1> QED
    BY <1>1, <1>2 DEF RowsApart, Apart

-----------------------------------------------------------------------------
(* The round, and the catalog in the making.                               *)

LEMMA NoneIsNoPending ==
  ASSUME ClearInv, NEW catalog \in Nat, NEW before \in Nat
  PROVE  [catalog |-> catalog, rows |-> Uploaded, before |-> before] # None
  <1>1. Uploaded \in SUBSET RowType
    BY DEF ClearInv, RowsInv, Uploaded, Queue
  <1> QED
    BY <1>1, NoneAssumption DEF RowType, States

\* A round is begun by a look at the pin; what it goes by does not change before it ends.
LEMMA RoundMoves ==
  ASSUME [Next]_vars, pc' \in Making, ~Deliver
  PROVE  pc \in Making /\ UNCHANGED <<head, known, pending>> /\ ~RestartChain
  <1>1. CASE Delivers
    BY <1>1 DEF Delivers, SendArchive, Receipt, Entries, CheckLatest, SendCatalog, NotePending, FinishRefused,
                FinishPinned, FinishPin, CheckFresh, Acknowledge, RestartChain, Calls, Goes, GivesUp, store, scratch,
                Making
  <1>2. CASE Restart \/ Resets
    BY <1>2 DEF Restart, Resets, Notice, Unpin, RestartChain, Clear, DeleteABatch, Search, Progress,
                FinishClearing, Calls, Goes, GivesUp, Making
  <1>3. CASE Collect \/ Compact \/ NoAnswer \/ Interrupted \/ Others
    BY <1>3 DEF Collect, Compact, NoAnswer, Interrupted, Others, Ages, OthersPin, CarriedOutLate, GivesUp, Goes,
                Idle, Aside, store, scratch, Making, RestartChain
  <1>4. CASE UNCHANGED vars
    BY <1>4 DEF vars, store, scratch, Making, RestartChain, Goes
  <1> QED
    BY <1>1, <1>2, <1>3, <1>4 DEF Next

LEMMA FinishingMoves ==
  ASSUME [Next]_vars, pc' \in Finishing, ~Deliver, ~NotePending
  PROVE  pc \in Finishing /\ UNCHANGED pending
  <1>1. CASE Delivers
    BY <1>1 DEF Delivers, SendArchive, Receipt, Entries, CheckLatest, SendCatalog, FinishRefused,
                FinishPinned, FinishPin, CheckFresh, Acknowledge, Calls, Goes, GivesUp, store, scratch,
                Finishing
  <1>2. CASE Restart \/ Resets
    BY <1>2 DEF Restart, Resets, Notice, Unpin, RestartChain, Clear, DeleteABatch, Search, Progress,
                FinishClearing, Calls, Goes, GivesUp, Finishing
  <1>3. CASE Collect \/ Compact \/ NoAnswer \/ Interrupted \/ Others
    BY <1>3 DEF Collect, Compact, NoAnswer, Interrupted, Others, Ages, OthersPin, CarriedOutLate, GivesUp, Goes,
                Idle, Aside, store, scratch, Finishing
  <1>4. CASE UNCHANGED vars
    BY <1>4 DEF vars, store, Finishing
  <1> QED
    BY <1>1, <1>2, <1>3, <1>4 DEF Next

LEMMA NoteMoves ==
  ASSUME [Next]_vars, pc' = "note", ~SendCatalog
  PROVE  UNCHANGED <<pc, item, rows>>
  <1>1. CASE Delivers
    BY <1>1 DEF Delivers, Deliver, SendArchive, Receipt, Entries, CheckLatest, NotePending, FinishRefused,
                FinishPinned, FinishPin, CheckFresh, Acknowledge, Calls, Goes, GivesUp, store, scratch
  <1>2. CASE Restart \/ Resets
    BY <1>2 DEF Restart, Resets, Notice, Unpin, RestartChain, Clear, DeleteABatch, Search, Progress,
                FinishClearing, Calls, Goes, GivesUp
  <1>3. CASE Collect \/ Compact \/ NoAnswer \/ Interrupted \/ Others
    BY <1>3 DEF Collect, Compact, NoAnswer, Interrupted, Others, Ages, OthersPin, CarriedOutLate, GivesUp, Goes,
                Idle, Aside, store, scratch
  <1>4. CASE UNCHANGED vars
    BY <1>4 DEF vars, store, scratch
  <1> QED
    BY <1>1, <1>2, <1>3, <1>4 DEF Next

LEMMA PendingEnds ==
  ASSUME [Next]_vars
  PROVE  \/ pending' = pending
         \/ NotePending /\ pending' = [catalog |-> item.msg, rows |-> Uploaded, before |-> head]
         \/ Acknowledge \/ RestartChain
  BY DEF Next, Collect, Compact, Delivers, Deliver, SendArchive, Receipt, Entries,
         CheckLatest, SendCatalog, NotePending, FinishRefused, FinishPinned, FinishPin,
         CheckFresh, Restart, Resets, Notice, Unpin, Clear, DeleteABatch, Search, Progress,
         FinishClearing, NoAnswer, Interrupted, Others, Ages, OthersPin, CarriedOutLate, Calls, store, vars,
         Aside, Elsewhere

\* What goes on with the chain still does while the chain is the same.
LEMMA FollowsStays ==
  ASSUME CatalogInv, GroupTyped', SinceInv', Grown, since' = since, known' = known,
         NEW c \in 0..Len(messages), Follows(c)
  PROVE  c = known' \/ (known' = 0 /\ Clean(c)')
  BY ChainsStay DEF CatalogInv, Follows

\* What the pin shows when a round begins goes on with the chain.
LEMMA PinFollows ==
  ASSUME CatalogInv, pending = None, ~LostPin
  PROVE  Follows(Pinned)
  <1>1. known \in {0, Pinned}
    BY DEF LostPin
  <1>2. ASSUME known = 0 PROVE Clean(Pinned)
    <2>1. CASE Pinned = 0
      <3>1. 0 \in 0..Len(messages) /\ since \in Nat /\ 0 <= since
        BY GroupLength DEF CatalogInv, SinceInv
      <3> QED
        BY <2>1, <3>1, EmptyChain DEF CatalogInv
    <2>2. CASE Pinned # 0
      <3>1. Pinned \in pins
        BY <2>2, GroupLength DEF CatalogInv
      <3> QED
        BY <1>2, <3>1 DEF CatalogInv, CleanPins
    <2> QED
      BY <2>1, <2>2
  <1> QED
    BY <1>1, <1>2 DEF Follows

LEMMA RoundNext ==
  ASSUME ClearInv, CatalogInv, [Next]_vars
  PROVE  RoundInv'
  <1>0. GroupTyped' /\ SinceInv' /\ Grown /\ Len(messages) \in Nat /\ Len(messages') \in Nat
    BY GroupTypes, SinceNext, GroupLength DEF GroupTyped, CatalogInv
  <1>s. StoreTyped /\ RoundInv /\ since \in 0..Len(messages)
    BY DEF CatalogInv, SinceInv
  <1>1. ASSUME pc' \in Making
        PROVE  pending' = None /\ Follows(head)' /\ since' = since
    <2>1. CASE Deliver
      <3>1. pc' = "send"
        BY <1>1, <2>1 DEF Deliver, Goes, Idle, Making
      <3>2. head' = Pinned /\ pending = None /\ ~LostPin /\ UNCHANGED <<known, pending, since>>
        BY <2>1, <3>1 DEF Deliver, Goes, Idle, Elsewhere, store
      <3>3. Follows(Pinned)
        BY <3>2, PinFollows
      <3>4. PICK c : c = Pinned
        OBVIOUS
      <3>5. c \in 0..Len(messages)
        BY <3>4, GroupLength DEF CatalogInv
      <3>6. c = known' \/ (known' = 0 /\ Clean(c)')
        BY <1>0, <3>2, <3>3, <3>4, <3>5, FollowsStays
      <3> QED
        BY <3>2, <3>4, <3>6 DEF Follows
    <2>2. CASE ~Deliver
      <3>1. pc \in Making /\ UNCHANGED <<head, known, pending>> /\ ~RestartChain
        BY <1>1, <2>2, RoundMoves
      <3>2. since' = since
        BY <3>1, SinceMoves
      <3>3. PICK c : c = head
        OBVIOUS
      <3>4. c \in 0..Len(messages) /\ Follows(c)
        BY <1>s, <3>1, <3>3 DEF StoreTyped, RoundInv
      <3>5. c = known' \/ (known' = 0 /\ Clean(c)')
        BY <1>0, <3>1, <3>2, <3>4, FollowsStays
      <3> QED
        BY <1>s, <3>1, <3>2, <3>3, <3>5 DEF Follows, RoundInv
    <2> QED
      BY <2>1, <2>2
  <1>2. ASSUME pc' \in Finishing PROVE pending' # None
    <2>1. CASE Deliver
      BY <1>2, <2>1 DEF Deliver, Goes, Idle, Finishing, store
    <2>2. CASE NotePending
      <3>1. pending' = [catalog |-> item.msg, rows |-> Uploaded, before |-> head]
        BY <2>2 DEF NotePending
      <3>2. item.msg \in Nat /\ head \in Nat
        BY <1>0, <1>s, <2>2 DEF NotePending, RoundInv, StoreTyped
      <3> QED
        BY <3>1, <3>2, NoneIsNoPending
    <2>3. CASE ~Deliver /\ ~NotePending
      BY <1>2, <1>s, <2>3, FinishingMoves DEF RoundInv
    <2> QED
      BY <2>1, <2>2, <2>3
  <1>3. ASSUME pc' = "note"
        PROVE  /\ item'.msg \in (since' + 1)..Len(messages')
               /\ messages'[item'.msg].content = Contents(Uploaded')
               /\ messages'[item'.msg].before = head'
    <2>0. since' = since
      BY <1>1, <1>3 DEF Making
    <2>1. CASE SendCatalog
      <3>1. messages' = Append(messages, NewCatalog) /\ item' = [row |-> None, msg |-> NewMessage]
            /\ UNCHANGED <<rows, head>>
        BY <2>1 DEF SendCatalog, Calls, Effect, Sends, store
      <3>2. PICK doc : doc = NewCatalog
        OBVIOUS
      <3>3. doc.content = Contents(Uploaded) /\ doc.before = head
        BY <3>2 DEF NewCatalog, Document
      <3>4. messages \in Seq(DocType)
        BY DEF CatalogInv, GroupTyped
      <3>5. messages'[Len(messages) + 1] = doc /\ Len(messages') = Len(messages) + 1
        BY <1>0, <3>1, <3>2, <3>4
      <3>6. Uploaded' = Uploaded
        BY <3>1 DEF Uploaded, Queue
      <3> QED
        BY <1>0, <1>s, <2>0, <3>1, <3>3, <3>5, <3>6 DEF NewMessage
    <2>2. CASE ~SendCatalog
      <3>1. UNCHANGED <<pc, item, rows>>
        BY <1>3, <2>2, NoteMoves
      <3>2. UNCHANGED head
        <4>1. ~Deliver
          BY <1>3, <3>1 DEF Deliver, Idle
        <4> QED
          BY <1>3, <4>1, RoundMoves DEF Making
      <3>3. /\ item.msg \in (since + 1)..Len(messages)
            /\ messages[item.msg].content = Contents(Uploaded)
            /\ messages[item.msg].before = head
        BY <1>3, <1>s, <3>1 DEF RoundInv
      <3>4. messages'[item.msg] = messages[item.msg]
        BY <1>0, <1>s, <3>3 DEF Grown
      <3>5. Uploaded' = Uploaded
        BY <3>1 DEF Uploaded, Queue
      <3> QED
        BY <1>0, <1>s, <2>0, <3>1, <3>2, <3>3, <3>4, <3>5 DEF Grown
    <2> QED
      BY <2>1, <2>2
  <1> QED
    BY <1>1, <1>2, <1>3 DEF RoundInv, Contents

LEMMA PendingNext ==
  ASSUME ClearInv, CatalogInv, [Next]_vars
  PROVE  PendingInv'
  <1>0. GroupTyped' /\ SinceInv' /\ Grown /\ Len(messages) \in Nat /\ Len(messages') \in Nat
    BY GroupTypes, SinceNext, GroupLength DEF GroupTyped, CatalogInv
  <1>s. StoreTyped /\ RoundInv /\ PendingInv /\ since \in 0..Len(messages)
    BY DEF CatalogInv, SinceInv
  <1> SUFFICES ASSUME pending' # None
               PROVE  /\ pending'.catalog \in (since' + 1)..Len(messages')
                      /\ messages'[pending'.catalog].content = Contents(pending'.rows)
                      /\ messages'[pending'.catalog].before = pending'.before
                      /\ pending'.rows \subseteq Uploaded'
                      /\ Follows(pending.before)'
    BY DEF PendingInv, Contents
  <1>1. ~RestartChain /\ ~Acknowledge
    BY DEF RestartChain, Acknowledge
  <1>2. since' = since /\ known' = known
    BY <1>1, SinceMoves
  <1>3. CASE pending' = pending
    <2>1. /\ pending.catalog \in (since + 1)..Len(messages)
          /\ messages[pending.catalog].content = Contents(pending.rows)
          /\ messages[pending.catalog].before = pending.before
          /\ Follows(pending.before)
      BY <1>s, <1>3 DEF PendingInv
    <2>2. messages'[pending.catalog] = messages[pending.catalog] /\ Len(messages) <= Len(messages')
      BY <1>0, <1>s, <2>1 DEF Grown
    <2>3. pending.rows \subseteq Uploaded'
      BY <1>3, RowsOfPending
    <2>4. PICK c : c = pending.before
      OBVIOUS
    <2>5. c \in 0..Len(messages) /\ Follows(c)
      BY <1>s, <1>3, <2>1, <2>4 DEF StoreTyped
    <2>6. c = known' \/ (known' = 0 /\ Clean(c)')
      BY <1>0, <1>2, <2>5, FollowsStays
    <2>7. Follows(pending.before)'
      BY <1>3, <2>4, <2>6 DEF Follows
    <2> QED
      BY <1>0, <1>s, <1>2, <1>3, <2>1, <2>2, <2>3, <2>7
  <1>4. CASE NotePending /\ pending' = [catalog |-> item.msg, rows |-> Uploaded, before |-> head]
    <2>1. /\ item.msg \in (since + 1)..Len(messages)
          /\ messages[item.msg].content = Contents(Uploaded)
          /\ messages[item.msg].before = head
          /\ Follows(head)
      BY <1>s, <1>4 DEF NotePending, RoundInv, Making
    <2>2. UNCHANGED <<messages, rows>>
      BY <1>4 DEF NotePending, Elsewhere, server
    <2>3. PICK c : c = head
      OBVIOUS
    <2>4. c \in 0..Len(messages) /\ Follows(c)
      BY <1>s, <2>1, <2>3 DEF StoreTyped
    <2>5. c = known' \/ (known' = 0 /\ Clean(c)')
      BY <1>0, <1>2, <2>4, FollowsStays
    <2>6. Follows(pending.before)'
      BY <1>4, <2>3, <2>5 DEF Follows
    <2>7. Uploaded' = Uploaded
      BY <2>2 DEF Uploaded, Queue
    <2> QED
      BY <1>2, <1>4, <2>1, <2>2, <2>6, <2>7
  <1> QED
    BY <1>1, <1>3, <1>4, PendingEnds

\* While there is no chain, others' pins stay without archives of this one.
LEMMA CleanPinsNext ==
  ASSUME ClearInv, CatalogInv, [Next]_vars
  PROVE  CleanPins'
  <1>0. GroupTyped' /\ SinceInv' /\ Grown /\ Len(messages) \in Nat /\ Len(messages') \in Nat
    BY GroupTypes, SinceNext, GroupLength DEF GroupTyped, CatalogInv
  <1>s. /\ GroupTyped /\ SinceInv /\ StoreTyped /\ RoundInv /\ PendingInv /\ CleanPins
        /\ since \in 0..Len(messages) /\ gone \subseteq 0..since
    BY DEF CatalogInv, SinceInv
  <1> SUFFICES ASSUME pending' = None, known' = 0
               PROVE  /\ \A m \in pins' : Clean(m)'
                      /\ \A r \in late' : r.op = "pin" => Clean(r.first)'
    BY DEF CleanPins
  <1>1. CASE RestartChain
    <2>1. since' = Len(messages) /\ messages' = messages
      BY <1>1 DEF RestartChain, server
    <2>2. ASSUME NEW c \in 0..Len(messages') PROVE Clean(c)'
      <3>1. ChainIn(messages', since', gone')[c] \subseteq (since' + 1)..c
        <4>1. Backwards(messages')
          <5>1. GroupTyped => Backwards(messages)
            BY GroupBackwards
          <5> QED
            BY <1>s, <2>1, <5>1
        <4> QED
          BY <1>0, <2>1, <4>1, ChainWithin
      <3>2. Chain(c)' = {}
        BY <1>0, <2>1, <3>1, ChainIsInNext
      <3> QED
        BY <3>2 DEF Clean
    <2>3. \A m \in pins' : m \in 0..Len(messages')
      BY <1>0 DEF GroupTyped
    <2>4. \A r \in late' : r.op = "pin" => r.first \in 0..Len(messages')
      BY <1>0 DEF SinceInv, Sound
    <2> QED
      BY <2>2, <2>3, <2>4
  <1>2. CASE ~RestartChain
    <2>1. ~Acknowledge
      BY <1>0, <1>s DEF Acknowledge, PendingInv, RoundInv, Finishing
    <2>2. since' = since /\ known = 0
      BY <1>2, <2>1, SinceMoves
    <2>3. pending = None
      <3>1. CASE NotePending
        BY <3>1, <1>s DEF NotePending, RoundInv, Making
      <3> QED
        BY <1>2, <2>1, <3>1, PendingEnds
    <2>4. ASSUME NEW r \in Requests PROVE r.op # "pin"
      <3>1. pc # "finish"
        BY <1>s, <2>3 DEF RoundInv, Finishing
      <3> QED
        BY <3>1 DEF Requests, Sends, Deletes, UnpinsAll
    <2>5. ASSUME NEW c \in 0..Len(messages), Clean(c) PROVE Clean(c)'
      BY <1>0, <1>s, <2>2, <2>5, ChainsStay
    <2>6. /\ \A m \in pins : m \in 0..Len(messages) /\ Clean(m)
          /\ \A r \in late : r.op = "pin" => r.first \in 0..Len(messages) /\ Clean(r.first)
      <3>1. \A m \in pins : m \in 0..Len(messages) /\ Clean(m)
        BY <1>0, <1>s, <2>2, <2>3 DEF CleanPins, GroupTyped
      <3>2. \A r \in late : r.op = "pin" => r.first \in 1..Len(messages) /\ Clean(r.first)
        BY <1>s, <2>2, <2>3 DEF CleanPins, SinceInv, Sound
      <3> QED
        BY <1>0, <3>1, <3>2
    <2>7. ASSUME NEW r \in late', r.op = "pin" PROVE Clean(r.first)'
      <3>1. late' \subseteq late \cup Requests
        BY EveryMove DEF Moves
      <3>2. r \in late
        BY <2>4, <2>7, <3>1
      <3>3. PICK c : c = r.first
        OBVIOUS
      <3>4. c \in 0..Len(messages) /\ Clean(c)
        BY <2>6, <2>7, <3>2, <3>3
      <3>5. Clean(c)'
        BY <2>5, <3>4
      <3> QED
        BY <3>3, <3>5
    <2>8. ASSUME NEW m \in pins' PROVE Clean(m)'
      <3>1. CASE m \in pins
        BY <2>5, <2>6, <3>1
      <3>2. CASE \E r \in Requests \cup late : Effect(r)
        <4>1. PICK r \in Requests \cup late : Effect(r)
          BY <3>2
        <4>2. Sound(r)
          BY RequestsSound DEF CatalogInv, SinceInv
        <4>3. m \in pins \/ (r.op = "pin" /\ m = r.first)
          BY <1>s, <4>1, <4>2, SoundEffect
        <4>4. m \in pins \/ (m \in 0..Len(messages) /\ Clean(m))
          BY <2>4, <2>6, <4>1, <4>3
        <4> QED
          BY <2>5, <3>1, <4>4
      <3>3. CASE OthersPin
        <4>1. m \in pins \/ (/\ m = Len(messages) + 1 /\ Len(messages') = Len(messages) + 1
                             /\ messages'[m].before = Pinned /\ messages'[m].content = {})
          BY <1>s, <2>2, <3>3, OthersEffect
        <4>2. CASE m \notin pins
          <5>1. Clean(Pinned) /\ Pinned \in 0..Len(messages)
            <6>1. ~LostPin
              BY <2>2 DEF LostPin
            <6>2. Follows(Pinned)
              BY <2>3, <6>1, PinFollows
            <6>3. Clean(0)
              <7>1. 0 \in 0..Len(messages) /\ since \in Nat /\ 0 <= since
                BY <1>0, <1>s
              <7> QED
                BY <1>s, <7>1, EmptyChain
            <6>4. Clean(Pinned)
              BY <2>2, <6>2, <6>3 DEF Follows
            <6> QED
              BY <6>4, <1>s, GroupLength
          <5>2. PICK b \in 0..Len(messages) : b = Pinned
            BY <5>1
          <5>3. Clean(b)'
            BY <2>5, <5>1, <5>2
          <5>4. Chain(m)' \subseteq {m} \cup Chain(b)'
            <6>1. /\ Backwards(messages') /\ since' \in Nat /\ m \in 0..Len(messages')
                  /\ messages'[m].before = b
              <7>1. Backwards(messages')
                <8>1. /\ Len(messages') \in Nat
                      /\ \A n \in 1..Len(messages') : messages'[n] \in DocType /\ messages'[n].before < n
                  BY <1>0 DEF GroupTyped
                <8>2. ASSUME NEW n \in 1..Len(messages') PROVE messages'[n].before \in 0..n - 1
                  <9>1. messages'[n].before \in Nat /\ messages'[n].before < n
                    BY <8>1 DEF DocType
                  <9> QED
                    BY <8>1, <9>1
                <8> QED
                  BY <8>1, <8>2 DEF Backwards
              <7> QED
                BY <1>0, <1>s, <2>2, <4>1, <4>2, <5>2, <7>1
            <6>2. PICK f : f = ChainIn(messages', since', gone')
              OBVIOUS
            <6>3. ChainUpTo(Len(messages'), messages', since', gone', f)
              BY <6>1, <6>2, ChainIsOne
            <6>4. f[m] \subseteq {m} \cup f[b]
              BY <6>1, <6>3 DEF ChainUpTo
            <6> QED
              BY <6>2, <6>4, ChainIsInNext
          <5> QED
            BY <4>1, <4>2, <5>3, <5>4 DEF Clean
        <4> QED
          BY <3>1, <4>2
      <3>4. CASE UNCHANGED server
        BY <3>1, <3>4 DEF server
      <3> QED
        BY <3>2, <3>3, <3>4, EveryMove DEF Moves
    <2> QED
      BY <2>7, <2>8
  <1> QED
    BY <1>1, <1>2

-----------------------------------------------------------------------------
(* The catalogs of the chain, and what they list.                          *)

Waiting == Settled("queued") \cup Settled("held")
Past == Settled("listed") \cup Settled("dropped")

\* While the chain ends at the same catalog, it lists the same.
LEMMA ListedStays ==
  ASSUME ClearInv, CatalogInv, [Next]_vars, since' = since, known' = known
  PROVE  Listed' = Listed /\ (ListedOnce' <=> ListedOnce) /\ Chain(known)' = Chain(known)
  <1>0. GroupTyped' /\ SinceInv' /\ Grown
    BY GroupTypes, SinceNext
  <1>s. GroupTyped /\ SinceInv /\ since \in 0..Len(messages) /\ Len(messages) \in Nat
    BY GroupLength DEF CatalogInv, SinceInv
  <1>1. PICK c \in 0..Len(messages) : c = known
    BY DEF CatalogInv, StoreTyped
  <1>2. Chain(c)' = Chain(c) /\ Chain(c) \subseteq (since + 1)..c
    BY <1>0, <1>s, ChainsStay, ChainsNow
  <1>3. Chain(known)' = Chain(known) /\ Chain(known) \subseteq 1..Len(messages)
    BY <1>1, <1>2, <1>s
  <1>4. \A d \in Chain(known) : messages'[d] = messages[d]
    BY <1>0, <1>3 DEF Grown
  <1> QED
    BY <1>3, <1>4 DEF Listed, ListedOnce

\* No fragment is in two places of the store.
LEMMA PlacesApart ==
  ASSUME Apart(rows), NEW A, NEW B, A \subseteq rows, B \subseteq rows, A \cap B = {}
  PROVE  Contents(A) \cap Contents(B) = {}
  <1>1. ASSUME NEW r \in A, NEW s \in B PROVE r.content \cap s.content = {}
    BY DEF Apart
  <1> QED
    BY <1>1 DEF Contents

\* The steps that touch archives, and what of the fragments they move.
LEMMA CompactSettles ==
  ASSUME ClearInv, Compact, NEW x
  PROVE  Settled(x)' = Settled(x)
  <1>1. PICK S \in SUBSET Unsent : rows' = (rows \ S) \cup {Row(Contents(S))}
    BY DEF Compact
  <1>2. PICK n : n = Row(Contents(S))
    OBVIOUS
  <1>3. n.content = Contents(S) /\ n.state = "queued" /\ rows' = (rows \ S) \cup {n}
    BY <1>1, <1>2 DEF Row
  <1>4. S \subseteq rows /\ \A r \in S : r.state = "queued"
    BY DEF Unsent, Queue
  <1>5. ASSUME NEW f
        PROVE  (\E r \in rows' : r.state = x /\ f \in r.content) <=> (\E r \in rows : r.state = x /\ f \in r.content)
    <2>1. f \in n.content <=> \E r \in S : f \in r.content
      BY <1>3 DEF Contents
    <2> QED
      BY <1>3, <1>4, <2>1
  <1> QED
    BY <1>5 DEF Settled, Contents

LEMMA ReceiptSettles ==
  ASSUME ClearInv, CatalogInv, Receipt, NEW x
  PROVE  Settled(x)' = Settled(x)
  <1>1. item.row \in rows /\ item.row.state = "queued" /\ item.row \in RowType
    BY DEF Receipt, CatalogInv, RowsApart, Unsent, Queue, ClearInv, RowsInv
  <1>2. PICK n : n = [item.row EXCEPT !.msg = item.msg]
    OBVIOUS
  <1>3. n.content = item.row.content /\ n.state = "queued" /\ rows' = (rows \ {item.row}) \cup {n}
    BY <1>1, <1>2 DEF Receipt, RowType
  <1>5. ASSUME NEW f
        PROVE  (\E r \in rows' : r.state = x /\ f \in r.content) <=> (\E r \in rows : r.state = x /\ f \in r.content)
    BY <1>1, <1>3
  <1> QED
    BY <1>5 DEF Settled, Contents

\* Archives S change from state x to y.
LEMMA MovesSettle ==
  ASSUME rows \subseteq RowType, NEW S, NEW x, NEW y, x # y, S \subseteq {r \in rows : r.state = x},
         rows' = (rows \ S) \cup With(S, y), Apart(rows)
  PROVE  /\ Settled(x)' = Settled(x) \ Contents(S)
         /\ Settled(y)' = Settled(y) \cup Contents(S)
  <1>1. ASSUME NEW r \in S PROVE [r EXCEPT !.state = y].content = r.content /\ [r EXCEPT !.state = y].state = y
    BY DEF RowType
  <1>2. ASSUME NEW z, NEW f
        PROVE  (\E r \in rows' : r.state = z /\ f \in r.content)
               <=> (\E r \in rows \ S : r.state = z /\ f \in r.content) \/ (z = y /\ \E r \in S : f \in r.content)
    BY <1>1 DEF With
  <1>3. ASSUME NEW r \in rows \ S, NEW s \in S PROVE r.content \cap s.content = {}
    BY DEF Apart
  <1>5. Settled(y)' = Settled(y) \cup Contents(S)
    BY <1>2 DEF Settled, Contents
  <1>6. Settled(x)' = Settled(x) \ Contents(S)
    <2>1. ASSUME NEW f
          PROVE  (\E r \in rows \ S : r.state = x /\ f \in r.content)
                 <=> (\E r \in rows : r.state = x /\ f \in r.content) /\ ~(\E r \in S : f \in r.content)
      BY <1>3
    <2>2. Settled(x)' = UNION {r.content : r \in {s \in rows' : s.state = x}}
      BY DEF Settled, Contents
    <2> QED
      BY <1>2, <2>1, <2>2 DEF Settled, Contents
  <1> QED
    BY <1>5, <1>6

\* The archives of S in state x.
At(S, x) == {r \in S : r.state = x}

LEMMA AtOfBoth ==
  ASSUME NEW A, NEW B, NEW z
  PROVE  Contents(At(A \cup B, z)) = Contents(At(A, z)) \cup Contents(At(B, z))
  BY DEF At, Contents

LEMMA AtOfStates ==
  ASSUME NEW S, S \subseteq RowType, NEW y, NEW z
  PROVE  Contents(At(With(S, y), z)) = IF z = y THEN Contents(S) ELSE {}
  <1>1. \A n \in With(S, y) : n.state = y
    <2>1. ASSUME NEW r \in S PROVE [r EXCEPT !.state = y].state = y
      BY DEF RowType
    <2> QED
      BY <2>1 DEF With
  <1>2. CASE z = y
    <2>1. At(With(S, y), z) = With(S, y)
      BY <1>1, <1>2 DEF At
    <2> QED
      BY <1>2, <2>1, ContentsOfStates
  <1>3. CASE z # y
    <2>1. At(With(S, y), z) = {}
      BY <1>1, <1>3 DEF At
    <2> QED
      BY <1>3, <2>1 DEF Contents
  <1> QED
    BY <1>2, <1>3

\* A clearing ends: what Telegram kept waits for a catalog, the rest is dropped.
LEMMA FinishClearingSettles ==
  ASSUME rows \subseteq RowType, FinishClearing
  PROVE  /\ Settled("queued")' = Settled("queued") \cup Contents(Kept)
         /\ Settled("held")' = {}
         /\ Settled("dropped")' = Settled("dropped") \cup Contents(Held \ Kept)
         /\ Settled("listed")' = Settled("listed")
  <1>0. PICK K, D, R : K = Kept /\ D = Held \ Kept /\ R = rows \ Held
    OBVIOUS
  <1>1. rows' = (R \cup With(K, "queued")) \cup With(D, "dropped")
    BY <1>0 DEF FinishClearing
  <1>2. Held = {r \in rows : r.state = "held"} /\ K \subseteq RowType /\ D \subseteq RowType
    BY <1>0 DEF Held, Kept
  <1>3. ASSUME NEW z
        PROVE  Contents(At(rows', z)) = Contents(At(R, z)) \cup (IF z = "queued" THEN Contents(K) ELSE {})
                                          \cup (IF z = "dropped" THEN Contents(D) ELSE {})
    <2>1. Contents(At(rows', z)) = Contents(At(R \cup With(K, "queued"), z)) \cup Contents(At(With(D, "dropped"), z))
      BY <1>1, AtOfBoth
    <2>2. Contents(At(R \cup With(K, "queued"), z)) = Contents(At(R, z)) \cup Contents(At(With(K, "queued"), z))
      BY AtOfBoth
    <2> QED
      BY <1>2, <2>1, <2>2, AtOfStates
  <1>4. ASSUME NEW z, z # "held" PROVE At(R, z) = At(rows, z)
    BY <1>0, <1>2, <1>4 DEF At
  <1>5. At(R, "held") = {} /\ Contents({}) = {}
    BY <1>0, <1>2 DEF At, Contents
  <1>6. Contents(At(rows', "queued")) = Contents(At(rows, "queued")) \cup Contents(K)
    BY <1>3, <1>4
  <1>7. Contents(At(rows', "held")) = {}
    BY <1>3, <1>5
  <1>8. Contents(At(rows', "dropped")) = Contents(At(rows, "dropped")) \cup Contents(D)
    BY <1>3, <1>4
  <1>9. Contents(At(rows', "listed")) = Contents(At(rows, "listed"))
    BY <1>3, <1>4
  <1> QED
    BY <1>0, <1>6, <1>7, <1>8, <1>9 DEF Settled, Contents, At

\* A catalog goes on with the chain: what it lists is added, and was in no other.
LEMMA AcknowledgeLists ==
  ASSUME ClearInv, CatalogInv, Acknowledge
  PROVE  Listed' = Listed \cup Contents(pending.rows) /\ ListedOnce'
  <1>s. /\ GroupTyped /\ SinceInv /\ ListedInv /\ PendingInv /\ Apart(rows)
        /\ since \in 0..Len(messages) /\ gone \subseteq 0..since /\ Len(messages) \in Nat
        /\ known \in 0..Len(messages) /\ pending # None
    BY GroupLength DEF CatalogInv, SinceInv, RowsApart, Apart, StoreTyped, Acknowledge, RoundInv, Finishing
  <1>1. PICK k : k = pending.catalog
    OBVIOUS
  <1>2. PICK b : b = pending.before
    OBVIOUS
  <1>3. /\ k \in (since + 1)..Len(messages) /\ k \in 0..Len(messages) /\ k \notin gone
        /\ messages[k].content = Contents(pending.rows) /\ messages[k].before = b
        /\ b \in 0..Len(messages) /\ (b = known \/ (known = 0 /\ Clean(b)))
    <2>1. k \in (since + 1)..Len(messages)
      BY <1>s, <1>1 DEF PendingInv
    <2>2. b \in 0..Len(messages)
      BY <1>s, <1>2 DEF CatalogInv, StoreTyped
    <2> QED
      BY <1>s, <1>1, <1>2, <2>1, <2>2 DEF PendingInv, Follows
  <1>4. Chain(k) = {k} \cup Chain(b) /\ Chain(b) \subseteq (since + 1)..b
    BY <1>s, <1>3, ChainsNow
  <1>5. k \notin Chain(b)
    <2>1. b < k
      BY <1>s, <1>3 DEF GroupTyped
    <2> QED
      BY <1>s, <1>3, <1>4, <2>1
  <1>6. UNCHANGED <<messages, gone, since>> /\ known' = k
    BY <1>1 DEF Acknowledge, Elsewhere, server
  <1>7. Chain(known)' = {k} \cup Chain(b)
    <2>1. Chain(k)' = Chain(k)
      BY <1>6, ChainIsIn, ChainIsInNext
    <2>2. Chain(known)' = Chain(k)'
      BY <1>6 DEF Chain
    <2> QED
      BY <1>4, <2>1, <2>2
  <1>8. \/ Chain(b) = Chain(known)
        \/ Chain(known) = {} /\ \A d \in Chain(b) : messages[d].content = {}
    <2>1. CASE b = known
      BY <2>1
    <2>2. CASE known = 0 /\ Clean(b)
      <3>1. Chain(0) = {}
        BY <1>s, EmptyChain
      <3> QED
        BY <2>2, <3>1 DEF Clean
    <2> QED
      BY <1>3, <2>1, <2>2
  <1>9. Listed = UNION {messages[d].content : d \in Chain(b)}
    BY <1>8 DEF Listed
  <1>10. Listed \cap Contents(pending.rows) = {}
    <2>1. Listed \subseteq Contents(ListedRows)
      BY <1>s DEF ListedInv
    <2>2. pending.rows \subseteq rows /\ \A r \in pending.rows : r.state = "queued"
      BY <1>s DEF PendingInv, Uploaded, Queue
    <2>3. pending.rows \cap ListedRows = {} /\ ListedRows \subseteq rows
      BY <2>2 DEF ListedRows
    <2>4. Contents(pending.rows) \cap Contents(ListedRows) = {}
      BY <1>s, <2>2, <2>3, PlacesApart
    <2> QED
      BY <2>1, <2>4
  <1>11. Listed' = Listed \cup Contents(pending.rows)
    <2>1. Listed' = UNION {messages[d].content : d \in {k} \cup Chain(b)}
      BY <1>6, <1>7 DEF Listed
    <2> QED
      BY <1>3, <1>9, <2>1
  <1>12. ASSUME NEW c \in {k} \cup Chain(b), NEW d \in {k} \cup Chain(b), c # d
         PROVE  messages[c].content \cap messages[d].content = {}
    <2>1. \A e \in Chain(b) : messages[e].content \subseteq Listed
      BY <1>9
    <2>2. CASE c = k \/ d = k
      BY <1>3, <1>10, <1>12, <2>1, <2>2
    <2>3. CASE c # k /\ d # k
      BY <1>8, <1>12, <2>3, <1>s DEF ListedInv, ListedOnce
    <2> QED
      BY <2>2, <2>3
  <1>13. ListedOnce'
    BY <1>6, <1>7, <1>12 DEF ListedOnce
  <1> QED
    BY <1>11, <1>13

LEMMA RestartForgets ==
  ASSUME ClearInv, CatalogInv, [Next]_vars, RestartChain
  PROVE  Chain(known)' = {} /\ Listed' = {} /\ ListedOnce'
  <1>0. GroupTyped /\ Len(messages) \in Nat /\ Backwards(messages)
    BY GroupLength, GroupBackwards DEF CatalogInv
  <1>1. known' = 0 /\ since' = Len(messages) /\ UNCHANGED <<messages, gone>>
    BY DEF RestartChain, server
  <1>2. Backwards(messages')
    BY <1>0, <1>1
  <1>3. ChainIn(messages', since', gone')[0] \subseteq (since' + 1)..0
    BY <1>0, <1>1, <1>2, ChainWithin
  <1>4. Chain(0)' = {}
    BY <1>0, <1>1, <1>3, ChainIsInNext
  <1>5. Chain(known)' = {}
    BY <1>1, <1>4 DEF Chain
  <1> QED
    BY <1>5 DEF Listed, ListedOnce

LEMMA MovesLeave ==
  ASSUME rows \subseteq RowType, NEW S, S \subseteq rows, NEW y, rows' = (rows \ S) \cup With(S, y),
         NEW z, z # y, \A r \in S : r.state # z
  PROVE  Settled(z)' = Settled(z)
  <1>1. Contents(At(rows', z)) = Contents(At(rows \ S, z)) \cup Contents(At(With(S, y), z))
    BY AtOfBoth
  <1>2. Contents(At(With(S, y), z)) = {}
    BY AtOfStates
  <1>3. At(rows \ S, z) = At(rows, z)
    BY DEF At
  <1> QED
    BY <1>1, <1>2, <1>3 DEF Settled, At, Contents

\* How the fragments move, as Ledger has it.
LedgerMoves ==
    \/ UNCHANGED <<Waiting, Listed, Past>>
    \/ \E f \in Fragments \ (Waiting \cup Past) : Waiting' = Waiting \cup {f} /\ UNCHANGED <<Listed, Past>>
    \/ \E S \in SUBSET Waiting : Waiting' = Waiting \ S /\ Listed' = Listed \cup S /\ Past' = Past \cup S
    \/ Listed' = {} /\ UNCHANGED <<Waiting, Past>>
    \/ \E S \in SUBSET Waiting : Waiting' = Waiting \ S /\ Past' = Past \cup S /\ UNCHANGED Listed

LEMMA SettledStays ==
  ASSUME UNCHANGED rows
  PROVE  UNCHANGED <<Waiting, Past, Settled("listed")>>
  BY DEF Waiting, Past, Settled, Contents

LEMMA CollectSettles ==
  ASSUME ClearInv, Collect
  PROVE  \E f \in Fragments \ (Waiting \cup Past) :
           Waiting' = Waiting \cup {f} /\ UNCHANGED <<Past, Settled("listed")>>
  <1>1. PICK f \in Fragments \ Contents(rows) : rows' = rows \cup {Row({f})}
    BY DEF Collect
  <1>2. PICK n : n = Row({f})
    OBVIOUS
  <1>3. n.content = {f} /\ n.state = "queued" /\ rows' = rows \cup {n}
    BY <1>1, <1>2 DEF Row
  <1>4. ASSUME NEW z PROVE Contents(At(rows', z)) = Contents(At(rows, z)) \cup Contents(At({n}, z))
    BY <1>3, AtOfBoth
  <1>5. Contents(At({n}, "queued")) = {f}
    BY <1>3 DEF At, Contents
  <1>6. ASSUME NEW z, z # "queued" PROVE Contents(At({n}, z)) = {}
    BY <1>3, <1>6 DEF At, Contents
  <1>7. /\ Contents(At(rows', "queued")) = Contents(At(rows, "queued")) \cup {f}
        /\ Contents(At(rows', "held")) = Contents(At(rows, "held"))
        /\ Contents(At(rows', "listed")) = Contents(At(rows, "listed"))
        /\ Contents(At(rows', "dropped")) = Contents(At(rows, "dropped"))
    BY <1>4, <1>5, <1>6
  <1>8. f \in Fragments \ (Waiting \cup Past)
    BY <1>1 DEF Waiting, Past, Settled, Contents
  <1> QED
    BY <1>7, <1>8 DEF Waiting, Past, Settled, Contents, At

LEMMA LedgerNext ==
  ASSUME ClearInv, CatalogInv, [Next]_vars
  PROVE  ListedInv' /\ LedgerMoves
  <1>0. /\ Apart(rows) /\ rows \subseteq RowType /\ ListedOnce /\ Listed \subseteq Settled("listed")
    BY DEF CatalogInv, RowsApart, Apart, ListedInv, ListedRows, Settled, ClearInv, RowsInv
  <1>g. ASSUME Listed' \subseteq Settled("listed")', ListedOnce' PROVE ListedInv'
    BY <1>g DEF ListedInv, ListedRows, Settled
  <1>1. ASSUME ~RestartChain, ~Acknowledge PROVE Listed' = Listed /\ ListedOnce'
    BY <1>0, <1>1, SinceMoves, ListedStays
  <1>2. CASE UNCHANGED rows /\ ~RestartChain /\ ~Acknowledge
    <2>1. UNCHANGED <<Waiting, Past, Settled("listed")>>
      BY <1>2, SettledStays
    <2> QED
      BY <1>0, <1>1, <1>2, <1>g, <2>1 DEF LedgerMoves
  <1>3. CASE Collect
    <2>1. ~RestartChain /\ ~Acknowledge
      BY <1>3 DEF Collect, Idle, RestartChain, Acknowledge
    <2>2. PICK f \in Fragments \ (Waiting \cup Past) :
            Waiting' = Waiting \cup {f} /\ UNCHANGED <<Past, Settled("listed")>>
      BY <1>3, CollectSettles
    <2> QED
      BY <1>0, <1>1, <1>g, <2>1, <2>2 DEF LedgerMoves
  <1>4. CASE Compact \/ Receipt
    <2>1. ~RestartChain /\ ~Acknowledge
      BY <1>4 DEF Compact, Receipt, Idle, RestartChain, Acknowledge
    <2>2. /\ Settled("queued")' = Settled("queued") /\ Settled("held")' = Settled("held")
          /\ Settled("listed")' = Settled("listed") /\ Settled("dropped")' = Settled("dropped")
      BY <1>4, CompactSettles, ReceiptSettles
    <2>3. UNCHANGED <<Waiting, Past, Settled("listed")>>
      BY <2>2 DEF Waiting, Past
    <2> QED
      BY <1>0, <1>1, <1>g, <2>1, <2>3 DEF LedgerMoves
  <1>5. CASE Acknowledge
    <2>1. PICK P : P = pending.rows
      OBVIOUS
    <2>2. P \subseteq {r \in rows : r.state = "queued"} /\ rows' = (rows \ P) \cup With(P, "listed")
      <3>1. P \subseteq Uploaded
        BY <1>5, <2>1 DEF Acknowledge, CatalogInv, RoundInv, Finishing, PendingInv
      <3>2. P \subseteq {r \in rows : r.state = "queued"} /\ rows \cap P = P
        BY <3>1 DEF Uploaded, Queue
      <3> QED
        BY <1>5, <2>1, <3>2 DEF Acknowledge
    <2>3. /\ Settled("queued")' = Settled("queued") \ Contents(P)
          /\ Settled("listed")' = Settled("listed") \cup Contents(P)
          /\ Settled("held")' = Settled("held") /\ Settled("dropped")' = Settled("dropped")
      <3>1. P \subseteq {r \in rows : r.state = "queued"}
        BY <2>2
      <3>2. rows' = (rows \ P) \cup With(P, "listed")
        BY <2>2
      <3>3. rows \subseteq RowType /\ Apart(rows)
        BY <1>0
      <3>4. Settled("queued")' = Settled("queued") \ Contents(P)
        BY <3>1, <3>2, <3>3, MovesSettle
      <3>5. Settled("listed")' = Settled("listed") \cup Contents(P)
        BY <3>1, <3>2, <3>3, MovesSettle
      <3>6. Settled("held")' = Settled("held") /\ Settled("dropped")' = Settled("dropped")
        <4>1. P \subseteq rows /\ \A r \in P : r.state # "held" /\ r.state # "dropped"
          BY <3>1
        <4> QED
          BY <3>2, <3>3, <4>1, MovesLeave
      <3> QED
        BY <3>4, <3>5, <3>6
    <2>4. Contents(P) \subseteq Settled("queued") /\ Contents(P) \cap Settled("held") = {}
      <3>1. Contents(P) \cap Contents({r \in rows : r.state = "held"}) = {}
        BY <1>0, <2>2, PlacesApart
      <3> QED
        BY <2>2, <3>1 DEF Settled, Contents
    <2>5. Listed' = Listed \cup Contents(P) /\ ListedOnce'
      BY <1>5, <2>1, AcknowledgeLists
    <2>6. /\ Contents(P) \subseteq Waiting /\ Waiting' = Waiting \ Contents(P)
          /\ Past' = Past \cup Contents(P)
      BY <2>3, <2>4 DEF Waiting, Past
    <2>7. ListedInv'
      BY <1>0, <1>g, <2>3, <2>5
    <2>8. LedgerMoves
      BY <2>5, <2>6 DEF LedgerMoves
    <2> QED
      BY <2>7, <2>8
  <1>6. CASE RestartChain
    <2>1. Listed' = {} /\ ListedOnce'
      BY <1>6, RestartForgets
    <2>2. UNCHANGED <<Waiting, Past>>
      <3>1. CASE UNCHANGED rows
        BY <3>1, SettledStays
      <3>2. CASE rows' = (rows \ Uploaded) \cup With(Uploaded, "held")
        <4>1. Uploaded \subseteq {r \in rows : r.state = "queued"}
          BY DEF Uploaded, Queue
        <4>2. PICK U : U = Uploaded
          OBVIOUS
        <4>3. /\ Settled("queued")' = Settled("queued") \ Contents(U)
              /\ Settled("held")' = Settled("held") \cup Contents(U)
          BY <1>0, <3>2, <4>1, <4>2, MovesSettle
        <4>5. Settled("listed")' = Settled("listed") /\ Settled("dropped")' = Settled("dropped")
          <5>1. U \subseteq rows /\ \A r \in U : r.state # "listed" /\ r.state # "dropped"
            BY <4>1, <4>2
          <5> QED
            BY <1>0, <3>2, <4>2, <5>1, MovesLeave
        <4>4. Contents(U) \subseteq Settled("queued")
          BY <4>1, <4>2 DEF Settled, Contents
        <4> QED
          BY <4>3, <4>4, <4>5 DEF Waiting, Past
      <3> QED
        BY <1>6, <3>1, <3>2 DEF RestartChain
    <2> QED
      BY <1>g, <2>1, <2>2 DEF LedgerMoves
  <1>7. CASE FinishClearing
    <2>1. ~RestartChain /\ ~Acknowledge
      BY <1>7 DEF FinishClearing, RestartChain, Acknowledge
    <2>2. PICK K, D : K = Kept /\ D = Held \ Kept
      OBVIOUS
    <2>3. /\ Settled("queued")' = Settled("queued") \cup Contents(K)
          /\ Settled("held")' = {}
          /\ Settled("dropped")' = Settled("dropped") \cup Contents(D)
          /\ Settled("listed")' = Settled("listed")
      BY <1>0, <1>7, <2>2, FinishClearingSettles
    <2>4. /\ K \subseteq rows /\ D \subseteq rows /\ K \cap D = {}
          /\ {r \in rows : r.state = "queued"} \cap D = {}
          /\ K \cup D = {r \in rows : r.state = "held"}
      BY <2>2 DEF Held, Kept
    <2>5. Contents(K) \cap Contents(D) = {}
      BY <1>0, <2>4, PlacesApart
    <2>6. Settled("queued") \cap Contents(D) = {}
      BY <1>0, <2>4, PlacesApart DEF Settled
    <2>7. Settled("held") = Contents(K) \cup Contents(D)
      BY <2>4 DEF Settled, Contents
    <2>8. Contents(D) \subseteq Waiting /\ Waiting' = Waiting \ Contents(D) /\ Past' = Past \cup Contents(D)
      BY <2>3, <2>5, <2>6, <2>7 DEF Waiting, Past
    <2> QED
      BY <1>0, <1>1, <1>g, <2>1, <2>3, <2>8 DEF LedgerMoves
  <1>8. CASE ~(Collect \/ Compact \/ Receipt \/ Acknowledge \/ RestartChain \/ FinishClearing)
    <2>1. UNCHANGED rows
      BY <1>8 DEF Next, Delivers, Deliver, SendArchive, Entries, CheckLatest, SendCatalog,
           NotePending, FinishRefused, FinishPinned, FinishPin, CheckFresh, Restart, Resets,
           Notice, Unpin, Clear, DeleteABatch, Search, Progress, NoAnswer, Interrupted, Others, Ages,
           OthersPin, CarriedOutLate, Calls, store, vars
    <2> QED
      BY <1>2, <1>8, <2>1
  <1> QED
    BY <1>3, <1>4, <1>5, <1>6, <1>7, <1>8

-----------------------------------------------------------------------------
(* How many archives are uploaded.                                         *)

AtMost(S, n) == IsFiniteSet(S) /\ Cardinality(S) <= n

LimitInv ==
    /\ AtMost(Uploaded, SendLimit) /\ AtMost(Held, SendLimit)
    /\ pc = "receipt" => Cardinality(Uploaded) < SendLimit

LEMMA FewerStill ==
  ASSUME NEW S, NEW T, T \subseteq S, NEW n \in Nat, AtMost(S, n)
  PROVE  AtMost(T, n) /\ Cardinality(T) <= Cardinality(S) /\ Cardinality(T) \in Nat /\ Cardinality(S) \in Nat
  BY FS_Subset, FS_CardinalityType DEF AtMost

LEMMA AsManyInState ==
  ASSUME NEW S, NEW y, NEW n \in Nat, AtMost(S, n)
  PROVE  AtMost(With(S, y), n)
  <1> DEFINE f == [r \in S |-> [r EXCEPT !.state = y]]
  <1>1. \A t \in With(S, y) : \E r \in S : f[r] = t
    BY DEF With
  <1>2. f \in [S -> With(S, y)]
    BY DEF With
  <1>3. f \in Surjection(S, With(S, y))
    BY <1>1, <1>2 DEF Surjection
  <1> HIDE DEF f
  <1>4. IsFiniteSet(With(S, y)) /\ Cardinality(With(S, y)) <= Cardinality(S)
    BY <1>3, FS_Surjection DEF AtMost
  <1>5. Cardinality(S) \in Nat /\ Cardinality(With(S, y)) \in Nat
    BY <1>4, FS_CardinalityType DEF AtMost
  <1> QED
    BY <1>4, <1>5 DEF AtMost

LEMMA LimitNext ==
  ASSUME ClearInv, CatalogInv, LimitInv, [Next]_vars
  PROVE  LimitInv'
  <1>0. /\ AtMost(Uploaded, SendLimit) /\ AtMost(Held, SendLimit) /\ SendLimit \in Nat
        /\ rows \subseteq RowType
    BY LimitsAssumption DEF LimitInv, ClearInv, RowsInv
  <1>1. ASSUME pc' = "receipt" PROVE UNCHANGED rows /\ Cardinality(Uploaded) < SendLimit
    <2>1. CASE SendArchive
      BY <2>1 DEF SendArchive, Calls, store
    <2>2. CASE ~SendArchive
      BY <1>1, <2>2, ReceiptMoves DEF LimitInv
    <2> QED
      BY <2>1, <2>2
  <1>2. CASE UNCHANGED rows
    BY <1>0, <1>1, <1>2 DEF LimitInv, Uploaded, Queue, Held, AtMost
  <1>3. ASSUME ~UNCHANGED rows, AtMost(Uploaded', SendLimit), AtMost(Held', SendLimit) PROVE LimitInv'
    BY <1>1, <1>3 DEF LimitInv, AtMost, Uploaded, Queue, Held
  <1>4. CASE Collect \/ Compact
    <2>1. ASSUME NEW r \in rows' PROVE r \in rows \/ (r.msg = 0 /\ r.state = "queued")
      BY <1>4 DEF Collect, Compact, Row
    <2>2. Uploaded' \subseteq Uploaded /\ Held' \subseteq Held
      BY <2>1 DEF Uploaded, Queue, Held
    <2> QED
      BY <1>0, <1>2, <1>3, <2>2, FewerStill
  <1>5. CASE Receipt
    <2>1. PICK n : n = [item.row EXCEPT !.msg = item.msg]
      OBVIOUS
    <2>2. item.row \in rows /\ item.row.state = "queued"
      BY <1>5 DEF Receipt, CatalogInv, RowsApart, Unsent, Queue
    <2>3. n.state = "queued" /\ rows' = (rows \ {item.row}) \cup {n}
      BY <1>0, <1>5, <2>1, <2>2 DEF Receipt, RowType
    <2>4. Uploaded' \subseteq Uploaded \cup {n} /\ Held' \subseteq Held
      BY <2>3 DEF Uploaded, Queue, Held
    <2>5. Cardinality(Uploaded) < SendLimit /\ Cardinality(Uploaded) \in Nat /\ IsFiniteSet(Uploaded)
      BY <1>0, <1>5, FS_CardinalityType DEF LimitInv, Receipt, AtMost
    <2>6. AtMost(Uploaded \cup {n}, SendLimit)
      BY <1>0, <2>5, FS_AddElement DEF AtMost
    <2> QED
      BY <1>0, <1>2, <1>3, <2>4, <2>6, FewerStill
  <1>6. CASE Acknowledge
    <2>1. ASSUME NEW r \in rows' PROVE r \in rows \/ r.state = "listed"
      <3>1. ASSUME NEW o \in rows PROVE [o EXCEPT !.state = "listed"].state = "listed"
        BY <1>0 DEF RowType
      <3> QED
        BY <1>6, <3>1 DEF Acknowledge, With
    <2>2. Uploaded' \subseteq Uploaded /\ Held' \subseteq Held
      BY <2>1 DEF Uploaded, Queue, Held
    <2> QED
      BY <1>0, <1>2, <1>3, <2>2, FewerStill
  <1>7. CASE RestartChain
    <2>1. Held = {}
      BY <1>7 DEF RestartChain, ClearInv, WorkInv, Delivering, Round, StatesInv, RowInv, HeldInv, Held
    <2>2. CASE rows' = (rows \ Uploaded) \cup With(Uploaded, "held")
      <3>1. ASSUME NEW r \in With(Uploaded, "held") PROVE r.state = "held"
        BY <1>0 DEF With, Uploaded, Queue, RowType
      <3>2. Held' \subseteq With(Uploaded, "held") /\ Uploaded' \subseteq Uploaded
        BY <2>1, <2>2, <3>1 DEF Held, Uploaded, Queue
      <3>3. AtMost(With(Uploaded, "held"), SendLimit)
        BY <1>0, AsManyInState
      <3> QED
        BY <1>0, <1>2, <1>3, <3>2, <3>3, FewerStill
    <2> QED
      BY <1>2, <1>7, <2>2 DEF RestartChain
  <1>8. CASE FinishClearing
    <2>1. Uploaded = {}
      BY <1>8 DEF FinishClearing, ClearInv, WorkInv, StatesInv, RowInv, Uploaded, Queue
    <2>2. rows' = (rows \ Held) \cup With(Kept, "queued") \cup With(Held \ Kept, "dropped")
      BY <1>8 DEF FinishClearing
    <2>3. ASSUME NEW S, S \subseteq rows, NEW y, NEW r \in With(S, y) PROVE r.state = y
      BY <1>0, <2>3 DEF With, RowType
    <2>4. Kept \subseteq Held /\ Held \subseteq rows
      BY DEF Kept, Held
    <2>5. Uploaded' \subseteq With(Kept, "queued") /\ Held' \subseteq Held
      BY <2>1, <2>2, <2>3, <2>4 DEF Uploaded, Queue, Held
    <2>6. AtMost(With(Kept, "queued"), SendLimit)
      BY <1>0, <2>4, FewerStill, AsManyInState
    <2> QED
      BY <1>0, <1>2, <1>3, <2>5, <2>6, FewerStill
  <1>9. CASE ~(Collect \/ Compact \/ Receipt \/ Acknowledge \/ RestartChain \/ FinishClearing)
    <2>1. UNCHANGED rows
      BY <1>9 DEF Next, Delivers, Deliver, SendArchive, Entries, CheckLatest, SendCatalog,
           NotePending, FinishRefused, FinishPinned, FinishPin, CheckFresh, Restart, Resets,
           Notice, Unpin, Clear, DeleteABatch, Search, Progress, NoAnswer, Interrupted, Others, Ages,
           OthersPin, CarriedOutLate, Calls, store, vars
    <2> QED
      BY <1>2, <2>1
  <1> QED
    BY <1>4, <1>5, <1>6, <1>7, <1>8, <1>9

-----------------------------------------------------------------------------
(* The theorems.                                                           *)

\* Inductive: the archives, the catalogs that list them, and the limit of a round.
PromiseInv == ClearInv /\ CatalogInv /\ LimitInv

LEMMA PromiseInit == Init => PromiseInv
  <1> SUFFICES ASSUME Init PROVE PromiseInv
    OBVIOUS
  <1>1. PICK doc : doc = Document("group", {}, 0)
    OBVIOUS
  <1>2. messages = <<doc>> /\ doc \in DocType /\ doc.before = 0
    <2>1. "group" \in Kinds /\ {} \in SUBSET Fragments /\ 0 \in Nat
      BY DEF Kinds
    <2> QED
      BY <1>1, <2>1, DocumentTypes DEF Init
  <1>3. Len(messages) = 1 /\ messages \in Seq(DocType)
    BY <1>2
  <1>4. GroupTyped
    BY <1>2, <1>3 DEF Init, GroupTyped
  <1>5. SinceInv /\ StoreTyped /\ RowsApart /\ RoundInv /\ PendingInv /\ CleanPins
    BY <1>3 DEF Init, SinceInv, StoreTyped, RowsApart, RoundInv, PendingInv, CleanPins, Labels, Making, Finishing
  <1>6. ListedInv
    <2>1. Chain(known) = {}
      <3>1. known = 0 /\ since = 0
        BY DEF Init
      <3>2. Chain(0) = {}
        BY <1>3, <1>4, <3>1, EmptyChain
      <3> QED
        BY <3>1, <3>2
    <2> QED
      BY <2>1 DEF ListedInv, Listed, ListedOnce
  <1>7. LimitInv
    <2>1. Uploaded = {} /\ Held = {} /\ pc # "receipt"
      BY DEF Init, Uploaded, Queue, Held
    <2> QED
      BY <2>1, FS_EmptySet, LimitsAssumption DEF LimitInv, AtMost
  <1> QED
    BY <1>4, <1>5, <1>6, <1>7, ClearInit DEF PromiseInv, CatalogInv

LEMMA PromiseNext == PromiseInv /\ [Next]_vars => PromiseInv'
  BY ClearNext, GroupTypes, SinceNext, StoreTypesNext, RowsApartNext, RoundNext, PendingNext, CleanPinsNext,
     LedgerNext, LimitNext DEF PromiseInv, CatalogInv

\* Whatever is interrupted, lost, carried out late or pinned by others: the catalogs and the
\* messages that the store notes were sent, nothing pinned is deleted, and one round uploads
\* no more than DELIVERY_BATCH_LIMIT archives.
THEOREM DeliveryTypes == Spec => []TypeOK
  <1>1. PromiseInv => TypeOK
    <2> SUFFICES ASSUME PromiseInv PROVE TypeOK
      OBVIOUS
    <2>0. /\ GroupTyped /\ StoreTyped /\ PendingInv /\ MessagesInv /\ RowsInv /\ ClearingInv
          /\ Len(messages) \in Nat /\ since \in Nat
      BY GroupLength DEF PromiseInv, ClearInv, CatalogInv, SinceInv
    <2>1. messages \in Seq([kind : Kinds, content : SUBSET Fragments, before : Nat])
      BY <2>0 DEF GroupTyped, DocType
    <2>2. gone \subseteq FirstRegular..Len(messages) /\ pins \subseteq (1..Len(messages)) \ gone /\ aged \in Numbers
      BY <2>0 DEF GroupTyped, MessagesInv, Numbers
    <2>3. rows \subseteq [content : SUBSET Fragments, msg : Numbers, state : {"queued", "held", "listed", "dropped"}]
      BY <2>0 DEF RowsInv, RowType, States, Numbers
    <2>4. pending # None => pending.catalog \in Numbers /\ pending.before \in Numbers
      BY <2>0 DEF StoreTyped, PendingInv, Numbers
    <2>5. clearing # None => clearing.next \in Numbers /\ clearing.kept \in Numbers
      BY <2>0 DEF StoreTyped, ClearingInv, Numbers
    <2>6. Cardinality(Uploaded) <= SendLimit
      BY DEF PromiseInv, LimitInv, AtMost
    <2>7. known \in Numbers /\ pc \in Labels /\ head \in Numbers
          /\ low \in 0..(Len(messages) + 1) /\ high \in 0..(Len(messages) + 1)
      BY <2>0 DEF StoreTyped, Numbers
    <2> QED
      BY <2>1, <2>2, <2>3, <2>4, <2>5, <2>6, <2>7 DEF TypeOK
  <1>2. Spec => []PromiseInv
    BY PromiseInit, PromiseNext, PTL DEF Spec
  <1> QED
    BY <1>1, <1>2, PTL

\* However often an archive was uploaded, and a catalog sent, noted or pinned: no fragment of a
\* log is in two catalogs of one chain (deliver, finish_catalog, acknowledge_index).
THEOREM CatalogsListOnce == Spec => []ListedOnce
  <1>1. PromiseInv => ListedOnce
    BY DEF PromiseInv, CatalogInv, ListedInv
  <1>2. Spec => []PromiseInv
    BY PromiseInit, PromiseNext, PTL DEF Spec
  <1> QED
    BY <1>1, <1>2, PTL

\* Every step of the delivery is a step of Ledger or changes nothing there: what was collected
\* waits until a catalog of the chain lists it, and is listed until the user starts the chain
\* anew or has the group cleared.
THEOREM ChainKeepsPromise == Spec => KeepsPromise
  <1>1. Init => Promise!Init
    <2> SUFFICES ASSUME Init PROVE Promise!Init
      OBVIOUS
    <2>1. ListedInv
      BY PromiseInit DEF PromiseInv, CatalogInv
    <2>2. rows = {}
      BY DEF Init
    <2> QED
      BY <2>1, <2>2 DEF ListedInv, ListedRows, Contents, Settled, Promise!Init
  <1>2. PromiseInv /\ [Next]_vars => [Promise!Next]_Promise!ledger
    <2> SUFFICES ASSUME PromiseInv, [Next]_vars PROVE [Promise!Next]_Promise!ledger
      OBVIOUS
    <2>1. LedgerMoves /\ ListedInv'
      BY LedgerNext DEF PromiseInv
    <2>2. Listed \subseteq Past
      BY DEF PromiseInv, CatalogInv, ListedInv, ListedRows, Past, Settled
    <2>8. Waiting \cap Past = {}
      <3>1. Apart(rows)
        BY DEF PromiseInv, CatalogInv, RowsApart, Apart
      <3>2. ASSUME NEW x, NEW y, x # y PROVE Settled(x) \cap Settled(y) = {}
        <4>1. At(rows, x) \cap At(rows, y) = {} /\ At(rows, x) \subseteq rows /\ At(rows, y) \subseteq rows
          BY <3>2 DEF At
        <4>2. Contents(At(rows, x)) \cap Contents(At(rows, y)) = {}
          BY <3>1, <4>1, PlacesApart
        <4> QED
          BY <4>2 DEF Settled, At
      <3> QED
        BY <3>2 DEF Waiting, Past
    <2>3. CASE UNCHANGED <<Waiting, Listed, Past>>
      BY <2>3 DEF Promise!ledger, Waiting, Past
    <2>4. CASE \E f \in Fragments \ (Waiting \cup Past) : Waiting' = Waiting \cup {f} /\ UNCHANGED <<Listed, Past>>
      BY <2>2, <2>4 DEF Promise!Next, Promise!Collect, Waiting, Past
    <2>5. CASE \E S \in SUBSET Waiting : Waiting' = Waiting \ S /\ Listed' = Listed \cup S /\ Past' = Past \cup S
      BY <2>2, <2>5, <2>8 DEF Promise!Next, Promise!Publish, Waiting, Past
    <2>6. CASE Listed' = {} /\ UNCHANGED <<Waiting, Past>>
      BY <2>2, <2>6 DEF Promise!Next, Promise!Restart, Waiting, Past
    <2>7. CASE \E S \in SUBSET Waiting : Waiting' = Waiting \ S /\ Past' = Past \cup S /\ UNCHANGED Listed
      BY <2>2, <2>7, <2>8 DEF Promise!Next, Promise!Drop, Waiting, Past
    <2> QED
      BY <2>1, <2>3, <2>4, <2>5, <2>6, <2>7 DEF LedgerMoves
  <1>3. Spec => []PromiseInv
    BY PromiseInit, PromiseNext, PTL DEF Spec
  <1> QED
    BY <1>1, <1>2, <1>3, PTL DEF Spec, KeepsPromise, Promise!Spec
=============================================================================
