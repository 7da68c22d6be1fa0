-------------------------- MODULE WindowsTextProofs --------------------------
(***************************************************************************)
(* What the windows get, for every keyboard, every number of windows and   *)
(* every size of the queue, while nothing rare happens: that the word the  *)
(* worker keeps is what stands at the end of the text, so that a correction *)
(* erases that word; that presses are typed in their order; and that a key *)
(* the user lets go goes up in the windows too.                            *)
(***************************************************************************)
EXTENDS WindowsInputProofs

-----------------------------------------------------------------------------
(* The presses of a sequence of events, and their numbers *)

LEMMA JoinAssoc ==
    ASSUME NEW E, NEW a \in Seq(E), NEW b \in Seq(E), NEW c \in Seq(E)
    PROVE  (a \o b) \o c = a \o (b \o c)
OBVIOUS

LEMMA JoinEmpty ==
    ASSUME NEW E, NEW a \in Seq(E)
    PROVE  a \o <<>> = a /\ <<>> \o a = a
OBVIOUS

LEMMA OnlyConcat ==
    ASSUME NEW E, NEW s \in Seq(E), NEW t \in Seq(E), NEW S
    PROVE  Only(s \o t, S) = Only(s, S) \o Only(t, S)
<1>1. PICK r : r = s \o t
  OBVIOUS
<1>2. /\ r \in Seq(E) /\ Len(r) = Len(s) + Len(t)
      /\ Len(s) \in Nat /\ Len(t) \in Nat
      /\ \A i \in 1..Len(s) : r[i] = s[i]
      /\ \A j \in 1..Len(t) : r[Len(s) + j] = t[j] /\ Len(s) + j \in 1..Len(s) + Len(t)
  BY <1>1, ConcatPlaces
<1>3. PICK f : f = KeptOf(r, S)
  OBVIOUS
<1>4. PICK h : h = KeptOf(t, S)
  OBVIOUS
<1>r. Len(r) \in Nat
  BY <1>2
<1>5. \A k \in 1..Len(r) : f[k] = IF r[k] \in S THEN Append(f[k - 1], r[k]) ELSE f[k - 1]
  BY <1>r, <1>3, KeptIs
<1>6. h[0] = <<>> /\ \A k \in 1..Len(t) : h[k] = IF t[k] \in S THEN Append(h[k - 1], t[k]) ELSE h[k - 1]
  BY <1>2, <1>4, KeptIs
<1>7. PICK g : g = Only(s, S)
  OBVIOUS
<1>8. f[Len(s)] = g
  <2>0. /\ Len(s) \in Nat /\ Len(s) <= Len(r) /\ Len(s) <= Len(s)
        /\ \A k \in 1..Len(s) : r[k] = s[k] /\ (r[k] \in S <=> s[k] \in S)
    BY <1>2
  <2>1. KeptOf(r, S)[Len(s)] = KeptOf(s, S)[Len(s)]
    BY <1>r, <2>0, KeptAlike, SMT
  <2> QED
    BY <1>3, <1>7, <2>1, OnlyIsKept
<1>9. g \in Seq(E)
  <2>1. Only(s, S) \in Seq(E \cap S)
    BY OnlyIn
  <2>2. E \cap S \subseteq E
    OBVIOUS
  <2> QED
    BY <1>7, <2>1, <2>2, SubsetSeq
<1> DEFINE T == {k \in 0..Len(t) : h[k] \in Seq(E) /\ f[Len(s) + k] = g \o h[k]}
<1>10. 0 \in T
  <2>1. g \o <<>> = g /\ <<>> \in Seq(E)
    BY <1>9, EmptySeq
  <2>2. Len(s) + 0 = Len(s) /\ 0 \in 0..Len(t)
    BY <1>2
  <2>3. f[Len(s) + 0] = g \o h[0]
    BY <1>6, <1>8, <2>1, <2>2
  <2> QED
    BY <1>6, <2>1, <2>2, <2>3
<1>11. ASSUME NEW k \in 1..Len(t), k - 1 \in T
       PROVE  k \in T
  <2>1. PICK a : a = h[k - 1]
    OBVIOUS
  <2>2. PICK e \in E : e = t[k]
    BY <1>2
  <2>3. a \in Seq(E) /\ f[Len(s) + (k - 1)] = g \o a /\ k \in 0..Len(t)
    BY <1>11, <2>1
  <2>4. Len(s) + k \in 1..Len(r) /\ (Len(s) + k) - 1 = Len(s) + (k - 1) /\ r[Len(s) + k] = e
    BY <1>2, <2>2
  <2>5. f[Len(s) + k] = IF e \in S THEN Append(g \o a, e) ELSE g \o a
    BY <1>5, <2>3, <2>4
  <2>6. h[k] = IF e \in S THEN Append(a, e) ELSE a
    BY <1>6, <2>1, <2>2
  <2>7. Append(g \o a, e) = g \o Append(a, e) /\ Append(a, e) \in Seq(E)
    <3>1. \A b \in Seq(E) : Append(b, e) = b \o <<e>> /\ Append(b, e) \in Seq(E)
      OBVIOUS
    <3>2. g \o a \in Seq(E)
      BY <1>9, <2>3
    <3>3. PICK o : o = <<e>>
      OBVIOUS
    <3>4. o \in Seq(E)
      BY <3>3
    <3>5. (g \o a) \o o = g \o (a \o o)
      <4>1. a \in Seq(E)
        BY <2>3
      <4> QED
        BY <1>9, <3>4, <4>1
    <3> QED
      BY <1>9, <2>3, <3>1, <3>2, <3>3, <3>5
  <2> QED
    BY <2>3, <2>5, <2>6, <2>7
<1> HIDE DEF T
<1>a. \A k \in 1..Len(t) : k - 1 \in T => k \in T
  BY <1>11
<1>b. \A k \in 0..Len(t) : k \in T
  BY <1>2, <1>10, <1>a, UpTo
<1>12. Len(t) \in T
  BY <1>2, <1>b
<1>13. f[Len(s) + Len(t)] = g \o h[Len(t)]
  BY <1>12 DEF T
<1>14. Only(r, S) = f[Len(r)] /\ Only(t, S) = h[Len(t)]
  BY <1>3, <1>4, OnlyIsKept
<1> QED
  BY <1>1, <1>2, <1>7, <1>13, <1>14

\* Of a sequence typed again the presses are the sequence.
LEMMA OnlyReplayed ==
    ASSUME NEW s \in Seq(Press1), NEW S, Press1 \subseteq S, \A k \in Keys : ReleaseOf(k) \notin S
    PROVE  Only(Replayed(s), S) = s
<1>1. PICK r : r = Replayed(s)
  OBVIOUS
<1>2. /\ Len(r) = 2 * Len(s) /\ Len(s) \in Nat
      /\ \A i \in 1..2 * Len(s) : r[i] = IF i % 2 = 1 THEN s[(i + 1) \div 2] ELSE ReleaseOf(s[i \div 2].key)
  <2>1. Len(s) \in Nat
    OBVIOUS
  <2> QED
    BY <1>1, <2>1, ReplayedEvents
<1>3. PICK f : f = KeptOf(r, S)
  OBVIOUS
<1>4. Len(r) \in Nat
  BY <1>2
<1>5. f[0] = <<>> /\ \A k \in 1..Len(r) : f[k] = IF r[k] \in S THEN Append(f[k - 1], r[k]) ELSE f[k - 1]
  BY <1>3, <1>4, KeptIs
<1> DEFINE T == {k \in 0..Len(s) : f[2 * k] = SubSeq(s, 1, k)}
<1>6. 0 \in T
  <2>1. SubSeq(s, 1, 0) = <<>> /\ 0 \in 0..Len(s) /\ 2 * 0 = 0
    BY <1>2
  <2> QED
    BY <1>5, <2>1
<1>7. ASSUME NEW k \in 1..Len(s), k - 1 \in T
      PROVE  k \in T
  <2>1. PICK a : a = SubSeq(s, 1, k - 1)
    OBVIOUS
  <2>2. f[2 * (k - 1)] = a /\ k \in 0..Len(s) /\ s[k] \in Press1
    BY <1>7, <2>1
  <2>3. k \in Int /\ Len(s) \in Int /\ 1 <= k /\ k <= Len(s)
    BY <1>2
  <2>4. /\ 2 * k - 1 \in 1..2 * Len(s) /\ 2 * k \in 1..2 * Len(s)
        /\ (2 * k - 1) - 1 = 2 * (k - 1)
        /\ (2 * k - 1) % 2 = 1 /\ ((2 * k - 1) + 1) \div 2 = k
        /\ (2 * k) % 2 = 0 /\ (2 * k) \div 2 = k
    BY <2>3
  <2>5. r[2 * k - 1] = s[k] /\ r[2 * k] = ReleaseOf(s[k].key)
    BY <1>2, <2>4
  <2>6. s[k] \in S /\ ReleaseOf(s[k].key) \notin S
    BY <2>2, QueueKinds
  <2>7. f[2 * k - 1] = Append(a, s[k])
    BY <1>2, <1>5, <2>2, <2>4, <2>5, <2>6
  <2>8. f[2 * k] = f[2 * k - 1]
    BY <1>2, <1>5, <2>4, <2>5, <2>6
  <2>9. Append(a, s[k]) = SubSeq(s, 1, k)
    <3>2. PICK b : b = SubSeq(s, 1, k)
      OBVIOUS
    <3>3. a \in Seq(Press1) /\ Len(a) = k - 1 /\ \A i \in 1..k - 1 : a[i] = s[i]
      BY <2>1
    <3>4. b \in Seq(Press1) /\ Len(b) = k /\ \A i \in 1..k : b[i] = s[i]
      BY <3>2
    <3>5. PICK c : c = Append(a, s[k])
      OBVIOUS
    <3>6. c \in Seq(Press1) /\ Len(c) = k /\ c[k] = s[k] /\ \A i \in 1..k - 1 : c[i] = s[i]
      BY <2>2, <3>3, <3>5
    <3>7. \A i \in 1..k : c[i] = b[i]
      BY <3>4, <3>6
    <3>8. c = b
      BY <3>4, <3>6, <3>7, SeqEqual
    <3> QED
      BY <3>2, <3>5, <3>8
  <2> QED
    BY <2>2, <2>7, <2>8, <2>9
<1> HIDE DEF T
<1>a. \A k \in 1..Len(s) : k - 1 \in T => k \in T
  BY <1>7
<1>b. \A k \in 0..Len(s) : k \in T
  BY <1>2, <1>6, <1>a, UpTo
<1>8. Len(s) \in T
  BY <1>2, <1>b
<1>9. f[2 * Len(s)] = SubSeq(s, 1, Len(s))
  BY <1>8 DEF T
<1> QED
  BY <1>1, <1>2, <1>3, <1>9, OnlyIsKept, SubSeqFull

LEMMA NumbersTypes ==
    ASSUME NEW s \in Seq(Event)
    PROVE  /\ Numbers(s) \in Seq(Nat) /\ Len(Numbers(s)) = Len(s)
           /\ \A i \in 1..Len(s) : Numbers(s)[i] = s[i].n
<1>0. \A e \in Event : e.n \in Nat
  BY DEF Event
<1>1. Len(s) \in Nat /\ DOMAIN s = 1..Len(s) /\ \A i \in 1..Len(s) : s[i].n \in Nat
  BY <1>0
<1>2. PICK r : r = [i \in 1..Len(s) |-> s[i].n]
  OBVIOUS
<1>3. r \in Seq(Nat) /\ Len(r) = Len(s) /\ \A i \in 1..Len(s) : r[i] = s[i].n
  BY <1>1, <1>2, SeqDef, LenProperties
<1> QED
  BY <1>1, <1>2, <1>3 DEF Numbers

LEMMA NumbersConcat ==
    ASSUME NEW s \in Seq(Event), NEW t \in Seq(Event)
    PROVE  Numbers(s \o t) = Numbers(s) \o Numbers(t)
<1>1. PICK r : r = s \o t
  OBVIOUS
<1>2. /\ r \in Seq(Event) /\ Len(r) = Len(s) + Len(t)
      /\ Len(s) \in Nat /\ Len(t) \in Nat
      /\ \A i \in 1..Len(s) : r[i] = s[i]
      /\ \A j \in 1..Len(t) : r[Len(s) + j] = t[j] /\ Len(s) + j \in 1..Len(s) + Len(t)
      /\ \A i \in 1..Len(s) + Len(t) : i \in 1..Len(s) \/ \E j \in 1..Len(t) : i = Len(s) + j
  BY <1>1, ConcatPlaces
<1>3. PICK a : a = Numbers(s)
  OBVIOUS
<1>4. PICK b : b = Numbers(t)
  OBVIOUS
<1>5. PICK c : c = Numbers(r)
  OBVIOUS
<1>6. /\ a \in Seq(Nat) /\ Len(a) = Len(s) /\ \A i \in 1..Len(s) : a[i] = s[i].n
      /\ b \in Seq(Nat) /\ Len(b) = Len(t) /\ \A i \in 1..Len(t) : b[i] = t[i].n
      /\ c \in Seq(Nat) /\ Len(c) = Len(r) /\ \A i \in 1..Len(r) : c[i] = r[i].n
  BY <1>2, <1>3, <1>4, <1>5, NumbersTypes
<1>7. PICK d : d = a \o b
  OBVIOUS
<1>8. /\ d \in Seq(Nat) /\ Len(d) = Len(a) + Len(b)
      /\ \A i \in 1..Len(a) : d[i] = a[i]
      /\ \A j \in 1..Len(b) : d[Len(a) + j] = b[j]
  <2>1. a \in Seq(Nat) /\ b \in Seq(Nat)
    BY <1>6
  <2> QED
    BY <1>7, <2>1, ConcatPlaces
<1>9. \A i \in 1..Len(c) : c[i] = d[i]
  <2> TAKE i \in 1..Len(c)
  <2>0. c[i] = r[i].n /\ i \in 1..Len(s) + Len(t)
    BY <1>2, <1>6
  <2>1. CASE i \in 1..Len(s)
    <3>1. d[i] = a[i] /\ a[i] = s[i].n /\ r[i] = s[i]
      BY <1>2, <1>6, <1>8, <2>1
    <3> QED
      BY <2>0, <3>1
  <2>2. CASE \E j \in 1..Len(t) : i = Len(s) + j
    <3>1. PICK j \in 1..Len(t) : i = Len(s) + j
      BY <2>2
    <3>2. Len(a) = Len(s) /\ Len(b) = Len(t) /\ b[j] = t[j].n
      BY <1>6, <3>1
    <3>3. d[i] = b[j] /\ r[i] = t[j]
      BY <1>2, <1>8, <3>1, <3>2
    <3> QED
      BY <2>0, <3>2, <3>3
  <2> QED
    BY <1>2, <2>0, <2>1, <2>2
<1>10. c = d
  BY <1>2, <1>6, <1>8, <1>9, SeqEqual
<1> QED
  BY <1>1, <1>3, <1>4, <1>5, <1>7, <1>10

LEMMA NumbersOne ==
    ASSUME NEW e \in Event
    PROVE  Numbers(<<e>>) = <<e.n>>
<1>1. PICK s : s = <<e>>
  OBVIOUS
<1>2. s \in Seq(Event) /\ Len(s) = 1 /\ s[1] = e
  BY <1>1
<1>3. PICK a : a = Numbers(s)
  OBVIOUS
<1>4. a \in Seq(Nat) /\ Len(a) = 1 /\ a[1] = e.n
  BY <1>2, <1>3, NumbersTypes
<1>5. PICK b : b = <<e.n>>
  OBVIOUS
<1>6. e.n \in Nat
  BY DEF Event
<1>7. b \in Seq(Nat) /\ Len(b) = 1 /\ b[1] = e.n
  BY <1>5, <1>6
<1>8. a = b
  BY <1>4, <1>7, SeqEqual
<1> QED
  BY <1>1, <1>3, <1>5, <1>8

LEMMA NumbersNone == Numbers(<<>>) = <<>>
<1>1. PICK s : s = <<>> /\ s \in Seq(Event)
  BY EmptySeq
<1>2. Numbers(s) \in Seq(Nat) /\ Len(Numbers(s)) = 0
  BY <1>1, NumbersTypes
<1>3. PICK a : a = Numbers(s)
  OBVIOUS
<1>4. a = <<>>
  BY <1>2, <1>3
<1> QED
  BY <1>1, <1>3, <1>4

-----------------------------------------------------------------------------
(* The text in front, and the word the engine has of it *)

\* A text ends with the presses of a sequence.
EndsIn(s, evs) == \E p \in Seq(Nat) : s = p \o Numbers(evs)

\* A sequence is the end of another.
Suffix(b, a) == \E q \in Seq(Event) : a = q \o b

LEMMA SuffixSelf ==
    ASSUME NEW a \in Seq(Event)
    PROVE  Suffix(a, a)
<1>1. <<>> \in Seq(Event) /\ a = <<>> \o a
  BY EmptySeq
<1> QED
  BY <1>1 DEF Suffix

LEMMA SuffixNone ==
    ASSUME NEW a \in Seq(Event)
    PROVE  Suffix(<<>>, a)
<1>1. a = a \o <<>>
  OBVIOUS
<1> QED
  BY <1>1 DEF Suffix

LEMMA SuffixOf ==
    ASSUME NEW a \in Seq(Event), NEW b \in Seq(Event)
    PROVE  Suffix(b, a \o b)
BY DEF Suffix

LEMMA SuffixConcat ==
    ASSUME NEW a \in Seq(Event), NEW b \in Seq(Event), NEW c \in Seq(Event), Suffix(b, a)
    PROVE  Suffix(b \o c, a \o c)
<1>1. PICK q \in Seq(Event) : a = q \o b
  BY DEF Suffix
<1>2. a \o c = q \o (b \o c)
  BY <1>1
<1> QED
  BY <1>2 DEF Suffix

LEMMA SuffixTrans ==
    ASSUME NEW a \in Seq(Event), NEW b \in Seq(Event), NEW c \in Seq(Event), Suffix(c, b), Suffix(b, a)
    PROVE  Suffix(c, a)
<1>1. PICK q \in Seq(Event) : a = q \o b
  BY DEF Suffix
<1>2. PICK r \in Seq(Event) : b = r \o c
  BY DEF Suffix
<1>3. a = (q \o r) \o c /\ q \o r \in Seq(Event)
  BY <1>1, <1>2
<1> QED
  BY <1>3 DEF Suffix

LEMMA EndsLess ==
    ASSUME NEW s, NEW a \in Seq(Event), NEW b \in Seq(Event), EndsIn(s, a), Suffix(b, a)
    PROVE  EndsIn(s, b)
<1>1. PICK p \in Seq(Nat) : s = p \o Numbers(a)
  BY DEF EndsIn
<1>2. PICK q \in Seq(Event) : a = q \o b
  BY DEF Suffix
<1>3. Numbers(a) = Numbers(q) \o Numbers(b)
  BY <1>2, NumbersConcat
<1>4. PICK x : x = Numbers(q)
  OBVIOUS
<1>5. PICK y : y = Numbers(b)
  OBVIOUS
<1>6. x \in Seq(Nat) /\ y \in Seq(Nat)
  BY <1>4, <1>5, NumbersTypes
<1>7. p \o (x \o y) = (p \o x) \o y /\ p \o x \in Seq(Nat)
  <2>1. p \o x \in Seq(Nat)
    BY <1>6
  <2>2. p \o (x \o y) = (p \o x) \o y
    BY <1>6, SMTT(20)
  <2> QED
    BY <2>1, <2>2
<1>8. s = (p \o x) \o y
  BY <1>1, <1>3, <1>4, <1>5, <1>7, Zenon
<1> QED
  BY <1>5, <1>7, <1>8 DEF EndsIn

LEMMA EndsNone ==
    ASSUME NEW s \in Seq(Nat)
    PROVE  EndsIn(s, <<>>)
<1>1. s = s \o <<>>
  OBVIOUS
<1> QED
  BY <1>1, NumbersNone DEF EndsIn

LEMMA EndsAdd ==
    ASSUME NEW s \in Seq(Nat), NEW a \in Seq(Event), NEW e \in Event, EndsIn(s, a)
    PROVE  EndsIn(Append(s, e.n), a \o <<e>>)
<1>1. PICK p \in Seq(Nat) : s = p \o Numbers(a)
  BY DEF EndsIn
<1>2. PICK o : o = <<e>>
  OBVIOUS
<1>3. o \in Seq(Event)
  BY <1>2
<1>4. Numbers(a \o o) = Numbers(a) \o Numbers(o) /\ Numbers(o) = <<e.n>>
  BY <1>2, <1>3, NumbersConcat, NumbersOne
<1>5. PICK x : x = Numbers(a)
  OBVIOUS
<1>6. x \in Seq(Nat)
  BY <1>5, NumbersTypes
<1>7. e.n \in Nat
  BY DEF Event
<1>8. Append(p \o x, e.n) = p \o (x \o <<e.n>>)
  <2>1. PICK m : m = <<e.n>>
    OBVIOUS
  <2>2. m \in Seq(Nat) /\ p \o x \in Seq(Nat)
    BY <1>6, <1>7, <2>1
  <2>3. (p \o x) \o m = p \o (x \o m)
    BY <1>6, <2>2, SMTT(20)
  <2>4. Append(p \o x, e.n) = (p \o x) \o <<e.n>>
    BY <1>7, <2>2, AppendIsConcat, Zenon
  <2> QED
    BY <2>1, <2>3, <2>4, Zenon
<1>9. Append(s, e.n) = p \o Numbers(a \o o)
  BY <1>1, <1>4, <1>5, <1>8
<1> QED
  BY <1>2, <1>9 DEF EndsIn

-----------------------------------------------------------------------------

\* The presses of a sequence that the windows show when they come: not the withheld ones.
Shows == {ev \in Event : ev.down /\ ~ev.deferred}
Presses(s) == Only(s, Shows)

LEMMA PressesTypes ==
    ASSUME NEW s \in Seq(Queueable)
    PROVE  s \in Seq(Event) /\ Presses(s) \in Seq(Event)
<1>1. s \in Seq(Event)
  BY EventKinds, SubsetSeq
<1>2. Only(s, Shows) \in Seq(Event \cap Shows)
  BY <1>1, OnlyIn
<1>3. Event \cap Shows \subseteq Event
  OBVIOUS
<1>4. Only(s, Shows) \in Seq(Event)
  BY <1>2, <1>3, SubsetSeq
<1> QED
  BY <1>1, <1>4 DEF Presses

LEMMA PressesConcat ==
    ASSUME NEW s \in Seq(Queueable), NEW t \in Seq(Queueable)
    PROVE  Presses(s \o t) = Presses(s) \o Presses(t)
BY OnlyConcat DEF Presses

LEMMA PressesEmpty == Presses(<<>>) = <<>>
BY OnlyOfEmpty DEF Presses

LEMMA PressesNone ==
    ASSUME NEW s \in Seq(Queueable), ~Downs(s)
    PROVE  Presses(s) = <<>>
<1>1. \A k \in 1..Len(s) : s[k] \notin Shows
  <2>1. \A k \in 1..Len(s) : s[k] \in Elems(s)
    BY DEF Elems
  <2> QED
    BY <2>1 DEF Shows, Downs
<1> QED
  BY <1>1, OnlyNone DEF Presses

LEMMA PressesOne ==
    ASSUME NEW e \in Queueable
    PROVE  /\ <<e>> \in Seq(Queueable)
           /\ e.down /\ ~e.deferred => Presses(<<e>>) = <<e>>
           /\ ~e.down \/ e.deferred => Presses(<<e>>) = <<>>
<1>1. <<e>> \in Seq(Queueable) /\ <<>> \in Seq(Queueable) /\ Append(<<>>, e) = <<e>>
  BY EmptySeq
<1>2. Only(Append(<<>>, e), Shows) = IF e \in Shows THEN Append(Only(<<>>, Shows), e) ELSE Only(<<>>, Shows)
  BY <1>1, OnlyAppend
<1>3. Only(<<e>>, Shows) = IF e \in Shows THEN <<e>> ELSE <<>>
  BY <1>1, <1>2, OnlyOfEmpty
<1>4. e \in Shows <=> e.down /\ ~e.deferred
  BY EventKinds DEF Shows
<1> QED
  BY <1>1, <1>3, <1>4 DEF Presses

LEMMA PressesAdd ==
    ASSUME NEW s \in Seq(Queueable), NEW e \in Queueable
    PROVE  /\ e.down /\ ~e.deferred => Presses(Append(s, e)) = Presses(s) \o <<e>>
           /\ ~e.down \/ e.deferred => Presses(Append(s, e)) = Presses(s)
<1>1. Presses(Append(s, e)) = IF e \in Shows THEN Append(Presses(s), e) ELSE Presses(s)
  BY OnlyAppend DEF Presses
<1>2. PICK a : a = Presses(s)
  OBVIOUS
<1>3. a \in Seq(Event) /\ e \in Event
  BY <1>2, PressesTypes, EventKinds
<1>4. Append(a, e) = a \o <<e>>
  BY <1>3
<1>5. e \in Shows <=> e.down /\ ~e.deferred
  BY <1>3 DEF Shows
<1> QED
  BY <1>1, <1>2, <1>4, <1>5

-----------------------------------------------------------------------------

\* What the window in front still misses while a word is replaced.
Missing == CASE W = "type" -> Numbers(plan \o late)
             [] W = "retype" -> Numbers(late)
             [] OTHER -> <<>>
Whole(w) == IF w = focus THEN text[w] \o Missing ELSE text[w]

\* The plan as far as its text counts, the word before it is decided, and the event in hand.
PlanPart == CASE W \in {"focus", "hold", "collect", "refill"} -> plan
              [] W \in {"check", "erase", "type", "retype"} -> plan \o late
              [] OTHER -> IF outcome["worker"] = "failed" THEN <<>> ELSE plan
Word == PlanPart \o (pending \o (strokes \o Presses(InHand)))
Queued == Presses(drained) \o Presses(inbox)

\* The window the engine believes in front ends with its word; the window in front ends with
\* what is queued, behind the word when they are the same.
Mirror ==
    IF focus = wFocus THEN EndsIn(Whole(focus), Word \o Queued)
    ELSE EndsIn(Whole(wFocus), Word) /\ EndsIn(Whole(focus), Queued)

\* Once the late keys have been taken along the word has no strokes besides its plan.
Settled ==
    /\ W \in {"check", "erase", "type", "retype"} => strokes = <<>>
    /\ Executing /\ W \in Routine \cup {"landed", "acted"} /\ outcome["worker"] # "refused"
         => strokes = <<>>
MirrorInv == Calm /\ running => Mirror /\ Settled

LEMMA WordTypes ==
    ASSUME EventInv
    PROVE  /\ plan \in Seq(Event) /\ late \in Seq(Event) /\ plan \o late \in Seq(Event)
           /\ PlanPart \in Seq(Event) /\ pending \in Seq(Event) /\ strokes \in Seq(Event)
           /\ Presses(InHand) \in Seq(Event) /\ Word \in Seq(Event)
           /\ Presses(drained) \in Seq(Event) /\ Presses(inbox) \in Seq(Event) /\ Queued \in Seq(Event)
           /\ Word \o Queued \in Seq(Event)
<1>1. /\ plan \in Seq(Event) /\ late \in Seq(Event) /\ pending \in Seq(Event) /\ strokes \in Seq(Event)
  <2>1. Press1 \subseteq Event
    BY EventKinds
  <2> QED
    BY <2>1, SubsetSeq DEF EventInv, WordEvents
<1>2. plan \o late \in Seq(Event)
  BY <1>1
<1>3. PlanPart \in Seq(Event)
  <2>1. <<>> \in Seq(Event)
    BY EmptySeq
  <2>2. CASE W \in {"focus", "hold", "collect", "refill"}
    BY <1>1, <2>2 DEF PlanPart
  <2>3. CASE W \in {"check", "erase", "type", "retype"}
    BY <1>2, <2>3 DEF PlanPart
  <2>4. CASE W \notin {"focus", "hold", "collect", "refill", "check", "erase", "type", "retype"}
    BY <1>1, <2>1, <2>4 DEF PlanPart
  <2> QED
    BY <2>2, <2>3, <2>4
<1>4. Presses(InHand) \in Seq(Event) /\ Presses(drained) \in Seq(Event) /\ Presses(inbox) \in Seq(Event)
  BY StreamTypes, PressesTypes
<1>5. PICK h : h = Presses(InHand)
  OBVIOUS
<1>6. PICK d : d = Presses(drained)
  OBVIOUS
<1>7. PICK i : i = Presses(inbox)
  OBVIOUS
<1>8. PICK p : p = PlanPart
  OBVIOUS
<1>9. h \in Seq(Event) /\ d \in Seq(Event) /\ i \in Seq(Event) /\ p \in Seq(Event)
  BY <1>3, <1>4, <1>5, <1>6, <1>7, <1>8
<1>10. p \o (pending \o (strokes \o h)) \in Seq(Event) /\ d \o i \in Seq(Event)
  BY <1>1, <1>9
<1>11. Word \in Seq(Event) /\ Queued \in Seq(Event)
  BY <1>5, <1>6, <1>7, <1>8, <1>10 DEF Word, Queued
<1>12. PICK x : x = Word
  OBVIOUS
<1>13. PICK y : y = Queued
  OBVIOUS
<1>14. x \o y \in Seq(Event)
  BY <1>11, <1>12, <1>13
<1> QED
  BY <1>1, <1>2, <1>3, <1>4, <1>11, <1>12, <1>13, <1>14

LEMMA WholeTypes ==
    ASSUME EventInv
    PROVE  Missing \in Seq(Nat) /\ \A w \in Places : Whole(w) \in Seq(Nat)
<1>1. Missing \in Seq(Nat)
  <2>1. <<>> \in Seq(Nat)
    BY EmptySeq
  <2>2. Numbers(plan \o late) \in Seq(Nat) /\ Numbers(late) \in Seq(Nat)
    BY WordTypes, NumbersTypes
  <2> QED
    BY <2>1, <2>2 DEF Missing
<1>2. ASSUME NEW w \in Places
      PROVE  Whole(w) \in Seq(Nat)
  <2>1. text[w] \in Seq(Nat)
    BY DEF EventInv, BackendEvents, TextEvents
  <2>2. PICK m : m = Missing
    OBVIOUS
  <2>3. m \in Seq(Nat)
    BY <1>1, <2>2
  <2>4. text[w] \o m \in Seq(Nat)
    BY <2>1, <2>3
  <2> QED
    BY <2>1, <2>2, <2>4 DEF Whole
<1> QED
  BY <1>1, <1>2

\* The types of the word, after a step.
LEMMA WordTypesNext ==
    (EventInv => Word \in Seq(Event) /\ Queued \in Seq(Event) /\ Word \o Queued \in Seq(Event))'
<1>1. EventInv => Word \in Seq(Event) /\ Queued \in Seq(Event) /\ Word \o Queued \in Seq(Event)
  BY WordTypes
<1> QED
  BY <1>1, PTL

\* What the engine's word has to be after a step that leaves the text alone.
LEMMA MirrorLess ==
    ASSUME EventInv, EventInv', Mirror, UNCHANGED <<text, focus, wFocus>>, Missing' = Missing,
           Suffix(Word', Word), Queued' = Queued
    PROVE  Mirror'
<1>1. /\ Word \in Seq(Event) /\ Queued \in Seq(Event) /\ Word' \in Seq(Event)
      /\ Word \o Queued \in Seq(Event) /\ (Word \o Queued)' \in Seq(Event)
  BY WordTypes, WordTypesNext
<1>2. PICK a : a = Word
  OBVIOUS
<1>3. PICK b : b = Word'
  OBVIOUS
<1>4. PICK c : c = Queued
  OBVIOUS
<1>5. a \in Seq(Event) /\ b \in Seq(Event) /\ c \in Seq(Event) /\ a \o c \in Seq(Event) /\ b \o c \in Seq(Event)
      /\ Suffix(b, a)
  BY <1>1, <1>2, <1>3, <1>4
<1>6. Suffix(b \o c, a \o c)
  BY <1>5, SuffixConcat
<1>7. \A w \in Places : Whole(w)' = Whole(w)
  BY DEF Whole
<1>8. focus \in Places /\ wFocus \in Places
  BY DEF EventInv, TypeInv, CorrectInv, HoldTypeOK, EngineEvents
<1>9. CASE focus = wFocus
  <2>1. EndsIn(Whole(focus), a \o c)
    BY <1>2, <1>4, <1>9 DEF Mirror
  <2>2. EndsIn(Whole(focus), b \o c)
    BY <1>5, <1>6, <2>1, EndsLess
  <2> QED
    BY <1>3, <1>4, <1>7, <1>8, <1>9, <2>2 DEF Mirror
<1>10. CASE focus # wFocus
  <2>1. EndsIn(Whole(wFocus), a) /\ EndsIn(Whole(focus), c)
    BY <1>2, <1>4, <1>10 DEF Mirror
  <2>2. EndsIn(Whole(wFocus), b)
    BY <1>5, <2>1, EndsLess
  <2> QED
    BY <1>3, <1>4, <1>7, <1>8, <1>10, <2>1, <2>2 DEF Mirror
<1> QED
  BY <1>9, <1>10

\* A press, or a click, that the window in front gets and the engine is told of.
LEMMA MirrorAdds ==
    ASSUME EventInv, EventInv', Mirror, UNCHANGED <<focus, wFocus, drained>>, Word' = Word,
           Missing = <<>>, Missing' = <<>>, NEW e \in Queueable, e.down, ~e.deferred,
           inbox' = Append(inbox, e), text' = [text EXCEPT ![focus] = Append(@, e.n)]
    PROVE  Mirror'
<1>1. /\ Word \in Seq(Event) /\ Queued \in Seq(Event) /\ Word \o Queued \in Seq(Event)
  BY WordTypes
<1>2. PICK a : a = Word
  OBVIOUS
<1>3. PICK c : c = Queued
  OBVIOUS
<1>4. PICK o : o = <<e>>
  OBVIOUS
<1>5. e \in Event
  BY EventKinds
<1>6. a \in Seq(Event) /\ c \in Seq(Event) /\ o \in Seq(Event) /\ a \o c \in Seq(Event)
  BY <1>1, <1>2, <1>3, <1>4, <1>5
<1>7. Queued' = c \o o
  <2>1. inbox \in Seq(Queueable) /\ drained \in Seq(Queueable)
    BY StreamTypes
  <2>2. Presses(Append(inbox, e)) = Presses(inbox) \o o
    BY <1>4, <2>1, PressesAdd
  <2>3. PICK d : d = Presses(drained)
    OBVIOUS
  <2>4. PICK i : i = Presses(inbox)
    OBVIOUS
  <2>5. d \in Seq(Event) /\ i \in Seq(Event)
    BY <2>1, <2>3, <2>4, PressesTypes
  <2>6. d \o (i \o o) = (d \o i) \o o
    BY <1>6, <2>5
  <2>7. Presses(drained)' = d /\ Presses(inbox)' = i \o o
    BY <2>2, <2>3, <2>4 DEF Presses
  <2>8. Queued' = Presses(drained)' \o Presses(inbox)'
    BY Zenon DEF Queued
  <2>9. Queued' = d \o (i \o o)
    BY <2>7, <2>8
  <2>10. c = d \o i
    BY <1>3, <2>3, <2>4 DEF Queued
  <2> QED
    BY <2>6, <2>9, <2>10
<1>8. focus \in Places /\ wFocus \in Places /\ text \in [Places -> Seq(Nat)]
  BY DEF EventInv, TypeInv, HoldTypeOK, EngineEvents, BackendEvents, TextEvents
<1>9. PICK t : t = Whole(focus)
  OBVIOUS
<1>10. text[focus] = t /\ t \in Seq(Nat) /\ Whole(focus)' = Append(t, e.n)
  <2>1. text[focus] \o <<>> = text[focus] /\ text[focus] \in Seq(Nat)
    BY <1>8
  <2>2. text'[focus] = Append(text[focus], e.n) /\ e.n \in Nat
    BY <1>5, <1>8 DEF Event
  <2>3. text'[focus] \o <<>> = text'[focus]
    BY <2>1, <2>2
  <2>4. Whole(focus) = text[focus] \o <<>>
    BY <1>8 DEF Whole
  <2>5. Whole(focus)' = text'[focus] \o <<>>
    BY <1>8 DEF Whole
  <2> QED
    BY <1>9, <2>1, <2>2, <2>3, <2>4, <2>5
<1>11. CASE focus = wFocus
  <2>1. EndsIn(t, a \o c)
    BY <1>2, <1>3, <1>9, <1>11 DEF Mirror
  <2>2. EndsIn(Append(t, e.n), (a \o c) \o o)
    BY <1>4, <1>5, <1>6, <1>10, <2>1, EndsAdd
  <2>3. (a \o c) \o o = a \o (c \o o)
    BY <1>6
  <2>4. EndsIn(Append(t, e.n), a \o (c \o o))
    BY <2>2, <2>3
  <2>5. EndsIn(Whole(focus)', Word' \o Queued')
    BY <1>2, <1>7, <1>10, <2>4
  <2> QED
    BY <1>11, <2>5 DEF Mirror
<1>12. CASE focus # wFocus
  <2>1. EndsIn(Whole(wFocus), a) /\ EndsIn(t, c)
    BY <1>2, <1>3, <1>9, <1>12 DEF Mirror
  <2>2. EndsIn(Append(t, e.n), c \o o)
    BY <1>4, <1>5, <1>6, <1>10, <2>1, EndsAdd
  <2>3. Whole(wFocus)' = Whole(wFocus)
    BY <1>8, <1>12 DEF Whole
  <2>4. EndsIn(Whole(wFocus)', Word') /\ EndsIn(Whole(focus)', Queued')
    BY <1>2, <1>7, <1>10, <2>1, <2>2, <2>3
  <2> QED
    BY <1>12, <2>4 DEF Mirror
<1> QED
  BY <1>11, <1>12

\* Where the worker is matters to the plan in a correction only.
AtPlan == W \in {"focus", "hold", "collect", "refill", "check", "erase", "type", "retype"}

LEMMA PartStays ==
    ASSUME UNCHANGED <<plan, late>>, outcome'["worker"] = outcome["worker"],
           W' = W \/ (~AtPlan /\ ~AtPlan')
    PROVE  PlanPart' = PlanPart
<1>1. CASE W' = W
  BY <1>1 DEF PlanPart
<1>2. CASE ~AtPlan /\ ~AtPlan'
  <2>1. PlanPart = IF outcome["worker"] = "failed" THEN <<>> ELSE plan
    BY <1>2 DEF PlanPart, AtPlan
  <2>2. PlanPart' = IF outcome'["worker"] = "failed" THEN <<>> ELSE plan'
    BY <1>2 DEF PlanPart, AtPlan
  <2> QED
    BY <2>1, <2>2
<1> QED
  BY <1>1, <1>2

LEMMA WordStays ==
    ASSUME PlanPart' = PlanPart, UNCHANGED <<pending, strokes, cur>>
    PROVE  Word' = Word
BY DEF Word, InHand, Presses

LEMMA MissingAway ==
    ASSUME W \notin {"type", "retype"}
    PROVE  Missing = <<>>
BY DEF Missing

LEMMA MissingAwayNext ==
    ASSUME W' \notin {"type", "retype"}
    PROVE  Missing' = <<>>
BY DEF Missing

\* The same queue and the same text, and the end of the word.
LEMMA MirrorShort ==
    ASSUME EventInv, EventInv', Mirror, UNCHANGED <<text, focus, wFocus, drained, inbox>>, Missing' = Missing,
           Suffix(Word', Word)
    PROVE  Mirror'
<1>1. Queued' = Queued
  BY DEF Queued, Presses
<1> QED
  BY <1>1, MirrorLess

LEMMA MirrorUser ==
    ASSUME Stands, Mirror, EventInv', Calm', BackendStep(User) \/ BackendStep(RuleWindowReports)
    PROVE  Mirror'
<1> USE StandsTypes
<1> Calm
  BY DEF Stands
<1>1. /\ UNCHANGED <<pc, outcome, wFocus, drained, cur, late, strokes, pending, plan>>
      /\ W' = W
  BY DEF BackendStep, User, TypeKey, FocusMoves, Click, RuleWindowReports, engineVars, workVars, wordVars,
     callerVars, W
<1>2. Word' = Word /\ Missing' = Missing
  BY <1>1, PartStays, WordStays DEF Missing
<1>3. Word \in Seq(Event)
  BY WordTypes
<1>4. CASE RuleWindowReports \/ \E k \in Keys, down \in BOOLEAN : TypeKey(k, down)
  <2>1. UNCHANGED <<text, focus, inbox>>
    <3>1. hooked
      BY DEF Stands
    <3>2. ASSUME NEW k \in Keys, NEW down \in BOOLEAN, TypeKey(k, down)
          PROVE  UNCHANGED <<text, focus, inbox>>
      BY <3>1, <3>2 DEF TypeKey, queueVars
    <3>3. RuleWindowReports => UNCHANGED <<text, focus, inbox>>
      BY DEF RuleWindowReports, windowVars, queueVars
    <3> QED
      BY <1>4, <3>2, <3>3
  <2>2. Suffix(Word', Word)
    BY <1>2, <1>3, SuffixSelf
  <2> QED
    BY <1>1, <1>2, <2>1, <2>2, MirrorShort
<1>5. ASSUME NEW w \in Places, FocusMoves(w)
      PROVE  Mirror'
  <2>1. UNCHANGED <<text, inbox>> /\ focus' = w /\ w # focus
    BY <1>5 DEF FocusMoves, queueVars
  <2>2. ~BetweenCheckAndInput /\ ~PressUnhandled
    BY <1>5 DEF FocusMoves, Remember, Calm
  <2>3. W \notin {"type", "retype", "refill"}
    BY <2>2 DEF BetweenCheckAndInput, PressUnhandled, W, Threads
  <2>4. ~Downs(inbox)
    BY <2>2 DEF PressUnhandled, Downs, Elems
  <2>5. drained = <<>> /\ inbox \in Seq(Queueable)
    BY <2>3, StreamTypes DEF Phases
  <2>6. Presses(drained) = <<>> /\ Presses(inbox) = <<>>
    BY <2>4, <2>5, PressesNone, PressesEmpty
  <2>7. Queued = <<>> /\ Queued' = <<>>
    <3>1. <<>> \o <<>> = <<>>
      BY EmptySeq
    <3>2. Presses(drained)' = <<>> /\ Presses(inbox)' = <<>>
      BY <1>1, <2>1, <2>6 DEF Presses
    <3>3. Queued' = Presses(drained)' \o Presses(inbox)'
      BY Zenon DEF Queued
    <3> QED
      BY <2>6, <3>1, <3>2, <3>3 DEF Queued
  <2>8. focus \in Places /\ wFocus \in Places /\ text \in [Places -> Seq(Nat)]
    BY DEF EventInv, TypeInv, HoldTypeOK, EngineEvents, BackendEvents, TextEvents
  <2>9. Missing = <<>> /\ Missing' = <<>>
    BY <1>1, <2>3, MissingAway, MissingAwayNext
  <2>10. \A v \in Places : Whole(v) = text[v] /\ Whole(v)' = text[v]
    <3> TAKE v \in Places
    <3>1. text[v] \o <<>> = text[v]
      BY <2>8
    <3>2. Whole(v)' = IF v = focus' THEN text[v] \o <<>> ELSE text[v]
      BY <2>1, <2>9 DEF Whole
    <3> QED
      BY <2>9, <3>1, <3>2 DEF Whole
  <2>11. Word \o <<>> = Word
    <3>1. PICK a : a = Word
      OBVIOUS
    <3>2. a \in Seq(Event)
      BY <1>3, <3>1
    <3> QED
      BY <3>1, <3>2
  <2>12. EndsIn(text[wFocus], Word)
    BY <2>7, <2>8, <2>10, <2>11 DEF Mirror
  <2>13. EndsIn(text[w], <<>>)
    BY <2>8, EndsNone
  <2>14. CASE w = wFocus
    BY <1>1, <1>2, <2>1, <2>7, <2>8, <2>10, <2>11, <2>12, <2>14 DEF Mirror
  <2>15. CASE w # wFocus
    BY <1>1, <1>2, <2>1, <2>7, <2>8, <2>10, <2>12, <2>13, <2>15 DEF Mirror
  <2> QED
    BY <2>14, <2>15
<1>6. CASE Click
  <2>1. inbox' = Append(inbox, ClickEvent)
    <3>1. Remember((Lost \cup (IF BetweenCheckAndInput THEN {"moved"} ELSE {}))
                     \cup (IF pc["worker"] = "refill" THEN {"raced"} ELSE {}))
      BY <1>6 DEF Click
    <3>2. ~QueueFull
      BY <3>1 DEF Remember, Lost, Calm
    <3> QED
      BY <1>6, <3>2 DEF Click, Enqueue, ClickEvent
  <2>2. W \notin {"type", "retype"}
    BY <1>6 DEF Click, Remember, Calm, BetweenCheckAndInput, W, Threads
  <2>3. ClickEvent \in Queueable /\ ClickEvent.down /\ ~ClickEvent.deferred /\ ClickEvent.n = 0
    BY DEF Queueable, ClickEvent
  <2>4. focus' = focus /\ text' = [text EXCEPT ![focus] = Append(@, 0)]
    BY <1>6 DEF Click
  <2>5. Missing = <<>> /\ Missing' = <<>>
    BY <1>1, <2>2, MissingAway, MissingAwayNext
  <2> QED
    BY <1>1, <1>2, <2>1, <2>3, <2>4, <2>5, MirrorAdds
<1> QED
  BY <1>4, <1>5, <1>6 DEF BackendStep, User

-----------------------------------------------------------------------------
(* The text and the word: the hook and the callers *)

\* An event that is no press, or a withheld one, adds nothing to what is queued.
LEMMA QueuedStays ==
    ASSUME EventInv, drained' = drained, NEW e \in Queueable, ~e.down \/ e.deferred, inbox' = Append(inbox, e)
    PROVE  Queued' = Queued
<1>1. inbox \in Seq(Queueable)
  BY StreamTypes
<1>2. Presses(Append(inbox, e)) = Presses(inbox)
  BY <1>1, PressesAdd
<1>3. Presses(drained)' = Presses(drained) /\ Presses(inbox)' = Presses(inbox)
  BY <1>2 DEF Presses
<1>4. Queued' = Presses(drained)' \o Presses(inbox)'
  BY Zenon DEF Queued
<1> QED
  BY <1>3, <1>4 DEF Queued

LEMMA MirrorHook ==
    ASSUME Stands, Mirror, EventInv', Calm', BackendStep(HookStep)
    PROVE  Mirror'
<1> USE StandsTypes
<1> Calm /\ Keys2
  BY DEF Stands
<1>0. UNCHANGED <<wFocus, drained, cur, late, strokes, pending, plan>>
  BY DEF BackendStep, engineVars, workVars, wordVars
<1>1. hook.at # "idle" /\ hook.ev \in Fresh /\ hook.ev \in Queueable /\ ~hook.ev.deferred
  <2>1. hook.at # "idle"
    BY DEF BackendStep, HookStep, HookLock, HookTrack, AnswerRelease, AnswerRepeat, AnswerPress,
       AnswerDefers, HookDefer
  <2>2. hook.ev \in Fresh
    BY <2>1 DEF EventInv, BackendEvents, HookEvents
  <2> QED
    BY <2>1, <2>2 DEF Queueable, Fresh
<1>2. focus' = focus /\ outcome' = outcome
  BY DEF BackendStep, HookStep, HookLock, HookTrack, AnswerRelease, AnswerRepeat, AnswerPress,
     AnswerDefers, HookDefer, windowVars, callerVars
<1>3. W' = W \/ (W = "sent" /\ W' = "loop")
  <2>1. UNCHANGED pc \/ Answered
    BY DEF BackendStep, HookStep, HookLock, HookTrack, AnswerRelease, AnswerRepeat, AnswerPress,
       AnswerDefers, HookDefer, callerVars
  <2> QED
    BY <1>1, <2>1, AnsweredGoes DEF W
<1>4. Word' = Word /\ Missing' = Missing
  <2>1. W' = W \/ (~AtPlan /\ ~AtPlan')
    BY <1>3 DEF AtPlan
  <2>2. Missing' = Missing
    BY <1>0, <1>3 DEF Missing
  <2> QED
    BY <1>0, <1>2, <2>1, <2>2, PartStays, WordStays
<1>5. Word \in Seq(Event)
  BY WordTypes
<1>6. Suffix(Word', Word)
  BY <1>4, <1>5, SuffixSelf
<1>7. CASE HookLock \/ HookTrack \/ AnswerRepeat \/ AnswerDefers
  <2>1. UNCHANGED <<text, inbox>>
    BY <1>7 DEF HookLock, HookTrack, AnswerRepeat, AnswerDefers, windowVars, queueVars
  <2> QED
    BY <1>0, <1>2, <1>4, <1>6, <2>1, MirrorShort
<1>8. CASE AnswerRelease
  <2>1. ~hook.ev.down /\ text' = text
    BY <1>8 DEF AnswerRelease, Reach
  <2>2. inbox' = Append(inbox, hook.ev)
    BY <1>8, RoomLeft DEF AnswerRelease, Remember, Enqueue, Lost, Calm
  <2>3. Queued' = Queued
    BY <1>0, <1>1, <2>1, <2>2, QueuedStays
  <2> QED
    BY <1>0, <1>2, <1>4, <1>6, <2>1, <2>3, MirrorLess
<1>9. CASE AnswerPress
  <2>1. hook.ev.down /\ Passing /\ text' = [text EXCEPT ![focus] = Append(@, hook.ev.n)]
    BY <1>1, <1>9 DEF AnswerPress, Passing, PassingPress, Reach
  <2>2. inbox' = Append(inbox, hook.ev)
    BY <1>9, RoomLeft DEF AnswerPress, Remember, Enqueue, Lost, Calm
  <2>3. W \notin Replacing
    BY <2>1 DEF Keys2, OneNext
  <2>4. Missing = <<>>
    BY <2>3, MissingAway DEF Replacing
  <2> QED
    BY <1>0, <1>1, <1>2, <1>4, <2>1, <2>2, <2>4, MirrorAdds
<1>10. CASE HookDefer
  <2>1. hook.ev \in ActionPress /\ text' = text
    BY <1>10 DEF HookDefer, EventInv, BackendEvents, HookEvents, windowVars
  <2>2. PICK ev : ev = [hook.ev EXCEPT !.deferred = TRUE]
    OBVIOUS
  <2>3. ev \in Queueable /\ ev.deferred
    BY <2>1, <2>2 DEF ActionPress, Press1, Fresh, Withheld, Queueable, KeyEvent
  <2>4. inbox' = Append(inbox, ev)
    BY <1>10, <2>2, RoomLeft DEF HookDefer, Remember, Enqueue, Lost, Calm
  <2>5. Queued' = Queued
    BY <1>0, <2>3, <2>4, QueuedStays
  <2> QED
    BY <1>0, <1>2, <1>4, <1>6, <2>1, <2>5, MirrorLess
<1> QED
  BY <1>7, <1>8, <1>9, <1>10 DEF BackendStep, HookStep

\* Where the worker submits an action it has no word, and nothing is queued.
LEMMA SubmitsBare ==
    ASSUME Stands, W = "submit"
    PROVE  Word = <<>> /\ Queued = <<>>
<1> USE StandsTypes
<1>1. strokes = <<>> /\ pending = <<>> /\ then["worker"] = "ready" /\ ~Executing
  <2>1. strokes = <<>> /\ pending = <<>> /\ then["worker"] = "ready"
    BY DEF Phases
  <2> QED
    BY <2>1 DEF Executing, Correcting
<1>2. plan = <<>> /\ drained = <<>> /\ cur = None
  BY <1>1 DEF Phases, AtEvent, W
<1>3. PlanPart = <<>>
  BY <1>2 DEF PlanPart
<1>4. inbox \in Seq(Queueable) /\ ~Downs(inbox)
  BY StreamTypes DEF Stands, PlaceOK
<1>5. Presses(inbox) = <<>> /\ Presses(drained) = <<>> /\ Presses(InHand) = <<>>
  BY <1>2, <1>4, PressesNone, PressesEmpty DEF InHand
<1>6. <<>> \o <<>> = <<>>
  BY EmptySeq
<1>7. Word = <<>> \o (<<>> \o (<<>> \o <<>>))
  BY <1>1, <1>3, <1>5, Zenon DEF Word
<1>8. Queued = <<>> \o <<>>
  BY <1>5, Zenon DEF Queued
<1> QED
  BY <1>6, <1>7, <1>8

LEMMA MirrorCaller ==
    ASSUME Stands, Mirror, EventInv', Calm', NEW t \in Threads,
           BackendStep(ReleaseStep(t)) \/ BackendStep(ActionStep(t))
    PROVE  Mirror'
<1> USE StandsTypes
<1> Calm
  BY DEF Stands
<1>0. t = "worker"
  BY CallerSteps DEF Stands, Routine, Threads
<1>1. UNCHANGED <<inbox, drained, cur, wFocus, strokes, pending, plan, late, focus, then>>
  BY DEF BackendStep, engineVars, workVars, wordVars, ReleaseStep, Release, LoopBehindAction, Loop, Send,
     SendFails, Finally, ActionStep, Deliver, Submit, SubmitFails, Cancel, Clear, queueVars, windowVars
<1>2. /\ W \in Routine \ {"sent"}
      /\ W' \in Routine \cup {then["worker"]}
  BY <1>0, CallerSteps DEF W, Routine
<1>3. then["worker"] \in Returns
  BY DEF HoldTypeOK, Threads
<1>4. ~AtPlan /\ ~AtPlan' /\ Missing = <<>> /\ Missing' = <<>>
  BY <1>2, <1>3, MissingAway, MissingAwayNext DEF AtPlan, Routine, Returns
<1>5. outcome' = outcome
  <2>1. ~SendFails(t)
    BY DEF SendFails, Remember, Calm
  <2> QED
    BY <2>1 DEF BackendStep, ReleaseStep, Release, LoopBehindAction, Loop, Send,
       Finally, ActionStep, Deliver, Submit, SubmitFails, Cancel, Clear
<1>6. Word' = Word
  BY <1>1, <1>4, <1>5, PartStays, WordStays
<1>7. Queued' = Queued
  BY <1>1 DEF Queued, Presses
<1>8. CASE text' = text
  <2>1. Word \in Seq(Event)
    BY WordTypes
  <2>2. Suffix(Word', Word)
    BY <1>6, <2>1, SuffixSelf
  <2> QED
    BY <1>1, <1>4, <1>8, <2>2, MirrorShort
<1>9. CASE W = "submit"
  <2>1. Word' = <<>> /\ Queued' = <<>>
    BY <1>6, <1>7, <1>9, SubmitsBare
  <2>2. /\ focus' \in Places /\ wFocus' \in Places /\ text' \in [Places -> Seq(Nat)]
    BY DEF EventInv, TypeInv, HoldTypeOK, EngineEvents, BackendEvents, TextEvents
  <2>3. \A v \in Places : Whole(v)' = text'[v]
    <3> TAKE v \in Places
    <3>1. text'[v] \o <<>> = text'[v]
      BY <2>2
    <3>2. Whole(v)' = IF v = focus' THEN text'[v] \o <<>> ELSE text'[v]
      BY <1>4 DEF Whole
    <3> QED
      BY <3>1, <3>2
  <2>4. EndsIn(Whole(focus), <<>>)' /\ EndsIn(Whole(wFocus), <<>>)'
    <3>1. EndsIn(text'[focus'], <<>>) /\ EndsIn(text'[wFocus'], <<>>)
      BY <2>2, EndsNone
    <3> QED
      BY <2>2, <2>3, <3>1
  <2>5. <<>> \o <<>> = <<>>
    BY EmptySeq
  <2> QED
    BY <2>1, <2>4, <2>5 DEF Mirror
<1>10. text' = text \/ W = "submit"
  <2>1. hooked
    BY DEF Stands
  <2> QED
    BY <1>0, <2>1 DEF BackendStep, ReleaseStep, Release, LoopBehindAction, Loop, Send, SendFails,
       Finally, ActionStep, Deliver, Submit, SubmitFails, Cancel, Clear, windowVars, W
<1> QED
  BY <1>8, <1>9, <1>10

-----------------------------------------------------------------------------
(* The text and the word: the event in hand *)

LEMMA NoneBefore ==
    ASSUME NEW a \in Seq(Event)
    PROVE  <<>> \o a = a /\ a \o <<>> = a
OBVIOUS

\* The word while there is no event in hand, and while there is no plan.
LEMMA WordParts ==
    /\ EventInv /\ cur = None => Word = PlanPart \o (pending \o strokes)
    /\ EventInv /\ PlanPart = <<>> => Word = pending \o (strokes \o Presses(InHand))
<1>1. ASSUME EventInv, cur = None
      PROVE  Word = PlanPart \o (pending \o strokes)
  <2>1. Presses(InHand) = <<>>
    BY <1>1, PressesEmpty DEF InHand
  <2>2. strokes \in Seq(Event)
    BY <1>1, WordTypes
  <2>3. strokes \o <<>> = strokes
    BY <2>2
  <2> QED
    BY <2>1, <2>3 DEF Word
<1>2. ASSUME EventInv, PlanPart = <<>>
      PROVE  Word = pending \o (strokes \o Presses(InHand))
  <2>1. PICK h : h = Presses(InHand)
    OBVIOUS
  <2>2. pending \in Seq(Event) /\ strokes \in Seq(Event) /\ h \in Seq(Event)
    BY <1>2, <2>1, WordTypes
  <2>3. pending \o (strokes \o h) \in Seq(Event)
    BY <2>2
  <2>4. <<>> \o (pending \o (strokes \o h)) = pending \o (strokes \o h)
    BY <2>3
  <2> QED
    BY <1>2, <2>1, <2>4 DEF Word
<1> QED
  BY <1>1, <1>2

LEMMA WordPartsNext ==
    (/\ EventInv /\ cur = None => Word = PlanPart \o (pending \o strokes)
     /\ EventInv /\ PlanPart = <<>> => Word = pending \o (strokes \o Presses(InHand)))'
BY WordParts, PTL

\* A word that was forgotten.
LEMMA WordGone ==
    ASSUME EventInv, PlanPart = <<>>, pending = <<>>, strokes = <<>>, cur = None
    PROVE  Word = <<>>
<1>1. <<>> \o (<<>> \o <<>>) = <<>>
  BY EmptySeq
<1> QED
  BY <1>1, WordParts

LEMMA WordGoneNext ==
    (EventInv /\ PlanPart = <<>> /\ pending = <<>> /\ strokes = <<>> /\ cur = None => Word = <<>>)'
<1>1. EventInv /\ PlanPart = <<>> /\ pending = <<>> /\ strokes = <<>> /\ cur = None => Word = <<>>
  BY WordGone
<1> QED
  BY <1>1, PTL

\* A step that forgets the word.
LEMMA MirrorForgets ==
    ASSUME EventInv, EventInv', Mirror, UNCHANGED <<text, focus, drained, inbox>>, Missing' = Missing,
           Word' = <<>>, wFocus' \in {focus, wFocus}
    PROVE  Mirror'
<1>0. Queued' = Queued
  BY DEF Queued, Presses
<1>1. Word \in Seq(Event) /\ Queued \in Seq(Event)
  BY WordTypes
<1>2. Suffix(Word', Word)
  BY <1>1, SuffixNone
<1>3. CASE wFocus' = wFocus
  BY <1>2, <1>3, MirrorShort
<1>4. CASE wFocus' = focus
  <2>1. \A w \in Places : Whole(w)' = Whole(w)
    BY DEF Whole
  <2>2. focus \in Places
    BY DEF EventInv, TypeInv, HoldTypeOK
  <2>3. EndsIn(Whole(focus), Queued)
    <3>1. PICK a : a = Word
      OBVIOUS
    <3>2. PICK c : c = Queued
      OBVIOUS
    <3>3. a \in Seq(Event) /\ c \in Seq(Event) /\ a \o c \in Seq(Event)
      BY <1>1, <3>1, <3>2
    <3>4. CASE focus = wFocus
      <4>1. EndsIn(Whole(focus), a \o c)
        BY <3>1, <3>2, <3>4 DEF Mirror
      <4>2. Suffix(c, a \o c)
        BY <3>3, SuffixOf
      <4> QED
        BY <3>2, <3>3, <4>1, <4>2, EndsLess
    <3>5. CASE focus # wFocus
      BY <3>5 DEF Mirror
    <3> QED
      BY <3>4, <3>5
  <2>4. <<>> \o Queued = Queued
    <3>1. PICK c : c = Queued
      OBVIOUS
    <3>2. c \in Seq(Event)
      BY <1>1, <3>1
    <3> QED
      BY <3>1, <3>2
  <2>5. EndsIn(Whole(focus)', Word' \o Queued')
    BY <1>0, <2>1, <2>2, <2>3, <2>4
  <2> QED
    BY <1>4, <2>5 DEF Mirror
<1> QED
  BY <1>3, <1>4

\* The next event is in hand.
LEMMA MirrorGet ==
    ASSUME Stands, Mirror, EventInv', GetEvent
    PROVE  Mirror'
<1> USE StandsTypes
<1>0. W = "ready" /\ inbox # <<>> /\ cur' = Head(inbox) /\ inbox' = Tail(inbox)
  BY DEF GetEvent, Ready, W
<1>1. UNCHANGED <<focus, text, drained, plan>>
  BY DEF GetEvent, hiddenVars, quietVars, windowVars, workVars
<1>2. drained = <<>> /\ cur = None /\ plan = <<>>
  BY <1>0 DEF Phases, AtEvent, W, Routine, Executing, Correcting
<1>3. PICK e : e = Head(inbox)
  OBVIOUS
<1>4. PICK t : t = Tail(inbox)
  OBVIOUS
<1>5. inbox \in Seq(Queueable) /\ e \in Queueable /\ t \in Seq(Queueable) /\ <<e>> \in Seq(Queueable)
      /\ inbox = <<e>> \o t /\ e # None
  <2>1. inbox \in Seq(Queueable)
    BY StreamTypes
  <2>2. e \in Queueable /\ t \in Seq(Queueable) /\ <<e>> \in Seq(Queueable) /\ inbox = <<e>> \o t
    BY <1>0, <1>3, <1>4, <2>1, HeadFirst
  <2> QED
    BY <2>1, <2>2, EventKinds
<1>6. PICK p : p = Presses(<<e>>)
  OBVIOUS
<1>7. PICK q : q = Presses(t)
  OBVIOUS
<1>8. p \in Seq(Event) /\ q \in Seq(Event) /\ Presses(inbox) = p \o q
  <2>1. PICK o : o = <<e>>
    OBVIOUS
  <2>2. Presses(o \o t) = Presses(o) \o Presses(t) /\ Presses(o) \in Seq(Event) /\ Presses(t) \in Seq(Event)
    BY <1>5, <2>1, PressesConcat, PressesTypes
  <2> QED
    BY <1>5, <1>6, <1>7, <2>1, <2>2
<1>9. W' \in {"handle", "cancel"}
  BY DEF GetEvent, Worker, Call, HoldTypeOK, W, Threads
<1>10. PlanPart = <<>> /\ PlanPart' = <<>> /\ Missing = <<>> /\ Missing' = <<>>
  BY <1>0, <1>1, <1>2, <1>9, MissingAway, MissingAwayNext DEF PlanPart
<1>11. Queued = p \o q /\ Queued' = q
  <2>1. Presses(drained) = <<>> /\ Presses(drained)' = <<>>
    BY <1>1, <1>2, PressesEmpty DEF Presses
  <2>2. Presses(inbox)' = q
    BY <1>0, <1>4, <1>7 DEF Presses
  <2>3. Queued = <<>> \o (p \o q)
    BY <1>8, <2>1, Zenon DEF Queued
  <2>4. Queued' = <<>> \o q
    BY <2>1, <2>2, Zenon DEF Queued
  <2>5. p \o q \in Seq(Event)
    BY <1>8
  <2> QED
    BY <1>8, <2>3, <2>4, <2>5, NoneBefore
<1>12. PICK a : a = pending
  OBVIOUS
<1>13. PICK s : s = strokes
  OBVIOUS
<1>14. a \in Seq(Event) /\ s \in Seq(Event) /\ a \o s \in Seq(Event)
  <2>1. a \in Seq(Event) /\ s \in Seq(Event)
    BY <1>12, <1>13, WordTypes
  <2> QED
    BY <2>1
<1>15. Word = a \o s
  <2>1. Word = <<>> \o (a \o s)
    BY <1>2, <1>10, <1>12, <1>13, WordParts
  <2> QED
    BY <1>14, <2>1
<1>16. Presses(InHand)' = p
  <2>1. InHand' = <<e>>
    BY <1>0, <1>3, <1>5 DEF InHand
  <2> QED
    BY <1>6, <2>1 DEF Presses
<1>17. Word' = pending' \o (strokes' \o p)
  BY <1>10, <1>16, WordPartsNext
<1>18. \A w \in Places : Whole(w)' = Whole(w)
  BY <1>1, <1>10 DEF Whole
<1>19. focus \in Places /\ wFocus \in Places
  BY DEF EventInv, TypeInv, HoldTypeOK, EngineEvents
<1>20. ~overflow /\ focus # OwnWindow
  BY DEF Stands, Windowed
<1>21. CASE e.down /\ FocusChanged
  <2>1. wFocus' = focus /\ pending' = <<>> /\ strokes' = <<>>
    BY <1>3, <1>21 DEF GetEvent, NoWord
  <2>2. Word' = p
    <3>1. <<>> \o (<<>> \o p) = p
      BY <1>8
    <3> QED
      BY <1>17, <2>1, <3>1
  <2>3. focus # wFocus
    BY <1>21 DEF FocusChanged
  <2>4. EndsIn(Whole(focus), p \o q)
    BY <1>11, <2>3 DEF Mirror
  <2> QED
    BY <1>1, <1>11, <1>18, <1>19, <2>1, <2>2, <2>4 DEF Mirror
<1>22. CASE ~(e.down /\ FocusChanged)
  <2>1. wFocus' = wFocus /\ pending' = a /\ strokes' = s
    BY <1>3, <1>12, <1>13, <1>20, <1>22 DEF GetEvent, wordVars
  <2>2. Word' = a \o (s \o p)
    BY <1>17, <2>1
  <2>3. CASE focus = wFocus
    <3>1. EndsIn(Whole(focus), (a \o s) \o (p \o q))
      BY <1>11, <1>15, <2>3 DEF Mirror
    <3>2. (a \o s) \o (p \o q) = (a \o (s \o p)) \o q
      <4>1. s \o p \in Seq(Event) /\ p \o q \in Seq(Event) /\ a \o (s \o p) = (a \o s) \o p
        BY <1>8, <1>14
      <4>2. ((a \o s) \o p) \o q = (a \o s) \o (p \o q)
        BY <1>8, <1>14
      <4> QED
        BY <4>1, <4>2
    <3> QED
      BY <1>1, <1>11, <1>18, <1>19, <2>1, <2>2, <2>3, <3>1, <3>2 DEF Mirror
  <2>4. CASE focus # wFocus
    <3>1. ~e.down
      BY <1>20, <1>22, <2>4 DEF FocusChanged
    <3>2. p = <<>>
      BY <1>5, <1>6, <3>1, PressesOne
    <3>3. Word' = Word /\ Queued' = Queued
      <4>1. s \o <<>> = s /\ <<>> \o q = q
        BY <1>8, <1>14
      <4> QED
        BY <1>11, <1>15, <2>2, <3>2, <4>1
    <3> QED
      BY <1>1, <1>18, <1>19, <2>1, <2>4, <3>3 DEF Mirror
  <2> QED
    BY <2>3, <2>4
<1> QED
  BY <1>21, <1>22

-----------------------------------------------------------------------------
(* The text and the word: the handlers, the timers and the ends of a correction *)

\* The handlers know their event, and no plan.
LEMMA HandledWord ==
    ASSUME Stands, HandleEvent, EventInv'
    PROVE  /\ W = "handle" /\ cur \in Queueable /\ cur' = None /\ plan = <<>>
           /\ UNCHANGED <<text, focus, wFocus, drained, inbox>>
           /\ Word = pending \o (strokes \o Presses(<<cur>>))
           /\ Word' = PlanPart' \o (pending' \o strokes')
           /\ pending \in Seq(Event) /\ strokes \in Seq(Event) /\ cur \in Event
           /\ Presses(<<cur>>) = IF cur.down /\ ~cur.deferred THEN <<cur>> ELSE <<>>
<1> USE StandsTypes
<1>1. W = "handle"
  BY DEF HandleEvent, HandlePointer, HandleSuspended, HandlePromptEnter, HandleLetter,
     HandleBoundary, HandleAction, HandleDelivered, HandleRelease, Handles, W
<1>2. UNCHANGED <<text, focus, wFocus, drained, inbox>> /\ cur' = None
  BY DEF HandleEvent, HandlePointer, HandleSuspended, HandlePromptEnter, HandleLetter,
     HandleBoundary, HandleAction, HandleDelivered, HandleRelease, Done, handled, hiddenVars, quietVars,
     windowVars, queueVars
<1>3. cur \in Queueable /\ cur # None
  BY <1>1, CurKinds, EventKinds DEF W
<1>4. plan = <<>>
  BY <1>1 DEF Phases, Executing, Correcting, Routine
<1>5. PlanPart = <<>>
  BY <1>1, <1>4 DEF PlanPart
<1>6. InHand = <<cur>>
  BY <1>3 DEF InHand
<1>7. Word = pending \o (strokes \o Presses(<<cur>>))
  BY <1>5, <1>6, WordParts
<1>8. Word' = PlanPart' \o (pending' \o strokes')
  BY <1>2, WordPartsNext
<1> QED
  BY <1>1, <1>2, <1>3, <1>4, <1>7, <1>8, WordTypes, PressesOne, EventKinds

LEMMA MirrorHandle ==
    ASSUME Stands, Mirror, EventInv', HandleEvent
    PROVE  Mirror'
<1> USE StandsTypes
<1>1. /\ W = "handle" /\ cur \in Queueable /\ cur' = None /\ plan = <<>>
      /\ UNCHANGED <<text, focus, wFocus, drained, inbox>>
      /\ Word = pending \o (strokes \o Presses(<<cur>>))
      /\ Word' = PlanPart' \o (pending' \o strokes')
      /\ pending \in Seq(Event) /\ strokes \in Seq(Event) /\ cur \in Event
      /\ Presses(<<cur>>) = IF cur.down /\ ~cur.deferred THEN <<cur>> ELSE <<>>
  BY HandledWord
<1>2. PICK h : h = Presses(<<cur>>)
  OBVIOUS
<1>3. h \in Seq(Event) /\ strokes \o h \in Seq(Event) /\ pending \o strokes \in Seq(Event)
  <2>1. PICK o : o = <<cur>>
    OBVIOUS
  <2>2. o \in Seq(Event) /\ <<>> \in Seq(Event)
    BY <1>1, <2>1, EmptySeq
  <2>3. h \in Seq(Event)
    BY <1>1, <1>2, <2>1, <2>2
  <2> QED
    BY <1>1, <2>3
<1>4. Missing = <<>>
  BY <1>1, MissingAway
\* A handler's step is done when the word has lost nothing but its beginning.
<1>5. ASSUME W' \notin {"type", "retype"}, Suffix(Word', Word)
      PROVE  Mirror'
  BY <1>1, <1>4, <1>5, MissingAwayNext, MirrorShort
<1>6. ASSUME W' \notin {"type", "retype"}, Word' = <<>>
      PROVE  Mirror'
  BY <1>5, <1>6, WordTypes, SuffixNone
\* The plan is none where no correction begins.
<1>7. ASSUME plan' = plan, W' \in {"ready", "cancel", "deliver"}
      PROVE  Word' = pending' \o strokes' /\ W' \notin {"type", "retype"}
  <2>1. PlanPart' = <<>>
    BY <1>1, <1>7 DEF PlanPart
  <2>2. pending' \in Seq(Event) /\ strokes' \in Seq(Event)
    <3>1. Press1 \subseteq Event
      BY EventKinds
    <3> QED
      BY <3>1, SubsetSeq DEF EventInv, WordEvents
  <2>3. <<>> \o (pending' \o strokes') = pending' \o strokes'
    BY <2>2
  <2> QED
    BY <1>1, <1>7, <2>1, <2>3
<1>8. <<>> \o <<>> = <<>>
  BY EmptySeq
<1>9. ASSUME plan' = plan, W' \in {"ready", "cancel", "deliver"}, pending' = <<>>, strokes' = <<>>
      PROVE  Mirror'
  BY <1>6, <1>7, <1>8, <1>9
<1>10. ASSUME plan' = plan, W' \in {"ready", "cancel", "deliver"}, UNCHANGED <<pending, strokes>>, h = <<>>
       PROVE  Mirror'
  <2>1. strokes \o <<>> = strokes
    BY <1>1
  <2>2. Word' = Word
    BY <1>1, <1>2, <1>7, <1>10, <2>1
  <2> QED
    BY <1>5, <1>7, <1>10, <2>2, WordTypes, SuffixSelf
<1>11. CASE HandlePointer \/ HandleDelivered
  <2>1. ClearWord("ready") /\ plan' = plan
    BY <1>11 DEF HandlePointer, HandleDelivered
  <2>2. strokes' = <<>> /\ pending' = <<>> /\ W' \in {"ready", "cancel"}
    BY <2>1, ClearWordGoes
  <2> QED
    BY <1>9, <2>1, <2>2
<1>12. CASE HandlePromptEnter
  <2>1. W' = "cancel" /\ UNCHANGED <<plan, pending, strokes>> /\ cur.deferred
    BY <1>12 DEF HandlePromptEnter, Call, Worker, HoldTypeOK, Threads, W, wordVars
  <2> QED
    BY <1>1, <1>2, <1>10, <2>1
<1>13. CASE HandleLetter
  <2>1. W' = "ready" /\ UNCHANGED <<plan, pending>> /\ cur.down /\ cur.key \in Letters
    BY <1>13 DEF HandleLetter, Worker, IsLetterPress, HoldTypeOK, Threads, W
  <2>2. CASE untracked
    <3>1. strokes' = <<>> /\ pending' = <<>>
      BY <1>13, <2>1, <2>2 DEF HandleLetter, Phases
    <3> QED
      BY <1>9, <2>1, <3>1
  <2>3. CASE ~untracked
    <3>1. strokes' = Append(strokes, cur)
      BY <1>13, <2>3 DEF HandleLetter
    <3>2. ~cur.deferred
      BY <1>1, <2>1, QueueKinds, KeysAssumption
    <3>3. Append(strokes, cur) = strokes \o <<cur>>
      BY <1>1
    <3>4. Word' = Word
      BY <1>1, <1>7, <2>1, <3>1, <3>2, <3>3
    <3> QED
      BY <1>5, <2>1, <3>4, WordTypes, SuffixSelf
  <2> QED
    BY <2>2, <2>3
<1>14. CASE HandleBoundary
  <2>1. W' = "ready" /\ plan' = plan /\ cur.down /\ cur.key \in Boundaries
    BY <1>14 DEF HandleBoundary, Worker, HoldTypeOK, Threads, W
  <2>2. ~cur.deferred
    BY <1>1, <2>1, QueueKinds, KeysAssumption
  <2>3. CASE untracked
    <3>1. strokes' = <<>> /\ pending' = <<>>
      BY <1>14, <2>3 DEF HandleBoundary, Phases, wordVars
    <3> QED
      BY <1>9, <2>1, <3>1
  <2>4. CASE ~untracked /\ strokes # <<>>
    <3>1. pending' \in {<<>>, strokes \o <<cur>>} /\ strokes' = <<>>
      BY <1>14, <2>4 DEF HandleBoundary, Commit, Decided
    <3>2. h = <<cur>>
      BY <1>1, <1>2, <2>1, <2>2
    <3>3. CASE pending' = <<>>
      BY <1>9, <2>1, <3>1, <3>3
    <3>4. CASE pending' = strokes \o h
      <4>1. (strokes \o h) \o <<>> = strokes \o h
        BY <1>3
      <4>2. Word' = strokes \o h
        BY <1>7, <2>1, <3>1, <3>4, <4>1
      <4>3. Suffix(strokes \o h, pending \o (strokes \o h))
        BY <1>1, <1>3, SuffixOf
      <4> QED
        BY <1>1, <1>2, <1>5, <2>1, <4>2, <4>3
    <3> QED
      BY <3>1, <3>2, <3>3, <3>4
  <2>5. CASE ~untracked /\ strokes = <<>>
    <3>1. strokes' = <<>> /\ pending' = <<>>
      BY <1>14, <2>5 DEF HandleBoundary
    <3> QED
      BY <1>9, <2>1, <3>1
  <2> QED
    BY <2>3, <2>4, <2>5
<1>15. CASE HandleAction
  <2>1. W' = "ready" /\ plan' = plan /\ cur.deferred
    BY <1>15 DEF HandleAction, Worker, HoldTypeOK, Threads, W
  <2>2. h = <<>>
    BY <1>1, <1>2, <2>1
  <2>3. CASE strokes # <<>> /\ ~untracked
    <3>1. pending' \in {<<>>, strokes \o <<>>} /\ strokes' = <<>>
      BY <1>15, <2>3 DEF HandleAction, Commit, Decided
    <3>2. strokes \o <<>> = strokes
      BY <1>1
    <3>3. CASE pending' = <<>>
      BY <1>9, <2>1, <3>1, <3>3
    <3>4. CASE pending' = strokes
      <4>1. Word' = strokes /\ Word = pending \o strokes
        BY <1>1, <1>2, <1>7, <2>1, <2>2, <3>1, <3>2, <3>4
      <4>2. Suffix(strokes, pending \o strokes)
        BY <1>1, SuffixOf
      <4> QED
        BY <1>5, <2>1, <4>1, <4>2
    <3> QED
      BY <3>1, <3>2, <3>3, <3>4
  <2>4. CASE ~(strokes # <<>> /\ ~untracked)
    <3>1. UNCHANGED <<pending, strokes>>
      BY <1>15, <2>4 DEF HandleAction, wordVars
    <3> QED
      BY <1>10, <2>1, <2>2, <3>1
  <2> QED
    BY <2>3, <2>4
<1>16. CASE HandleRelease
  <2>1. MaybeExecute(wPressed') /\ ~cur.down
    BY <1>16 DEF HandleRelease
  <2>2. h = <<>>
    BY <1>1, <1>2, <2>1
  <2>3. CASE W' = "ready" /\ UNCHANGED <<strokes, pending, plan>>
    BY <1>10, <2>2, <2>3
  <2>4. CASE W' = "focus" /\ plan' = pending /\ pending' = <<>> /\ strokes' = strokes
    <3>1. PlanPart' = pending
      BY <2>4 DEF PlanPart
    <3>2. <<>> \o strokes = strokes /\ strokes \o <<>> = strokes
      BY <1>1
    <3>3. Word' = Word
      BY <1>1, <1>2, <2>2, <2>4, <3>1, <3>2
    <3> QED
      BY <1>5, <2>4, <3>3, WordTypes, SuffixSelf
  <2>5. CASE W' = "deliver" /\ plan' = plan /\ strokes' = <<>> /\ pending' = <<>>
    BY <1>9, <2>5
  <2> QED
    BY <2>1, <2>3, <2>4, <2>5, MaybeExecuteGoes
<1>17. ~HandleSuspended
  BY DEF HandleSuspended, Stands, Windowed
<1> QED
  BY <1>11, <1>12, <1>13, <1>14, <1>15, <1>16, <1>17 DEF HandleEvent

-----------------------------------------------------------------------------

LEMMA MirrorTimers ==
    ASSUME Stands, Mirror, EventInv', ExpireAction \/ PollCurrentGroup \/ PauseCorrect
    PROVE  Mirror'
<1> USE StandsTypes
<1>0. W = "ready"
  BY DEF ExpireAction, PollCurrentGroup, PauseCorrect, Idle, Ready, W
<1>1. UNCHANGED <<focus, text, drained, inbox, cur>>
  BY DEF ExpireAction, PollCurrentGroup, PauseCorrect, timed, hiddenVars, quietVars, windowVars, queueVars
<1>2. cur = None /\ plan = <<>> /\ cur' = None
  BY <1>0, <1>1 DEF Phases, AtEvent, W, Routine, Executing, Correcting
<1>3. PlanPart = <<>> /\ Missing = <<>>
  BY <1>0, <1>2, MissingAway DEF PlanPart
<1>4. pending \in Seq(Event) /\ strokes \in Seq(Event) /\ pending \o strokes \in Seq(Event)
  <2>1. pending \in Seq(Event) /\ strokes \in Seq(Event)
    BY WordTypes
  <2> QED
    BY <2>1
<1>5. Word = pending \o strokes
  <2>1. <<>> \o (pending \o strokes) = pending \o strokes
    BY <1>4
  <2> QED
    BY <1>2, <1>3, <2>1, WordParts
<1>6. Word' = PlanPart' \o (pending' \o strokes')
  BY <1>2, WordPartsNext
<1>7. CASE ClearWord("ready") /\ plan' = plan /\ wFocus' \in {focus, wFocus}
  <2>1. strokes' = <<>> /\ pending' = <<>> /\ W' \in {"ready", "cancel"}
    BY <1>7, ClearWordGoes
  <2>2. PlanPart' = <<>> /\ Missing' = <<>>
    BY <1>2, <1>7, <2>1, MissingAwayNext DEF PlanPart
  <2>3. Word' = <<>>
    BY <1>2, <2>1, <2>2, WordGoneNext
  <2> QED
    BY <1>1, <1>3, <1>7, <2>2, <2>3, MirrorForgets
<1>8. ASSUME wFocus' = wFocus, Word' = Word, W' \notin {"type", "retype"}
      PROVE  Mirror'
  BY <1>1, <1>3, <1>8, WordTypes, SuffixSelf, MissingAwayNext, MirrorShort
<1>9. ASSUME wFocus' = wFocus, W' = "ready", UNCHANGED <<strokes, pending, plan>>
      PROVE  Mirror'
  <2>1. PlanPart' = <<>>
    BY <1>2, <1>9 DEF PlanPart
  <2>2. <<>> \o (pending \o strokes) = pending \o strokes
    BY <1>4
  <2> QED
    BY <1>5, <1>6, <1>8, <1>9, <2>1, <2>2
<1>10. CASE MaybeExecute({}) /\ wFocus' = wFocus
  <2>1. CASE W' = "ready" /\ UNCHANGED <<strokes, pending, plan>>
    BY <1>9, <1>10, <2>1
  <2>2. CASE W' = "focus" /\ plan' = pending /\ pending' = <<>> /\ strokes' = strokes
    <3>1. PlanPart' = pending
      BY <2>2 DEF PlanPart
    <3>2. <<>> \o strokes = strokes
      BY <1>4
    <3> QED
      BY <1>5, <1>6, <1>8, <1>10, <2>2, <3>1, <3>2
  <2>3. CASE W' = "deliver" /\ plan' = plan /\ strokes' = <<>> /\ pending' = <<>>
    <3>1. PlanPart' = <<>> /\ Missing' = <<>>
      BY <1>2, <2>3, MissingAwayNext DEF PlanPart
    <3>2. Word' = <<>>
      BY <1>2, <2>3, <3>1, WordGoneNext
    <3> QED
      BY <1>1, <1>3, <1>10, <3>1, <3>2, MirrorForgets
  <2> QED
    BY <1>10, <2>1, <2>2, <2>3, MaybeExecuteGoes
<1>11. CASE PauseCorrect
  <2>1. pending' = pending /\ wFocus' = wFocus
    BY <1>11 DEF PauseCorrect
  <2>2. CASE wPressed' # {} \/ pending # <<>>
    <3>1. W' = "ready" /\ UNCHANGED <<strokes, plan>>
      BY <1>11, <2>2 DEF PauseCorrect, Worker, HoldTypeOK, Threads, W
    <3> QED
      BY <1>9, <2>1, <3>1
  <2>3. CASE ~(wPressed' # {} \/ pending # <<>>)
    <3>1. plan' \in {<<>>, strokes}
      BY <1>11, <2>3 DEF PauseCorrect, Decided
    <3>2. CASE plan' = <<>>
      <4>1. W' = "ready" /\ UNCHANGED <<strokes, plan>>
        BY <1>2, <1>11, <2>3, <3>2 DEF PauseCorrect, Worker, HoldTypeOK, Threads, W
      <4> QED
        BY <1>9, <2>1, <4>1
    <3>3. CASE plan' # <<>>
      <4>1. W' = "focus" /\ strokes' = <<>> /\ plan' = strokes
        BY <1>11, <2>3, <3>1, <3>3 DEF PauseCorrect, Call, Worker, HoldTypeOK, Threads, W
      <4>2. PlanPart' = strokes
        BY <4>1 DEF PlanPart
      <4>3. <<>> \o <<>> = <<>> /\ strokes \o <<>> = strokes /\ <<>> \o strokes = strokes
        BY <1>4, EmptySeq
      <4>4. Word' = strokes /\ Word = strokes
        BY <1>5, <1>6, <2>1, <2>3, <4>1, <4>2, <4>3
      <4> QED
        BY <1>8, <2>1, <4>1, <4>4
    <3> QED
      BY <3>2, <3>3
  <2> QED
    BY <2>2, <2>3
<1>12. CASE PollCurrentGroup
  BY <1>7, <1>12 DEF PollCurrentGroup
<1>13. CASE ExpireAction
  BY <1>7, <1>10, <1>13 DEF ExpireAction
<1> QED
  BY <1>11, <1>12, <1>13

LEMMA MirrorFocus ==
    ASSUME Stands, Mirror, Settled, EventInv', CheckFocus \/ FieldRefuses \/ Landed
    PROVE  Mirror'
<1> USE StandsTypes
<1>0. W \in {"focus", "landed", "acted"}
  BY DEF CheckFocus, FieldRefuses, Landed, W
<1>1. UNCHANGED <<focus, text, drained, inbox, cur>>
  BY DEF CheckFocus, FieldRefuses, Landed, handled, hiddenVars, quietVars, windowVars, queueVars
<1>2. cur = None /\ pending = <<>> /\ Executing /\ cur' = None
  BY <1>0, <1>1 DEF Phases, AtEvent, W, Routine, Executing
<1>3. Missing = <<>>
  BY <1>0, MissingAway
<1>4. plan \in Seq(Event) /\ strokes \in Seq(Event) /\ PlanPart \in Seq(Event)
  BY WordTypes
<1>5. Word = PlanPart \o strokes
  <2>1. <<>> \o strokes = strokes
    BY <1>4
  <2> QED
    BY <1>2, <2>1, WordParts
<1>6. Word' = PlanPart' \o (pending' \o strokes')
  BY <1>2, WordPartsNext
<1>7. CASE NoWord /\ plan' = <<>> /\ wFocus' \in {focus, wFocus} /\ W' \in {"ready", "cancel", "deliver"}
  <2>1. strokes' = <<>> /\ pending' = <<>>
    BY <1>7 DEF NoWord
  <2>2. PlanPart' = <<>> /\ Missing' = <<>>
    BY <1>7, MissingAwayNext DEF PlanPart
  <2>3. Word' = <<>>
    BY <1>2, <2>1, <2>2, WordGoneNext
  <2> QED
    BY <1>1, <1>3, <1>7, <2>2, <2>3, MirrorForgets
<1>8. CASE ClearWord("ready") /\ plan' = <<>> /\ wFocus' \in {focus, wFocus}
  <2>1. W' \in {"ready", "cancel"} /\ NoWord
    BY <1>8, ClearWordGoes DEF ClearWord
  <2> QED
    BY <1>7, <1>8, <2>1
<1>9. CASE W = "focus" /\ W' = "hold" /\ UNCHANGED <<plan, late, strokes, pending, wFocus>>
  <2>1. PlanPart' = PlanPart
    BY <1>9 DEF PlanPart
  <2>2. Word' = Word
    BY <1>1, <1>9, <2>1, WordStays
  <2> QED
    BY <1>1, <1>3, <1>9, <2>2, WordTypes, SuffixSelf, MissingAwayNext, MirrorShort
<1>10. CASE CheckFocus \/ FieldRefuses
  <2>1. CASE FieldRefuses
    BY <1>8, <2>1 DEF FieldRefuses, handled
  <2>2. CASE CheckFocus /\ (FocusChanged \/ overflow)
    BY <1>8, <2>2 DEF CheckFocus
  <2>3. CASE CheckFocus /\ ~(FocusChanged \/ overflow)
    <3>1. W = "focus" /\ W' = "hold" /\ UNCHANGED <<plan, late, strokes, pending, wFocus>>
      BY <2>3 DEF CheckFocus, Worker, HoldTypeOK, Threads, W, wordVars
    <3> QED
      BY <1>9, <3>1
  <2> QED
    BY <1>10, <2>1, <2>2, <2>3
<1>11. CASE Landed
  <2>1. wFocus' = wFocus /\ plan' = <<>> /\ W \in {"landed", "acted"}
    BY <1>11 DEF Landed, W
  <2>2. CASE pc["worker"] = "acted" /\ wDeferred # None
    <3>1. NoWord /\ W' \in {"deliver", "cancel"}
      BY <1>11, <2>2 DEF Landed, Call, Worker, HoldTypeOK, Threads, W
    <3> QED
      BY <1>7, <2>1, <3>1
  <2>3. CASE ClearWord("ready")
    BY <1>8, <2>1, <2>3
  <2>4. CASE Worker("ready") /\ WordGoesOn /\ pending' = pending /\ outcome["worker"] # "failed"
    <3>1. W' = "ready"
      BY <2>4 DEF Worker, HoldTypeOK, Threads, W
    <3>2. PlanPart = plan /\ PlanPart' = <<>>
      BY <2>1, <2>4, <3>1 DEF PlanPart
    <3>3. strokes' \in Seq(Event)
      <4>1. Press1 \subseteq Event
        BY EventKinds
      <4> QED
        BY <4>1, SubsetSeq DEF EventInv, WordEvents
    <3>4. Word' = strokes' /\ Word = plan \o strokes
      <4>1. <<>> \o strokes' = strokes'
        BY <3>3
      <4> QED
        BY <1>2, <1>5, <1>6, <2>4, <3>2, <4>1
    <3>5. CASE strokes' = strokes
      <4>1. Suffix(strokes, plan \o strokes)
        BY <1>4, SuffixOf
      <4> QED
        BY <1>1, <1>3, <2>1, <3>1, <3>4, <3>5, <4>1, MissingAwayNext, MirrorShort
    <3>6. CASE strokes' = plan /\ outcome["worker"] = "yes"
      <4>1. strokes = <<>>
        BY <1>2, <2>1, <3>6 DEF Settled
      <4>2. plan \o <<>> = plan
        BY <1>4
      <4> QED
        BY <1>1, <1>3, <2>1, <3>1, <3>4, <3>6, <4>1, <4>2, WordTypes, SuffixSelf, MissingAwayNext, MirrorShort
    <3>7. strokes' = strokes \/ (strokes' = plan /\ outcome["worker"] = "yes")
      BY <2>4 DEF WordGoesOn
    <3> QED
      BY <3>5, <3>6, <3>7
  <2> QED
    BY <1>11, <2>2, <2>3, <2>4 DEF Landed, W
<1> QED
  BY <1>10, <1>11

-----------------------------------------------------------------------------
(* The text and the word: the steps of a correction up to its input *)

LEMMA MirrorCollects ==
    ASSUME Stands, Mirror, EventInv', HoldInput \/ CollectLate
    PROVE  Mirror'
<1> USE StandsTypes
<1>1. /\ W \in {"hold", "collect"} /\ W' \in {"collect", "refill"}
      /\ UNCHANGED <<focus, text, wFocus, plan, late, pending, strokes, cur>>
  BY DEF HoldInput, CollectLate, Worker, windowVars, engineVars, wordVars, workVars, HoldTypeOK, Threads, W
<1>2. Missing = <<>> /\ Missing' = <<>>
  BY <1>1, MissingAway, MissingAwayNext
<1>3. PlanPart' = PlanPart
  BY <1>1 DEF PlanPart
<1>4. Word' = Word
  BY <1>1, <1>3, WordStays
<1>5. Suffix(Word', Word)
  BY <1>4, WordTypes, SuffixSelf
<1>6. CASE HoldInput
  <2>1. UNCHANGED <<drained, inbox>>
    BY <1>6 DEF HoldInput, queueVars, engineVars, workVars
  <2> QED
    BY <1>1, <1>2, <1>5, <2>1, MirrorShort
<1>7. CASE CollectLate
  <2>1. W = "collect" /\ drained' = inbox /\ inbox' = <<>>
    BY <1>7 DEF CollectLate, W
  <2>2. drained = <<>>
    BY <2>1 DEF Phases
  <2>3. PICK q : q = Presses(inbox)
    OBVIOUS
  <2>4. q \in Seq(Event)
    BY <2>3, StreamTypes, PressesTypes
  <2>5. Presses(drained) = <<>> /\ Presses(inbox)' = <<>> /\ Presses(drained)' = q
    BY <2>1, <2>2, <2>3, PressesEmpty DEF Presses
  <2>6. Queued = <<>> \o q
    BY <2>3, <2>5, Zenon DEF Queued
  <2>7. Queued' = q \o <<>>
    BY <2>5, Zenon DEF Queued
  <2>8. Queued' = Queued
    BY <2>4, <2>6, <2>7, NoneBefore
  <2> QED
    BY <1>1, <1>2, <1>5, <2>8, MirrorLess
<1> QED
  BY <1>6, <1>7

LEMMA MirrorCheck ==
    ASSUME Stands, Mirror, EventInv', CheckPlace
    PROVE  Mirror'
<1> USE StandsTypes
<1>1. /\ W = "check" /\ UNCHANGED <<focus, text, drained, inbox, wFocus, plan, late, pending, strokes, cur>>
      /\ W' = "erase" \/ (W' = "release" /\ outcome'["worker"] = "failed")
  BY DEF CheckPlace, Worker, Releases, Settle, hiddenVars, quietVars, queueVars, windowVars, engineVars,
     wordVars, workVars, HoldTypeOK, Threads, W
<1>2. Missing = <<>> /\ Missing' = <<>>
  BY <1>1, MissingAway, MissingAwayNext
<1>3. CASE W' = "erase"
  <2>1. PlanPart' = PlanPart
    BY <1>1, <1>3 DEF PlanPart
  <2>2. Word' = Word
    BY <1>1, <2>1, WordStays
  <2> QED
    BY <1>1, <1>2, <2>2, WordTypes, SuffixSelf, MirrorShort
<1>4. CASE W' = "release" /\ outcome'["worker"] = "failed"
  <2>1. PlanPart' = <<>>
    BY <1>4 DEF PlanPart
  <2>2. cur = None /\ cur' = None
    BY <1>1 DEF Phases, AtEvent, W, Routine
  <2>3. PICK p : p = PlanPart
    OBVIOUS
  <2>4. p \in Seq(Event) /\ pending \in Seq(Event) /\ strokes \in Seq(Event)
    BY <2>3, WordTypes
  <2>5. pending \o strokes \in Seq(Event)
    BY <2>4
  <2>6. Word = p \o (pending \o strokes)
    BY <2>2, <2>3, WordParts
  <2>7. Word' = <<>> \o (pending \o strokes)
    BY <1>1, <2>1, <2>2, WordPartsNext
  <2>8. Word' = pending \o strokes
    BY <2>5, <2>7, NoneBefore
  <2>9. Suffix(Word', Word)
    BY <2>4, <2>5, <2>6, <2>8, SuffixOf
  <2> QED
    BY <1>1, <1>2, <2>9, MirrorShort
<1> QED
  BY <1>1, <1>3, <1>4

-----------------------------------------------------------------------------
(* The text and the word: the queue goes back, and late keys are taken along *)

\* Two parts of an increasing end have no press in common.
LEMMA EndsApart ==
    ASSUME NEW s \in Seq(Nat), NEW a \in Seq(Press1), NEW b \in Seq(Press1), NEW c \in Seq(Event),
           Increasing(s), EndsIn(s, (a \o b) \o c)
    PROVE  \A i \in 1..Len(a), j \in 1..Len(b) : a[i].n # b[j].n
<1>1. Press1 \subseteq Event /\ \A e \in Press1 : e.n \in Nat /\ e.n > 0
  BY EventKinds DEF Press1, Fresh, KeyEvent
<1>2. a \in Seq(Event) /\ b \in Seq(Event)
  BY <1>1, SubsetSeq
<1>3. PICK p \in Seq(Nat) : s = p \o Numbers((a \o b) \o c)
  BY DEF EndsIn
<1>4. PICK x : x = Numbers(a)
  OBVIOUS
<1>5. PICK y : y = Numbers(b)
  OBVIOUS
<1>6. /\ x \in Seq(Nat) /\ Len(x) = Len(a) /\ \A i \in 1..Len(a) : x[i] = a[i].n
      /\ y \in Seq(Nat) /\ Len(y) = Len(b) /\ \A i \in 1..Len(b) : y[i] = b[i].n
  BY <1>2, <1>4, <1>5, NumbersTypes
<1>7. PICK z : z = Numbers(c)
  OBVIOUS
<1>8. PICK r : r = x \o y
  OBVIOUS
<1>9. z \in Seq(Nat) /\ s = p \o (r \o z)
  <2>1. PICK ab : ab = a \o b
    OBVIOUS
  <2>2. ab \in Seq(Event)
    BY <1>2, <2>1
  <2>3. Numbers(ab \o c) = Numbers(ab) \o Numbers(c) /\ Numbers(a \o b) = Numbers(a) \o Numbers(b)
    BY <1>2, <2>2, NumbersConcat
  <2> QED
    BY <1>3, <1>4, <1>5, <1>7, <1>8, <2>1, <2>3, NumbersTypes
<1>10. PICK v : v = r \o z
  OBVIOUS
<1>11. r \in Seq(Nat) /\ v \in Seq(Nat) /\ s = p \o v /\ Len(r) = Len(x) + Len(y) /\ Len(v) = Len(r) + Len(z)
  <2>1. x \in Seq(Nat) /\ y \in Seq(Nat) /\ z \in Seq(Nat)
    BY <1>6, <1>9
  <2>2. r \in Seq(Nat) /\ Len(r) = Len(x) + Len(y)
    BY <1>8, <2>1, ConcatPlaces
  <2>3. r \in Seq(Nat) /\ z \in Seq(Nat)
    BY <2>1, <2>2
  <2>4. v \in Seq(Nat) /\ Len(v) = Len(r) + Len(z)
    BY <1>10, <2>3, ConcatPlaces
  <2> QED
    BY <1>9, <1>10, <2>2, <2>4
<1> SUFFICES ASSUME NEW i \in 1..Len(a), NEW j \in 1..Len(b)
             PROVE  a[i].n # b[j].n
  OBVIOUS
<1>12. PICK k : k = Len(x) + j
  OBVIOUS
<1>13. /\ Len(a) \in Nat /\ Len(b) \in Nat /\ Len(z) \in Nat /\ Len(p) \in Nat
       /\ i \in 1..Len(r) /\ k \in 1..Len(r) /\ i \in 1..Len(v) /\ k \in 1..Len(v) /\ i < k
  <2>1. Len(a) \in Nat /\ Len(b) \in Nat /\ Len(z) \in Nat /\ Len(p) \in Nat
    BY <1>9
  <2>2. Len(r) = Len(a) + Len(b) /\ Len(v) = (Len(a) + Len(b)) + Len(z) /\ k = Len(a) + j
    BY <1>6, <1>11, <1>12
  <2> QED
    BY <2>1, <2>2
<1>14. r[i] = a[i].n /\ r[k] = b[j].n
  <2>1. i \in 1..Len(x) /\ j \in 1..Len(y) /\ x \in Seq(Nat) /\ y \in Seq(Nat)
    BY <1>6
  <2>2. r[i] = x[i] /\ r[k] = y[j]
    BY <1>8, <1>12, <2>1, ConcatPlaces
  <2> QED
    BY <1>6, <2>2
<1>15. v[i] = r[i] /\ v[k] = r[k]
  BY <1>9, <1>10, <1>11, <1>13
<1>16. /\ Len(p) + i \in DOMAIN s /\ s[Len(p) + i] = v[i]
       /\ Len(p) + k \in DOMAIN s /\ s[Len(p) + k] = v[k]
       /\ Len(p) + i < Len(p) + k
  <2>1. \A l \in 1..Len(v) : Len(p) + l \in DOMAIN s /\ s[Len(p) + l] = v[l]
    <3>1. p \in Seq(Nat) /\ v \in Seq(Nat) /\ s = p \o v
      BY <1>11
    <3> QED
      BY <3>1, ConcatPlaces
  <2>2. Len(p) + i < Len(p) + k
    BY <1>13
  <2> QED
    BY <1>13, <2>1, <2>2
<1>17. a[i] \in Press1 /\ b[j] \in Press1
  OBVIOUS
<1>18. a[i].n > 0 /\ b[j].n > 0 /\ a[i].n \in Nat /\ b[j].n \in Nat
  BY <1>1, <1>17
<1>19. PICK m : m = Len(p) + i
  OBVIOUS
<1>20. PICK n : n = Len(p) + k
  OBVIOUS
<1>21. m \in DOMAIN s /\ n \in DOMAIN s /\ m < n /\ s[m] = a[i].n /\ s[n] = b[j].n
  BY <1>14, <1>15, <1>16, <1>19, <1>20
<1>22. s[m] # 0 /\ s[n] # 0
  <2>1. s[m] = a[i].n /\ s[n] = b[j].n
    BY <1>21
  <2>2. a[i].n # 0 /\ b[j].n # 0
    BY <1>18
  <2> QED
    BY <2>1, <2>2, Zenon
<1>23. s[m] < s[n]
  BY <1>21, <1>22 DEF Increasing
<1> QED
  BY <1>18, <1>21, <1>23

\* Strokes that are all of another word than the plan.
LEMMA ApartFromPlan ==
    ASSUME EventInv, \A i \in 1..Len(plan), j \in 1..Len(strokes) : plan[i].n # strokes[j].n
    PROVE  Only(strokes, InPlan) = <<>> /\ Only(strokes, Event \ InPlan) = strokes
<1>1. strokes \in Seq(Press1) /\ plan \in Seq(Press1) /\ strokes \in Seq(Event)
  BY WordTypes DEF EventInv, WordEvents
<1>2. \A j \in 1..Len(strokes) : strokes[j] \in Event /\ strokes[j] \notin InPlan
  <2>1. DOMAIN plan = 1..Len(plan)
    BY <1>1
  <2>2. Ids(plan) = {plan[i].n : i \in 1..Len(plan)}
    BY <2>1 DEF Ids
  <2> TAKE j \in 1..Len(strokes)
  <2>3. strokes[j].n \notin Ids(plan)
    BY <2>2
  <2> QED
    BY <1>1, <2>3 DEF InPlan
<1>3. \A j \in 1..Len(strokes) : strokes[j] \in Event \ InPlan
  BY <1>2
<1> QED
  BY <1>1, <1>2, <1>3, OnlyNone, OnlyAll

\* Nothing refused: the letters among what was drained are its presses.
LEMMA LettersDrained ==
    ASSUME EventInv, ~Refused
    PROVE  Only(drained, LetterPresses) = Presses(drained)
<1>1. drained \in Seq(Queueable) /\ Len(drained) \in Nat
  BY StreamTypes
<1>2. \A k \in 1..Len(drained) : drained[k] \in LetterPresses <=> drained[k] \in Shows
  <2> TAKE k \in 1..Len(drained)
  <2>1. drained[k] \in Queueable /\ drained[k] \in Event
    BY <1>1, EventKinds
  <2>2. drained[k].down => drained[k].key \in Letters
    BY <1>1 DEF Refused
  <2>3. drained[k].key \in Letters => ~drained[k].deferred
    BY <2>1, QueueKinds, KeysAssumption
  <2> QED
    BY <2>1, <2>2, <2>3 DEF LetterPresses, IsLetterPress, Shows
<1>3. Only(drained, LetterPresses) = Only(drained, Shows)
  BY <1>1, <1>2, OnlyAlike
<1> QED
  BY <1>3 DEF Presses

\* The word and the queue as RefillQueue finds them.
LEMMA AtRefill ==
    ASSUME Stands, W = "refill"
    PROVE  /\ Word = plan \o strokes /\ Queued = Presses(drained) /\ Presses(inbox) = <<>>
           /\ pending = <<>> /\ cur = None /\ Missing = <<>>
           /\ plan \in Seq(Event) /\ strokes \in Seq(Event) /\ Presses(drained) \in Seq(Event)
<1> USE StandsTypes
<1>1. cur = None /\ pending = <<>> /\ Missing = <<>> /\ PlanPart = plan
  BY MissingAway DEF Phases, AtEvent, W, Routine, Executing, Correcting, PlanPart
<1>2. plan \in Seq(Event) /\ strokes \in Seq(Event) /\ Presses(drained) \in Seq(Event)
  BY WordTypes
<1>3. Presses(inbox) = <<>>
  <2>1. inbox \in Seq(Queueable) /\ ~Downs(inbox)
    BY StreamTypes DEF Stands, PlaceOK
  <2> QED
    BY <2>1, PressesNone
<1>4. Word = plan \o strokes
  <2>1. Word = plan \o (<<>> \o strokes)
    BY <1>1, WordParts
  <2> QED
    BY <1>2, <2>1, NoneBefore
<1>5. Queued = Presses(drained)
  <2>1. PICK d : d = Presses(drained)
    OBVIOUS
  <2>2. Queued = d \o <<>>
    BY <1>3, <2>1, Zenon DEF Queued
  <2> QED
    BY <1>2, <2>1, <2>2, NoneBefore
<1> QED
  BY <1>1, <1>2, <1>3, <1>4, <1>5

LEMMA MirrorRefused ==
    ASSUME Stands, Mirror, EventInv', Calm', RefillQueue, Refused
    PROVE  Mirror' /\ Settled'
<1> USE StandsTypes
<1>1. W = "refill"
  BY DEF RefillQueue, W
<1>2. /\ UNCHANGED <<text, focus, wFocus, plan, pending, cur>> /\ drained' = <<>>
  BY DEF RefillQueue, quietVars, windowVars
<1>3. ~(Len(PutBack) > QueueSize - Len(inbox)) /\ PutBack = drained
  <2>1. ~(Len(PutBack) > QueueSize - Len(inbox))
    BY DEF RefillQueue, Remember, Calm
  <2> QED
    BY <2>1, PutBackKinds
<1>4. inbox' = inbox \o drained /\ strokes' = strokes
  BY <1>3 DEF RefillQueue, Taken
<1>5. W' = "release" /\ outcome'["worker"] = "refused"
  BY <1>3 DEF RefillQueue, Settle, Releases, Worker, HoldTypeOK, Threads, W
<1>6. /\ Word = plan \o strokes /\ Queued = Presses(drained) /\ Presses(inbox) = <<>>
      /\ pending = <<>> /\ cur = None /\ Missing = <<>>
      /\ plan \in Seq(Event) /\ strokes \in Seq(Event) /\ Presses(drained) \in Seq(Event)
  BY <1>1, AtRefill
<1>7. Missing' = <<>> /\ PlanPart' = plan
  BY <1>2, <1>5, MissingAwayNext DEF PlanPart
<1>8. Word' = Word
  <2>1. Word' = plan \o (<<>> \o strokes)
    BY <1>2, <1>4, <1>6, <1>7, WordPartsNext
  <2> QED
    BY <1>6, <2>1, NoneBefore
<1>9. Queued' = Queued
  <2>1. PICK d : d = Presses(drained)
    OBVIOUS
  <2>2. inbox \in Seq(Queueable) /\ drained \in Seq(Queueable) /\ d \in Seq(Event)
    BY <1>6, <2>1, StreamTypes
  <2>3. Presses(inbox \o drained) = Presses(inbox) \o Presses(drained)
    BY <2>2, PressesConcat
  <2>4. Presses(inbox)' = <<>> \o d
    BY <1>4, <1>6, <2>1, <2>3 DEF Presses
  <2>5. Presses(drained)' = <<>>
    BY <1>2, PressesEmpty DEF Presses
  <2>6. Queued' = <<>> \o (<<>> \o d)
    BY <2>4, <2>5, Zenon DEF Queued
  <2> QED
    BY <1>6, <2>1, <2>2, <2>6, NoneBefore
<1>10. Suffix(Word', Word)
  BY <1>8, WordTypes, SuffixSelf
<1>11. Mirror'
  BY <1>2, <1>6, <1>7, <1>9, <1>10, MirrorLess
<1>12. Settled'
  BY <1>5 DEF Settled
<1> QED
  BY <1>11, <1>12

LEMMA MirrorRefilled ==
    ASSUME Stands, Mirror, Increasing(Whole(wFocus)), EventInv', Calm', RefillQueue, ~Refused
    PROVE  Mirror' /\ Settled'
<1> USE StandsTypes
<1>1. W = "refill"
  BY DEF RefillQueue, W
<1>2. /\ UNCHANGED <<text, focus, wFocus, plan, pending, cur>> /\ drained' = <<>>
  BY DEF RefillQueue, quietVars, windowVars
<1>3. ~(Len(PutBack) > QueueSize - Len(inbox))
  BY DEF RefillQueue, Remember, Calm
<1>4. /\ inbox' = inbox \o PutBack
      /\ late' = IF Taken THEN LateKeys ELSE <<>>
      /\ strokes' = IF Taken THEN Only(strokes, InPlan) ELSE strokes
  BY <1>3 DEF RefillQueue
<1>5. W' = "check" /\ outcome' = outcome
  BY <1>3 DEF RefillQueue, Worker, HoldTypeOK, Threads, W
<1>6. /\ Word = plan \o strokes /\ Queued = Presses(drained) /\ Presses(inbox) = <<>>
      /\ pending = <<>> /\ cur = None /\ Missing = <<>>
      /\ plan \in Seq(Event) /\ strokes \in Seq(Event) /\ Presses(drained) \in Seq(Event)
  BY <1>1, AtRefill
<1>7. PICK d : d = Presses(drained)
  OBVIOUS
<1>8. plan \o strokes \in Seq(Event) /\ strokes \o d \in Seq(Event) /\ d \in Seq(Event)
      /\ (plan \o strokes) \o d = plan \o (strokes \o d)
  BY <1>6, <1>7
<1>9. focus \in Places /\ wFocus \in Places /\ \A w \in Places : Whole(w) \in Seq(Nat)
  BY WholeTypes DEF HoldTypeOK, EventInv, EngineEvents
<1>10. \A i \in 1..Len(plan), j \in 1..Len(strokes) : plan[i].n # strokes[j].n
  <2>1. plan \in Seq(Press1) /\ strokes \in Seq(Press1)
    BY DEF EventInv, WordEvents
  <2>2. CASE focus = wFocus
    <3>1. EndsIn(Whole(wFocus), (plan \o strokes) \o d)
      BY <1>6, <1>7, <2>2 DEF Mirror
    <3> QED
      BY <1>8, <1>9, <2>1, <3>1, EndsApart
  <2>3. CASE focus # wFocus
    <3>1. EndsIn(Whole(wFocus), plan \o strokes)
      BY <1>6, <2>3 DEF Mirror
    <3>2. (plan \o strokes) \o <<>> = plan \o strokes /\ <<>> \in Seq(Event)
      BY <1>8, NoneBefore, EmptySeq
    <3>3. EndsIn(Whole(wFocus), (plan \o strokes) \o <<>>)
      BY <3>1, <3>2
    <3> QED
      BY <1>9, <2>1, <3>2, <3>3, EndsApart
  <2> QED
    BY <2>2, <2>3
<1>11. /\ Only(strokes, InPlan) = <<>> /\ Only(strokes, Event \ InPlan) = strokes
       /\ Only(drained, LetterPresses) = d
  BY <1>7, <1>10, ApartFromPlan, LettersDrained
<1>12. late' = strokes \o d /\ strokes' = <<>>
  <2>1. LateKeys = strokes \o d
    BY <1>11 DEF LateKeys
  <2>2. CASE LateKeys # <<>>
    BY <1>4, <1>11, <2>1, <2>2 DEF Taken
  <2>3. CASE LateKeys = <<>>
    <3>1. strokes = <<>>
      BY <1>6, <1>8, <2>1, <2>3
    <3> QED
      BY <1>4, <2>1, <2>3, <3>1 DEF Taken
  <2> QED
    BY <2>2, <2>3
<1>13. Queued' = <<>>
  <2>1. PICK b : b = PutBack
    OBVIOUS
  <2>2. b \in Seq(Queueable) /\ ~Downs(b) /\ inbox \in Seq(Queueable)
    BY <2>1, PutBackKinds, StreamTypes
  <2>3. Presses(b) = <<>> /\ Presses(inbox \o b) = Presses(inbox) \o Presses(b)
    BY <2>2, PressesNone, PressesConcat
  <2>4. Presses(inbox)' = <<>> \o <<>>
    BY <1>4, <1>6, <2>1, <2>3 DEF Presses
  <2>5. Presses(drained)' = <<>>
    BY <1>2, PressesEmpty DEF Presses
  <2>6. Queued' = <<>> \o (<<>> \o <<>>)
    BY <2>4, <2>5, Zenon DEF Queued
  <2> QED
    BY <2>6, EmptySeq
<1>14. Word' = plan \o (strokes \o d)
  <2>1. PlanPart' = plan \o (strokes \o d)
    BY <1>2, <1>5, <1>12 DEF PlanPart
  <2>2. Word' = PlanPart' \o (<<>> \o <<>>)
    BY <1>2, <1>6, <1>12, WordPartsNext
  <2>3. PICK x : x = plan \o (strokes \o d)
    OBVIOUS
  <2>4. x \in Seq(Event)
    BY <1>6, <1>8, <2>3
  <2>5. x \o (<<>> \o <<>>) = x
    BY <2>4, EmptySeq
  <2> QED
    BY <2>1, <2>2, <2>3, <2>5
<1>15. Missing' = <<>>
  BY <1>5, MissingAwayNext
<1>16. \A w \in Places : Whole(w)' = Whole(w)
  BY <1>2, <1>6, <1>15 DEF Whole
<1>17. Settled'
  BY <1>5, <1>12 DEF Settled, Routine
<1>18. CASE focus = wFocus
  <2>1. EndsIn(Whole(focus), plan \o (strokes \o d))
    BY <1>6, <1>7, <1>8, <1>18 DEF Mirror
  <2>2. PICK x : x = plan \o (strokes \o d)
    OBVIOUS
  <2>3. x \in Seq(Event)
    BY <1>6, <1>8, <2>2
  <2>4. Word' \o Queued' = x
    BY <1>13, <1>14, <2>2, <2>3, NoneBefore
  <2>5. Mirror'
    BY <1>2, <1>9, <1>16, <1>18, <2>1, <2>2, <2>4 DEF Mirror
  <2> QED
    BY <1>17, <2>5
<1>19. CASE focus # wFocus
  <2>1. ~Downs(drained)
    <3>1. OnlyClicks(drained)
      BY <1>1, <1>19 DEF Stands, PlaceOK
    <3>2. \A e \in Elems(drained) : e.key # Pointer
      BY DEF Refused, Elems
    <3> QED
      BY <3>1, <3>2 DEF OnlyClicks, Downs
  <2>2. d = <<>>
    BY <1>7, <2>1, StreamTypes, PressesNone
  <2>3. Word' = plan \o strokes
    BY <1>6, <1>14, <2>2, NoneBefore
  <2>4. EndsIn(Whole(wFocus), Word')
    BY <1>6, <1>19, <2>3 DEF Mirror
  <2>5. EndsIn(Whole(focus), Queued')
    BY <1>9, <1>13, EndsNone
  <2>6. Mirror'
    BY <1>2, <1>9, <1>16, <1>19, <2>4, <2>5 DEF Mirror
  <2> QED
    BY <1>17, <2>6
<1> QED
  BY <1>18, <1>19

-----------------------------------------------------------------------------
(* The text and the word: the input of a correction *)

\* Where the worker changes the text it has one word, and nothing is queued.
LEMMA AtInput ==
    ASSUME Stands, Settled, W \in {"erase", "type", "retype"}
    PROVE  /\ focus = wFocus /\ strokes = <<>> /\ pending = <<>> /\ cur = None
           /\ drained = <<>> /\ Presses(inbox) = <<>> /\ outcome["worker"] = "yes"
           /\ Word = plan \o late /\ Queued = <<>>
           /\ plan \in Seq(Event) /\ late \in Seq(Event) /\ plan \o late \in Seq(Event)
<1> USE StandsTypes
<1>1. focus = wFocus /\ strokes = <<>> /\ ~Downs(inbox)
  BY DEF Stands, PlaceOK, Settled
<1>2. pending = <<>> /\ cur = None /\ drained = <<>> /\ outcome["worker"] = "yes"
  BY DEF Phases, AtEvent, W, Routine, Executing, Correcting
<1>3. plan \in Seq(Event) /\ late \in Seq(Event) /\ plan \o late \in Seq(Event)
  BY WordTypes
<1>4. Presses(inbox) = <<>>
  BY <1>1, StreamTypes, PressesNone
<1>5. Queued = <<>>
  <2>1. Queued = <<>> \o <<>>
    BY <1>2, <1>4, PressesEmpty, Zenon DEF Queued
  <2> QED
    BY <2>1, EmptySeq
<1>6. Word = plan \o late
  <2>1. PlanPart = plan \o late
    BY DEF PlanPart
  <2>2. PICK x : x = plan \o late
    OBVIOUS
  <2>3. Word = x \o (<<>> \o <<>>)
    BY <1>1, <1>2, <2>1, <2>2, WordParts
  <2>4. x \o (<<>> \o <<>>) = x
    BY <1>3, <2>2, EmptySeq
  <2> QED
    BY <2>2, <2>3, <2>4
<1> QED
  BY <1>1, <1>2, <1>3, <1>4, <1>5, <1>6

\* The text behind what was typed last is what the Backspaces leave.
LEMMA ErasesExactly ==
    ASSUME Stands, Mirror, Settled, W = "erase"
    PROVE  \E p \in Seq(Nat) : /\ text[focus] = p \o Numbers(plan \o late)
                               /\ Erased(text[focus], Len(plan) + Len(late)) = p
<1> USE StandsTypes
<1>1. /\ focus = wFocus /\ Word = plan \o late /\ Queued = <<>>
      /\ plan \in Seq(Event) /\ late \in Seq(Event) /\ plan \o late \in Seq(Event)
  BY AtInput
<1>2. PICK x : x = plan \o late
  OBVIOUS
<1>3. x \in Seq(Event) /\ Len(x) = Len(plan) + Len(late)
  BY <1>1, <1>2
<1>4. Word \o Queued = x
  <2>1. x \o <<>> = x
    BY <1>3
  <2> QED
    BY <1>1, <1>2, <2>1
<1>5. EndsIn(Whole(focus), x)
  BY <1>1, <1>4 DEF Mirror
<1>6. focus \in Places /\ text[focus] \in Seq(Nat)
  BY DEF HoldTypeOK, EventInv, BackendEvents, TextEvents
<1>7. Whole(focus) = text[focus]
  <2>1. Missing = <<>>
    BY MissingAway
  <2>2. text[focus] \o <<>> = text[focus]
    BY <1>6
  <2> QED
    BY <2>1, <2>2 DEF Whole
<1>8. PICK p \in Seq(Nat) : text[focus] = p \o Numbers(x)
  BY <1>5, <1>7 DEF EndsIn
<1>9. PICK n : n = Numbers(x)
  OBVIOUS
<1>10. n \in Seq(Nat) /\ Len(n) = Len(plan) + Len(late)
  BY <1>3, <1>9, NumbersTypes
<1>11. Erased(text[focus], Len(plan) + Len(late)) = p
  <2>1. text[focus] = p \o n
    BY <1>8, <1>9
  <2>2. PICK k : k = Len(plan) + Len(late)
    OBVIOUS
  <2>3. SubSeq(p \o n, 1, Len(p \o n) - Len(n)) = p
    BY <1>10
  <2> QED
    BY <1>10, <2>1, <2>3 DEF Erased
<1> QED
  BY <1>2, <1>8, <1>11

\* What the window misses while its text is replaced makes it the text it was.
LEMMA WholeStays ==
    ASSUME EventInv, focus' = focus, NEW p \in Seq(Nat), text' = [text EXCEPT ![focus] = p],
           Missing' \in Seq(Nat), Whole(focus) = p \o Missing'
    PROVE  \A w \in Places : Whole(w)' = Whole(w)
<1>1. focus \in Places /\ text \in [Places -> Seq(Nat)]
  BY DEF EventInv, TypeInv, HoldTypeOK, BackendEvents, TextEvents
<1> TAKE w \in Places
<1>2. CASE w = focus
  <2>1. text'[w] = p
    BY <1>1, <1>2
  <2>2. Whole(w)' = p \o Missing'
    BY <1>2, <2>1 DEF Whole
  <2> QED
    BY <1>2, <2>2
<1>3. CASE w # focus
  <2>1. text'[w] = text[w]
    BY <1>1, <1>3
  <2> QED
    BY <1>3, <2>1 DEF Whole
<1> QED
  BY <1>2, <1>3

\* The word was typed on p: it is there, or its late keys are what is missing.
LEMMA TypedWhole ==
    ASSUME EventInv, focus' = focus, NEW p \in Seq(Nat), Whole(focus) = p \o Numbers(plan \o late),
           text' = [text EXCEPT ![focus] = p \o Numbers(plan)], UNCHANGED <<plan, late>>,
           W' = (IF late = <<>> THEN "release" ELSE "retype")
    PROVE  \A w \in Places : Whole(w)' = Whole(w)
<1>1. plan \in Seq(Event) /\ late \in Seq(Event)
  BY WordTypes
<1>2. PICK x : x = Numbers(plan)
  OBVIOUS
<1>3. PICK y : y = Numbers(late)
  OBVIOUS
<1>4. x \in Seq(Nat) /\ y \in Seq(Nat) /\ p \o x \in Seq(Nat) /\ p \o (x \o y) = (p \o x) \o y
  <2>1. x \in Seq(Nat) /\ y \in Seq(Nat)
    BY <1>1, <1>2, <1>3, NumbersTypes
  <2> QED
    BY <2>1
<1>5. Whole(focus) = (p \o x) \o y
  BY <1>1, <1>2, <1>3, <1>4, NumbersConcat
<1>6. Missing' = y
  <2>1. CASE late = <<>>
    <3>1. y = <<>>
      BY <1>3, <2>1, NumbersNone
    <3>2. Missing' = <<>>
      BY <2>1, MissingAwayNext
    <3> QED
      BY <3>1, <3>2
  <2>2. CASE late # <<>>
    BY <1>3, <2>2 DEF Missing
  <2> QED
    BY <2>1, <2>2
<1>7. PICK q : q = p \o x
  OBVIOUS
<1>8. q \in Seq(Nat) /\ text' = [text EXCEPT ![focus] = q] /\ Missing' \in Seq(Nat) /\ Whole(focus) = q \o Missing'
  BY <1>2, <1>4, <1>5, <1>6, <1>7
<1> QED
  BY <1>8, WholeStays

LEMMA AfterGoes ==
    ASSUME HoldTypeOK, AfterTyping
    PROVE  W' = (IF late = <<>> THEN "release" ELSE "retype")
BY DEF AfterTyping, Releases, Worker, HoldTypeOK, Threads, W

LEMMA WholeInject ==
    ASSUME Stands, Mirror, Settled, Injects, Erase \/ EraseAndType \/ TypeWord \/ Retype
    PROVE  \A w \in Places : Whole(w)' = Whole(w)
<1> USE StandsTypes
<1>1. UNCHANGED <<focus, plan, late>>
  BY DEF Injects, injecting, engineVars, workVars
<1>2. plan \in Seq(Event) /\ late \in Seq(Event) /\ plan \o late \in Seq(Event)
  BY WordTypes
<1>3. focus \in Places /\ text[focus] \in Seq(Nat)
  BY DEF HoldTypeOK, EventInv, BackendEvents, TextEvents
<1>4. CASE W = "erase" /\ (Erase \/ EraseAndType)
  <2>1. PICK p \in Seq(Nat) : /\ text[focus] = p \o Numbers(plan \o late)
                              /\ Erased(text[focus], Len(plan) + Len(late)) = p
    BY <1>4, ErasesExactly
  <2>2. Whole(focus) = p \o Numbers(plan \o late)
    <3>1. Missing = <<>>
      BY <1>4, MissingAway
    <3>2. text[focus] \o <<>> = text[focus]
      BY <1>3
    <3> QED
      BY <2>1, <3>1, <3>2 DEF Whole
  <2>3. CASE Erase
    <3>1. text' = [text EXCEPT ![focus] = p] /\ W' = "type"
      BY <2>1, <2>3 DEF Erase, Worker, HoldTypeOK, Threads, W
    <3>2. Missing' = Numbers(plan \o late)
      BY <1>1, <3>1 DEF Missing, Numbers
    <3>3. Missing' \in Seq(Nat)
      BY <1>2, <3>2, NumbersTypes
    <3> QED
      BY <1>1, <2>2, <3>1, <3>2, <3>3, WholeStays
  <2>4. CASE EraseAndType
    <3>1. text' = [text EXCEPT ![focus] = p \o Numbers(plan)] /\ AfterTyping
      BY <2>1, <2>4 DEF EraseAndType, TypeInto
    <3> QED
      BY <1>1, <2>2, <3>1, TypedWhole, AfterGoes
  <2> QED
    BY <1>4, <2>3, <2>4
<1>5. CASE TypeWord
  <2>1. W = "type" /\ text' = [text EXCEPT ![focus] = text[focus] \o Numbers(plan)] /\ AfterTyping
    BY <1>5 DEF TypeWord, TypeInto, W
  <2>2. Whole(focus) = text[focus] \o Numbers(plan \o late)
    BY <2>1 DEF Whole, Missing
  <2> QED
    BY <1>1, <1>3, <2>1, <2>2, TypedWhole, AfterGoes
<1>6. CASE Retype
  <2>1. W = "retype" /\ text' = [text EXCEPT ![focus] = text[focus] \o Numbers(late)] /\ W' = "release"
    <3>1. W \in {"retype", "restore"} /\ text' = [text EXCEPT ![focus] = text[focus] \o Numbers(late)]
          /\ W' = "release"
      BY <1>6 DEF Retype, TypeInto, Releases, Worker, HoldTypeOK, Threads, W
    <3>2. W # "restore"
      BY DEF Stands, PlaceOK
    <3> QED
      BY <3>1, <3>2
  <2>2. Whole(focus) = text[focus] \o Numbers(late)
    BY <2>1 DEF Whole, Missing
  <2>3. PICK q : q = text[focus] \o Numbers(late)
    OBVIOUS
  <2>4. q \in Seq(Nat) /\ q \o <<>> = q
    <3>1. Numbers(late) \in Seq(Nat)
      BY <1>2, NumbersTypes
    <3> QED
      BY <1>3, <2>3, <3>1
  <2>5. Missing' = <<>> /\ Missing' \in Seq(Nat)
    BY <2>1, MissingAwayNext, EmptySeq
  <2> QED
    BY <1>1, <2>1, <2>2, <2>3, <2>4, <2>5, WholeStays
<1>7. Erase \/ EraseAndType => W = "erase"
  BY DEF Erase, EraseAndType, W
<1> QED
  BY <1>4, <1>5, <1>6, <1>7

LEMMA MirrorInject ==
    ASSUME Stands, Mirror, Settled, EventInv', Calm', Injects,
           Erase \/ EraseAndType \/ TypeWord \/ Retype \/ InjectionFails
    PROVE  Mirror' /\ Settled'
<1> USE StandsTypes
<1>1. UNCHANGED <<focus, wFocus, plan, late, pending, strokes, cur, drained>>
  BY DEF Injects, injecting, engineVars, wordVars, workVars
<1>2. ~InjectionFails
  BY DEF InjectionFails, Remember, Calm
<1>3. /\ W \in {"erase", "type", "retype"} /\ W' \in {"type", "retype", "release"}
      /\ W' = "release" /\ ~Retype => late = <<>>
      /\ outcome' = outcome
  <2>1. W # "restore"
    BY DEF Stands, PlaceOK
  <2> QED
    BY <1>2, <2>1, AfterGoes DEF Erase, EraseAndType, TypeWord, Retype, Releases, Worker, HoldTypeOK, Threads, W
<1>4. /\ focus = wFocus /\ strokes = <<>> /\ pending = <<>> /\ cur = None
      /\ drained = <<>> /\ Presses(inbox) = <<>> /\ outcome["worker"] = "yes"
      /\ Word = plan \o late /\ Queued = <<>>
      /\ plan \in Seq(Event) /\ late \in Seq(Event) /\ plan \o late \in Seq(Event)
  BY <1>3, AtInput
<1>5. \A w \in Places : Whole(w)' = Whole(w)
  BY <1>2, WholeInject
<1>6. focus \in Places
  BY DEF HoldTypeOK
<1>7. PICK x : x = plan \o late
  OBVIOUS
<1>8. x \in Seq(Event) /\ x \o <<>> = x
  BY <1>4, <1>7
<1>9. EndsIn(Whole(focus), x)
  BY <1>4, <1>7, <1>8 DEF Mirror
<1>10. Word' \o Queued' = x
  <2>1. Word' = PlanPart' \o (<<>> \o <<>>)
    BY <1>1, <1>4, WordPartsNext
  <2>2. CASE Retype
    <3>1. W' = "release" /\ outcome'["worker"] = "yes"
      BY <1>3, <1>4, <2>2 DEF Retype, Releases, Worker, HoldTypeOK, Threads, W
    <3>2. PlanPart' = plan
      BY <1>1, <3>1 DEF PlanPart
    <3>3. plan \o (<<>> \o <<>>) = plan
      BY <1>4, EmptySeq
    <3>4. PICK r : r = Replayed(late)
      OBVIOUS
    <3>5. r \in Seq(Queueable) /\ Presses(r) = late
      <4>1. late \in Seq(Press1)
        BY DEF EventInv, WordEvents
      <4>2. r \in Seq(Fresh) /\ Fresh \subseteq Queueable
        BY <3>4, <4>1, ReplayedEvents DEF Queueable
      <4>3. Press1 \subseteq Shows /\ \A k \in Keys : ReleaseOf(k) \notin Shows
        BY EventKinds, QueueKinds DEF Shows, ReleaseOf
      <4> QED
        BY <3>4, <4>1, <4>2, <4>3, SubsetSeq, OnlyReplayed DEF Presses
    <3>6. inbox' = inbox \o r
      <4>1. hooked
        BY DEF Stands
      <4>2. ~(Len(inbox \o r) > QueueSize)
        BY <2>2, <3>4, <4>1 DEF Retype, Remember, Calm
      <4> QED
        BY <2>2, <3>4, <4>1, <4>2 DEF Retype
    <3>7. Presses(inbox)' = <<>> \o late
      <4>1. Presses(inbox \o r) = Presses(inbox) \o Presses(r)
        BY <3>5, StreamTypes, PressesConcat
      <4> QED
        BY <1>4, <3>5, <3>6, <4>1 DEF Presses
    <3>8. Presses(drained)' = <<>>
      BY <1>1, <1>4, PressesEmpty DEF Presses
    <3>9. Queued' = <<>> \o (<<>> \o late)
      BY <3>7, <3>8, Zenon DEF Queued
    <3>10. <<>> \o (<<>> \o late) = late
      BY <1>4
    <3> QED
      BY <1>7, <2>1, <3>2, <3>3, <3>9, <3>10
  <2>3. CASE ~Retype
    <3>1. inbox' = inbox
      BY <1>2, <2>3 DEF Erase, EraseAndType, TypeWord, queueVars
    <3>2. Queued' = <<>>
      BY <1>1, <1>4, <3>1 DEF Queued, Presses
    <3>3. PlanPart' = x
      <4>1. CASE W' \in {"type", "retype"}
        BY <1>1, <1>7, <4>1 DEF PlanPart
      <4>2. CASE W' = "release"
        <5>1. late = <<>>
          BY <1>3, <2>3, <4>2
        <5>2. PlanPart' = plan
          BY <1>1, <1>3, <1>4, <4>2 DEF PlanPart
        <5> QED
          BY <1>4, <1>7, <5>1, <5>2, NoneBefore
      <4> QED
        BY <1>3, <4>1, <4>2
    <3>4. x \o (<<>> \o <<>>) = x
      BY <1>8, EmptySeq
    <3> QED
      BY <1>8, <2>1, <3>2, <3>3, <3>4
  <2> QED
    BY <2>2, <2>3
<1>11. Mirror'
  BY <1>1, <1>4, <1>5, <1>6, <1>9, <1>10 DEF Mirror
<1>12. Settled'
  BY <1>1, <1>4 DEF Settled
<1> QED
  BY <1>11, <1>12

-----------------------------------------------------------------------------
(* The text and the word: every step *)

LEMMA SettledAway ==
    ASSUME W' \notin {"check", "erase", "type", "retype", "landed", "acted"},
           W' \in Routine => then'["worker"] \notin {"landed", "acted"}
    PROVE  Settled'
BY DEF Settled, Executing, Correcting, Routine

LEMMA SettledBackend ==
    ASSUME Stands, Calm', Settled,
           \/ BackendStep(User) \/ BackendStep(RuleWindowReports) \/ BackendStep(HookStep)
           \/ \E t \in Threads : BackendStep(ReleaseStep(t)) \/ BackendStep(ActionStep(t))
    PROVE  Settled'
<1> USE StandsTypes
<1>1. strokes' = strokes
  BY DEF BackendStep, engineVars, wordVars
<1>2. then'["worker"] = then["worker"] /\ then["worker"] \in Returns /\ outcome'["worker"] = outcome["worker"]
      /\ (W' = W \/ (W \in Routine /\ W' \in Routine \cup {then["worker"]}))
  <2>1. then["worker"] \in Returns
    BY DEF HoldTypeOK, Threads
  <2>2. CASE BackendStep(User) \/ BackendStep(RuleWindowReports)
    <3>1. UNCHANGED callerVars
      BY <2>2 DEF BackendStep, User, TypeKey, FocusMoves, Click, RuleWindowReports
    <3> QED
      BY <2>1, <3>1 DEF callerVars, W
  <2>3. CASE BackendStep(HookStep)
    <3>1. WorkerGoes /\ outcome' = outcome /\ then' = then
      BY <2>3, HookGoes
    <3> QED
      BY <2>1, <3>1 DEF WorkerGoes, Routine
  <2>4. ASSUME NEW t \in Threads, BackendStep(ReleaseStep(t)) \/ BackendStep(ActionStep(t))
        PROVE  then'["worker"] = then["worker"] /\ outcome'["worker"] = outcome["worker"]
               /\ (W' = W \/ (W \in Routine /\ W' \in Routine \cup {then["worker"]}))
    <3>1. /\ then' = then /\ pc[t] \in Routine
          /\ \A u \in Threads \ {t} : pc'[u] = pc[u]
          /\ t = "worker" => pc'[t] \in Routine \cup {then[t]}
      BY <2>4, CallerSteps DEF Routine
    <3>2. outcome' = outcome
      <4>1. ~SendFails(t)
        BY DEF SendFails, Remember, Calm
      <4> QED
        BY <2>4, <4>1 DEF BackendStep, ReleaseStep, Release, LoopBehindAction, Loop, Send,
           Finally, ActionStep, Deliver, Submit, SubmitFails, Cancel, Clear
    <3>3. CASE t = "worker"
      BY <3>1, <3>2, <3>3 DEF W
    <3>4. CASE t # "worker"
      BY <3>1, <3>2, <3>4 DEF W, Threads
    <3> QED
      BY <3>3, <3>4
  <2> QED
    BY <2>1, <2>2, <2>3, <2>4
<1>3. CASE W' = W
  BY <1>1, <1>2, <1>3 DEF Settled, Executing
<1>4. CASE W \in Routine /\ W' \in Routine \cup {then["worker"]}
  <2>1. CASE then["worker"] \in {"landed", "acted"}
    <3>1. Executing
      BY <1>4, <2>1 DEF Executing
    <3>2. outcome["worker"] # "refused" => strokes = <<>>
      BY <1>4, <3>1 DEF Settled
    <3>3. W' \notin {"check", "erase", "type", "retype"}
      BY <1>4, <2>1 DEF Routine
    <3> QED
      BY <1>1, <1>2, <3>2, <3>3 DEF Settled
  <2>2. CASE then["worker"] \notin {"landed", "acted"}
    BY <1>2, <1>4, <2>2, SettledAway DEF Routine, Returns
  <2> QED
    BY <2>1, <2>2
<1> QED
  BY <1>2, <1>3, <1>4

LEMMA SettledBooks ==
    ASSUME Stands, Settled,
           \/ GetEvent \/ HandleEvent \/ ExpireAction \/ PollCurrentGroup \/ PauseCorrect
           \/ CheckFocus \/ FieldRefuses \/ HoldInput \/ CollectLate \/ CheckPlace \/ Landed
    PROVE  Settled'
<1> USE StandsTypes
<1>1. ASSUME ClearWord("ready")
      PROVE  Settled'
  BY <1>1, ClearWordGoes, SettledAway DEF Routine
<1>2. ASSUME NEW down, MaybeExecute(down)
      PROVE  Settled'
  BY <1>2, MaybeExecuteGoes, SettledAway DEF Routine
<1>3. ASSUME W' \in {"ready", "handle", "focus", "hold", "collect", "refill"}
      PROVE  Settled'
  BY <1>3, SettledAway DEF Routine
<1>4. ASSUME Call("cancel", "ready") \/ Call("deliver", "ready") \/ Call("cancel", "handle")
      PROVE  Settled'
  <2>1. then'["worker"] \in {"ready", "handle"} /\ W' \in {"cancel", "deliver"}
    BY <1>4 DEF Call, Worker, HoldTypeOK, Threads, W
  <2> QED
    BY <2>1, SettledAway
<1>5. ASSUME Worker("ready") \/ Worker("handle") \/ Worker("hold") \/ Worker("collect") \/ Worker("refill")
      PROVE  Settled'
  BY <1>3, <1>5 DEF Worker, HoldTypeOK, Threads, W
<1>6. CASE GetEvent
  BY <1>4, <1>5, <1>6 DEF GetEvent
<1>7. CASE HandleEvent
  <2>1. CASE HandlePointer \/ HandleDelivered
    BY <1>1, <2>1 DEF HandlePointer, HandleDelivered
  <2>2. CASE HandleSuspended
    BY <1>1, <1>5, <2>2 DEF HandleSuspended
  <2>3. CASE HandlePromptEnter
    BY <1>4, <2>3 DEF HandlePromptEnter
  <2>4. CASE HandleLetter \/ HandleBoundary \/ HandleAction
    BY <1>5, <2>4 DEF HandleLetter, HandleBoundary, HandleAction
  <2>5. CASE HandleRelease
    BY <1>2, <2>5 DEF HandleRelease
  <2> QED
    BY <1>7, <2>1, <2>2, <2>3, <2>4, <2>5 DEF HandleEvent
<1>8. CASE ExpireAction \/ PollCurrentGroup
  BY <1>1, <1>2, <1>8 DEF ExpireAction, PollCurrentGroup
<1>9. CASE PauseCorrect
  <2>1. Worker("ready") \/ Call("focus", "landed")
    BY <1>9 DEF PauseCorrect
  <2>2. Call("focus", "landed") => W' = "focus"
    BY DEF Call, Worker, HoldTypeOK, Threads, W
  <2> QED
    BY <1>3, <1>5, <2>1, <2>2
<1>10. CASE CheckFocus \/ FieldRefuses
  BY <1>1, <1>5, <1>10 DEF CheckFocus, FieldRefuses
<1>11. CASE HoldInput \/ CollectLate
  BY <1>5, <1>11 DEF HoldInput, CollectLate
<1>12. CASE CheckPlace
  <2>1. strokes = <<>> /\ strokes' = strokes
    BY <1>12 DEF CheckPlace, Settled, W, engineVars, wordVars
  <2> QED
    BY <2>1 DEF Settled
<1>13. CASE Landed
  <2>1. \/ Call("deliver", "ready") \/ Call("cancel", "ready") \/ ClearWord("ready") \/ Worker("ready")
    BY <1>13 DEF Landed
  <2> QED
    BY <1>1, <1>4, <1>5, <2>1
<1> QED
  BY <1>6, <1>7, <1>8, <1>9, <1>10, <1>11, <1>12, <1>13

LEMMA MirrorStep ==
    ASSUME TextBase, MindInv, KeyInv, TokenInv, MirrorInv, [Next]_vars,
           Calm => \A w \in Places : Increasing(Whole(w))
    PROVE  MirrorInv'
<1> SUFFICES ASSUME Calm', running'
             PROVE  Mirror' /\ Settled'
  BY DEF MirrorInv
<1>1. Stands
  BY StandsBefore
<1>2. Calm /\ running
  BY <1>1 DEF Stands
<1>3. Mirror /\ Settled
  BY <1>2 DEF MirrorInv
<1>4. EventInv'
  BY EventStep DEF TextBase
<1>5. HoldTypeOK /\ wFocus \in Places
  BY DEF TextBase, EventInv, TypeInv, EngineEvents
<1>6. CASE UNCHANGED vars
  <2>1. UNCHANGED <<text, focus, wFocus, drained, inbox, cur, late, strokes, pending, plan, pc, then, outcome>>
    BY <1>6 DEF vars, backendVars, engineVars, wordVars, workVars, windowVars, queueVars, callerVars
  <2>2. Missing' = Missing /\ PlanPart' = PlanPart
    BY <2>1 DEF Missing, PlanPart, W
  <2>3. Word' = Word
    BY <2>1, <2>2, WordStays
  <2>4. Suffix(Word', Word) /\ EventInv
    BY <2>3, WordTypes, SuffixSelf DEF TextBase
  <2>5. Mirror'
    BY <1>3, <1>4, <2>1, <2>2, <2>4, MirrorShort
  <2>6. Settled'
    BY <1>3, <2>1 DEF Settled, Executing, W
  <2> QED
    BY <2>5, <2>6
<1>7. CASE Stop \/ Unhook
  <2>1. ~Unhook
    BY <1>1 DEF Unhook, Stands
  <2>2. ~Stop
    BY DEF Stop
  <2> QED
    BY <1>7, <2>1, <2>2
<1>8. CASE WorkerBooks /\ Books
  <2>1. CASE RefillQueue
    <3>1. CASE Refused
      BY <1>1, <1>3, <1>4, <2>1, <3>1, MirrorRefused
    <3>2. CASE ~Refused
      BY <1>1, <1>2, <1>3, <1>4, <1>5, <2>1, <3>2, MirrorRefilled
    <3> QED
      BY <3>1, <3>2
  <2>2. CASE ~RefillQueue
    <3>1. Mirror'
      BY <1>1, <1>3, <1>4, <1>8, <2>2, MirrorGet, MirrorHandle, MirrorTimers, MirrorFocus, MirrorCollects,
         MirrorCheck DEF WorkerBooks
    <3>2. Settled'
      BY <1>1, <1>3, <1>8, <2>2, SettledBooks DEF WorkerBooks
    <3> QED
      BY <3>1, <3>2
  <2> QED
    BY <2>1, <2>2
<1>9. CASE HoldInput
  BY <1>1, <1>3, <1>4, <1>9, MirrorCollects, SettledBooks
<1>10. CASE Injects /\ (Erase \/ EraseAndType \/ TypeWord \/ Retype \/ InjectionFails)
  BY <1>1, <1>3, <1>4, <1>10, MirrorInject
<1>11. CASE \/ BackendStep(User) \/ BackendStep(RuleWindowReports) \/ BackendStep(HookStep)
            \/ \E t \in Threads : BackendStep(ReleaseStep(t)) \/ BackendStep(ActionStep(t))
  <2>1. Settled'
    BY <1>1, <1>3, <1>11, SettledBackend
  <2>2. Mirror'
    BY <1>1, <1>3, <1>4, <1>11, MirrorUser, MirrorHook, MirrorCaller
  <2> QED
    BY <2>1, <2>2
<1> QED
  BY <1>5, <1>6, <1>7, <1>8, <1>9, <1>10, <1>11, InjectCases

LEMMA MirrorInit == Init => MirrorInv
<1> SUFFICES ASSUME Init
             PROVE  Mirror /\ Settled
  BY DEF MirrorInv
<1>1. /\ W = "ready" /\ inbox = <<>> /\ drained = <<>> /\ cur = None /\ wFocus = focus
      /\ strokes = <<>> /\ pending = <<>> /\ plan = <<>> /\ focus \in Places
      /\ text = [w \in Places |-> <<>>]
  BY DEF Init, EngineInit, W, Threads, Places
<1>2. PlanPart = <<>> /\ Missing = <<>>
  BY <1>1, MissingAway DEF PlanPart
<1>3. Word = <<>> /\ Queued = <<>>
  <2>1. EventInv
    BY EventInit
  <2>2. Word = <<>>
    BY <1>1, <1>2, <2>1, WordGone
  <2>3. Queued = <<>> \o <<>>
    BY <1>1, PressesEmpty, Zenon DEF Queued
  <2> QED
    BY <2>2, <2>3, EmptySeq
<1>4. <<>> \o <<>> = <<>> /\ <<>> \in Seq(Nat)
  BY EmptySeq
<1>5. Whole(focus) = <<>>
  BY <1>1, <1>2, <1>4 DEF Whole
<1>6. Mirror
  BY <1>1, <1>3, <1>4, <1>5, EndsNone DEF Mirror
<1>7. Settled
  BY <1>1 DEF Settled
<1> QED
  BY <1>6, <1>7

-----------------------------------------------------------------------------
(* The order of the presses: in the windows, on their way, and kept back *)

\* The presses of a sequence of events, and whether they stand in the order they were typed.
DownNumbers(s) == {e.n : e \in {d \in Elems(s) : d.down}}
Rising(s) == \A i, j \in DOMAIN s : i < j /\ s[i].down /\ s[j].down => s[i].n < s[j].n

LEMMA RisingAppend ==
    ASSUME NEW s \in Seq(Fresh), NEW e \in Fresh, Rising(s),
           e.down => \A y \in DownNumbers(s) : y < e.n
    PROVE  /\ Rising(Append(s, e)) /\ DownNumbers(Append(s, e)) \subseteq DownNumbers(s) \cup {e.n}
           /\ ~e.down => DownNumbers(Append(s, e)) = DownNumbers(s)
<1>1. PICK r : r = Append(s, e)
  OBVIOUS
<1>2. /\ DOMAIN r = 1..Len(s) + 1 /\ DOMAIN s = 1..Len(s) /\ Len(s) \in Nat
      /\ r[Len(s) + 1] = e /\ \A i \in 1..Len(s) : r[i] = s[i]
  BY <1>1
<1>3. Elems(r) = Elems(s) \cup {e}
  BY <1>2 DEF Elems
<1>4. \A i \in 1..Len(s) : s[i].down => s[i].n \in DownNumbers(s)
  BY <1>2 DEF DownNumbers, Elems
<1>5. Rising(r)
  <2> SUFFICES ASSUME NEW i \in DOMAIN r, NEW j \in DOMAIN r, i < j, r[i].down, r[j].down
               PROVE  r[i].n < r[j].n
    BY DEF Rising
  <2>1. i \in 1..Len(s) /\ r[i] = s[i]
    BY <1>2
  <2>2. CASE j = Len(s) + 1
    BY <1>2, <1>4, <2>1, <2>2
  <2>3. CASE j # Len(s) + 1
    <3>1. j \in 1..Len(s) /\ r[j] = s[j]
      BY <1>2, <2>3
    <3> QED
      BY <1>2, <2>1, <3>1 DEF Rising
  <2> QED
    BY <2>2, <2>3
<1>6. DownNumbers(r) \subseteq DownNumbers(s) \cup {e.n} /\ (~e.down => DownNumbers(r) = DownNumbers(s))
  BY <1>3 DEF DownNumbers
<1> QED
  BY <1>1, <1>5, <1>6

LEMMA RisingConcat ==
    ASSUME NEW s \in Seq(Fresh), NEW t \in Seq(Fresh), Rising(s), ~Downs(t)
    PROVE  Rising(s \o t) /\ DownNumbers(s \o t) = DownNumbers(s)
<1>1. PICK r : r = s \o t
  OBVIOUS
<1>2. /\ DOMAIN r = 1..Len(s) + Len(t) /\ DOMAIN s = 1..Len(s) /\ DOMAIN t = 1..Len(t)
      /\ \A i \in 1..Len(s) : r[i] = s[i]
      /\ \A j \in 1..Len(t) : r[Len(s) + j] = t[j]
      /\ \A i \in 1..Len(s) + Len(t) : i \in 1..Len(s) \/ \E j \in 1..Len(t) : i = Len(s) + j
  BY <1>1, ConcatPlaces
<1>3. Elems(r) = Elems(s) \cup Elems(t)
  BY <1>1, ElemsConcat
<1>4. \A j \in 1..Len(t) : ~t[j].down
  BY <1>2 DEF Downs, Elems
<1>5. Rising(r)
  <2> SUFFICES ASSUME NEW i \in DOMAIN r, NEW j \in DOMAIN r, i < j, r[i].down, r[j].down
               PROVE  r[i].n < r[j].n
    BY DEF Rising
  <2>1. i \in 1..Len(s) /\ j \in 1..Len(s)
    BY <1>2, <1>4
  <2> QED
    BY <1>2, <2>1 DEF Rising
<1>6. DownNumbers(r) = DownNumbers(s)
  BY <1>3 DEF DownNumbers, Downs
<1> QED
  BY <1>1, <1>5, <1>6

\* What is left of a sequence when one element is taken out.
LEMMA FrontPlaces ==
    ASSUME NEW S, NEW s \in Seq(S), NEW i \in 1..Len(s), NEW a, a = SubSeq(s, 1, i - 1)
    PROVE  a \in Seq(S) /\ Len(a) = i - 1 /\ \A k \in 1..i - 1 : a[k] = s[k]
<1>1. Len(s) \in Nat /\ i \in Nat
  OBVIOUS
<1>2. a \in Seq(S)
  BY <1>1, SubSeqProperties
<1>3. Len(a) = i - 1
  BY <1>1
<1>4. \A k \in 1..i - 1 : a[k] = s[k]
  BY <1>1
<1> QED
  BY <1>2, <1>3, <1>4

LEMMA BackPlaces ==
    ASSUME NEW S, NEW s \in Seq(S), NEW i \in 1..Len(s), NEW b, b = SubSeq(s, i + 1, Len(s))
    PROVE  b \in Seq(S) /\ Len(b) = Len(s) - i /\ \A k \in 1..Len(s) - i : b[k] = s[i + k]
<1>1. Len(s) \in Nat /\ i \in Nat /\ i <= Len(s)
  OBVIOUS
<1>2. PICK m \in Nat : m = Len(s)
  BY <1>1
<1>3. b = SubSeq(s, i + 1, m) /\ i <= m
  BY <1>1, <1>2
<1>4. b = [k \in 1..m - i |-> s[i + k]]
  BY <1>1, <1>3
<1>5. \A k \in 1..m - i : s[i + k] \in S
  BY <1>1, <1>2
<1>6. m - i \in Nat
  BY <1>1, <1>2, <1>3
<1>7. b \in Seq(S)
  BY <1>4, <1>5, <1>6
<1>8. Len(b) = m - i
  BY <1>4, <1>6
<1> QED
  BY <1>2, <1>4, <1>7, <1>8

LEMMA RisingDrop ==
    ASSUME NEW s \in Seq(Fresh), NEW i \in 1..Len(s), Rising(s), NEW r, DOMAIN r = 1..Len(s) - 1,
           \A k \in 1..Len(s) - 1 : k < i => r[k] = s[k],
           \A k \in 1..Len(s) - 1 : k >= i => r[k] = s[k + 1]
    PROVE  /\ Rising(r) /\ DownNumbers(r) \subseteq DownNumbers(s)
           /\ i = 1 /\ s[1].down => s[1].n \in DownNumbers(s) /\ \A y \in DownNumbers(r) : s[1].n < y
<1>1. Len(s) \in Nat /\ DOMAIN s = 1..Len(s) /\ i \in Nat /\ i >= 1 /\ i <= Len(s)
  OBVIOUS
<1>2. \A k \in DOMAIN r : \E m \in DOMAIN s : r[k] = s[m] /\ (k < i => m = k) /\ (k >= i => m = k + 1)
  <2> SUFFICES ASSUME NEW k \in 1..Len(s) - 1
               PROVE  \E m \in DOMAIN s : r[k] = s[m] /\ (k < i => m = k) /\ (k >= i => m = k + 1)
    OBVIOUS
  <2>1. k \in DOMAIN s /\ k + 1 \in DOMAIN s /\ (k < i \/ k >= i) /\ ~(k < i /\ k >= i)
    BY <1>1
  <2> QED
    BY <2>1
<1>3. Rising(r)
  <2> SUFFICES ASSUME NEW k \in DOMAIN r, NEW j \in DOMAIN r, k < j, r[k].down, r[j].down
               PROVE  r[k].n < r[j].n
    BY DEF Rising
  <2>1. PICK m \in DOMAIN s : r[k] = s[m] /\ (k < i => m = k) /\ (k >= i => m = k + 1)
    BY <1>2
  <2>2. PICK n \in DOMAIN s : r[j] = s[n] /\ (j < i => n = j) /\ (j >= i => n = j + 1)
    BY <1>2
  <2>3. k \in Nat /\ j \in Nat
    BY <1>1
  <2>4. m < n
    BY <1>1, <2>1, <2>2, <2>3
  <2> QED
    BY <2>1, <2>2, <2>4 DEF Rising
<1>4. Elems(r) \subseteq Elems(s)
  BY <1>2 DEF Elems
<1>5. DownNumbers(r) \subseteq DownNumbers(s)
  BY <1>4 DEF DownNumbers
<1>6. ASSUME i = 1, s[1].down
      PROVE  s[1].n \in DownNumbers(s) /\ \A y \in DownNumbers(r) : s[1].n < y
  <2>1. 1 \in DOMAIN s
    BY <1>1, <1>6
  <2>2. s[1].n \in DownNumbers(s)
    BY <1>6, <2>1 DEF DownNumbers, Elems
  <2>3. ASSUME NEW y \in DownNumbers(r)
        PROVE  s[1].n < y
    <3>1. PICK k \in DOMAIN r : r[k].down /\ r[k].n = y
      BY DEF DownNumbers, Elems
    <3>2. k \in 1..Len(s) - 1 /\ k \in Nat /\ k >= i /\ k + 1 \in DOMAIN s /\ 1 < k + 1
      BY <1>1, <1>6, <3>1
    <3>3. r[k] = s[k + 1]
      BY <3>2
    <3> QED
      BY <1>6, <2>1, <3>1, <3>2, <3>3 DEF Rising
  <2> QED
    BY <2>2, <2>3
<1> QED
  BY <1>3, <1>5, <1>6

LEMMA TakenPlaces ==
    ASSUME NEW S, NEW s \in Seq(S), NEW i \in 1..Len(s)
    PROVE  \E r : /\ r = SubSeq(s, 1, i - 1) \o SubSeq(s, i + 1, Len(s))
                  /\ DOMAIN r = 1..Len(s) - 1
                  /\ \A k \in 1..Len(s) - 1 : k < i => r[k] = s[k]
                  /\ \A k \in 1..Len(s) - 1 : k >= i => r[k] = s[k + 1]
<1>0. PICK r : r = SubSeq(s, 1, i - 1) \o SubSeq(s, i + 1, Len(s))
  OBVIOUS
<1>1. PICK a : a = SubSeq(s, 1, i - 1)
  OBVIOUS
<1>2. PICK b : b = SubSeq(s, i + 1, Len(s))
  OBVIOUS
<1>3. Len(s) \in Nat /\ i \in Nat /\ i >= 1 /\ i <= Len(s)
  OBVIOUS
<1>4. a \in Seq(S) /\ Len(a) = i - 1 /\ \A k \in 1..i - 1 : a[k] = s[k]
  BY <1>1, FrontPlaces
<1>5. b \in Seq(S) /\ Len(b) = Len(s) - i /\ \A k \in 1..Len(s) - i : b[k] = s[i + k]
  BY <1>2, BackPlaces
<1>6. r = a \o b
  BY <1>0, <1>1, <1>2
<1>7. a \in Seq(S) /\ b \in Seq(S)
  BY <1>4, <1>5
<1>8. /\ DOMAIN r = 1..Len(a) + Len(b)
      /\ \A k \in 1..Len(a) : r[k] = a[k]
      /\ \A j \in 1..Len(b) : r[Len(a) + j] = b[j]
  <2>1. /\ DOMAIN (a \o b) = 1..Len(a) + Len(b)
        /\ \A k \in 1..Len(a) : (a \o b)[k] = a[k]
        /\ \A j \in 1..Len(b) : (a \o b)[Len(a) + j] = b[j]
    BY <1>7, ConcatPlaces
  <2> QED
    BY <1>6, <2>1
<1>9. DOMAIN r = 1..Len(s) - 1
  <2>1. Len(a) + Len(b) = Len(s) - 1
    BY <1>3, <1>4, <1>5
  <2> QED
    BY <1>8, <2>1
<1>10. \A k \in 1..Len(s) - 1 : k < i => r[k] = s[k]
  <2>1. \A k \in 1..Len(s) - 1 : k < i => k \in 1..i - 1
    BY <1>3
  <2>2. \A k \in 1..i - 1 : r[k] = a[k]
    BY <1>4, <1>8
  <2> QED
    BY <1>4, <2>1, <2>2
<1>11. ASSUME NEW k \in 1..Len(s) - 1, k >= i
       PROVE  r[k] = s[k + 1]
  <2>1. PICK j : j = k - (i - 1)
    OBVIOUS
  <2>2. j \in 1..Len(s) - i /\ (i - 1) + j = k /\ i + j = k + 1
    BY <1>3, <1>11, <2>1
  <2>3. r[Len(a) + j] = b[j]
    BY <1>5, <1>8, <2>2
  <2>4. r[k] = b[j]
    BY <1>4, <2>2, <2>3
  <2>5. b[j] = s[i + j]
    BY <1>5, <2>2
  <2> QED
    BY <2>2, <2>4, <2>5
<1>12. \A k \in 1..Len(s) - 1 : k >= i => r[k] = s[k + 1]
  BY <1>11
<1>13. PICK q : q = r
  OBVIOUS
<1>14. q = SubSeq(s, 1, i - 1) \o SubSeq(s, i + 1, Len(s))
  BY <1>0, <1>13, Zenon
<1>15. DOMAIN q = 1..Len(s) - 1
  BY <1>9, <1>13, Zenon
<1>16. \A k \in 1..Len(s) - 1 : k < i => q[k] = s[k]
  BY <1>10, <1>13, Zenon
<1>17. \A k \in 1..Len(s) - 1 : k >= i => q[k] = s[k + 1]
  BY <1>12, <1>13, Zenon
<1> QED
  BY <1>14, <1>15, <1>16, <1>17, Zenon

LEMMA RisingTaken ==
    ASSUME NEW s \in Seq(Fresh), NEW i \in 1..Len(s), Rising(s)
    PROVE  \E r : /\ r = SubSeq(s, 1, i - 1) \o SubSeq(s, i + 1, Len(s))
                  /\ Rising(r) /\ DownNumbers(r) \subseteq DownNumbers(s)
                  /\ i = 1 /\ s[1].down => /\ s[1].n \in DownNumbers(s)
                                           /\ \A y \in DownNumbers(r) : s[1].n < y
<1>1. PICK r : /\ r = SubSeq(s, 1, i - 1) \o SubSeq(s, i + 1, Len(s))
               /\ DOMAIN r = 1..Len(s) - 1
               /\ \A k \in 1..Len(s) - 1 : k < i => r[k] = s[k]
               /\ \A k \in 1..Len(s) - 1 : k >= i => r[k] = s[k + 1]
  BY TakenPlaces
<1>2. /\ Rising(r) /\ DownNumbers(r) \subseteq DownNumbers(s)
      /\ i = 1 /\ s[1].down => s[1].n \in DownNumbers(s) /\ \A y \in DownNumbers(r) : s[1].n < y
  <2>1. DOMAIN r = 1..Len(s) - 1
    BY <1>1, Zenon
  <2>2. \A k \in 1..Len(s) - 1 : k < i => r[k] = s[k]
    BY <1>1, Zenon
  <2>3. \A k \in 1..Len(s) - 1 : k >= i => r[k] = s[k + 1]
    BY <1>1, Zenon
  <2> QED
    BY <2>1, <2>2, <2>3, RisingDrop, Zenon
<1> QED
  BY <1>1, <1>2, Zenon

-----------------------------------------------------------------------------

\* The presses the windows show, or get back when the correction under way is done.
Seen == {n \in Nat \ {0} : \E w \in Places : \E i \in DOMAIN Whole(w) : Whole(w)[i] = n}

\* The presses kept back.
Kept == DownNumbers(held)

\* The press on its way to a window: passing through the hook, replayed, or withheld.
Going == {n \in Nat : \/ Passing /\ n = hook.ev.n
                      \/ \E t \in Threads : SendsPress(t) /\ n = item[t].n
                      \/ /\ deferred # None /\ n = deferred.n
                         /\ \A t \in Threads : pc[t] # "clear"}

\* What is in the windows was typed before what is on its way, and that before what is kept back.
InTurn ==
    /\ \A x \in Seen, y \in Kept : x < y
    /\ \A g \in Going : (\A x \in Seen : x < g) /\ (\A y \in Kept : g < y)
    /\ \A x \in Seen \cup Kept \cup Going : x <= presses

\* The press the hook has just got is the last one.
LastPress ==
    hook.at = "lock" =>
        /\ hook.by = "user"
        /\ hook.ev.down => hook.ev.n = presses /\ \A x \in Seen \cup Kept \cup Going : x < presses

Submitted == \A t \in Threads : pc[t] = "submit" => deferred # None /\ item[t] = deferred
Unhooked == ~hooked => ~holding /\ hook.at = "idle"

Order ==
    /\ \A w \in Places : Increasing(Whole(w))
    /\ Rising(held) /\ InTurn /\ LastPress /\ Submitted /\ Unhooked
OrderInv == Calm => Order

\* A step that puts no press anywhere else.
LEMMA OrderStays ==
    ASSUME Order, \A w \in Places : Whole(w)' = Whole(w), presses' = presses,
           Rising(held'), DownNumbers(held') \subseteq DownNumbers(held), Going' \subseteq Going,
           hook'.at = "lock" => hook' = hook, Submitted', Unhooked'
    PROVE  Order'
<1>1. Seen' = Seen
  BY DEF Seen
<1>2. Kept' \subseteq Kept
  BY DEF Kept
<1>3. InTurn'
  BY <1>1, <1>2 DEF Order, InTurn
<1>4. LastPress'
  BY <1>1, <1>2 DEF Order, LastPress
<1>5. \A w \in Places : Increasing(Whole(w)')
  BY DEF Order
<1> QED
  BY <1>3, <1>4, <1>5 DEF Order, Increasing

\* A press, or a click, at the end of the text in front.
LEMMA WholeAppends ==
    ASSUME EventInv, focus' = focus, Missing = <<>>, Missing' = <<>>, NEW n \in Nat,
           text' = [text EXCEPT ![focus] = Append(@, n)],
           \A w \in Places : Increasing(Whole(w)),
           n # 0 => \A x \in Seen : x < n
    PROVE  /\ \A w \in Places : Increasing(Whole(w)')
           /\ Seen' \subseteq Seen \cup ({n} \ {0})
<1>1. focus \in Places /\ text \in [Places -> Seq(Nat)]
  BY DEF EventInv, TypeInv, HoldTypeOK, BackendEvents, TextEvents
<1>2. \A w \in Places : Whole(w) = text[w] /\ Whole(w)' = text'[w]
  <2> TAKE w \in Places
  <2>1. text[w] \in Seq(Nat) /\ text'[w] \in Seq(Nat)
    BY <1>1
  <2>2. text[w] \o <<>> = text[w] /\ text'[w] \o <<>> = text'[w]
    BY <2>1
  <2>3. Whole(w)' = IF w = focus' THEN text'[w] \o Missing' ELSE text'[w]
    BY DEF Whole
  <2> QED
    BY <2>2, <2>3 DEF Whole
<1>3. PICK s : s = text[focus]
  OBVIOUS
<1>4. PICK r : r = Append(s, n)
  OBVIOUS
<1>5. /\ s \in Seq(Nat) /\ Len(s) \in Nat /\ DOMAIN s = 1..Len(s) /\ DOMAIN r = 1..Len(s) + 1
      /\ r[Len(s) + 1] = n /\ \A i \in 1..Len(s) : r[i] = s[i]
  BY <1>1, <1>3, <1>4
<1>6. \A i \in 1..Len(s) : s[i] \in Nat /\ (s[i] # 0 => s[i] \in Seen)
  <2> TAKE i \in 1..Len(s)
  <2>1. s[i] \in Nat
    BY <1>5
  <2>2. i \in DOMAIN Whole(focus) /\ Whole(focus)[i] = s[i]
    BY <1>1, <1>2, <1>3, <1>5
  <2> QED
    BY <1>1, <2>1, <2>2 DEF Seen
<1>7. Increasing(s)
  BY <1>1, <1>2, <1>3
<1>8. Increasing(r)
  <2> SUFFICES ASSUME NEW i \in DOMAIN r, NEW j \in DOMAIN r, i < j, r[i] # 0, r[j] # 0
               PROVE  r[i] < r[j]
    BY DEF Increasing
  <2>1. i \in 1..Len(s) /\ r[i] = s[i]
    BY <1>5
  <2>2. CASE j = Len(s) + 1
    BY <1>5, <1>6, <2>1, <2>2
  <2>3. CASE j # Len(s) + 1
    <3>1. j \in 1..Len(s) /\ r[j] = s[j]
      BY <1>5, <2>3
    <3> QED
      BY <1>5, <1>7, <2>1, <3>1 DEF Increasing
  <2> QED
    BY <2>2, <2>3
<1>9. \A w \in Places : Whole(w)' = IF w = focus THEN r ELSE Whole(w)
  BY <1>1, <1>2, <1>3, <1>4
<1>10. \A w \in Places : Increasing(Whole(w)')
  BY <1>8, <1>9
<1>11. Seen' \subseteq Seen \cup ({n} \ {0})
  <2> SUFFICES ASSUME NEW x \in Seen', x # n
               PROVE  x \in Seen
    BY DEF Seen
  <2>1. x \in Nat \ {0}
    BY DEF Seen
  <2>2. \E w \in Places : \E i \in DOMAIN Whole(w)' : Whole(w)'[i] = x
    BY DEF Seen
  <2>3. PICK w \in Places : \E i \in DOMAIN Whole(w)' : Whole(w)'[i] = x
    BY <2>2
  <2>4. CASE w = focus
    <3>1. PICK i \in DOMAIN r : r[i] = x
      BY <1>9, <2>3, <2>4
    <3>2. i \in 1..Len(s) /\ s[i] = x
      BY <1>5, <3>1
    <3> QED
      BY <1>6, <2>1, <3>2
  <2>5. CASE w # focus
    <3>1. PICK i \in DOMAIN Whole(w) : Whole(w)[i] = x
      BY <1>9, <2>3, <2>5
    <3> QED
      BY <2>1, <3>1 DEF Seen
  <2> QED
    BY <2>4, <2>5
<1> QED
  BY <1>10, <1>11

-----------------------------------------------------------------------------
(* The steps of the user and of the hook keep the order *)

Sound == TextBase /\ Calm /\ Windowed /\ Keys2 /\ Order

LEMMA SoundTypes ==
    ASSUME Sound
    PROVE  /\ TypeInv /\ HoldTypeOK /\ EventInv /\ RunInv /\ WaitsForHook /\ StopInv /\ HookEvents
           /\ text \in [Places -> Seq(Nat)] /\ focus \in Places /\ presses \in Nat
           /\ W \in Correcting => holding
           /\ deferred # None \/ hook.at = "defer" => holding
           /\ ~hooked => /\ ~holding /\ hook.at = "idle" /\ held = <<>> /\ deferred = None
                         /\ W \notin Correcting /\ \A t \in Threads : pc[t] # "send"
<1>1. TypeInv /\ HoldTypeOK /\ EventInv /\ RunInv /\ WaitsForHook /\ StopInv
  BY DEF Sound, TextBase, EventInv, TypeInv, RestInv
<1>2. HookEvents /\ text \in [Places -> Seq(Nat)] /\ focus \in Places /\ presses \in Nat
  BY <1>1 DEF EventInv, BackendEvents, TextEvents, HoldTypeOK
<1>3. (W \in Correcting => holding) /\ (deferred # None \/ hook.at = "defer" => holding)
  BY DEF Sound, TextBase, CorrectInv, CorrectionHolds, DeferInv, Calm, W
<1>4. ~hooked => ~holding /\ hook.at = "idle"
  BY DEF Sound, Order, Unhooked
<1>5. ~holding => held = <<>> /\ \A t \in Threads : pc[t] # "send"
  BY DEF Sound, Keys2, OneNext
<1> QED
  BY <1>1, <1>2, <1>3, <1>4, <1>5

\* What is on its way goes on, or arrives.
LEMMA GoingLess ==
    ASSUME Passing' => Passing /\ hook'.ev.n = hook.ev.n,
           \A t \in Threads : SendsPress(t)' => SendsPress(t) /\ item'[t].n = item[t].n,
           /\ deferred' # None
           /\ \A t \in Threads : pc'[t] # "clear"
           => /\ deferred # None /\ deferred'.n = deferred.n
              /\ \A t \in Threads : pc[t] # "clear"
    PROVE  Going' \subseteq Going
<1> SUFFICES ASSUME NEW n \in Nat,
                    \/ Passing' /\ n = hook'.ev.n
                    \/ \E t \in Threads : SendsPress(t)' /\ n = item'[t].n
                    \/ /\ deferred' # None /\ n = deferred'.n
                       /\ \A t \in Threads : pc'[t] # "clear"
             PROVE  n \in Going
  BY DEF Going
<1> QED
  BY DEF Going

\* A step that puts no press anywhere else, or fewer.
LEMMA OrderLess ==
    ASSUME Order, \A w \in Places : Increasing(Whole(w)'), Seen' \subseteq Seen, presses' = presses,
           Rising(held'), DownNumbers(held') \subseteq DownNumbers(held), Going' \subseteq Going,
           hook'.at = "lock" => hook' = hook, Submitted', Unhooked'
    PROVE  Order'
<1>1. Kept' \subseteq Kept
  BY DEF Kept
<1>2. InTurn'
  BY <1>1 DEF Order, InTurn
<1>3. LastPress'
  BY <1>1 DEF Order, LastPress
<1> QED
  BY <1>2, <1>3 DEF Order, Increasing

LEMMA WholeSame ==
    ASSUME text' = text, focus' = focus, Missing' = Missing
    PROVE  \A w \in Places : Whole(w)' = Whole(w)
  BY DEF Whole

LEMMA MissingSame ==
    ASSUME UNCHANGED <<plan, late>>,
           W' = W \/ (W \notin {"type", "retype"} /\ W' \notin {"type", "retype"})
    PROVE  Missing' = Missing
  BY DEF Missing

\* The text without what is missing at its end.
LEMMA WholePlain ==
    ASSUME text \in [Places -> Seq(Nat)], Missing = <<>>
    PROVE  \A w \in Places : Whole(w) = text[w]
<1> TAKE w \in Places
<1>1. text[w] \in Seq(Nat)
  OBVIOUS
<1>2. text[w] \o <<>> = text[w]
  BY <1>1
<1> QED
  BY <1>2 DEF Whole

LEMMA WholePlainNext ==
    (text \in [Places -> Seq(Nat)] /\ Missing = <<>> => \A w \in Places : Whole(w) = text[w])'
<1>1. text \in [Places -> Seq(Nat)] /\ Missing = <<>> => \A w \in Places : Whole(w) = text[w]
  BY WholePlain
<1> QED
  BY <1>1, PTL

LEMMA OrderTypes ==
    ASSUME Sound, NEW k \in Keys, NEW down \in BOOLEAN, TypeKey(k, down), UNCHANGED engineVars
    PROVE  Order'
<1> USE SoundTypes
<1>1. /\ UNCHANGED <<held, holding, deferred, pc, item, focus, hooked, plan, late, consumed>>
      /\ presses' = (IF down THEN presses + 1 ELSE presses) /\ hook.at = "idle"
  BY DEF TypeKey, HookFree, holdVars, actionVars, callerVars, engineVars, workVars
<1>2. Missing' = Missing /\ Kept' = Kept
  BY <1>1, MissingSame DEF W, Kept
<1>3. \A t \in Threads : SendsPress(t)' <=> SendsPress(t)
  BY <1>1 DEF SendsPress
<1>4. ~Passing /\ ~Passing' /\ Submitted'
  <2>1. hook'.at \in {"lock", "idle"}
    BY <1>1 DEF TypeKey
  <2> QED
    BY <1>1, <2>1 DEF Passing, PassingPress, Sound, Order, Submitted
<1>5. Going' \subseteq Going
  BY <1>1, <1>3, <1>4, GoingLess
<1>6. CASE hooked
  <2>1. text' = text /\ hook'.by = "user" /\ (hook'.ev.down => down /\ hook'.ev.n = presses + 1)
    BY <1>6 DEF TypeKey
  <2>2. \A w \in Places : Whole(w)' = Whole(w)
    BY <1>1, <1>2, <2>1, WholeSame
  <2>3. Seen' = Seen
    BY <2>2 DEF Seen
  <2>4. \A x \in Seen \cup Kept \cup Going : x \in Nat /\ x <= presses
    BY DEF Sound, Order, InTurn, Seen, Going, Kept, DownNumbers, Elems, HookEvents, Fresh, KeyEvent
  <2>5. InTurn'
    BY <1>1, <1>2, <1>5, <2>3, <2>4 DEF Sound, Order, InTurn
  <2>6. LastPress'
    BY <1>1, <1>2, <1>5, <2>1, <2>3, <2>4 DEF LastPress
  <2>7. Rising(held') /\ Unhooked'
    BY <1>1, <1>6 DEF Sound, Order, Unhooked
  <2>8. \A w \in Places : Increasing(Whole(w)')
    BY <2>2 DEF Sound, Order
  <2> QED
    BY <1>4, <2>5, <2>6, <2>7, <2>8 DEF Order, Increasing
<1>7. CASE ~hooked
  <2>1. held = <<>> /\ deferred = None /\ W \notin Correcting /\ \A t \in Threads : pc[t] # "send"
    BY <1>7
  <2>2. hook' = hook /\ Missing = <<>> /\ Missing' = <<>>
    BY <1>2, <1>7, <2>1, MissingAway DEF TypeKey, Correcting
  <2>3. Going' = {} /\ Kept' = {}
    <3>1. Going = {}
      BY <1>4, <2>1 DEF Going, SendsPress
    <3>2. Kept = {}
      BY <2>1 DEF Kept, DownNumbers, Elems
    <3> QED
      BY <1>2, <1>5, <3>1, <3>2
  <2>4. LastPress' /\ Rising(held') /\ Unhooked'
    BY <1>1, <2>1, <2>2 DEF LastPress, Sound, Order, Unhooked
  <2>5. CASE down
    <3>1. text' = [text EXCEPT ![focus] = Append(@, presses + 1)]
      BY <1>7, <2>5 DEF TypeKey, Reach
    <3>2. presses + 1 \in Nat /\ \A x \in Seen : x \in Nat /\ x <= presses /\ x < presses + 1
      BY DEF Sound, Order, InTurn, Seen
    <3>3. /\ \A w \in Places : Increasing(Whole(w)')
          /\ Seen' \subseteq Seen \cup ({presses + 1} \ {0})
      BY <1>1, <2>2, <3>1, <3>2, WholeAppends DEF Sound, Order
    <3>4. InTurn'
      BY <1>1, <2>3, <2>5, <3>2, <3>3 DEF InTurn
    <3> QED
      BY <1>4, <2>4, <3>3, <3>4 DEF Order, Increasing
  <2>6. CASE ~down
    <3>1. text' = text
      BY <1>7, <2>6 DEF TypeKey, Reach
    <3>2. \A w \in Places : Whole(w)' = Whole(w)
      BY <1>1, <1>2, <3>1, WholeSame
    <3>3. Seen' = Seen /\ presses' = presses
      BY <1>1, <2>6, <3>2 DEF Seen
    <3>4. InTurn'
      BY <2>3, <3>3 DEF Sound, Order, InTurn
    <3>5. \A w \in Places : Increasing(Whole(w)')
      BY <3>2 DEF Sound, Order
    <3> QED
      BY <1>4, <2>4, <3>4, <3>5 DEF Order, Increasing
  <2> QED
    BY <2>5, <2>6
<1> QED
  BY <1>6, <1>7

LEMMA OrderUser ==
    ASSUME Sound, EventInv', Calm', BackendStep(User) \/ BackendStep(RuleWindowReports)
    PROVE  Order'
<1> USE SoundTypes
<1>1. CASE \E k \in Keys, down \in BOOLEAN : TypeKey(k, down)
  BY <1>1, OrderTypes DEF BackendStep, User, TypeKey
<1> DEFINE Same == UNCHANGED <<held, holding, deferred, pc, item, hooked, hook, presses, plan, late, consumed>>
<1>2. ASSUME Same
      PROVE  /\ Going' \subseteq Going /\ Rising(held') /\ DownNumbers(held') \subseteq DownNumbers(held)
             /\ Submitted' /\ Unhooked' /\ Missing' = Missing
  <2>1. \A t \in Threads : SendsPress(t)' <=> SendsPress(t)
    BY <1>2 DEF SendsPress
  <2>2. Passing' <=> Passing
    BY <1>2 DEF Passing, PassingPress
  <2>3. Going' \subseteq Going
    BY <1>2, <2>1, <2>2, GoingLess
  <2>4. Rising(held') /\ DownNumbers(held') \subseteq DownNumbers(held) /\ Submitted' /\ Unhooked'
    BY <1>2 DEF Sound, Order, Submitted, Unhooked
  <2> QED
    BY <1>2, <2>3, <2>4, MissingSame DEF W
<1>3. ASSUME NEW w \in Places, FocusMoves(w), UNCHANGED engineVars
      PROVE  Order'
  <2>1. Same /\ text' = text
    BY <1>3 DEF FocusMoves, hookVars, holdVars, actionVars, callerVars, engineVars, workVars
  <2>2. W \notin {"type", "retype"}
    BY <1>3 DEF FocusMoves, Remember, BetweenCheckAndInput, Calm, W
  <2>3. Missing = <<>> /\ Missing' = <<>>
    BY <1>2, <2>1, <2>2, MissingAway
  <2>4. text' \in [Places -> Seq(Nat)]
    BY <2>1
  <2>5. \A v \in Places : Whole(v) = text[v]
    BY <2>3, WholePlain
  <2>6. \A v \in Places : Whole(v)' = text'[v]
    BY <2>3, <2>4, WholePlainNext
  <2>7. \A v \in Places : Whole(v)' = Whole(v)
    BY <2>1, <2>5, <2>6
  <2>8. \A v \in Places : Increasing(Whole(v)')
    BY <2>7 DEF Sound, Order
  <2>9. Seen' \subseteq Seen
    BY <2>7 DEF Seen
  <2> QED
    BY <1>2, <2>1, <2>8, <2>9, OrderLess DEF Sound
<1>4. ASSUME Click, UNCHANGED engineVars
      PROVE  Order'
  <2>1. Same /\ focus' = focus /\ text' = [text EXCEPT ![focus] = Append(@, 0)]
    BY <1>4 DEF Click, hookVars, holdVars, actionVars, callerVars, engineVars, workVars
  <2>2. W \notin {"type", "retype"}
    BY <1>4 DEF Click, Remember, BetweenCheckAndInput, Calm, W
  <2>3. Missing = <<>> /\ Missing' = <<>>
    BY <1>2, <2>1, <2>2, MissingAway
  <2>4. (\A v \in Places : Increasing(Whole(v)')) /\ Seen' \subseteq Seen \cup ({0} \ {0})
    BY <2>1, <2>3, WholeAppends DEF Sound, Order
  <2> QED
    BY <1>2, <2>1, <2>4, OrderLess DEF Sound
<1>5. ASSUME RuleWindowReports, UNCHANGED engineVars
      PROVE  Order'
  <2>1. Same /\ text' = text /\ focus' = focus
    BY <1>5 DEF RuleWindowReports, hookVars, holdVars, actionVars, callerVars, engineVars, workVars, windowVars,
       userVars
  <2>2. \A v \in Places : Whole(v)' = Whole(v)
    BY <1>2, <2>1, WholeSame
  <2> QED
    BY <1>2, <2>1, <2>2, OrderStays DEF Sound
<1> QED
  BY <1>1, <1>3, <1>4, <1>5 DEF BackendStep, User

LEMMA AnsweredOrder ==
    ASSUME Sound, hook.at \notin {"idle", "lock"}, Answered, UNCHANGED <<item, hooked, holding>>,
           deferred' = deferred \/ Passing
    PROVE  /\ Submitted' /\ Unhooked' /\ ~Passing' /\ hook'.at = "idle"
           /\ \A t \in Threads : SendsPress(t)' => SendsPress(t) /\ item'[t].n = item[t].n
           /\ (\A t \in Threads : pc'[t] # "clear") => \A t \in Threads : pc[t] # "clear"
           /\ W' = W \/ (W = "sent" /\ W' = "loop")
<1> USE SoundTypes
<1>1. hook'.at = "idle" /\ ~Passing'
  BY DEF Answered, IdleHook, Passing, PassingPress
<1>2. \/ pc' = pc
      \/ \E t \in Threads : pc[t] = "sent" /\ pc' = [pc EXCEPT ![t] = "loop"]
  BY DEF Answered, WaitsForHook
<1>3. \A t \in Threads : pc'[t] = pc[t] \/ (pc[t] = "sent" /\ pc'[t] = "loop")
  BY <1>2 DEF HoldTypeOK
<1>4. \A t \in Threads : SendsPress(t)' => SendsPress(t) /\ item'[t].n = item[t].n
  BY <1>3 DEF SendsPress
<1>5. W' = W \/ (W = "sent" /\ W' = "loop")
  BY <1>3 DEF W, Threads
<1>6. Submitted'
  <2>1. \A t \in Threads : pc'[t] = "submit" => deferred # None /\ item[t] = deferred
    BY <1>3 DEF Sound, Order, Submitted
  <2>2. deferred' = deferred \/ deferred = None
    BY DEF Sound, Keys2, OneNext
  <2> QED
    BY <2>1, <2>2 DEF Submitted
<1>7. Unhooked'
  BY <1>1 DEF Unhooked
<1> QED
  BY <1>1, <1>3, <1>4, <1>5, <1>6, <1>7

LEMMA OrderLock ==
    ASSUME Sound, Keys2', HookLock, UNCHANGED engineVars
    PROVE  Order'
<1> USE SoundTypes
<1>1. UNCHANGED <<holding, deferred, pc, item, hooked, presses, plan, late, consumed, text, focus>>
  BY DEF HookLock, holdVars, actionVars, callerVars, engineVars, workVars, windowVars, userVars
<1>2. /\ hook.at = "lock" /\ hook.by = "user" /\ hook.ev \in Fresh /\ hook.ev \in KeyEvent /\ hook'.at # "lock"
      /\ hook.ev.down => hook.ev.n = presses /\ \A x \in Seen \cup Kept \cup Going : x < presses
  BY EventKinds DEF HookLock, HookAt, IdleHook, Sound, Order, LastPress, HookEvents
<1>3. \A w \in Places : Whole(w)' = Whole(w)
  BY <1>1, MissingSame, WholeSame DEF W
<1>4. Seen' = Seen /\ \A w \in Places : Increasing(Whole(w)')
  BY <1>3 DEF Sound, Order, Seen
<1>5. \A t \in Threads : SendsPress(t)' <=> SendsPress(t)
  BY <1>1 DEF SendsPress
<1>6. Submitted' /\ Unhooked' /\ LastPress'
  BY <1>1, <1>2 DEF Sound, Order, Submitted, Unhooked, LastPress
<1>7. CASE /\ held' = Append(held, hook.ev)
           /\ hook' = IdleHook
  <2>1. ~Passing'
    BY <1>7 DEF IdleHook, Passing
  <2>2. Going' \subseteq Going
    BY <1>1, <1>5, <2>1, GoingLess
  <2>3. held \in Seq(Fresh) /\ Rising(held) /\ (hook.ev.down => \A y \in DownNumbers(held) : y < hook.ev.n)
    BY <1>2 DEF Sound, Order, Kept, HookEvents
  <2>4. /\ Rising(held') /\ DownNumbers(held') \subseteq DownNumbers(held) \cup {hook.ev.n}
        /\ ~hook.ev.down => DownNumbers(held') = DownNumbers(held)
    BY <1>2, <1>7, <2>3, RisingAppend
  <2>5. InTurn'
    <3>1. CASE hook.ev.down
      <4>1. Kept' \subseteq Kept \cup {presses}
        BY <1>2, <2>4, <3>1 DEF Kept
      <4> QED
        BY <1>1, <1>2, <1>4, <2>2, <3>1, <4>1 DEF Sound, Order, InTurn
    <3>2. CASE ~hook.ev.down
      <4>1. Kept' = Kept
        BY <2>4, <3>2 DEF Kept
      <4> QED
        BY <1>1, <1>4, <2>2, <4>1 DEF Sound, Order, InTurn
    <3> QED
      BY <3>1, <3>2
  <2> QED
    BY <1>4, <1>6, <2>4, <2>5 DEF Order, Increasing
<1>8. CASE hook' = HookAt("track") /\ UNCHANGED held
  <2>1. hook'.ev = hook.ev /\ hook'.by = "user"
    BY <1>2, <1>8 DEF HookAt
  <2>2. Rising(held') /\ Kept' = Kept
    BY <1>8 DEF Sound, Order, Kept
  <2>3. CASE ~Passing'
    <3>1. Going' \subseteq Going
      BY <1>1, <1>5, <2>3, GoingLess
    <3>2. InTurn'
      BY <1>1, <1>4, <2>2, <3>1 DEF Sound, Order, InTurn
    <3> QED
      BY <1>4, <1>6, <2>2, <3>2 DEF Order, Increasing
  <2>4. CASE Passing'
    <3>1. deferred' = None /\ held' = <<>> /\ (\A t \in Threads : ~SendsPress(t)') /\ hook.ev.down
      BY <2>1, <2>4 DEF Keys2, OneNext, Passing, PassingPress
    <3>2. Going' \subseteq {hook.ev.n}
      BY <2>1, <3>1 DEF Going
    <3>3. Kept' = {}
      BY <3>1 DEF Kept, DownNumbers, Elems
    <3>4. InTurn'
      BY <1>1, <1>2, <1>4, <3>1, <3>2, <3>3 DEF Sound, Order, InTurn
    <3> QED
      BY <1>4, <1>6, <2>2, <3>4 DEF Order, Increasing
  <2> QED
    BY <2>3, <2>4
<1> QED
  BY <1>7, <1>8 DEF HookLock

LEMMA TrackOrder ==
    ASSUME Sound, NEW k \in Keys, TrackRelease(k)
    PROVE  Rising(held') /\ DownNumbers(held') \subseteq DownNumbers(held)
<1> USE SoundTypes
<1>1. ReleaseOf(k) \in Fresh /\ ~ReleaseOf(k).down
  BY DEF ReleaseOf, Fresh, KeyEvent
<1>2. held \in Seq(Fresh) /\ Rising(held)
  BY DEF Sound, Order, HookEvents
<1>3. Rising(Append(held, ReleaseOf(k))) /\ DownNumbers(Append(held, ReleaseOf(k))) = DownNumbers(held)
  BY <1>1, <1>2, RisingAppend
<1> QED
  BY <1>2, <1>3 DEF TrackRelease

LEMMA OrderTrack ==
    ASSUME Sound, HookTrack, UNCHANGED engineVars
    PROVE  Order'
<1> USE SoundTypes
<1>1. UNCHANGED <<holding, deferred, pc, item, hooked, presses, plan, late, consumed, text, focus>>
  BY DEF HookTrack, callerVars, engineVars, workVars, windowVars, userVars
<1>2. hook.at = "track" /\ hook'.at = "answer" /\ hook'.ev = hook.ev /\ hook'.by = hook.by
  BY DEF HookTrack, HookAt
<1>3. \A w \in Places : Whole(w)' = Whole(w)
  BY <1>1, MissingSame, WholeSame DEF W
<1>4. \A t \in Threads : SendsPress(t)' <=> SendsPress(t)
  BY <1>1 DEF SendsPress
<1>5. Passing' <=> Passing
  BY <1>1, <1>2 DEF Passing, PassingPress
<1>6. Going' \subseteq Going
  BY <1>1, <1>2, <1>4, <1>5, GoingLess
<1>7. Submitted' /\ Unhooked'
  BY <1>1, <1>2 DEF Sound, Order, Submitted, Unhooked
<1>8. Rising(held') /\ DownNumbers(held') \subseteq DownNumbers(held)
  <2>1. CASE held' = held
    BY <2>1 DEF Sound, Order
  <2>2. CASE TrackRelease(hook.ev.key)
    <3>1. hook.ev.key \in Keys
      BY <1>2, EventKinds DEF HookEvents, KeyEvent
    <3> QED
      BY <2>2, <3>1, TrackOrder
  <2> QED
    BY <2>1, <2>2 DEF HookTrack
<1> QED
  BY <1>1, <1>2, <1>3, <1>6, <1>7, <1>8, OrderStays DEF Sound

LEMMA OrderAnswers ==
    ASSUME Sound, AnswerRelease \/ AnswerRepeat \/ AnswerPress, UNCHANGED engineVars
    PROVE  Order'
<1> USE SoundTypes
<1>1. /\ UNCHANGED <<held, holding, deferred, item, hooked, presses, plan, late, focus>>
      /\ Answered /\ hook.at = "answer"
  BY DEF AnswerRelease, AnswerRepeat, AnswerPress, holdVars, actionVars, engineVars, workVars, userVars
<1>2. /\ Submitted' /\ Unhooked' /\ ~Passing' /\ hook'.at = "idle"
      /\ \A t \in Threads : SendsPress(t)' => SendsPress(t) /\ item'[t].n = item[t].n
      /\ (\A t \in Threads : pc'[t] # "clear") => \A t \in Threads : pc[t] # "clear"
      /\ W' = W \/ (W = "sent" /\ W' = "loop")
  BY <1>1, AnsweredOrder
<1>3. Going' \subseteq Going
  BY <1>1, <1>2, GoingLess
<1>4. Rising(held') /\ Kept' = Kept /\ DownNumbers(held') \subseteq DownNumbers(held)
  BY <1>1 DEF Sound, Order, Kept
<1>5. Missing' = Missing
  BY <1>1, <1>2, MissingSame
<1>6. CASE text' = text
  <2>1. \A w \in Places : Whole(w)' = Whole(w)
    BY <1>1, <1>5, <1>6, WholeSame
  <2> QED
    BY <1>1, <1>2, <1>3, <1>4, <2>1, OrderStays DEF Sound
<1>7. CASE AnswerPress
  <2>1. Passing /\ text' = [text EXCEPT ![focus] = Append(@, hook.ev.n)]
    BY <1>7 DEF AnswerPress, Reach, Passing, PassingPress
  <2>2. deferred = None /\ (\A t \in Threads : ~SendsPress(t)) /\ W \notin Replacing
    BY <2>1 DEF Sound, Keys2, OneNext
  <2>3. Missing = <<>> /\ Missing' = <<>>
    BY <1>5, <2>2, MissingAway DEF Replacing
  <2>4. hook.ev.n \in Nat /\ hook.ev.n \in Going
    <3>1. hook.ev.n \in Nat
      BY <1>1, EventKinds DEF HookEvents, KeyEvent
    <3> QED
      BY <2>1, <3>1 DEF Going
  <2>5. (\A x \in Seen : x < hook.ev.n) /\ (\A y \in Kept : hook.ev.n < y) /\ hook.ev.n <= presses
    BY <2>4 DEF Sound, Order, InTurn
  <2>6. (\A w \in Places : Increasing(Whole(w)')) /\ Seen' \subseteq Seen \cup ({hook.ev.n} \ {0})
    BY <1>1, <2>1, <2>3, <2>4, <2>5, WholeAppends DEF Sound, Order
  <2>7. Going' = {}
    BY <1>1, <1>2, <2>2 DEF Going
  <2>8. InTurn'
    BY <1>1, <1>4, <2>5, <2>6, <2>7 DEF Sound, Order, InTurn
  <2>9. LastPress'
    BY <1>2 DEF LastPress
  <2> QED
    BY <1>2, <1>4, <2>6, <2>8, <2>9 DEF Order, Increasing
<1>8. text' = text \/ AnswerPress
  BY DEF AnswerRelease, AnswerRepeat, Reach
<1> QED
  BY <1>6, <1>7, <1>8

LEMMA OrderDefers ==
    ASSUME Sound, AnswerDefers \/ HookDefer, UNCHANGED engineVars
    PROVE  Order'
<1> USE SoundTypes
<1>1. UNCHANGED <<held, item, hooked, presses, plan, late, text, focus>> /\ hook.at \in {"answer", "defer"}
  BY DEF AnswerDefers, HookDefer, holdVars, windowVars, engineVars, workVars, userVars, callerVars
<1>2. Rising(held') /\ DownNumbers(held') \subseteq DownNumbers(held)
  BY <1>1 DEF Sound, Order
<1>3. CASE AnswerDefers
  <2>1. /\ UNCHANGED <<pc, deferred>> /\ hook'.at = "defer" /\ hook'.ev = hook.ev /\ Passing
    BY <1>3 DEF AnswerDefers, HookAt, callerVars, Passing, PassingPress
  <2>2. \A w \in Places : Whole(w)' = Whole(w)
    BY <1>1, <2>1, MissingSame, WholeSame DEF W
  <2>3. \A t \in Threads : SendsPress(t)' <=> SendsPress(t)
    BY <1>1, <2>1 DEF SendsPress
  <2>4. Going' \subseteq Going
    BY <1>1, <2>1, <2>3, GoingLess
  <2>5. Submitted' /\ Unhooked'
    BY <1>1, <2>1 DEF Sound, Order, Submitted, Unhooked
  <2> QED
    BY <1>1, <1>2, <2>1, <2>2, <2>4, <2>5, OrderStays DEF Sound
<1>4. CASE HookDefer
  <2>1. Answered /\ deferred' = hook.ev /\ hook.at = "defer" /\ holding' = holding
    BY <1>4 DEF HookDefer, holdVars
  <2>2. hook.ev.down /\ Passing /\ hook.ev.n \in Nat
    BY <2>1, EventKinds DEF HookEvents, Passing, PassingPress, ActionPress, Press1, KeyEvent
  <2>3. /\ Submitted' /\ Unhooked' /\ ~Passing' /\ hook'.at = "idle"
        /\ \A t \in Threads : SendsPress(t)' => SendsPress(t) /\ item'[t].n = item[t].n
        /\ W' = W \/ (W = "sent" /\ W' = "loop")
    BY <1>1, <2>1, <2>2, AnsweredOrder
  <2>4. \A w \in Places : Whole(w)' = Whole(w)
    BY <1>1, <2>3, MissingSame, WholeSame
  <2>5. Going' \subseteq Going
    <3> SUFFICES ASSUME NEW n \in Nat,
                        \/ \E t \in Threads : SendsPress(t)' /\ n = item'[t].n
                        \/ n = deferred'.n
                 PROVE  n \in Going
      BY <2>3 DEF Going
    <3>1. CASE n = deferred'.n
      BY <2>1, <2>2, <3>1 DEF Going
    <3>2. CASE \E t \in Threads : SendsPress(t)' /\ n = item'[t].n
      BY <2>3, <3>2 DEF Going
    <3> QED
      BY <3>1, <3>2
  <2> QED
    BY <1>1, <1>2, <2>3, <2>4, <2>5, OrderStays DEF Sound
<1> QED
  BY <1>3, <1>4

LEMMA OrderHook ==
    ASSUME Sound, Keys2', BackendStep(HookStep)
    PROVE  Order'
  BY OrderLock, OrderTrack, OrderAnswers, OrderDefers DEF BackendStep, HookStep

-----------------------------------------------------------------------------
(* The steps of release_input and complete_action keep the order *)

\* A caller that goes on to a place where it neither types nor sends anything.
LEMMA CallerMoves ==
    ASSUME Sound, NEW t \in Threads, NEW l, l \notin {"send", "submit", "type", "retype"},
           pc' = [pc EXCEPT ![t] = l], pc[t] \in Routine,
           UNCHANGED <<hook, consumed, plan, late>>,
           \A u \in Threads \ {t} : item'[u] = item[u]
    PROVE  /\ Missing' = Missing /\ (Passing' <=> Passing)
           /\ \A u \in Threads : SendsPress(u)' => SendsPress(u) /\ item'[u].n = item[u].n
           /\ pc[t] # "clear" \/ l = "clear"
                => ((\A u \in Threads : pc'[u] # "clear") => \A u \in Threads : pc[u] # "clear")
           /\ deferred' = deferred => Submitted'
<1> USE SoundTypes
<1>1. pc'[t] = l /\ \A u \in Threads \ {t} : pc'[u] = pc[u]
  BY DEF HoldTypeOK
<1>2. Missing' = Missing
  <2>1. W' = W \/ (W \notin {"type", "retype"} /\ W' \notin {"type", "retype"})
    BY <1>1 DEF W, Threads, Routine
  <2> QED
    BY <2>1, MissingSame
<1>3. Passing' <=> Passing
  BY DEF Passing, PassingPress
<1>4. \A u \in Threads : SendsPress(u)' => SendsPress(u) /\ item'[u].n = item[u].n
  <2> TAKE u \in Threads
  <2>1. CASE u = t
    BY <1>1, <2>1 DEF SendsPress
  <2>2. CASE u # t
    BY <1>1, <2>2 DEF SendsPress
  <2> QED
    BY <2>1, <2>2
<1>5. deferred' = deferred => Submitted'
  BY <1>1 DEF Sound, Order, Submitted
<1>6. pc[t] # "clear" \/ l = "clear"
        => ((\A u \in Threads : pc'[u] # "clear") => \A u \in Threads : pc[u] # "clear")
  BY <1>1
<1> QED
  BY <1>2, <1>3, <1>4, <1>5, <1>6

LEMMA EndsRelease ==
    ASSUME HoldTypeOK, NEW t \in Threads, EndRelease(t)
    PROVE  \E l \in Returns \cup {"release", "raised"} : pc' = [pc EXCEPT ![t] = l]
<1>1. then[t] \in Returns
  BY DEF HoldTypeOK
<1> QED
  BY <1>1 DEF EndRelease, Back, Goto

\* Steps that move nothing.
LEMMA OrderMoves ==
    ASSUME Sound, NEW t \in Threads, UNCHANGED engineVars,
           Release(t) \/ Finally(t) \/ Cancel(t) \/ Clear(t)
    PROVE  Order'
<1> USE SoundTypes
<1>1. UNCHANGED <<hook, hooked, held, consumed, item, presses, focus, text, plan, late>> /\ pc[t] \in Routine
  BY DEF Release, Finally, Cancel, Clear, hookVars, holdVars, actionVars, userVars, windowVars, engineVars,
     workVars, Routine
<1>2. PICK l : l \notin {"send", "submit", "type", "retype"} /\ pc' = [pc EXCEPT ![t] = l]
               /\ (pc[t] = "clear" => l # "submit")
  <2>1. then[t] \in Returns
    BY DEF HoldTypeOK
  <2>2. CASE Release(t) \/ Finally(t)
    BY <2>1, <2>2, EndsRelease DEF Release, Finally, Goto, Returns
  <2>3. CASE Cancel(t) \/ Clear(t)
    BY <2>1, <2>3 DEF Cancel, Clear, Goto, Returns
  <2> QED
    BY <2>2, <2>3
<1>3. /\ Missing' = Missing /\ (Passing' <=> Passing)
      /\ \A u \in Threads : SendsPress(u)' => SendsPress(u) /\ item'[u].n = item[u].n
      /\ pc[t] # "clear" \/ l = "clear"
           => ((\A u \in Threads : pc'[u] # "clear") => \A u \in Threads : pc[u] # "clear")
      /\ deferred' = deferred => Submitted'
  BY <1>1, <1>2, CallerMoves
<1>4. \A w \in Places : Whole(w)' = Whole(w)
  BY <1>1, <1>3, WholeSame
<1>5. Going' \subseteq Going /\ Submitted'
  <2>1. CASE Clear(t)
    <3>1. deferred' = None /\ pc[t] = "clear"
      BY <2>1 DEF Clear
    <3>2. Going' \subseteq Going
      BY <1>1, <1>3, <3>1, GoingLess
    <3>3. Submitted'
      <4>1. ASSUME NEW u \in Threads, pc'[u] = "submit"
            PROVE  FALSE
        <5>1. u # t /\ pc[u] = "submit"
          BY <1>2, <4>1 DEF HoldTypeOK
        <5> QED
          BY <3>1, <5>1, OneAtWork DEF Sound, TextBase, Routine
      <4> QED
        BY <4>1 DEF Submitted
    <3> QED
      BY <3>2, <3>3
  <2>2. CASE ~Clear(t)
    <3>1. deferred' = deferred /\ pc[t] # "clear"
      BY <2>2 DEF Release, Finally, Cancel, actionVars
    <3> QED
      BY <1>1, <1>3, <3>1, GoingLess
  <2> QED
    BY <2>1, <2>2
<1>6. Rising(held') /\ DownNumbers(held') \subseteq DownNumbers(held)
  BY <1>1 DEF Sound, Order
<1>7. Unhooked'
  <2>1. holding' => holding
    BY DEF Release, Finally, Cancel, Clear, holdVars
  <2> QED
    BY <1>1, <2>1 DEF Sound, Order, Unhooked
<1> QED
  BY <1>1, <1>4, <1>5, <1>6, <1>7, OrderStays DEF Sound

\* A key taken out of the buffer.
LEMMA TakeOrder ==
    ASSUME Sound, NEW t \in Threads, NEW i \in DOMAIN held, Take(t, i)
    PROVE  /\ Rising(held') /\ DownNumbers(held') \subseteq DownNumbers(held)
           /\ i = 1 /\ held[i].down => held[i].n \in DownNumbers(held) /\ \A y \in DownNumbers(held') : held[i].n < y
<1> USE SoundTypes
<1>1. held \in Seq(Fresh) /\ i \in 1..Len(held) /\ Rising(held)
  BY DEF Sound, Order, HookEvents
<1>2. PICK r : /\ r = SubSeq(held, 1, i - 1) \o SubSeq(held, i + 1, Len(held))
               /\ Rising(r) /\ DownNumbers(r) \subseteq DownNumbers(held)
               /\ i = 1 /\ held[1].down => /\ held[1].n \in DownNumbers(held)
                                           /\ \A y \in DownNumbers(r) : held[1].n < y
  BY <1>1, RisingTaken
<1>3. held' = r
  BY <1>2, Zenon DEF Take
<1> QED
  BY <1>2, <1>3, Zenon

LEMMA OrderLoop ==
    ASSUME Sound, Keys2', NEW t \in Threads, UNCHANGED engineVars, LoopBehindAction(t) \/ Loop(t)
    PROVE  Order'
<1> USE SoundTypes
<1>1. /\ UNCHANGED <<hook, hooked, deferred, consumed, presses, focus, text, plan, late>>
      /\ pc[t] = "loop" /\ pc[t] \in Routine /\ (holding' => holding)
  BY DEF LoopBehindAction, Loop, hookVars, actionVars, userVars, windowVars, engineVars, workVars, Routine
<1>2. Unhooked'
  BY <1>1 DEF Sound, Order, Unhooked
<1>3. CASE UNCHANGED <<item, held>> /\ Goto(t, "finally")
  <2>1. /\ Missing' = Missing /\ (Passing' <=> Passing)
        /\ \A u \in Threads : SendsPress(u)' => SendsPress(u) /\ item'[u].n = item[u].n
        /\ (\A u \in Threads : pc'[u] # "clear") => \A u \in Threads : pc[u] # "clear"
        /\ Submitted'
    BY <1>1, <1>3, CallerMoves DEF Goto
  <2>2. Going' \subseteq Going
    BY <1>1, <2>1, GoingLess
  <2>3. \A w \in Places : Whole(w)' = Whole(w)
    BY <1>1, <2>1, WholeSame
  <2>4. Rising(held') /\ DownNumbers(held') \subseteq DownNumbers(held)
    BY <1>3 DEF Sound, Order
  <2> QED
    BY <1>1, <1>2, <2>1, <2>2, <2>3, <2>4, OrderStays DEF Sound
<1>4. ASSUME NEW i \in DOMAIN held, Take(t, i), i = 1 \/ ~held[i].down
      PROVE  Order'
  <2>1. pc'[t] = "send" /\ item'[t] = held[i] /\ \A u \in Threads \ {t} : pc'[u] = pc[u] /\ item'[u] = item[u]
    BY <1>4 DEF Take, Goto, HoldTypeOK
  <2>2. /\ Rising(held') /\ DownNumbers(held') \subseteq DownNumbers(held)
        /\ i = 1 /\ held[i].down => held[i].n \in DownNumbers(held)
                                    /\ \A y \in DownNumbers(held') : held[i].n < y
    BY <1>4, TakeOrder
  <2>3. \A w \in Places : Whole(w)' = Whole(w)
    <3>1. W' = W \/ (W \notin {"type", "retype"} /\ W' \notin {"type", "retype"})
      BY <1>1, <2>1 DEF W, Threads
    <3> QED
      BY <1>1, <3>1, MissingSame, WholeSame
  <2>4. (Passing' <=> Passing) /\ hook' = hook
    BY <1>1 DEF Passing, PassingPress
  <2>5. Submitted'
    BY <1>1, <2>1 DEF Sound, Order, Submitted
  <2>6. (\A u \in Threads : pc'[u] # "clear") => \A u \in Threads : pc[u] # "clear"
    BY <1>1, <2>1
  <2>7. CASE ~held[i].down
    <3>1. \A u \in Threads : SendsPress(u)' => SendsPress(u) /\ item'[u].n = item[u].n
      BY <2>1, <2>7 DEF SendsPress
    <3>2. Going' \subseteq Going
      BY <1>1, <2>4, <2>6, <3>1, GoingLess
    <3> QED
      BY <1>1, <1>2, <2>2, <2>3, <2>5, <3>2, OrderStays DEF Sound
  <2>8. CASE held[i].down
    <3>1. SendsPress(t)'
      BY <2>1, <2>8 DEF SendsPress
    <3>2. ~Passing' /\ deferred' = None
      BY <3>1 DEF Keys2, OneNext
    <3>3. \A u \in Threads \ {t} : ~SendsPress(u)'
      <4> SUFFICES ASSUME NEW u \in Threads \ {t}
                   PROVE  pc'[u] # "send"
        BY DEF SendsPress
      <4>1. pc[u] \notin Routine
        BY <1>1, OneAtWork DEF Sound, TextBase
      <4> QED
        BY <2>1, <4>1 DEF Routine
    <3>4. Going' \subseteq {held[i].n}
      BY <2>1, <3>2, <3>3 DEF Going
    <3>5. held[i].n \in Kept /\ (\A y \in Kept' : held[i].n < y) /\ Kept' \subseteq Kept
      BY <1>4, <2>2, <2>8 DEF Kept
    <3>6. Seen' = Seen /\ \A w \in Places : Increasing(Whole(w)')
      BY <2>3 DEF Seen, Sound, Order
    <3>7. InTurn'
      BY <1>1, <3>4, <3>5, <3>6 DEF Sound, Order, InTurn
    <3>8. LastPress'
      <4> SUFFICES ASSUME hook.at = "lock"
                   PROVE  LastPress'
        BY <1>1 DEF LastPress
      <4>1. Going' \subseteq Kept /\ Kept' \subseteq Kept /\ Seen' = Seen
        BY <3>4, <3>5, <3>6
      <4> QED
        BY <1>1, <4>1 DEF Sound, Order, LastPress
    <3> QED
      BY <1>2, <2>2, <2>5, <3>6, <3>7, <3>8 DEF Order, Increasing
  <2> QED
    BY <2>7, <2>8
<1>5. CASE LoopBehindAction(t)
  <2>1. CASE \E i \in PriorReleases : Take(t, i)
    BY <1>4, <2>1 DEF PriorReleases
  <2> QED
    BY <1>3, <1>5, <2>1 DEF LoopBehindAction
<1>6. CASE Loop(t)
  <2>1. CASE held # <<>> /\ Take(t, 1)
    <3>1. 1 \in DOMAIN held
      BY <2>1 DEF HookEvents
    <3> QED
      BY <1>4, <2>1, <3>1
  <2> QED
    BY <1>3, <1>6, <2>1 DEF Loop
<1> QED
  BY <1>5, <1>6

LEMMA OrderSend ==
    ASSUME Sound, NEW t \in Threads, UNCHANGED engineVars, Send(t)
    PROVE  Order'
<1> USE SoundTypes
<1>1. /\ UNCHANGED <<hooked, holding, held, deferred, consumed, presses, focus, plan, late>>
      /\ pc[t] = "send" /\ pc[t] \in Routine /\ item' = [item EXCEPT ![t] = None]
  BY DEF Send, holdVars, actionVars, userVars, engineVars, workVars, Routine
<1>2. hooked
  BY <1>1
<1>3. /\ hook' = [at |-> "track", ev |-> item[t], by |-> t] /\ text' = text
      /\ pc' = [pc EXCEPT ![t] = "sent"]
  BY <1>2 DEF Send, Goto
<1>4. pc'[t] = "sent" /\ \A u \in Threads \ {t} : pc'[u] = pc[u] /\ item'[u] = item[u]
  BY <1>1, <1>3 DEF HoldTypeOK
<1>5. \A w \in Places : Whole(w)' = Whole(w)
  <2>1. W' = W \/ (W \notin {"type", "retype"} /\ W' \notin {"type", "retype"})
    BY <1>1, <1>4 DEF W, Threads
  <2> QED
    BY <1>1, <1>3, <2>1, MissingSame, WholeSame
<1>6. Submitted' /\ Unhooked' /\ hook'.at # "lock"
  BY <1>1, <1>2, <1>3, <1>4 DEF Sound, Order, Submitted, Unhooked
<1>7. Going' \subseteq Going
  <2> SUFFICES ASSUME NEW n \in Nat,
                      \/ Passing' /\ n = hook'.ev.n
                      \/ \E u \in Threads : SendsPress(u)' /\ n = item'[u].n
                      \/ /\ deferred' # None /\ n = deferred'.n
                         /\ \A u \in Threads : pc'[u] # "clear"
               PROVE  n \in Going
    BY DEF Going
  <2>1. CASE Passing' /\ n = hook'.ev.n
    <3>1. SendsPress(t) /\ n = item[t].n
      BY <1>1, <1>3, <2>1 DEF Passing, PassingPress, SendsPress
    <3> QED
      BY <3>1 DEF Going
  <2>2. CASE \E u \in Threads : SendsPress(u)' /\ n = item'[u].n
    <3>1. \E u \in Threads : SendsPress(u) /\ n = item[u].n
      BY <1>4, <2>2 DEF SendsPress
    <3> QED
      BY <3>1 DEF Going
  <2>3. CASE /\ deferred' # None /\ n = deferred'.n
             /\ \A u \in Threads : pc'[u] # "clear"
    BY <1>1, <1>4, <2>3 DEF Going
  <2> QED
    BY <2>1, <2>2, <2>3
<1>8. Rising(held') /\ DownNumbers(held') \subseteq DownNumbers(held)
  BY <1>1 DEF Sound, Order
<1> QED
  BY <1>1, <1>5, <1>6, <1>7, <1>8, OrderStays DEF Sound

LEMMA OrderDeliver ==
    ASSUME Sound, NEW t \in Threads, UNCHANGED engineVars, Deliver(t)
    PROVE  Order'
<1> USE SoundTypes
<1>1. /\ UNCHANGED <<hook, hooked, holding, held, deferred, consumed, presses, focus, text, plan, late>>
      /\ pc[t] = "deliver"
  BY DEF Deliver, hookVars, holdVars, actionVars, userVars, windowVars, engineVars, workVars
<1>2. /\ \A u \in Threads \ {t} : pc'[u] = pc[u] /\ item'[u] = item[u]
      /\ pc'[t] \in Returns \cup {"clear", "submit"}
      /\ pc'[t] = "submit" => item'[t] = deferred /\ deferred # None
  <2>1. then[t] \in Returns
    BY DEF HoldTypeOK
  <2> QED
    BY <2>1 DEF Deliver, Goto, HoldTypeOK, Returns
<1>3. \A w \in Places : Whole(w)' = Whole(w)
  <2>1. W' = W \/ (W \notin {"type", "retype"} /\ W' \notin {"type", "retype"})
    BY <1>1, <1>2 DEF W, Threads, Returns
  <2> QED
    BY <1>1, <2>1, MissingSame, WholeSame
<1>4. Submitted' /\ Unhooked'
  BY <1>1, <1>2 DEF Sound, Order, Submitted, Unhooked
<1>5. \A u \in Threads : SendsPress(u)' => SendsPress(u) /\ item'[u].n = item[u].n
  BY <1>2 DEF SendsPress, Returns
<1>6. (\A u \in Threads : pc'[u] # "clear") => \A u \in Threads : pc[u] # "clear"
  BY <1>1, <1>2
<1>7. Passing' <=> Passing
  BY <1>1 DEF Passing, PassingPress
<1>8. Going' \subseteq Going
  BY <1>1, <1>5, <1>6, <1>7, GoingLess
<1>9. Rising(held') /\ DownNumbers(held') \subseteq DownNumbers(held)
  BY <1>1 DEF Sound, Order
<1> QED
  BY <1>1, <1>3, <1>4, <1>8, <1>9, OrderStays DEF Sound

LEMMA OrderSubmit ==
    ASSUME Sound, NEW t \in Threads, UNCHANGED engineVars, Submit(t)
    PROVE  Order'
<1> USE SoundTypes
<1>1. /\ UNCHANGED <<hook, hooked, holding, deferred, consumed, presses, focus, plan, late>>
      /\ pc[t] = "submit" /\ pc[t] \in Routine
      /\ item' = [item EXCEPT ![t] = None] /\ pc' = [pc EXCEPT ![t] = "clear"]
      /\ text' = [text EXCEPT ![focus] = Append(@, item[t].n)]
  BY DEF Submit, hookVars, userVars, engineVars, workVars, Routine, Goto
<1>2. pc'[t] = "clear" /\ \A u \in Threads \ {t} : pc'[u] = pc[u] /\ item'[u] = item[u]
  BY <1>1 DEF HoldTypeOK
<1>3. \A u \in Threads \ {t} : pc[u] \notin Routine \cup Correcting
  BY <1>1, OneAtWork DEF Sound, TextBase
<1>4. deferred # None /\ item[t] = deferred
  BY <1>1 DEF Sound, Order, Submitted
<1>5. Missing = <<>> /\ Missing' = <<>>
  <2>1. W \notin {"type", "retype"} /\ W' \notin {"type", "retype"}
    BY <1>1, <1>2, <1>3 DEF W, Threads, Correcting
  <2> QED
    BY <1>1, <2>1, MissingAway, MissingSame
<1>6. PICK n : n = item[t].n
  OBVIOUS
<1>7. n \in Nat /\ n \in Going
  <2>1. n \in Nat
    BY <1>4, <1>6, EventKinds DEF HookEvents, ActionPress, Press1, KeyEvent
  <2>2. \A u \in Threads : pc[u] # "clear"
    BY <1>1, <1>3 DEF Routine
  <2> QED
    BY <1>4, <1>6, <2>1, <2>2 DEF Going
<1>8. (\A x \in Seen : x < n) /\ (\A y \in Kept : n < y) /\ n <= presses
  BY <1>7 DEF Sound, Order, InTurn
<1>9. (\A w \in Places : Increasing(Whole(w)')) /\ Seen' \subseteq Seen \cup ({n} \ {0})
  <2>1. text' = [text EXCEPT ![focus] = Append(@, n)]
    BY <1>1, <1>6
  <2> QED
    BY <1>1, <1>5, <1>7, <1>8, <2>1, WholeAppends DEF Sound, Order
<1>10. ~Passing'
  <2>1. ~Passing
    BY <1>4 DEF Sound, Keys2, OneNext
  <2> QED
    BY <1>1, <2>1 DEF Passing, PassingPress
<1>11. Going' = {}
  <2>1. \A u \in Threads : ~SendsPress(u)'
    BY <1>2, <1>3 DEF SendsPress, Routine
  <2> QED
    BY <1>2, <1>10, <2>1 DEF Going
<1>12. Rising(held') /\ Kept' \subseteq Kept
  <2>1. CASE TrackRelease(item[t].key)
    <3>1. item[t].key \in Keys
      BY <1>4, EventKinds DEF HookEvents, ActionPress, Press1, KeyEvent
    <3> QED
      BY <2>1, <3>1, TrackOrder DEF Kept
  <2>2. CASE held' = held
    BY <2>2 DEF Sound, Order, Kept
  <2> QED
    BY <2>1, <2>2 DEF Submit
<1>13. InTurn'
  BY <1>1, <1>8, <1>9, <1>11, <1>12 DEF Sound, Order, InTurn
<1>14. LastPress'
  <2>1. hook.at # "lock"
    BY DEF Submit, HookFree, Sound, Order, Unhooked
  <2> QED
    BY <1>1, <2>1 DEF LastPress
<1>15. Submitted' /\ Unhooked'
  <2>1. Submitted'
    BY <1>1, <1>2, <1>3 DEF Submitted, Routine
  <2> QED
    BY <1>1, <2>1 DEF Sound, Order, Unhooked
<1> QED
  BY <1>9, <1>12, <1>13, <1>14, <1>15 DEF Order, Increasing

LEMMA OrderCaller ==
    ASSUME Sound, Keys2', Calm', NEW t \in Threads, BackendStep(ReleaseStep(t)) \/ BackendStep(ActionStep(t))
    PROVE  Order'
<1>1. ~SendFails(t) /\ ~SubmitFails(t)
  BY DEF SendFails, SubmitFails, Remember, Calm
<1> QED
  BY <1>1, OrderMoves, OrderLoop, OrderSend, OrderDeliver, OrderSubmit
     DEF BackendStep, ReleaseStep, ActionStep

-----------------------------------------------------------------------------
(* The steps of the worker and of the stopping thread keep the order *)

LEMMA BooksFrom ==
    ASSUME WorkerBooks
    PROVE  W \in {"ready", "handle", "focus", "collect", "refill", "check", "landed", "acted"}
<1> USE DEF W, Ready, Idle
<1>1. CASE GetEvent \/ ExpireAction \/ PollCurrentGroup \/ PauseCorrect
  BY <1>1 DEF GetEvent, ExpireAction, PollCurrentGroup, PauseCorrect
<1>2. CASE HandleEvent
  BY <1>2 DEF HandleEvent, HandlePointer, HandleSuspended, HandlePromptEnter, HandleLetter, HandleBoundary,
     HandleAction, HandleDelivered, HandleRelease, Handles
<1>3. CASE CheckFocus \/ FieldRefuses \/ CollectLate \/ RefillQueue \/ CheckPlace \/ Landed
  BY <1>3 DEF CheckFocus, FieldRefuses, CollectLate, RefillQueue, CheckPlace, Landed
<1> QED
  BY <1>1, <1>2, <1>3 DEF WorkerBooks

\* A step of one caller t, or of none, that leaves the windows and the buffer alone.
LEMMA OrderAside ==
    ASSUME Sound, \A w \in Places : Whole(w)' = Whole(w),
           UNCHANGED <<hook, item, deferred, consumed, presses>>,
           Rising(held'), DownNumbers(held') \subseteq DownNumbers(held), Unhooked',
           NEW t \in Threads, \A u \in Threads \ {t} : pc'[u] = pc[u],
           pc'[t] = pc[t] \/ (pc[t] # "clear" /\ pc'[t] \notin {"send", "submit"})
    PROVE  Order'
<1>1. \A u \in Threads : SendsPress(u)' => SendsPress(u) /\ item'[u].n = item[u].n
  BY DEF SendsPress
<1>2. Passing' <=> Passing
  BY DEF Passing, PassingPress
<1>3. (\A u \in Threads : pc'[u] # "clear") => \A u \in Threads : pc[u] # "clear"
  OBVIOUS
<1>4. Going' \subseteq Going
  BY <1>1, <1>2, <1>3, GoingLess
<1>5. Submitted'
  BY DEF Sound, Order, Submitted
<1> QED
  BY <1>4, <1>5, OrderStays DEF Sound

LEMMA HeldSame ==
    ASSUME Sound, held' = held
    PROVE  Rising(held') /\ DownNumbers(held') \subseteq DownNumbers(held)
  BY DEF Sound, Order

LEMMA OrderBooks ==
    ASSUME Sound, (WorkerBooks /\ Books) \/ HoldInput
    PROVE  Order'
<1> USE SoundTypes
<1>1. CASE WorkerBooks /\ Books
  <2>1. UNCHANGED <<hook, hooked, holding, held, item, deferred, consumed, presses, text, focus>>
    BY <1>1 DEF Books, quietVars, hookVars, holdVars, actionVars, userVars, windowVars
  <2>2. PICK l : GoesOn(l)
    BY <1>1 DEF Books
  <2>3. pc' = [pc EXCEPT !["worker"] = l] /\ l \notin {"send", "submit"}
    BY <2>2 DEF GoesOn
  <2>4. /\ W \in {"ready", "handle", "focus", "collect", "refill", "check", "landed", "acted"}
        /\ W' \notin {"type", "retype"}
    BY <1>1, BooksFrom, BooksGo
  <2>5. \A w \in Places : Whole(w)' = Whole(w)
    BY <2>1, <2>4, MissingAway, MissingAwayNext, WholeSame
  <2>6. "worker" \in Threads /\ pc'["worker"] = l /\ \A u \in Threads \ {"worker"} : pc'[u] = pc[u]
    BY <2>3 DEF HoldTypeOK, Threads
  <2>7. Unhooked'
    BY <2>1 DEF Sound, Order, Unhooked
  <2>8. Rising(held') /\ DownNumbers(held') \subseteq DownNumbers(held)
    BY <2>1, HeldSame
  <2>9. pc["worker"] # "clear" /\ pc'["worker"] \notin {"send", "submit"}
    BY <2>3, <2>4, <2>6 DEF W
  <2> QED
    BY <2>1, <2>5, <2>6, <2>7, <2>8, <2>9, OrderAside
<1>2. CASE HoldInput
  <2>1. UNCHANGED <<hook, hooked, held, item, deferred, consumed, presses, text, focus, plan, late>>
    BY <1>2 DEF HoldInput, hookVars, actionVars, userVars, windowVars, engineVars, workVars
  <2>2. W = "hold" /\ pc' = [pc EXCEPT !["worker"] = "collect"]
    BY <1>2 DEF HoldInput, Worker, W
  <2>3. "worker" \in Threads /\ pc'["worker"] = "collect" /\ \A u \in Threads \ {"worker"} : pc'[u] = pc[u]
    BY <2>2 DEF HoldTypeOK, Threads
  <2>4. \A w \in Places : Whole(w)' = Whole(w)
    BY <2>1, <2>2, <2>3, MissingSame, WholeSame DEF W
  <2>5. hooked
    <3>1. pc["stop"] = "running"
      BY <2>2 DEF Sound, TextBase, CorrectInv, StoppedWorker, Calm, Ready, W
    <3> QED
      BY <3>1 DEF RunInv
  <2>6. Unhooked'
    BY <2>1, <2>5 DEF Unhooked
  <2>7. Rising(held') /\ DownNumbers(held') \subseteq DownNumbers(held)
    BY <2>1, HeldSame
  <2>8. pc["worker"] # "clear" /\ pc'["worker"] \notin {"send", "submit"}
    BY <2>2, <2>3 DEF W
  <2> QED
    BY <2>1, <2>3, <2>4, <2>6, <2>7, <2>8, OrderAside
<1> QED
  BY <1>1, <1>2

LEMMA OrderStop ==
    ASSUME Sound, Calm', Stop \/ Unhook
    PROVE  Order'
<1> USE SoundTypes
<1>1. UNCHANGED <<hook, held, holding, item, deferred, consumed, presses, text, focus, plan, late>>
  BY DEF Stop, Unhook, hookVars, holdVars, actionVars, userVars, windowVars, engineVars, workVars
<1>2. pc' = [pc EXCEPT !["stop"] = "cancel"] /\ pc["stop"] \in {"running", "unhook"}
  BY DEF Stop, Unhook
<1>3. "stop" \in Threads /\ pc'["stop"] = "cancel" /\ \A u \in Threads \ {"stop"} : pc'[u] = pc[u]
  BY <1>2 DEF HoldTypeOK, Threads
<1>4. \A w \in Places : Whole(w)' = Whole(w)
  BY <1>1, <1>3, MissingSame, WholeSame DEF W, Threads
<1>5. Unhooked'
  <2>1. CASE Stop
    BY <1>1, <2>1 DEF Stop, Sound, Order, Unhooked
  <2>2. CASE Unhook
    BY <1>1, <2>2 DEF Unhook, Unhooked, Remember, Calm
  <2> QED
    BY <2>1, <2>2
<1>6. Rising(held') /\ DownNumbers(held') \subseteq DownNumbers(held)
  BY <1>1, HeldSame
<1> QED
  BY <1>1, <1>2, <1>3, <1>4, <1>5, <1>6, OrderAside

\* The key-ups of an injection, kept back behind the auto-repeats of their keys.
LEMMA FollowOrder ==
    ASSUME Sound, NEW ks, FollowKeys(ks)
    PROVE  Rising(held') /\ DownNumbers(held') \subseteq DownNumbers(held)
<1> USE SoundTypes
<1>1. CASE ~hooked
  BY <1>1, HeldSame DEF FollowKeys
<1>2. CASE hooked
  <2> DEFINE S == {k \in ks \cap prior : PressHeld(k)}
  <2>1. PICK o \in Orders(S) : held' = held \o [i \in DOMAIN o |-> ReleaseOf(o[i])]
    BY <1>2 DEF FollowKeys
  <2>2. S \subseteq Keys
    BY DEF HoldTypeOK
  <2>3. Cardinality(S) \in Nat
    BY <2>2, KeysAssumption, FS_Subset, FS_CardinalityType
  <2>4. o \in [1..Cardinality(S) -> S]
    BY <2>1 DEF Orders
  <2> HIDE DEF S
  <2>5. PICK r : r = [i \in DOMAIN o |-> ReleaseOf(o[i])]
    OBVIOUS
  <2>6. \A i \in 1..Cardinality(S) : ReleaseOf(o[i]) \in Fresh /\ ~ReleaseOf(o[i]).down
    BY <2>2, <2>4 DEF ReleaseOf, Fresh, KeyEvent
  <2>7. r \in [1..Cardinality(S) -> Fresh]
    BY <2>4, <2>5, <2>6
  <2>8. r \in Seq(Fresh)
    BY <2>3, <2>7, SeqDef
  <2>9. ~Downs(r)
    BY <2>4, <2>5, <2>6 DEF Downs, Elems
  <2>10. held \in Seq(Fresh) /\ Rising(held)
    BY DEF Sound, Order, HookEvents
  <2>11. Rising(held \o r) /\ DownNumbers(held \o r) = DownNumbers(held)
    BY <2>8, <2>9, <2>10, RisingConcat
  <2> QED
    BY <2>1, <2>5, <2>11
<1> QED
  BY <1>1, <1>2

LEMMA OrderInject ==
    ASSUME Sound, Stands, Mirror, Settled, Calm', Injects,
           Erase \/ EraseAndType \/ TypeWord \/ Retype \/ InjectionFails
    PROVE  Order'
<1> USE SoundTypes
<1>1. ~InjectionFails
  BY DEF InjectionFails, Remember, Calm
<1>2. \A w \in Places : Whole(w)' = Whole(w)
  BY <1>1, WholeInject
<1>3. UNCHANGED <<hook, hooked, holding, item, deferred, consumed, presses>>
  BY DEF Injects, injecting, hookVars, userVars
<1>4. PICK l \in Correcting \cup {"release"} : pc' = [pc EXCEPT !["worker"] = l]
  BY DEF Injects
<1>5. "worker" \in Threads /\ pc'["worker"] = l /\ \A u \in Threads \ {"worker"} : pc'[u] = pc[u]
  BY <1>4 DEF HoldTypeOK, Threads
<1>6. pc["worker"] # "clear" /\ pc'["worker"] \notin {"send", "submit"}
  BY <1>5 DEF Injects, Correcting
<1>7. Unhooked'
  BY <1>3 DEF Sound, Order, Unhooked
<1>8. Rising(held') /\ DownNumbers(held') \subseteq DownNumbers(held)
  <2>1. CASE Erase
    BY <2>1, HeldSame DEF Erase
  <2>2. CASE EraseAndType \/ TypeWord \/ Retype
    BY <2>2, FollowOrder DEF EraseAndType, TypeWord, Retype, TypeInto
  <2> QED
    BY <1>1, <2>1, <2>2
<1> QED
  BY <1>2, <1>3, <1>5, <1>6, <1>7, <1>8, OrderAside

-----------------------------------------------------------------------------
(* The order, for every step *)

LEMMA OrderStep ==
    ASSUME TextBase, MindInv, KeyInv, TokenInv, MirrorInv, OrderInv, [Next]_vars
    PROVE  OrderInv'
<1> SUFFICES ASSUME Calm'
             PROVE  Order'
  BY DEF OrderInv
<1>1. HoldTypeOK
  BY DEF TextBase, EventInv, TypeInv
<1>2. Calm
  BY <1>1, CalmBefore
<1>3. Sound
  BY <1>2 DEF Sound, KeyInv, OrderInv
<1>4. Keys2'
  BY KeyStep DEF KeyInv
<1>5. EventInv'
  BY EventStep DEF TextBase
<1>6. CASE Injects /\ (Erase \/ EraseAndType \/ TypeWord \/ Retype \/ InjectionFails)
  <2>1. W \in Correcting /\ running' = running
    BY <1>6 DEF Injects, injecting, engineVars, runVars, W
  <2>2. running
    <3>1. pc["stop"] = "running"
      BY <1>2, <2>1 DEF TextBase, CorrectInv, StoppedWorker, Calm, Ready, W, Correcting
    <3> QED
      BY <3>1 DEF TextBase, RunInv
  <2>3. Stands
    BY <2>1, <2>2, StandsBefore
  <2>4. Mirror /\ Settled
    BY <1>2, <2>2 DEF MirrorInv
  <2> QED
    BY <1>3, <1>6, <2>3, <2>4, OrderInject
<1>7. CASE UNCHANGED vars
  <2>1. UNCHANGED <<hook, hooked, holding, held, item, deferred, consumed, presses, pc, text, focus, plan, late>>
    BY <1>7 DEF vars, backendVars, engineVars, workVars, windowVars, callerVars, hookVars, holdVars, actionVars,
       userVars
  <2>2. \A w \in Places : Whole(w)' = Whole(w)
    BY <2>1, MissingSame, WholeSame DEF W
  <2>3. Unhooked'
    BY <1>3, <2>1 DEF Sound, Order, Unhooked
  <2>4. Rising(held') /\ DownNumbers(held') \subseteq DownNumbers(held)
    BY <1>3, <2>1, HeldSame
  <2>5. "stop" \in Threads /\ pc'["stop"] = pc["stop"] /\ \A u \in Threads \ {"stop"} : pc'[u] = pc[u]
    BY <2>1 DEF Threads
  <2> QED
    BY <1>3, <2>1, <2>2, <2>3, <2>4, <2>5, OrderAside
<1>8. CASE \/ BackendStep(User) \/ BackendStep(RuleWindowReports) \/ BackendStep(HookStep)
           \/ \E t \in Threads : BackendStep(ReleaseStep(t)) \/ BackendStep(ActionStep(t))
  BY <1>3, <1>4, <1>5, <1>8, OrderUser, OrderHook, OrderCaller
<1>9. CASE (WorkerBooks /\ Books) \/ HoldInput \/ Stop \/ Unhook
  BY <1>3, <1>9, OrderBooks, OrderStop
<1> QED
  BY <1>1, <1>6, <1>7, <1>8, <1>9, InjectCases

LEMMA OrderInit == Init => OrderInv
<1> SUFFICES ASSUME Init
             PROVE  Order
  BY DEF OrderInv
<1>1. /\ W = "ready" /\ held = <<>> /\ deferred = None /\ hook.at = "idle" /\ hooked /\ presses = 0
      /\ text = [w \in Places |-> <<>>] /\ \A t \in Threads : pc[t] \in {"ready", "running"}
  BY DEF Init, W, Threads, IdleHook
<1>2. Missing = <<>> /\ text \in [Places -> Seq(Nat)]
  <2>1. <<>> \in Seq(Nat)
    BY EmptySeq
  <2> QED
    BY <1>1, <2>1, MissingAway
<1>3. \A w \in Places : Whole(w) = <<>>
  BY <1>1, <1>2, WholePlain
<1>4. Seen = {}
  BY <1>3 DEF Seen
<1>5. Kept = {} /\ Rising(held)
  BY <1>1 DEF Kept, DownNumbers, Elems, Rising
<1>6. Going = {}
  BY <1>1 DEF Going, Passing, SendsPress
<1>7. InTurn /\ LastPress /\ Submitted /\ Unhooked
  BY <1>1, <1>4, <1>5, <1>6 DEF InTurn, LastPress, Submitted, Unhooked
<1>8. \A w \in Places : Increasing(Whole(w))
  BY <1>3 DEF Increasing
<1> QED
  BY <1>5, <1>7, <1>8 DEF Order

\* The word, the presses on their way and the text, in every state of every run.
WordInv == TextBase /\ MindInv /\ KeyInv /\ TokenInv /\ MirrorInv /\ OrderInv

LEMMA WordStep == WordInv /\ [Next]_vars => WordInv'
<1> SUFFICES ASSUME WordInv, [Next]_vars
             PROVE  WordInv'
  OBVIOUS
<1>1. TextBase /\ MindInv /\ KeyInv /\ TokenInv /\ MirrorInv /\ OrderInv
  BY DEF WordInv
<1>2. TextBase' /\ KeyInv' /\ TokenInv' /\ OrderInv'
  BY <1>1, BaseStep, KeyStep, TokenStep, OrderStep
<1>3. MindInv'
  BY <1>1, MindStep DEF TextBase
<1>4. MirrorInv'
  BY <1>1, MirrorStep DEF OrderInv, Order
<1> QED
  BY <1>2, <1>3, <1>4 DEF WordInv

LEMMA WordHolds == Spec => []WordInv
<1>1. Init => WordInv
  BY BaseInit, MindInit, TokenInit, MirrorInit, OrderInit DEF WordInv
<1> QED
  BY <1>1, WordStep, PTL DEF Spec

\* The presses a window got stand in the order they were typed, whatever was replaced,
\* withheld and replayed meanwhile: for every keyboard, every number of windows and events and
\* every size of the queue, in every run in which nothing of the list that TextInOrder excludes
\* happened (release_input, complete_action, _collect_late_input, _inject_correction).
THEOREM PressesStayInOrder == Spec => []TextInOrder
<1>1. WordInv => TextInOrder
  <2> SUFFICES ASSUME WordInv, Calm, NEW w \in Places
               PROVE  Increasing(text[w])
    BY DEF TextInOrder, Calm
  <2>1. EventInv /\ Increasing(Whole(w))
    BY DEF WordInv, TextBase, OrderInv, Order
  <2>2. Missing \in Seq(Nat) /\ text[w] \in Seq(Nat)
    BY <2>1, WholeTypes DEF EventInv, BackendEvents, TextEvents
  <2>3. CASE w # focus
    BY <2>1, <2>3 DEF Whole
  <2>4. CASE w = focus
    <3>1. PICK s : s = text[w]
      OBVIOUS
    <3>2. PICK r : r = s \o Missing
      OBVIOUS
    <3>3. /\ DOMAIN s = 1..Len(s) /\ DOMAIN r = 1..Len(s) + Len(Missing) /\ Len(s) \in Nat /\ Len(Missing) \in Nat
          /\ \A i \in 1..Len(s) : r[i] = s[i]
      BY <2>2, <3>1, <3>2, ConcatPlaces
    <3>4. Increasing(r)
      BY <2>1, <2>4, <3>1, <3>2 DEF Whole
    <3>5. \A i \in DOMAIN s : i \in DOMAIN r /\ r[i] = s[i]
      BY <3>3
    <3>6. Increasing(s)
      BY <3>4, <3>5 DEF Increasing
    <3> QED
      BY <3>1, <3>6
  <2> QED
    BY <2>3, <2>4
<1> QED
  BY <1>1, WordHolds, PTL

\* A correction erases its own word and the keys typed after it and nothing else: the
\* Backspaces of _inject_correction find exactly these at the end of the text in front.
THEOREM ErasesOnlyTheWord == Spec => ErasesOnlyItsWord
<1>1. WordInv /\ [Next]_vars => (Erases /\ odd' \subseteq {"orphaned"} => ErasesItsWord)
  <2> SUFFICES ASSUME WordInv, [Next]_vars, Erases, Calm'
               PROVE  ErasesItsWord
    BY DEF Calm
  <2>1. TextBase /\ MindInv /\ KeyInv /\ TokenInv /\ MirrorInv /\ HoldTypeOK
    BY DEF WordInv, TextBase, EventInv, TypeInv
  <2>2. Calm /\ W = "erase"
    BY <2>1, CalmBefore DEF Erases, W
  <2>3. running /\ pc["stop"] = "running" /\ hooked /\ filtering /\ ~waiting
    <3>1. pc["stop"] = "running"
      BY <2>1, <2>2 DEF TextBase, CorrectInv, StoppedWorker, Calm, Ready, W
    <3> QED
      BY <2>1, <3>1 DEF TextBase, RunInv
  <2>4. Stands /\ Mirror /\ Settled
    BY <2>1, <2>2, <2>3 DEF Stands, KeyInv, TokenInv, MirrorInv
  <2>5. PICK p \in Seq(Nat) : text[focus] = p \o Numbers(plan \o late)
    BY <2>2, <2>4, ErasesExactly
  <2>6. PICK n : n = Numbers(plan \o late)
    OBVIOUS
  <2>7. PICK q : q = text[focus]
    OBVIOUS
  <2>8. n \in Seq(Nat) /\ Len(n) = Len(plan) + Len(late)
    <3>1. plan \in Seq(Event) /\ late \in Seq(Event) /\ plan \o late \in Seq(Event)
      BY <2>1, WordTypes DEF TextBase
    <3>2. n \in Seq(Nat) /\ Len(n) = Len(plan \o late)
      BY <2>6, <3>1, NumbersTypes
    <3>3. Len(plan \o late) = Len(plan) + Len(late)
      BY <3>1, ConcatPlaces
    <3> QED
      BY <3>2, <3>3
  <2>9. q = p \o n /\ q \in Seq(Nat) /\ Len(q) = Len(p) + Len(n) /\ Len(p) \in Nat /\ Len(n) \in Nat
    <3>1. q = p \o n
      BY <2>5, <2>6, <2>7
    <3>2. p \in Seq(Nat) /\ n \in Seq(Nat)
      BY <2>8
    <3> QED
      BY <3>1, <3>2, ConcatPlaces
  <2>10. SubSeq(q, Len(q) - Len(n) + 1, Len(q)) = n
    <3>1. PICK t : t = SubSeq(q, Len(q) - Len(n) + 1, Len(q))
      OBVIOUS
    <3>2. Len(q) - Len(n) + 1 = Len(p) + 1
      BY <2>9
    <3>3. t = [i \in 1..Len(n) |-> q[Len(p) + i]]
      <4>1. t = SubSeq(q, Len(p) + 1, Len(p) + Len(n))
        BY <2>9, <3>1, <3>2
      <4> QED
        BY <2>9, <4>1
    <3>4. \A i \in 1..Len(n) : q[Len(p) + i] = n[i]
      BY <2>8, <2>9, ConcatPlaces
    <3>5. t = [i \in 1..Len(n) |-> n[i]]
      BY <3>3, <3>4
    <3>6. n = [i \in 1..Len(n) |-> n[i]]
      BY <2>8
    <3> QED
      BY <3>1, <3>5, <3>6
  <2> QED
    BY <2>6, <2>7, <2>8, <2>9, <2>10 DEF ErasesItsWord, TypedLast
<1> QED
  BY <1>1, WordHolds, PTL DEF Spec, ErasesOnlyItsWord

-----------------------------------------------------------------------------
(* The keys of the word: letters, and the boundary of a plan *)

Typing == Letters \cup Boundaries
WordKeys ==
    /\ KeysOf(strokes) \subseteq Letters /\ KeysOf(late) \subseteq Letters
    /\ KeysOf(pending) \subseteq Typing /\ KeysOf(plan) \subseteq Typing

LEMMA KeysParts ==
    ASSUME NEW E, NEW s \in Seq(E)
    PROVE  /\ \A e \in Elems(s) : e.key \in KeysOf(s)
           /\ \A k \in KeysOf(s) : \E e \in Elems(s) : e.key = k
BY DEF KeysOf, Elems

LEMMA KeysEmpty == KeysOf(<<>>) = {}
BY DEF KeysOf

LEMMA KeysConcat ==
    ASSUME NEW E, NEW s \in Seq(E), NEW t \in Seq(E), NEW S,
           KeysOf(s) \subseteq S, KeysOf(t) \subseteq S
    PROVE  KeysOf(s \o t) \subseteq S
<1>1. PICK r : r = s \o t
  OBVIOUS
<1>2. r \in Seq(E) /\ Elems(r) = Elems(s) \cup Elems(t)
  <2>1. s \o t \in Seq(E) /\ Elems(s \o t) = Elems(s) \cup Elems(t)
    BY ElemsConcat, ConcatProperties
  <2> QED
    BY <1>1, <2>1, Zenon
<1>3. ASSUME NEW k \in KeysOf(r)
      PROVE  k \in S
  <2>1. PICK e \in Elems(r) : e.key = k
    BY <1>2, <1>3, KeysParts
  <2> QED
    BY <1>2, <2>1, KeysParts
<1> QED
  BY <1>1, <1>3, Zenon

LEMMA KeysOne ==
    ASSUME NEW E, NEW e \in E
    PROVE  KeysOf(<<e>>) = {e.key}
BY DEF KeysOf

LEMMA KeysOnly ==
    ASSUME NEW E, NEW s \in Seq(E), NEW S, Only(s, S) \in Seq(E)
    PROVE  /\ KeysOf(Only(s, S)) \subseteq KeysOf(s)
           /\ \A k \in KeysOf(Only(s, S)) : \E e \in S : e.key = k
<1>1. PICK r : r = Only(s, S)
  OBVIOUS
<1>2. r \in Seq(E) /\ Elems(r) = Elems(s) \cap S
  BY <1>1, OnlyElems
<1>3. \A k \in KeysOf(r) : \E e \in Elems(s) \cap S : e.key = k
  BY <1>2, KeysParts
<1>4. \A k \in KeysOf(r) : k \in KeysOf(s) /\ \E e \in S : e.key = k
  BY <1>3, KeysParts
<1> QED
  BY <1>1, <1>4

LEMMA WordKeysHandle ==
    ASSUME EventInv, WordKeys, HandleEvent
    PROVE  WordKeys'
<1> HoldTypeOK /\ strokes \in Seq(Press1) /\ pending \in Seq(Press1)
  BY DEF EventInv, TypeInv, WordEvents
<1>0. late' = late /\ KeysOf(<<>>) = {} /\ Letters \subseteq Typing
  BY KeysEmpty DEF HandleEvent, HandlePointer, HandleSuspended, HandlePromptEnter, HandleLetter,
     HandleBoundary, HandleAction, HandleDelivered, HandleRelease, handled, Typing
<1>1. CASE HandlePointer \/ HandleDelivered
  BY <1>0, <1>1, ClearWordGoes DEF HandlePointer, HandleDelivered, WordKeys
<1>2. CASE HandleSuspended
  <2>1. CASE ClearWord("ready")
    BY <1>0, <1>2, <2>1, ClearWordGoes DEF HandleSuspended, WordKeys
  <2>2. CASE UNCHANGED wordVars
    BY <1>0, <1>2, <2>2 DEF HandleSuspended, WordKeys, wordVars
  <2> QED
    BY <1>2, <2>1, <2>2 DEF HandleSuspended
<1>3. CASE HandlePromptEnter
  BY <1>0, <1>3 DEF HandlePromptEnter, WordKeys, wordVars
<1>4. CASE HandleLetter
  <2>1. UNCHANGED <<plan, pending>>
    BY <1>4 DEF HandleLetter
  <2>2. strokes' = strokes \/ strokes' = Append(strokes, cur)
    BY <1>4 DEF HandleLetter
  <2>3. pc["worker"] = "handle" /\ cur.key \in Letters /\ cur.down
    BY <1>4 DEF HandleLetter, Handles, IsLetterPress
  <2>4. cur \in Press1
    BY <2>3, CurKinds, KeysAssumption DEF Press1, Keys
  <2>5. CASE strokes' = Append(strokes, cur)
    <3>1. Append(strokes, cur) = strokes \o <<cur>> /\ <<cur>> \in Seq(Press1)
      BY <2>4
    <3>2. KeysOf(<<cur>>) \subseteq Letters
      BY <2>3, <2>4, KeysOne
    <3>3. KeysOf(strokes \o <<cur>>) \subseteq Letters
      BY <3>1, <3>2, KeysConcat DEF WordKeys
    <3>4. KeysOf(strokes') \subseteq Letters
      BY <2>5, <3>1, <3>3, Zenon
    <3> QED
      BY <1>0, <2>1, <3>4 DEF WordKeys
  <2> QED
    BY <1>0, <2>1, <2>2, <2>5 DEF WordKeys
<1>5. CASE HandleBoundary
  <2>1. plan' = plan /\ pc["worker"] = "handle" /\ cur.key \in Boundaries /\ cur.down
    BY <1>5 DEF HandleBoundary, Handles
  <2>2. cur \in Press1
    BY <2>1, CurKinds, KeysAssumption DEF Press1, Keys
  <2>3. \/ UNCHANGED <<strokes, pending>>
        \/ strokes' = <<>> /\ pending' \in {<<>>, strokes \o <<cur>>}
        \/ pending' = <<>> /\ strokes' = strokes
    BY <1>5 DEF HandleBoundary, Commit, Decided, wordVars
  <2>4. KeysOf(strokes \o <<cur>>) \subseteq Typing
    <3>1. KeysOf(<<cur>>) \subseteq Typing /\ KeysOf(strokes) \subseteq Typing
      BY <1>0, <2>1, <2>2, KeysOne DEF Typing, WordKeys
    <3>2. <<cur>> \in Seq(Press1)
      BY <2>2
    <3> QED
      BY <3>1, <3>2, KeysConcat
  <2> QED
    BY <1>0, <2>1, <2>3, <2>4, Zenon DEF WordKeys
<1>6. CASE HandleAction
  <2>1. plan' = plan
    BY <1>6 DEF HandleAction
  <2>2. strokes \o <<>> = strokes
    OBVIOUS
  <2>3. UNCHANGED <<strokes, pending>> \/ (strokes' = <<>> /\ pending' \in {<<>>, strokes})
    BY <1>6, <2>2 DEF HandleAction, Commit, Decided, wordVars
  <2> QED
    BY <1>0, <2>1, <2>3 DEF WordKeys
<1>7. CASE HandleRelease
  <2>1. MaybeExecute(wPressed')
    BY <1>7 DEF HandleRelease
  <2>2. strokes' \in {strokes, <<>>} /\ pending' \in {pending, <<>>} /\ plan' \in {plan, pending}
    BY <2>1, MaybeExecuteEvents
  <2> QED
    BY <1>0, <2>2 DEF WordKeys
<1> QED
  BY <1>1, <1>2, <1>3, <1>4, <1>5, <1>6, <1>7 DEF HandleEvent

LEMMA WordKeysBooks ==
    ASSUME EventInv, WordKeys, WorkerBooks
    PROVE  WordKeys'
<1> HoldTypeOK /\ strokes \in Seq(Press1) /\ pending \in Seq(Press1) /\ drained \in Seq(Queueable)
  BY DEF EventInv, TypeInv, WordEvents
<1>0. KeysOf(<<>>) = {} /\ Letters \subseteq Typing
  BY KeysEmpty DEF Typing
<1>1. CASE GetEvent
  <2>1. UNCHANGED <<plan, late>>
    BY <1>1 DEF GetEvent, workVars
  <2>2. UNCHANGED <<strokes, pending>> \/ NoWord
    BY <1>1 DEF GetEvent, wordVars
  <2> QED
    BY <1>0, <2>1, <2>2 DEF NoWord, WordKeys
<1>2. CASE ExpireAction \/ PollCurrentGroup \/ CheckFocus \/ FieldRefuses
  <2>1. late' = late
    BY <1>2 DEF ExpireAction, PollCurrentGroup, CheckFocus, FieldRefuses, timed, handled
  <2>2. CASE ClearWord("ready")
    <3>1. plan' \in {plan, <<>>}
      BY <1>2, <2>2, ClearWordGoes DEF ExpireAction, PollCurrentGroup, CheckFocus, FieldRefuses, MaybeExecute
    <3> QED
      BY <1>0, <2>1, <2>2, <3>1, ClearWordGoes DEF WordKeys
  <2>3. CASE MaybeExecute({})
    <3>1. strokes' \in {strokes, <<>>} /\ pending' \in {pending, <<>>} /\ plan' \in {plan, pending}
      BY <2>3, MaybeExecuteEvents
    <3> QED
      BY <1>0, <2>1, <3>1 DEF WordKeys
  <2>4. CASE UNCHANGED <<plan, wordVars>>
    BY <2>1, <2>4 DEF WordKeys, wordVars
  <2> QED
    BY <1>2, <2>2, <2>3, <2>4 DEF ExpireAction, PollCurrentGroup, CheckFocus, FieldRefuses
<1>3. CASE PauseCorrect
  <2>1. UNCHANGED <<late, pending>>
    BY <1>3 DEF PauseCorrect, timed
  <2>2. UNCHANGED <<plan, strokes>> \/ (plan' \in {<<>>, strokes} /\ strokes' \in {strokes, <<>>})
    BY <1>3 DEF PauseCorrect, Decided
  <2> QED
    BY <1>0, <2>1, <2>2 DEF WordKeys
<1>4. CASE CollectLate
  BY <1>4 DEF CollectLate, wordVars, WordKeys
<1>5. CASE CheckPlace
  BY <1>5 DEF CheckPlace, engineVars, wordVars, workVars, WordKeys
<1>6. CASE RefillQueue
  <2>1. UNCHANGED <<plan, pending>>
    BY <1>6 DEF RefillQueue
  <2>2. Only(strokes, InPlan) \in Seq(Press1) /\ Only(strokes, Event \ InPlan) \in Seq(Press1)
        /\ Only(drained, LetterPresses) \in Seq(Press1)
    BY CollectedEvents
  <2>3. strokes' \in {strokes, Only(strokes, InPlan)} /\ late' \in {<<>>, LateKeys}
    BY <1>6 DEF RefillQueue
  <2>4. KeysOf(Only(strokes, InPlan)) \subseteq Letters /\ KeysOf(Only(strokes, Event \ InPlan)) \subseteq Letters
    BY <2>2, KeysOnly DEF WordKeys
  <2>5. KeysOf(Only(drained, LetterPresses)) \subseteq Letters
    <3>1. Only(drained, LetterPresses) \in Seq(Queueable)
      BY CollectedEvents
    <3>2. \A e \in LetterPresses : e.key \in Letters
      BY DEF LetterPresses, IsLetterPress
    <3> QED
      BY <3>1, <3>2, KeysOnly
  <2>6. KeysOf(LateKeys) \subseteq Letters
    BY <2>2, <2>4, <2>5, KeysConcat DEF LateKeys
  <2> QED
    BY <1>0, <2>1, <2>3, <2>4, <2>6 DEF WordKeys
<1>7. CASE Landed
  <2>1. plan' = <<>> /\ late' = <<>>
    BY <1>7 DEF Landed
  <2>2. CASE NoWord
    BY <1>0, <2>1, <2>2 DEF NoWord, WordKeys
  <2>3. CASE ClearWord("ready")
    BY <1>0, <2>1, <2>3, ClearWordGoes DEF WordKeys
  <2>4. CASE WordGoesOn /\ pending' = pending
    BY <1>0, <2>1, <2>4 DEF WordGoesOn, WordKeys
  <2> QED
    BY <1>7, <2>2, <2>3, <2>4 DEF Landed
<1> QED
  BY <1>1, <1>2, <1>3, <1>4, <1>5, <1>6, <1>7, WordKeysHandle DEF WorkerBooks

LEMMA WordKeysStep ==
    ASSUME EventInv, WordKeys, [Next]_vars
    PROVE  WordKeys'
<1> HoldTypeOK
  BY DEF EventInv, TypeInv
<1>1. CASE WorkerBooks
  BY <1>1, WordKeysBooks
<1>2. CASE UNCHANGED engineVars \/ HoldInput \/ Injects \/ Stop \/ Unhook \/ UNCHANGED vars
  <2>1. UNCHANGED <<strokes, pending, plan, late>>
    BY <1>2 DEF HoldInput, Injects, injecting, Stop, Unhook, vars, engineVars, wordVars, workVars
  <2> QED
    BY <2>1 DEF WordKeys
<1> QED
  BY <1>1, <1>2, InjectCases DEF BackendStep

LEMMA WordKeysInit == Init => WordKeys
BY KeysEmpty DEF Init, EngineInit, WordKeys

-----------------------------------------------------------------------------
(* The key of the withheld action: who waits for it to come up *)

Clean == odd = {}
Acting == Executing /\ then["worker"] = "acted"

\* The action that is under way is the one that is withheld.
SameKey ==
    /\ \A e \in Elems(Stream) : e.deferred => deferred # None /\ e.key = deferred.key
    /\ wDeferred # None => deferred # None /\ wDeferred.key = deferred.key
    /\ Acting => wDeferred # None

\* The window has not got the key's press, nor will it get its release; until
\* that release is answered nobody submits the action.
Pinned == deferred # None /\ deferred.key \in consumed
StillDown ==
    Pinned =>
        /\ \A e \in Behind(Stream) : ~e.down => e.key # deferred.key
        /\ wDeferred # None => deferred.key \in wPressed
        /\ W \notin {"deliver", "submit"} /\ ~Acting
ActionOK == SameKey /\ StillDown
ActionInv == Clean /\ running => ActionOK

LEMMA ActionBooks ==
    ASSUME ActionOK, UNCHANGED <<deferred, consumed>>,
           \A e \in Elems(Stream') : e.deferred => e \in Elems(Stream),
           \A e \in Behind(Stream') : ~e.down => e \in Behind(Stream),
           wDeferred' # None => deferred # None /\ wDeferred'.key = deferred.key,
           Acting' => wDeferred' # None,
           Pinned => /\ wDeferred' # None => deferred.key \in wPressed'
                     /\ W' \notin {"deliver", "submit"} /\ ~Acting'
    PROVE  ActionOK'
<1>1. SameKey'
  BY DEF ActionOK, SameKey
<1>2. StillDown'
  BY DEF ActionOK, StillDown, Pinned
<1> QED
  BY <1>1, <1>2 DEF ActionOK

LEMMA ActionStays ==
    ASSUME ActionOK, UNCHANGED <<deferred, consumed, wDeferred, wPressed>>,
           \A e \in Elems(Stream') : e.deferred => e \in Elems(Stream),
           \A e \in Behind(Stream') : ~e.down => e \in Behind(Stream),
           W' \in {"deliver", "submit"} => W \in {"deliver", "submit"},
           Acting' => Acting
    PROVE  ActionOK'
<1>1. wDeferred' # None => deferred # None /\ wDeferred'.key = deferred.key
  BY DEF ActionOK, SameKey
<1>2. Acting' => wDeferred' # None
  BY DEF ActionOK, SameKey
<1>3. Pinned => /\ wDeferred' # None => deferred.key \in wPressed'
                /\ W' \notin {"deliver", "submit"} /\ ~Acting'
  BY DEF ActionOK, StillDown
<1> QED
  BY <1>1, <1>2, <1>3, ActionBooks

LEMMA ActionUser ==
    ASSUME Stands, Calm', ActionOK, BackendStep(User) \/ BackendStep(RuleWindowReports)
    PROVE  ActionOK'
<1> USE StandsTypes
<1>1. UNCHANGED <<deferred, consumed, wDeferred, wPressed, drained, cur, pc, then>>
  BY DEF BackendStep, User, TypeKey, FocusMoves, Click, RuleWindowReports, engineVars, wordKeyVars, keyVars,
     workVars, callerVars, actionVars
<1>2. W' = W /\ (Acting' <=> Acting)
  BY <1>1 DEF W, Acting, Executing
<1>3. CASE inbox' = inbox
  <2>1. Stream' = Stream
    BY <1>1, <1>3 DEF Stream, InHand
  <2> QED
    BY <1>1, <1>2, <2>1, ActionStays
<1>4. CASE Click
  <2>1. inbox' = Append(inbox, ClickEvent)
    <3>1. Remember((Lost \cup (IF BetweenCheckAndInput THEN {"moved"} ELSE {}))
                     \cup (IF pc["worker"] = "refill" THEN {"raced"} ELSE {}))
      BY <1>4 DEF Click
    <3>2. ~QueueFull
      BY <3>1 DEF Remember, Lost, Calm
    <3> QED
      BY <1>4, <3>2 DEF Click, Enqueue, ClickEvent
  <2>2. ClickEvent \in Queueable /\ ~ClickEvent.deferred /\ ClickEvent.down
    BY DEF Queueable, ClickEvent
  <2>3. /\ Elems(Stream') = Elems(Stream) \cup {ClickEvent}
        /\ Behind(Stream') = Behind(Stream) \cup {ClickEvent}
    BY <1>1, <2>1, <2>2, StreamAppend
  <2> QED
    BY <1>1, <1>2, <2>2, <2>3, ActionStays
<1>5. inbox' = inbox \/ Click
  BY DEF BackendStep, User, TypeKey, FocusMoves, RuleWindowReports, queueVars
<1> QED
  BY <1>3, <1>4, <1>5

LEMMA ActionHook ==
    ASSUME Stands, Calm', ActionOK, BackendStep(HookStep)
    PROVE  ActionOK'
<1> USE StandsTypes
<1> Token /\ Calm /\ Keys2
  BY DEF Stands
<1>0. UNCHANGED <<wDeferred, wPressed, drained, cur, then>>
  BY DEF BackendStep, engineVars, wordKeyVars, keyVars, workVars, HookStep, HookLock, HookTrack, AnswerRelease,
     AnswerRepeat, AnswerPress, AnswerDefers, HookDefer, callerVars
<1>1. hook.at # "idle" /\ hook.ev \in Fresh /\ hook.ev \in Queueable /\ ~hook.ev.deferred
  <2>1. hook.at # "idle"
    BY DEF BackendStep, HookStep, HookLock, HookTrack, AnswerRelease, AnswerRepeat, AnswerPress,
       AnswerDefers, HookDefer
  <2>2. hook.ev \in Fresh
    BY <2>1 DEF EventInv, BackendEvents, HookEvents
  <2> QED
    BY <2>1, <2>2 DEF Queueable, Fresh
<1>2. W' = W \/ (W = "sent" /\ W' = "loop")
  BY <1>1, AnsweredGoes DEF BackendStep, HookStep, HookLock, HookTrack, AnswerRelease, AnswerRepeat, AnswerPress,
     AnswerDefers, HookDefer, callerVars, W
<1>3. (Acting' <=> Acting) /\ (W' \in {"deliver", "submit"} => W \in {"deliver", "submit"})
  BY <1>0, <1>2 DEF Acting, Executing, Correcting, Routine
<1>4. CASE HookLock \/ HookTrack \/ AnswerRepeat
  <2>1. UNCHANGED <<deferred, consumed, inbox>>
    BY <1>4 DEF HookLock, HookTrack, AnswerRepeat, actionVars, queueVars
  <2>2. Stream' = Stream
    BY <1>0, <2>1 DEF Stream, InHand
  <2> QED
    BY <1>0, <1>3, <2>1, <2>2, ActionStays
<1>5. CASE AnswerRelease
  <2>1. deferred' = deferred /\ ~hook.ev.down
    BY <1>5 DEF AnswerRelease
  <2>2. inbox' = Append(inbox, hook.ev)
    BY <1>5, RoomLeft DEF AnswerRelease, Remember, Enqueue, Lost, Calm
  <2>3. /\ Elems(Stream') = Elems(Stream) \cup {hook.ev}
        /\ Behind(Stream') = Behind(Stream) \cup {hook.ev}
    BY <1>0, <1>1, <2>2, StreamAppend
  <2>4. SameKey'
    BY <1>0, <1>1, <1>3, <2>1, <2>3 DEF ActionOK, SameKey
  <2>5. Pinned' => Pinned /\ hook.ev.key # deferred.key
    BY <1>5, <2>1 DEF AnswerRelease, Pinned
  <2>6. StillDown'
    BY <1>0, <1>3, <2>1, <2>3, <2>5 DEF ActionOK, StillDown
  <2> QED
    BY <2>4, <2>6 DEF ActionOK
<1>6. CASE AnswerPress \/ AnswerDefers
  <2>1. deferred' = deferred /\ Passing
    BY <1>1, <1>6 DEF AnswerPress, AnswerDefers, actionVars, Passing, PassingPress
  <2>2. deferred = None /\ ~Has(Stream) /\ wDeferred = None
    BY <2>1 DEF Keys2, OneNext, Token
  <2>3. ~Has(Stream')
    <3>1. CASE AnswerPress
      <4>1. inbox' = Append(inbox, hook.ev)
        BY <3>1, RoomLeft DEF AnswerPress, Remember, Enqueue, Lost, Calm
      <4> QED
        BY <1>0, <1>1, <2>2, <4>1, StreamAppend
    <3>2. CASE AnswerDefers
      BY <1>0, <2>2, <3>2 DEF AnswerDefers, queueVars, Stream, InHand
    <3> QED
      BY <1>6, <3>1, <3>2
  <2>4. SameKey'
    BY <1>0, <1>3, <2>2, <2>3 DEF ActionOK, SameKey, Has
  <2>5. StillDown'
    BY <2>1, <2>2 DEF StillDown, Pinned
  <2> QED
    BY <2>4, <2>5 DEF ActionOK
<1>7. CASE HookDefer
  <2>0. hook.ev \in ActionPress
    BY <1>7 DEF HookDefer, EventInv, BackendEvents, HookEvents
  <2>1. deferred' = hook.ev /\ Passing /\ hook.ev # None
    BY <1>7, <2>0, EventKinds DEF HookDefer, Passing, PassingPress, ActionPress, Press1
  <2>2. deferred = None /\ ~Completing /\ wDeferred = None /\ ~Has(Stream)
    BY <2>1 DEF Keys2, OneNext, Token
  <2>3. PICK ev : ev = [hook.ev EXCEPT !.deferred = TRUE]
    OBVIOUS
  <2>4. ev \in Queueable /\ ev.deferred /\ ev.key = hook.ev.key
    BY <2>0, <2>3 DEF ActionPress, Press1, Fresh, Withheld, Queueable, KeyEvent
  <2>5. inbox' = Append(inbox, ev)
    BY <1>7, <2>3, RoomLeft DEF HookDefer, Remember, Enqueue, Lost, Calm
  <2>6. Behind(Stream') = {} /\ Elems(Stream') = Elems(Stream) \cup {ev}
    BY <1>0, <2>2, <2>4, <2>5, StreamAppend
  <2>7. ~Acting /\ W \notin {"deliver", "submit"}
    BY <2>2 DEF ActionOK, SameKey, Completing
  <2>8. SameKey'
    BY <1>0, <1>3, <2>1, <2>2, <2>4, <2>6, <2>7 DEF SameKey, Has
  <2>9. StillDown'
    BY <1>0, <1>3, <2>2, <2>6, <2>7 DEF StillDown
  <2> QED
    BY <2>8, <2>9 DEF ActionOK
<1> QED
  BY <1>4, <1>5, <1>6, <1>7 DEF BackendStep, HookStep

LEMMA ActionCaller ==
    ASSUME Stands, Calm', ActionOK, NEW t \in Threads, BackendStep(ReleaseStep(t)) \/ BackendStep(ActionStep(t))
    PROVE  ActionOK'
<1> USE StandsTypes
<1> Token /\ Calm
  BY DEF Stands
<1>0. t = "worker"
  BY CallerSteps DEF Stands, Routine, Threads
<1>1. UNCHANGED <<inbox, drained, cur, wDeferred, wPressed, then, consumed>>
  BY DEF BackendStep, engineVars, workVars, wordKeyVars, keyVars, ReleaseStep, Release, LoopBehindAction, Loop,
     Send, SendFails, Finally, ActionStep, Deliver, Submit, SubmitFails, Cancel, Clear, queueVars, actionVars
<1>2. Stream' = Stream
  BY <1>1 DEF InHand, Stream
<1>3. /\ W \in Routine \ {"sent"}
      /\ \/ W' \in (Routine \ {"deliver", "submit"}) \cup {then["worker"]}
         \/ W = "deliver" /\ W' = "submit"
  BY <1>0, CallerSteps DEF W
<1>4. then["worker"] \in Returns
  BY DEF HoldTypeOK, Threads
<1>5. (Acting' => Acting) /\ (W' \in {"deliver", "submit"} => W \in {"deliver", "submit"})
  BY <1>1, <1>3, <1>4 DEF Acting, Executing, Correcting, Routine, Returns
<1>6. CASE deferred' = deferred
  BY <1>1, <1>2, <1>5, <1>6, ActionStays
<1>7. CASE Clear(t)
  <2>1. Completing /\ deferred' = None /\ W' = "release"
    BY <1>0, <1>7 DEF Clear, Goto, Completing, W, HoldTypeOK, Threads
  <2>2. ~Has(Stream) /\ wDeferred = None
    BY <2>1 DEF Token
  <2>3. SameKey'
    BY <1>1, <1>2, <1>5, <2>2 DEF ActionOK, SameKey, Has
  <2>4. StillDown'
    BY <2>1 DEF StillDown, Pinned
  <2> QED
    BY <2>3, <2>4 DEF ActionOK
<1>8. deferred' = deferred \/ Clear(t)
  BY DEF BackendStep, ReleaseStep, Release, LoopBehindAction, Loop, Send, SendFails, Finally, ActionStep,
     Deliver, Submit, SubmitFails, Cancel, actionVars
<1> QED
  BY <1>6, <1>7, <1>8

LEMMA ActionGet ==
    ASSUME Stands, ActionOK, GetEvent
    PROVE  ActionOK'
<1> USE StandsTypes
<1> Token /\ ActionOK
  BY DEF Stands
<1>0. W = "ready" /\ inbox # <<>> /\ cur' = Head(inbox) /\ inbox' = Tail(inbox)
  BY DEF GetEvent, Ready, W
<1>1. UNCHANGED <<deferred, consumed, drained>>
  BY DEF GetEvent, hiddenVars, quietVars, actionVars, workVars
<1>2. drained = <<>> /\ cur = None
  BY <1>0 DEF Phases, AtEvent, W, Routine
<1>3. inbox \in Seq(Queueable) /\ cur' \in Queueable /\ cur' # None /\ Tail(inbox) \in Seq(Queueable)
  <2>1. inbox \in Seq(Queueable)
    BY StreamTypes
  <2>2. cur' \in Queueable /\ Tail(inbox) \in Seq(Queueable)
    BY <1>0, <2>1
  <2> QED
    BY <2>1, <2>2, EventKinds
<1>4. InHand = <<>> /\ InHand' = <<Head(inbox)>>
  BY <1>0, <1>2, <1>3 DEF InHand
<1>5. Stream' = Stream
  <2>1. <<>> \o (<<>> \o inbox) = inbox
    BY <1>3
  <2>2. <<>> \o Tail(inbox) = Tail(inbox)
    BY <1>3
  <2>3. <<Head(inbox)>> \o Tail(inbox) = inbox
    BY <1>0, <1>3
  <2>4. Stream = inbox
    BY <1>2, <1>4, <2>1 DEF Stream
  <2>5. drained' = <<>> /\ inbox' = Tail(inbox)
    BY <1>0, <1>1, <1>2
  <2>6. Stream' = <<Head(inbox)>> \o (<<>> \o Tail(inbox))
    BY <1>4, <2>5, Zenon DEF Stream
  <2> QED
    BY <2>2, <2>3, <2>4, <2>6, Zenon
<1>6. \/ wDeferred' = wDeferred /\ wPressed' = wPressed
      \/ wDeferred' = None
  BY DEF GetEvent, keyVars
<1>7. W' = "handle" \/ (W' = "cancel" /\ then'["worker"] = "handle")
  BY DEF GetEvent, Worker, Call, HoldTypeOK, W, Threads
<1>8. ~Acting' /\ W' \notin {"deliver", "submit"}
  BY <1>7 DEF Acting, Executing, Correcting, Routine
<1>9. wDeferred' # None => deferred # None /\ wDeferred'.key = deferred.key /\ wPressed' = wPressed
                           /\ wDeferred' = wDeferred
  BY <1>6 DEF ActionOK, SameKey
<1>10. Pinned /\ wDeferred' # None => deferred.key \in wPressed'
  BY <1>9 DEF ActionOK, StillDown
<1> QED
  BY <1>1, <1>5, <1>8, <1>9, <1>10, ActionBooks

LEMMA ActionHandle ==
    ASSUME Stands, ActionOK, HandleEvent
    PROVE  ActionOK'
<1> USE StandsTypes
<1> Token /\ ActionOK
  BY DEF Stands
<1>0. W = "handle"
  BY DEF HandleEvent, HandlePointer, HandleSuspended, HandlePromptEnter, HandleLetter,
     HandleBoundary, HandleAction, HandleDelivered, HandleRelease, Handles, W
<1>1. UNCHANGED <<deferred, consumed, drained, inbox>> /\ cur' = None
  BY DEF HandleEvent, HandlePointer, HandleSuspended, HandlePromptEnter, HandleLetter,
     HandleBoundary, HandleAction, HandleDelivered, HandleRelease, Done, handled, hiddenVars, quietVars,
     actionVars, queueVars
<1>2. /\ Stream' = inbox /\ cur \in Queueable
      /\ Elems(Stream) = {cur} \cup Elems(inbox)
      /\ Has(Stream) <=> cur.deferred \/ Has(inbox)
      /\ Behind(inbox) \subseteq Behind(Stream)
      /\ ~Has(Stream) => cur \in Behind(Stream)
  BY <1>0, <1>1, EventHandled
<1>3. /\ \A e \in Elems(Stream') : e.deferred => e \in Elems(Stream)
      /\ \A e \in Behind(Stream') : ~e.down => e \in Behind(Stream)
  BY <1>2
<1> DEFINE Goes ==
      /\ wDeferred' # None => deferred # None /\ wDeferred'.key = deferred.key
      /\ Acting' => wDeferred' # None
      /\ Pinned => /\ wDeferred' # None => deferred.key \in wPressed'
                   /\ W' \notin {"deliver", "submit"} /\ ~Acting'
<1>4. ASSUME Goes
      PROVE  ActionOK'
  BY <1>1, <1>3, <1>4, ActionBooks
<1> HIDE DEF Goes
<1>5. wDeferred # None => deferred # None /\ wDeferred.key = deferred.key /\ ~Has(Stream)
  BY DEF ActionOK, SameKey, Token
<1>6. CASE HandlePointer \/ HandleDelivered
  <2>1. ClearWord("ready")
    BY <1>6 DEF HandlePointer, HandleDelivered
  <2>2. /\ wDeferred' = None
        /\ W' \in {"ready", "cancel"} /\ (W' = "cancel" => then'["worker"] = "ready")
    BY <2>1, ClearWordGoes
  <2>3. ~Acting'
    BY <2>2 DEF Acting, Executing, Correcting, Routine
  <2>4. Goes
    BY <2>2, <2>3 DEF Goes
  <2> QED
    BY <1>4, <2>4
<1>7. CASE HandlePromptEnter
  <2>1. W' = "cancel" /\ then'["worker"] = "ready" /\ wDeferred' = wDeferred /\ cur.deferred
    BY <1>7 DEF HandlePromptEnter, Call, Worker, HoldTypeOK, Threads, W
  <2>2. wDeferred' = None /\ ~Acting'
    BY <1>2, <1>5, <2>1 DEF Acting, Executing, Correcting, Routine
  <2>3. Goes
    BY <2>1, <2>2 DEF Goes
  <2> QED
    BY <1>4, <2>3
<1>8. CASE HandleLetter \/ HandleBoundary
  <2>1. W' = "ready" /\ wDeferred' = wDeferred /\ wPressed \subseteq wPressed'
    BY <1>8 DEF HandleLetter, HandleBoundary, Worker, HoldTypeOK, Threads, W, Press
  <2>2. ~Acting'
    BY <2>1 DEF Acting, Executing, Correcting, Routine
  <2>3. Pinned /\ wDeferred # None => deferred.key \in wPressed'
    BY <2>1 DEF ActionOK, StillDown
  <2>4. Goes
    BY <1>5, <2>1, <2>2, <2>3 DEF Goes
  <2> QED
    BY <1>4, <2>4
<1>9. CASE HandleAction
  <2>1. W' = "ready" /\ wDeferred' = cur /\ cur.deferred /\ cur.key \in wPressed'
    BY <1>9 DEF HandleAction, Worker, HoldTypeOK, Threads, W
  <2>2. ~Acting'
    BY <2>1 DEF Acting, Executing, Correcting, Routine
  <2>3. deferred # None /\ cur.key = deferred.key
    BY <1>2, <2>1 DEF ActionOK, SameKey
  <2>4. Goes
    BY <2>1, <2>2, <2>3 DEF Goes
  <2> QED
    BY <1>4, <2>4
<1>10. CASE HandleRelease
  <2>1. MaybeExecute(wPressed') /\ wPressed' = wPressed \ {cur.key} /\ ~cur.down
    BY <1>10 DEF HandleRelease
  <2>2. Pinned /\ wDeferred # None => deferred.key \in wPressed'
    <3>1. SUFFICES ASSUME Pinned, wDeferred # None
                   PROVE  cur.key # deferred.key /\ deferred.key \in wPressed
      BY <2>1
    <3>2. cur \in Behind(Stream)
      BY <1>2, <1>5, <3>1
    <3> QED
      BY <2>1, <3>1, <3>2 DEF ActionOK, StillDown
  <2>3. CASE W' = "ready" /\ wDeferred' = wDeferred
    <3>1. ~Acting'
      BY <2>3 DEF Acting, Executing, Correcting, Routine
    <3>2. Goes
      BY <1>5, <2>2, <2>3, <3>1 DEF Goes
    <3> QED
      BY <1>4, <3>2
  <2>4. ASSUME Pinned, wDeferred # None
        PROVE  W' = "ready"
    <3>1. wPressed' # {}
      BY <2>2, <2>4
    <3> QED
      BY <2>1, <2>4, <3>1 DEF MaybeExecute, Worker, HoldTypeOK, Threads, W
  <2>5. CASE /\ W' = "focus" /\ wDeferred' = wDeferred
             /\ then'["worker"] = "landed" <=> wDeferred = None
    <3>1. Acting' => wDeferred # None
      BY <2>5 DEF Acting
    <3>2. Goes
      BY <1>5, <2>2, <2>4, <2>5, <3>1 DEF Goes
    <3> QED
      BY <1>4, <3>2
  <2>6. CASE W' = "deliver" /\ then'["worker"] = "ready" /\ wDeferred # None /\ wDeferred' = None
    <3>1. ~Acting'
      BY <2>6 DEF Acting, Executing, Correcting, Routine
    <3>2. Goes
      BY <2>4, <2>6, <3>1 DEF Goes
    <3> QED
      BY <1>4, <3>2
  <2> QED
    BY <2>1, <2>3, <2>5, <2>6, MaybeExecuteGoes
<1>11. ~HandleSuspended
  BY DEF HandleSuspended, Stands, Windowed
<1> QED
  BY <1>6, <1>7, <1>8, <1>9, <1>10, <1>11 DEF HandleEvent

\* A step of the worker that leaves the stream alone.
LEMMA ActionAside ==
    ASSUME ActionOK, UNCHANGED <<deferred, consumed, cur, drained, inbox>>,
           wDeferred' \in {wDeferred, None},
           Acting' => wDeferred' # None,
           Pinned => /\ wDeferred' # None => (deferred.key \in wPressed => deferred.key \in wPressed')
                     /\ W' \notin {"deliver", "submit"} /\ ~Acting'
    PROVE  ActionOK'
<1>1. Stream' = Stream
  BY DEF Stream, InHand
<1>2. wDeferred' # None => deferred # None /\ wDeferred'.key = deferred.key
  BY DEF ActionOK, SameKey
<1>3. Pinned /\ wDeferred' # None => deferred.key \in wPressed'
  BY DEF ActionOK, StillDown
<1> QED
  BY <1>1, <1>2, <1>3, ActionBooks

LEMMA ActionTimers ==
    ASSUME Stands, ActionOK, ExpireAction \/ PollCurrentGroup \/ PauseCorrect
    PROVE  ActionOK'
<1> USE StandsTypes
<1> Token /\ ActionOK
  BY DEF Stands
<1>0. W = "ready"
  BY DEF ExpireAction, PollCurrentGroup, PauseCorrect, Idle, Ready, W
<1>1. UNCHANGED <<deferred, consumed, drained, inbox, cur>>
  BY DEF ExpireAction, PollCurrentGroup, PauseCorrect, timed, hiddenVars, quietVars, actionVars, queueVars
<1>2. wDeferred # None => deferred # None /\ wDeferred.key = deferred.key
  BY DEF ActionOK, SameKey
<1>3. Pinned /\ wDeferred # None => deferred.key \in Awaited
  BY <1>2 DEF ActionOK, StillDown, Awaited
<1>4. CASE ClearWord("ready")
  <2>1. wDeferred' = None /\ W' \in {"ready", "cancel"} /\ (W' = "cancel" => then'["worker"] = "ready")
    BY <1>4, ClearWordGoes
  <2>2. ~Acting'
    BY <2>1 DEF Acting, Executing, Correcting, Routine
  <2> QED
    BY <1>1, <2>1, <2>2, ActionAside
<1>5. CASE ExpireAction /\ ~ClearWord("ready")
  <2>1. MaybeExecute({}) /\ Awaited = {} /\ wDeferred # None
    BY <1>5 DEF ExpireAction
  <2>2. ~Pinned
    BY <1>3, <2>1
  <2>3. CASE W' = "ready" /\ UNCHANGED <<strokes, wDeferred>>
    <3>1. ~Acting'
      BY <2>3 DEF Acting, Executing, Correcting, Routine
    <3> QED
      BY <1>1, <2>2, <2>3, <3>1, ActionAside
  <2>4. CASE /\ W' = "focus" /\ UNCHANGED <<strokes, wDeferred>>
             /\ then'["worker"] = "landed" <=> wDeferred = None
    BY <1>1, <2>1, <2>2, <2>4, ActionAside
  <2>5. CASE W' = "deliver" /\ then'["worker"] = "ready" /\ wDeferred # None /\ wDeferred' = None
    <3>1. ~Acting'
      BY <2>5 DEF Acting, Executing, Correcting, Routine
    <3> QED
      BY <1>1, <2>2, <2>5, <3>1, ActionAside
  <2> QED
    BY <2>1, <2>3, <2>4, <2>5, MaybeExecuteGoes
<1>6. CASE PauseCorrect
  <2>1. wDeferred' = wDeferred
    BY <1>6 DEF PauseCorrect
  <2>2. Pinned /\ wDeferred # None => (deferred.key \in wPressed => deferred.key \in wPressed')
    BY <1>3, <1>6 DEF PauseCorrect, PruneStalePresses
  <2>3. W' = "ready" \/ (W' = "focus" /\ then'["worker"] = "landed")
    BY <1>6 DEF PauseCorrect, Worker, Call, HoldTypeOK, Threads, W
  <2>4. ~Acting'
    BY <2>3 DEF Acting, Executing, Correcting, Routine
  <2> QED
    BY <1>1, <2>1, <2>2, <2>3, <2>4, ActionAside
<1>7. CASE PollCurrentGroup
  BY <1>4, <1>7 DEF PollCurrentGroup
<1> QED
  BY <1>4, <1>5, <1>6, <1>7

LEMMA ActionFocus ==
    ASSUME Stands, ActionOK, CheckFocus \/ FieldRefuses \/ Landed
    PROVE  ActionOK'
<1> USE StandsTypes
<1>0. W \in {"focus", "landed", "acted"}
  BY DEF CheckFocus, FieldRefuses, Landed, W
<1>1. UNCHANGED <<deferred, consumed, drained, inbox, cur>>
  BY DEF CheckFocus, FieldRefuses, Landed, handled, hiddenVars, quietVars, actionVars, queueVars
<1>2. CASE ClearWord("ready")
  <2>1. wDeferred' = None /\ W' \in {"ready", "cancel"} /\ (W' = "cancel" => then'["worker"] = "ready")
    BY <1>2, ClearWordGoes
  <2>2. ~Acting'
    BY <2>1 DEF Acting, Executing, Correcting, Routine
  <2> QED
    BY <1>1, <2>1, <2>2, ActionAside
<1>3. CASE CheckFocus /\ Worker("hold") /\ UNCHANGED <<wordKeyVars, wDeferred, then>>
  <2>1. W' = "hold" /\ wPressed' = wPressed /\ W = "focus"
    BY <1>3 DEF CheckFocus, Worker, HoldTypeOK, Threads, W, wordKeyVars, keyVars
  <2>2. Acting' => Acting
    BY <1>3, <2>1 DEF Acting, Executing
  <2>3. Acting' => wDeferred' # None
    BY <1>3, <2>2 DEF ActionOK, SameKey
  <2>4. Pinned => ~Acting'
    BY <2>2 DEF ActionOK, StillDown
  <2> QED
    BY <1>1, <1>3, <2>1, <2>3, <2>4, ActionAside
<1>4. CASE CheckFocus \/ FieldRefuses
  BY <1>2, <1>3, <1>4 DEF CheckFocus, FieldRefuses
<1>5. CASE Landed /\ W = "acted" /\ wDeferred # None
  <2>1. wDeferred' = None /\ W' \in {"deliver", "cancel"} /\ then'["worker"] = "ready"
    BY <1>5 DEF Landed, Call, Worker, HoldTypeOK, Threads, W
  <2>2. Acting
    BY <1>5 DEF Acting, Executing, Phases
  <2>3. ~Pinned
    BY <2>2 DEF ActionOK, StillDown
  <2>4. ~Acting'
    BY <2>1 DEF Acting
  <2> QED
    BY <1>1, <2>1, <2>3, <2>4, ActionAside
<1>6. CASE Landed /\ Worker("ready") /\ UNCHANGED <<wDeferred, then>>
  <2>1. W' = "ready" /\ wPressed' = wPressed
    BY <1>6 DEF Landed, Worker, HoldTypeOK, Threads, W, wordKeyVars, keyVars
  <2>2. ~Acting'
    BY <2>1 DEF Acting, Executing, Correcting, Routine
  <2> QED
    BY <1>1, <1>6, <2>1, <2>2, ActionAside
<1>7. CASE Landed
  BY <1>2, <1>5, <1>6, <1>7 DEF Landed, W
<1> QED
  BY <1>4, <1>7

\* The steps of the correction before it types.
LEMMA ActionLate ==
    ASSUME Stands, Calm', ActionOK, HoldInput \/ CollectLate \/ CheckPlace
    PROVE  ActionOK'
<1> USE StandsTypes
<1>0. W \in {"hold", "collect", "check"}
  BY DEF HoldInput, CollectLate, CheckPlace, W
<1>1. UNCHANGED <<deferred, consumed, wDeferred, wPressed, cur, then>>
  BY DEF HoldInput, CollectLate, CheckPlace, hiddenVars, quietVars, actionVars, engineVars, wordKeyVars, keyVars
<1>2. W' \in {"collect", "refill", "erase", "release"}
  BY DEF HoldInput, CollectLate, CheckPlace, Worker, Releases, HoldTypeOK, Threads, W
<1>3. Acting' => Acting
  BY <1>0, <1>1, <1>2 DEF Acting, Executing, Correcting
<1>4. CASE HoldInput \/ CheckPlace
  <2>1. UNCHANGED <<inbox, drained>>
    BY <1>4 DEF HoldInput, CheckPlace, queueVars, engineVars, workVars
  <2>2. Stream' = Stream
    BY <1>1, <2>1 DEF Stream, InHand
  <2> QED
    BY <1>1, <1>2, <1>3, <2>2, ActionStays
<1>5. CASE CollectLate
  <2>1. drained' = inbox /\ inbox' = <<>> /\ W = "collect"
    BY <1>5 DEF CollectLate, W
  <2>2. drained = <<>> /\ inbox \in Seq(Queueable)
    BY <2>1, StreamTypes DEF Phases
  <2>3. InHand' = InHand
    BY <1>1 DEF InHand
  <2>4. <<>> \o inbox = inbox /\ inbox \o <<>> = inbox
    BY <2>2
  <2>5. Stream = InHand \o inbox
    BY <2>2, <2>4, Zenon DEF Stream
  <2>6. Stream' = InHand' \o (inbox \o <<>>)
    BY <2>1, Zenon DEF Stream
  <2>7. Stream' = Stream
    BY <2>3, <2>4, <2>5, <2>6, Zenon
  <2> QED
    BY <1>1, <1>2, <1>3, <2>7, ActionStays
<1> QED
  BY <1>4, <1>5

LEMMA ActionRefill ==
    ASSUME Stands, Calm', ActionOK, RefillQueue
    PROVE  ActionOK'
<1> USE StandsTypes
<1> Token /\ PlaceOK
  BY DEF Stands
<1>1. W = "refill"
  BY DEF RefillQueue, W
<1>2. UNCHANGED <<deferred, consumed, then, cur, wDeferred, wPressed>> /\ drained' = <<>>
  BY DEF RefillQueue, quietVars, actionVars, wordKeyVars, keyVars
<1>3. InHand = <<>> /\ InHand' = <<>>
  BY <1>1, <1>2 DEF Phases, AtEvent, W, Routine, InHand
<1>4. PICK p : p = PutBack
  OBVIOUS
<1>5. /\ p \in Seq(Queueable) /\ Elems(p) \subseteq Elems(drained)
      /\ Refused => p = drained
      /\ ~Refused => ~Has(p) /\ ~Has(drained)
  BY <1>4, PutBackKinds
<1>6. inbox' = inbox \o p
  <2>1. ~(Len(PutBack) > QueueSize - Len(inbox))
    BY DEF RefillQueue, Remember, Calm, Stands
  <2> QED
    BY <1>4, <2>1 DEF RefillQueue
<1>7. inbox \in Seq(Queueable) /\ drained \in Seq(Queueable)
  BY StreamTypes
<1>8. Stream = drained \o inbox /\ Stream' = inbox \o p
  <2>1. Stream = <<>> \o (drained \o inbox)
    BY <1>3, Zenon DEF Stream
  <2>2. Stream' = <<>> \o (<<>> \o (inbox \o p))
    BY <1>2, <1>3, <1>6, Zenon DEF Stream
  <2>3. drained \o inbox \in Seq(Queueable) /\ inbox \o p \in Seq(Queueable)
    BY <1>5, <1>7, ConcatProperties
  <2>4. <<>> \o (drained \o inbox) = drained \o inbox /\ <<>> \o (<<>> \o (inbox \o p)) = inbox \o p
    BY <2>3
  <2> QED
    BY <2>1, <2>2, <2>4, Zenon
<1>9. ~Has(inbox)
  <2>1. ~Downs(inbox)
    BY <1>1 DEF PlaceOK
  <2>2. Elems(inbox) \subseteq Queueable
    BY <1>7 DEF Elems
  <2> QED
    BY <2>1, <2>2, QueueKinds DEF Downs, Has
<1>10. /\ Elems(Stream) = Elems(drained) \cup Elems(inbox)
       /\ Elems(Stream') = Elems(inbox) \cup Elems(p)
  BY <1>5, <1>7, <1>8, ElemsConcat
<1>11. Behind(Stream) = IF Has(inbox) THEN Behind(inbox) ELSE Behind(drained) \cup Elems(inbox)
  BY <1>7, <1>8, BehindConcat
<1>12. Behind(Stream') = IF Has(p) THEN Behind(p) ELSE Behind(inbox) \cup Elems(p)
  BY <1>5, <1>7, <1>8, BehindConcat
<1>13. Behind(Stream') \subseteq Behind(Stream)
  <2>1. Behind(inbox) = Elems(inbox) /\ (~Has(drained) => Behind(drained) = Elems(drained))
    BY <1>9, BehindWithin
  <2>2. CASE Refused
    BY <1>5, <1>9, <1>11, <1>12, <2>1, <2>2
  <2>3. CASE ~Refused
    BY <1>5, <1>9, <1>11, <1>12, <2>1, <2>3
  <2> QED
    BY <2>2, <2>3
<1>14. W' \in {"release", "check"}
  BY DEF RefillQueue, Worker, Releases, HoldTypeOK, Threads, W
<1>15. Acting' => Acting
  BY <1>1, <1>2, <1>14 DEF Acting, Executing, Correcting
<1> QED
  BY <1>2, <1>5, <1>10, <1>13, <1>14, <1>15, ActionStays

LEMMA ActionInject ==
    ASSUME Stands, Calm', ActionOK, Injects, Erase \/ EraseAndType \/ TypeWord \/ Retype \/ InjectionFails
    PROVE  ActionOK'
<1> USE StandsTypes
<1> Token /\ PlaceOK
  BY DEF Stands
<1>1. UNCHANGED <<deferred, consumed, then, cur, wDeferred, wPressed, drained, late>>
  BY DEF Injects, injecting, engineVars, wordKeyVars, keyVars, workVars
<1>2. /\ W \in {"erase", "type", "retype", "restore"}
      /\ W' \in {"type", "retype", "restore", "release"}
  BY InjectGoes
<1>3. Acting' => Acting
  BY <1>1, <1>2 DEF Acting, Executing, Correcting
<1>4. InHand' = InHand
  BY <1>1 DEF InHand
<1>5. CASE ~Retype
  <2>1. inbox' = inbox
    BY <1>5 DEF Erase, EraseAndType, TypeWord, InjectionFails, queueVars
  <2>2. Stream' = Stream
    BY <1>1, <1>4, <2>1 DEF Stream
  <2> QED
    BY <1>1, <1>2, <1>3, <2>2, ActionStays
<1>6. CASE Retype
  <2>1. PICK r : r = Replayed(late)
    OBVIOUS
  <2>2. r \in Seq(Fresh) /\ Len(r) = 2 * Len(late)
    BY <2>1, ReplayedEvents DEF EventInv, WordEvents
  <2>3. inbox' = inbox \o r
    <3>1. hooked
      BY DEF Stands
    <3>2. ~(Len(inbox \o r) > QueueSize)
      BY <1>6, <2>1, <3>1 DEF Retype, Remember, Calm
    <3> QED
      BY <1>6, <2>1, <3>1, <3>2 DEF Retype
  <2>4. W = "retype"
    BY <1>6 DEF Retype, PlaceOK, W
  <2>5. CASE late = <<>>
    <3>1. r = <<>> /\ inbox \in Seq(Queueable)
      BY <2>2, <2>5, StreamTypes
    <3>2. inbox' = inbox
      BY <2>3, <3>1
    <3>3. Stream' = Stream
      BY <1>1, <1>4, <3>2 DEF Stream
    <3> QED
      BY <1>1, <1>2, <1>3, <3>3, ActionStays
  <2>6. CASE late # <<>>
    <3>1. deferred = None /\ wDeferred = None
      BY <2>4, <2>6 DEF PlaceOK, Token
    <3>2. ~Has(Stream')
      <4>1. TokenInv'
        BY TokenInject, <1>6 DEF TokenInv, Stands
      <4>2. Calm' /\ running'
        BY DEF Stands, Injects, injecting, engineVars, runVars
      <4> QED
        BY <1>1, <3>1, <4>1, <4>2 DEF TokenInv, Token
    <3>3. SameKey'
      BY <1>1, <1>3, <3>1, <3>2 DEF ActionOK, SameKey, Has
    <3>4. StillDown'
      BY <1>1, <3>1 DEF StillDown, Pinned
    <3> QED
      BY <3>3, <3>4 DEF ActionOK
  <2> QED
    BY <2>5, <2>6
<1> QED
  BY <1>5, <1>6

LEMMA ActionNext ==
    ASSUME TextBase, MindInv, KeyInv, TokenInv, ActionInv, [Next]_vars
    PROVE  ActionInv'
<1> SUFFICES ASSUME Clean', running'
             PROVE  ActionOK'
  BY DEF ActionInv
<1>0. Calm'
  BY DEF Clean, Calm
<1>1. Stands
  BY <1>0, StandsBefore
<1> HoldTypeOK
  BY DEF TextBase, EventInv, TypeInv
<1>2. ActionOK
  <2>1. odd \subseteq odd'
    BY OddGrows
  <2> QED
    BY <1>1, <2>1 DEF ActionInv, Clean, Stands
<1>3. CASE UNCHANGED vars
  <2>1. UNCHANGED <<deferred, consumed, wDeferred, wPressed, inbox, drained, cur, pc, then>>
    BY <1>3 DEF vars, backendVars, engineVars, wordKeyVars, keyVars, workVars, actionVars, queueVars, callerVars
  <2>2. W' = W /\ Stream' = Stream /\ (Acting' <=> Acting)
    BY <2>1 DEF W, Stream, InHand, Acting, Executing
  <2> QED
    BY <1>2, <2>1, <2>2, ActionStays
<1>4. CASE Stop
  BY <1>4 DEF Stop
<1>5. ~Unhook
  BY <1>1 DEF Unhook, Stands
<1>6. CASE WorkerBooks /\ Books
  BY <1>0, <1>1, <1>2, <1>6, ActionGet, ActionHandle, ActionTimers, ActionFocus, ActionLate, ActionRefill
     DEF WorkerBooks
<1> QED
  BY <1>0, <1>1, <1>2, <1>3, <1>4, <1>5, <1>6, InjectCases, ActionUser, ActionHook, ActionCaller, ActionLate,
     ActionInject

LEMMA ActionInit == Init => ActionInv
<1> SUFFICES ASSUME Init
             PROVE  ActionOK
  BY DEF ActionInv
<1>1. TokenInv /\ running /\ Calm
  BY TokenInit DEF Init, EngineInit, Calm
<1>2. W = "ready" /\ deferred = None /\ wDeferred = None
  BY DEF Init, EngineInit, W, Threads
<1>3. ~Has(Stream)
  BY <1>1, <1>2 DEF TokenInv, Token
<1>4. ~Acting
  BY <1>2 DEF Acting, Executing, Correcting, Routine
<1> QED
  BY <1>2, <1>3, <1>4 DEF ActionOK, SameKey, StillDown, Pinned, Has

-----------------------------------------------------------------------------
(* The keys taken from the windows *)

\* The key whose release is being answered.
Answering == IF hook.at = "answer" /\ ~hook.ev.down THEN {hook.ev.key} ELSE {}

\* A key that was taken from the window is no key the window has down; it stays pressed, and
\* among those pressed before the action, until its release is answered. While there is a
\* filter no window gets Enter or Tab.
Swallowed ==
    /\ consumed \subseteq ActionKeys
    /\ hooked => consumed \cap winDown = {} /\ consumed \subseteq pressed \cup Answering
    /\ hooked /\ deferred # None => consumed \subseteq prior \cup Answering
    /\ deferred = None => prior = {}
    /\ filtering => running /\ winDown \cap ActionKeys = {}
    /\ hook.at \in {"answer", "defer"} /\ hook.ev.down => hook.ev.key \in pressed
    /\ pc["stop"] \notin {"deliver", "submit"}
ConsumedInv == Clean => Swallowed

\* A step after which fewer keys are pressed, none of them taken.
LEMMA SwallowedLess ==
    ASSUME Swallowed, UNCHANGED <<consumed, hook>>, deferred' \in {deferred, None},
           hooked' => hooked, filtering' => filtering /\ running', winDown' \subseteq winDown,
           NEW ks, pressed \ ks \subseteq pressed', hooked => ks \cap consumed = {},
           deferred' # None => prior \ ks \subseteq prior', prior' \subseteq prior,
           deferred' = None => prior' = {} \/ deferred = None,
           hook.at # "idle" => pressed \subseteq pressed',
           pc'["stop"] \notin {"deliver", "submit"}
    PROVE  Swallowed'
<1>1. Answering' = Answering
  BY DEF Answering
<1>2. hooked' => consumed' \cap winDown' = {} /\ consumed' \subseteq pressed' \cup Answering'
  BY <1>1 DEF Swallowed
<1>3. hooked' /\ deferred' # None => consumed' \subseteq prior' \cup Answering'
  BY <1>1 DEF Swallowed
<1>4. deferred' = None => prior' = {}
  BY DEF Swallowed
<1>5. hook'.at \in {"answer", "defer"} /\ hook'.ev.down => hook'.ev.key \in pressed'
  BY DEF Swallowed
<1>6. filtering' => running' /\ winDown' \cap ActionKeys = {}
  BY DEF Swallowed
<1> QED
  BY <1>2, <1>3, <1>4, <1>5, <1>6 DEF Swallowed

LEMMA SwallowedStays ==
    ASSUME Swallowed, UNCHANGED <<consumed, hook, deferred, pressed, prior>>,
           hooked' => hooked, filtering' => filtering /\ running', winDown' \subseteq winDown,
           pc'["stop"] \notin {"deliver", "submit"}
    PROVE  Swallowed'
<1>1. PICK ks : ks = {}
  OBVIOUS
<1>2. /\ pressed \ ks \subseteq pressed' /\ prior \ ks \subseteq prior' /\ prior' \subseteq prior
      /\ ks \cap consumed = {} /\ pressed \subseteq pressed'
  BY <1>1
<1> QED
  BY <1>2, SwallowedLess

LEMMA SwallowedUser ==
    ASSUME Sound, Swallowed, BackendStep(User) \/ BackendStep(RuleWindowReports)
    PROVE  Swallowed'
<1> USE SoundTypes
<1>1. UNCHANGED <<consumed, deferred, pressed, prior, hooked, filtering, running, pc>>
  BY DEF BackendStep, User, TypeKey, FocusMoves, Click, RuleWindowReports, engineVars, runVars,
     callerVars, actionVars, hookVars
<1>2. pc'["stop"] \notin {"deliver", "submit"}
  BY <1>1 DEF Swallowed
<1>3. CASE UNCHANGED <<hook, winDown>>
  BY <1>1, <1>2, <1>3, SwallowedStays DEF Swallowed
<1>4. ASSUME NEW k \in Keys, NEW down \in BOOLEAN, TypeKey(k, down)
      PROVE  Swallowed'
  <2>1. CASE hooked /\ winDown' = winDown
    <3>1. hook.at = "idle" /\ hook'.at = "lock"
      BY <1>4, <2>1 DEF TypeKey, HookFree
    <3>2. Answering = {} /\ Answering' = {}
      BY <3>1 DEF Answering
    <3> QED
      BY <1>1, <2>1, <3>1, <3>2 DEF Swallowed
  <2>2. CASE ~hooked /\ hook' = hook
    <3>1. ~filtering
      BY <2>2 DEF RunInv, Swallowed
    <3> QED
      BY <1>1, <2>2, <3>1 DEF Swallowed
  <2> QED
    BY <1>4, <2>1, <2>2 DEF TypeKey
<1>5. UNCHANGED <<hook, winDown>> \/ \E k \in Keys, down \in BOOLEAN : TypeKey(k, down)
  BY DEF BackendStep, User, FocusMoves, Click, RuleWindowReports, windowVars, hookVars
<1> QED
  BY <1>3, <1>4, <1>5

LEMMA SwallowedHook ==
    ASSUME Sound, Swallowed, BackendStep(HookStep)
    PROVE  Swallowed'
<1> USE SoundTypes
<1> Keys2 /\ Windowed
  BY DEF Sound
<1>0. UNCHANGED <<hooked, filtering, running>> /\ hook.at # "idle" /\ hook.ev \in KeyEvent
  <2>1. UNCHANGED <<hooked, filtering, running>> /\ hook.at # "idle"
    BY DEF BackendStep, engineVars, runVars, HookStep, HookLock, HookTrack, AnswerRelease,
       AnswerRepeat, AnswerPress, AnswerDefers, HookDefer
  <2> QED
    BY <2>1, EventKinds DEF HookEvents
<1>1. pc'["stop"] \notin {"deliver", "submit"}
  <2>1. pc' = pc \/ \E t \in Threads : pc' = [pc EXCEPT ![t] = "loop"]
    BY DEF BackendStep, HookStep, HookLock, HookTrack, AnswerRelease, AnswerRepeat, AnswerPress,
       AnswerDefers, HookDefer, Answered, callerVars
  <2> QED
    BY <2>1 DEF Swallowed, HoldTypeOK, Threads
<1>2. CASE HookLock
  <2>1. UNCHANGED <<consumed, deferred, pressed, prior, winDown>> /\ hook.at = "lock"
        /\ hook'.at \in {"idle", "track"}
    BY <1>2 DEF HookLock, actionVars, windowVars, IdleHook, HookAt
  <2>2. Answering = {} /\ Answering' = {}
    BY <2>1 DEF Answering
  <2> QED
    BY <1>0, <1>1, <2>1, <2>2 DEF Swallowed
<1>3. CASE HookTrack
  <2>1. UNCHANGED <<consumed, deferred, winDown>> /\ hook.at = "track" /\ hook'.at = "answer"
        /\ hook'.ev = hook.ev
    BY <1>3 DEF HookTrack, windowVars, HookAt
  <2>2. Answering = {}
    BY <2>1 DEF Answering
  <2>3. CASE hook.ev.down
    <3>1. pressed' = pressed \cup {hook.ev.key} /\ prior' = prior
      BY <1>3, <2>3 DEF HookTrack
    <3>2. Answering' = {}
      BY <2>1, <2>3 DEF Answering
    <3> QED
      BY <1>0, <1>1, <2>1, <2>2, <3>1, <3>2 DEF Swallowed
  <2>4. CASE ~hook.ev.down
    <3>1. pressed' = pressed \ {hook.ev.key} /\ prior' = prior \ {hook.ev.key}
      BY <1>3, <2>4 DEF HookTrack, TrackRelease
    <3>2. Answering' = {hook.ev.key}
      BY <2>1, <2>4 DEF Answering
    <3> QED
      BY <1>0, <1>1, <2>1, <2>2, <2>4, <3>1, <3>2 DEF Swallowed
  <2> QED
    BY <2>3, <2>4
<1>4. CASE AnswerRelease
  <2>1. UNCHANGED <<deferred, pressed, prior>> /\ hook'.at = "idle" /\ hook.at = "answer" /\ ~hook.ev.down
    BY <1>4 DEF AnswerRelease, Answered, IdleHook
  <2>2. /\ consumed' = consumed \ {hook.ev.key} /\ winDown' \subseteq winDown
    BY <1>4 DEF AnswerRelease, Reach
  <2>3. Answering = {hook.ev.key} /\ Answering' = {}
    BY <2>1 DEF Answering
  <2> QED
    BY <1>0, <1>1, <2>1, <2>2, <2>3 DEF Swallowed
<1>5. CASE AnswerRepeat
  <2>1. UNCHANGED <<consumed, deferred, pressed, prior, winDown>> /\ hook'.at = "idle" /\ hook.ev.down
    BY <1>5 DEF AnswerRepeat, Answered, IdleHook, actionVars
  <2>2. Answering = {} /\ Answering' = {}
    BY <2>1 DEF Answering
  <2> QED
    BY <1>0, <1>1, <2>1, <2>2 DEF Swallowed
<1>6. CASE AnswerPress
  <2>1. /\ UNCHANGED <<consumed, deferred, pressed, prior>> /\ hook'.at = "idle" /\ hook.ev.down
        /\ winDown' = winDown \cup {hook.ev.key} /\ hook.ev.key \notin consumed
        /\ filtering => hook.ev.key \notin ActionKeys
    BY <1>6 DEF AnswerPress, Answered, IdleHook, actionVars, Reach, FilterDefers, Windowed
  <2>2. Answering = {} /\ Answering' = {}
    BY <2>1 DEF Answering
  <2> QED
    BY <1>0, <1>1, <2>1, <2>2 DEF Swallowed
<1>7. CASE AnswerDefers
  <2>1. /\ UNCHANGED <<deferred, pressed, prior, winDown>> /\ hook'.at = "defer" /\ hook'.ev = hook.ev
        /\ hook.at = "answer" /\ hook.ev.down /\ consumed' = consumed \cup {hook.ev.key}
        /\ hook.ev.key \in ActionKeys /\ filtering /\ Passing
    BY <1>7 DEF AnswerDefers, HookAt, windowVars, FilterDefers, Passing, PassingPress
  <2>2. Answering = {} /\ Answering' = {}
    BY <2>1 DEF Answering
  <2>3. deferred = None
    BY <2>1 DEF Keys2, OneNext
  <2> QED
    BY <1>0, <1>1, <2>1, <2>2, <2>3 DEF Swallowed
<1>8. CASE HookDefer
  <2>1. /\ UNCHANGED <<consumed, pressed, winDown>> /\ hook'.at = "idle" /\ hook.at = "defer"
        /\ deferred' = hook.ev /\ prior' = pressed
    BY <1>8 DEF HookDefer, Answered, IdleHook, windowVars
  <2>2. Answering = {} /\ Answering' = {}
    BY <2>1 DEF Answering
  <2>3. deferred' # None
    BY <1>0, <2>1, EventKinds
  <2> QED
    BY <1>0, <1>1, <2>1, <2>2, <2>3 DEF Swallowed
<1> QED
  BY <1>2, <1>3, <1>4, <1>5, <1>6, <1>7, <1>8 DEF BackendStep, HookStep

\* The withheld action is submitted only once its key came up.
LEMMA SubmitsReleased ==
    ASSUME Sound, Swallowed, ActionInv, Clean, NEW t \in Threads, pc[t] = "submit"
    PROVE  t = "worker" /\ deferred # None /\ item[t] = deferred /\ deferred.key \in Keys
           /\ deferred.key \notin consumed
<1> USE SoundTypes
<1>1. t = "worker"
  BY DEF Swallowed, Threads
<1>2. deferred # None /\ item[t] = deferred
  BY DEF Sound, Order, Submitted
<1>3. running
  <2>1. pc["stop"] = "running"
    BY <1>1 DEF Sound, TextBase, CorrectInv, StoppedWorker, Clean, Ready
  <2> QED
    BY <2>1 DEF RunInv
<1>4. deferred.key \notin consumed
  BY <1>1, <1>2, <1>3 DEF ActionInv, ActionOK, StillDown, Pinned, W
<1>5. deferred.key \in Keys
  BY <1>2, EventKinds DEF HookEvents, ActionPress, Press1, KeyEvent
<1> QED
  BY <1>1, <1>2, <1>4, <1>5

LEMMA SwallowedCaller ==
    ASSUME Sound, Swallowed, ActionInv, Clean, NEW t \in Threads,
           BackendStep(ReleaseStep(t)) \/ BackendStep(ActionStep(t))
    PROVE  Swallowed'
<1> USE SoundTypes
<1>0. UNCHANGED <<consumed, hooked, filtering, running>>
  BY DEF BackendStep, engineVars, runVars, ReleaseStep, Release, LoopBehindAction, Loop,
     Send, SendFails, Finally, ActionStep, Deliver, Submit, SubmitFails, Cancel, Clear, actionVars, hookVars
<1>1. pc'["stop"] \notin {"deliver", "submit"}
  <2>1. CASE t = "worker"
    BY <2>1, CallerSteps DEF Swallowed, Threads
  <2>2. CASE t = "stop"
    BY <2>2, CallerSteps DEF Swallowed, StopInv
  <2> QED
    BY <2>1, <2>2 DEF Threads
<1>2. CASE Submit(t)
  <2>1. /\ deferred' = deferred /\ hook' = hook /\ HookFree /\ pc[t] = "submit"
        /\ winDown' \subseteq winDown
        /\ \/ hooked /\ pressed' = pressed \ {item[t].key} /\ prior' = prior \ {item[t].key}
           \/ ~hooked /\ pressed' = pressed /\ prior' = prior
    BY <1>2 DEF Submit, hookVars, TrackRelease
  <2>2. item[t].key \notin consumed
    BY <2>1, SubmitsReleased
  <2>3. hook.at = "idle"
    BY <2>1 DEF HookFree
  <2>4. PICK ks : ks = {item[t].key}
    OBVIOUS
  <2>5. /\ pressed \ ks \subseteq pressed' /\ prior \ ks \subseteq prior' /\ prior' \subseteq prior
        /\ ks \cap consumed = {}
    BY <2>1, <2>2, <2>4
  <2> QED
    BY <1>0, <1>1, <2>1, <2>3, <2>5, SwallowedLess DEF Swallowed
<1>3. CASE Send(t)
  <2>1. hooked
    BY <1>3 DEF Send
  <2>2. /\ UNCHANGED <<deferred, pressed, prior, winDown>> /\ hook.at = "idle" /\ hook'.at = "track"
    BY <1>3, <2>1 DEF Send, HookFree, actionVars
  <2>3. Answering = {} /\ Answering' = {}
    BY <2>2 DEF Answering
  <2> QED
    BY <1>0, <1>1, <2>2, <2>3 DEF Swallowed
<1>4. CASE Clear(t)
  <2>1. UNCHANGED <<pressed, winDown, hook>> /\ deferred' = None /\ prior' = {}
    BY <1>4 DEF Clear, hookVars
  <2>2. Answering' = Answering
    BY <2>1 DEF Answering
  <2> QED
    BY <1>0, <1>1, <2>1, <2>2 DEF Swallowed
<1>5. CASE UNCHANGED <<deferred, pressed, prior, hook, winDown>>
  BY <1>0, <1>1, <1>5, SwallowedStays DEF Swallowed
<1>6. Submit(t) \/ Send(t) \/ Clear(t) \/ UNCHANGED <<deferred, pressed, prior, hook, winDown>>
  BY DEF BackendStep, ReleaseStep, Release, LoopBehindAction, Loop, SendFails, Finally, ActionStep,
     Deliver, SubmitFails, Cancel, actionVars, hookVars, windowVars
<1> QED
  BY <1>2, <1>3, <1>4, <1>5, <1>6

LEMMA SwallowedWorker ==
    ASSUME Sound, Swallowed, WordKeys, Clean',
           \/ (WorkerBooks /\ Books) \/ HoldInput \/ Stop \/ Unhook \/ UNCHANGED vars
           \/ Injects /\ (Erase \/ EraseAndType \/ TypeWord \/ Retype \/ InjectionFails)
    PROVE  Swallowed'
<1> USE SoundTypes
<1>1. UNCHANGED <<consumed, hook, deferred>>
  BY DEF Books, quietVars, HoldInput, Stop, Unhook, vars, backendVars, Injects, injecting, hookVars, actionVars
<1>2. /\ hooked' = hooked \/ hooked' = FALSE
      /\ (filtering' = filtering /\ running' = running) \/ filtering' = FALSE
  <2>1. CASE (WorkerBooks /\ Books) \/ HoldInput \/ Stop
    BY <2>1 DEF Books, quietVars, HoldInput, Stop, hookVars, engineVars, runVars
  <2>2. CASE Unhook \/ UNCHANGED vars \/ Injects
    BY <2>2 DEF Unhook, vars, backendVars, Injects, injecting, hookVars, engineVars, runVars
  <2> QED
    BY <2>1, <2>2
<1>3. (hooked' => hooked) /\ (filtering' => filtering /\ running')
  BY <1>2 DEF Swallowed
<1>4. pc'["stop"] \notin {"deliver", "submit"}
  <2>1. \/ pc'["stop"] = pc["stop"] \/ pc'["stop"] = "cancel"
    BY BooksGo, InjectGoes DEF HoldInput, Stop, Unhook, vars, backendVars, callerVars, Worker, HoldTypeOK, Threads
  <2> QED
    BY <2>1 DEF Swallowed
<1>5. CASE UNCHANGED <<pressed, prior, winDown>>
  BY <1>1, <1>3, <1>4, <1>5, SwallowedStays
<1>6. ASSUME NEW base, NEW s, TypeInto(base, s), HookFree, KeysOf(s) \subseteq Typing
      PROVE  Swallowed'
  <2>1. PICK ks : ks = KeysOf(s)
    OBVIOUS
  <2>2. /\ winDown' \subseteq winDown /\ hook.at = "idle"
        /\ \/ pressed' = pressed \ ks /\ prior' = prior \ ks
           \/ pressed' = pressed /\ prior' = prior
    BY <1>6, <2>1 DEF TypeInto, FollowKeys, HookFree
  <2>3. Typing \cap ActionKeys = {}
    BY KeysAssumption DEF Typing
  <2>4. ks \cap consumed = {}
    BY <1>6, <2>1, <2>3 DEF Swallowed
  <2>5. pressed \ ks \subseteq pressed' /\ prior \ ks \subseteq prior' /\ prior' \subseteq prior
    BY <2>2
  <2> QED
    BY <1>1, <1>3, <1>4, <2>2, <2>4, <2>5, SwallowedLess DEF Swallowed
<1>7. CASE EraseAndType \/ TypeWord \/ Retype
  <2>1. KeysOf(plan) \subseteq Typing /\ KeysOf(late) \subseteq Typing
    BY DEF WordKeys, Typing
  <2> QED
    BY <1>6, <1>7, <2>1 DEF EraseAndType, TypeWord, Retype
<1>8. \/ UNCHANGED <<pressed, prior, winDown>> \/ EraseAndType \/ TypeWord \/ Retype
  BY DEF Books, quietVars, HoldInput, Stop, Unhook, vars, backendVars, actionVars, windowVars, Erase, InjectionFails
<1> QED
  BY <1>5, <1>7, <1>8

LEMMA ConsumedStep ==
    ASSUME WordInv, WordKeys, ActionInv, ConsumedInv, [Next]_vars
    PROVE  ConsumedInv'
<1> SUFFICES ASSUME Clean'
             PROVE  Swallowed'
  BY DEF ConsumedInv
<1>1. HoldTypeOK
  BY DEF WordInv, TextBase, EventInv, TypeInv
<1>2. Clean
  BY <1>1, OddGrows DEF Clean
<1>3. Sound /\ Swallowed
  BY <1>2 DEF Sound, WordInv, KeyInv, OrderInv, ConsumedInv, Clean, Calm
<1> QED
  BY <1>1, <1>2, <1>3, InjectCases, SwallowedUser, SwallowedHook, SwallowedCaller, SwallowedWorker

LEMMA ConsumedInit == Init => ConsumedInv
<1> SUFFICES ASSUME Init
             PROVE  Swallowed
  BY DEF ConsumedInv
<1>1. /\ consumed = {} /\ deferred = None /\ prior = {} /\ winDown = {} /\ running
      /\ hook.at = "idle" /\ pc["stop"] = "running"
  BY DEF Init, EngineInit, IdleHook, Threads
<1> QED
  BY <1>1 DEF Swallowed

-----------------------------------------------------------------------------
(* Every press that is kept back, or on its way, has its release behind it *)

\* In s every press of k has a release of k after it; s has a release of k; a press of k.
Matched(s, k) == \A i \in DOMAIN s : s[i].down /\ s[i].key = k =>
                    \E j \in DOMAIN s : i < j /\ ~s[j].down /\ s[j].key = k
HasUp(s, k) == \E i \in DOMAIN s : ~s[i].down /\ s[i].key = k
HasDown(s, k) == \E i \in DOMAIN s : s[i].down /\ s[i].key = k

LEMMA JoinedPlaces ==
    ASSUME NEW E, NEW s \in Seq(E), NEW r \in Seq(E)
    PROVE  \E t : /\ t = s \o r
                  /\ \A i \in DOMAIN s : i \in DOMAIN t /\ t[i] = s[i]
                  /\ \A j \in DOMAIN r : /\ Len(s) + j \in DOMAIN t /\ t[Len(s) + j] = r[j]
                                         /\ \A i \in DOMAIN s : i < Len(s) + j
                  /\ \A i \in DOMAIN t : \/ i \in DOMAIN s /\ t[i] = s[i]
                                         \/ \E j \in DOMAIN r : t[i] = r[j]
<1>1. PICK t : t = s \o r
  OBVIOUS
<1>2. PICK a \in Nat, b \in Nat : a = Len(s) /\ b = Len(r)
  OBVIOUS
<1>3. DOMAIN t = 1..a + b /\ DOMAIN s = 1..a /\ DOMAIN r = 1..b
  BY <1>1, <1>2, ConcatPlaces
<1>4. \A i \in 1..a : t[i] = s[i]
  BY <1>1, <1>2
<1>5. \A j \in 1..b : t[a + j] = r[j]
  BY <1>1, <1>2
<1>6. \A i \in DOMAIN s : i \in DOMAIN t /\ t[i] = s[i]
  BY <1>3, <1>4
<1>7. \A j \in DOMAIN r : a + j \in DOMAIN t /\ t[a + j] = r[j] /\ \A i \in DOMAIN s : i < a + j
  BY <1>3, <1>5
<1>8. ASSUME NEW i \in DOMAIN t
      PROVE  (i \in DOMAIN s /\ t[i] = s[i]) \/ \E j \in DOMAIN r : t[i] = r[j]
  <2>1. CASE i \in 1..a
    BY <1>3, <1>4, <2>1
  <2>2. CASE i \notin 1..a
    <3>1. PICK j \in 1..b : i = a + j
      <4>1. i - a \in 1..b /\ i = a + (i - a)
        BY <1>3, <2>2
      <4> QED
        BY <4>1
    <3> QED
      BY <1>3, <1>5, <3>1
  <2> QED
    BY <2>1, <2>2
<1> QED
  BY <1>1, <1>2, <1>6, <1>7, <1>8

LEMMA MatchedConcat ==
    ASSUME NEW E, NEW s \in Seq(E), NEW r \in Seq(E), \A i \in DOMAIN r : ~r[i].down, NEW k
    PROVE  /\ Matched(s, k) => Matched(s \o r, k)
           /\ HasUp(s, k) => HasUp(s \o r, k)
           /\ ~HasDown(s, k) => Matched(s \o r, k)
           /\ HasUp(r, k) => Matched(s \o r, k) /\ HasUp(s \o r, k)
<1>1. PICK t : /\ t = s \o r
               /\ \A i \in DOMAIN s : i \in DOMAIN t /\ t[i] = s[i]
               /\ \A j \in DOMAIN r : /\ Len(s) + j \in DOMAIN t /\ t[Len(s) + j] = r[j]
                                      /\ \A i \in DOMAIN s : i < Len(s) + j
               /\ \A i \in DOMAIN t : \/ i \in DOMAIN s /\ t[i] = s[i]
                                      \/ \E j \in DOMAIN r : t[i] = r[j]
  BY JoinedPlaces
<1>3. \A i \in DOMAIN t : t[i].down => i \in DOMAIN s /\ t[i] = s[i]
  BY <1>1, Zenon
<1>4. \A i \in DOMAIN s : i \in DOMAIN t /\ t[i] = s[i]
  BY <1>1, Zenon
<1>5. Matched(s, k) => Matched(t, k)
  <2> SUFFICES ASSUME Matched(s, k), NEW i \in DOMAIN t, t[i].down, t[i].key = k
               PROVE  \E j \in DOMAIN t : i < j /\ ~t[j].down /\ t[j].key = k
    BY DEF Matched
  <2>1. i \in DOMAIN s /\ s[i].down /\ s[i].key = k
    BY <1>3
  <2>2. PICK j \in DOMAIN s : i < j /\ ~s[j].down /\ s[j].key = k
    BY <2>1 DEF Matched
  <2> QED
    BY <1>4, <2>2
<1>6. HasUp(s, k) => HasUp(t, k)
  BY <1>4 DEF HasUp
<1>7. ~HasDown(s, k) => Matched(t, k)
  BY <1>3 DEF HasDown, Matched
<1>8. ASSUME HasUp(r, k)
      PROVE  Matched(t, k) /\ HasUp(t, k)
  <2>1. PICK j \in DOMAIN r : ~r[j].down /\ r[j].key = k
    BY <1>8 DEF HasUp
  <2>2. PICK m : m = Len(s) + j
    OBVIOUS
  <2>3. m \in DOMAIN t /\ ~t[m].down /\ t[m].key = k /\ \A i \in DOMAIN s : i < m
    BY <1>1, <2>1, <2>2, Zenon
  <2> QED
    BY <1>3, <2>3 DEF Matched, HasUp
<1> QED
  BY <1>1, <1>5, <1>6, <1>7, <1>8

LEMMA MatchedAppend ==
    ASSUME NEW E, NEW s \in Seq(E), NEW e \in E, NEW k
    PROVE  /\ ~e.down => /\ Matched(s, k) => Matched(Append(s, e), k)
                         /\ ~HasDown(s, k) => Matched(Append(s, e), k)
                         /\ e.key = k => Matched(Append(s, e), k) /\ HasUp(Append(s, e), k)
           /\ HasUp(s, k) => HasUp(Append(s, e), k)
           /\ e.key # k /\ Matched(s, k) => Matched(Append(s, e), k)
<1>1. PICK t : t = Append(s, e)
  OBVIOUS
<1>2. /\ DOMAIN t = 1..Len(s) + 1 /\ DOMAIN s = 1..Len(s) /\ Len(s) \in Nat
      /\ \A i \in 1..Len(s) : t[i] = s[i]
      /\ t[Len(s) + 1] = e
  BY <1>1
<1>3. \A i \in DOMAIN t : i = Len(s) + 1 \/ (i \in DOMAIN s /\ t[i] = s[i])
  BY <1>2
<1>4. \A i \in DOMAIN s : i \in DOMAIN t /\ t[i] = s[i] /\ i < Len(s) + 1
  BY <1>2
<1>5. Len(s) + 1 \in DOMAIN t
  BY <1>2
<1>6. HasUp(s, k) => HasUp(t, k)
  BY <1>4 DEF HasUp
<1>7. ASSUME Matched(s, k), ~e.down \/ e.key # k
      PROVE  Matched(t, k)
  <2> SUFFICES ASSUME NEW i \in DOMAIN t, t[i].down, t[i].key = k
               PROVE  \E j \in DOMAIN t : i < j /\ ~t[j].down /\ t[j].key = k
    BY DEF Matched
  <2>1. i \in DOMAIN s /\ s[i].down /\ s[i].key = k
    BY <1>2, <1>3, <1>7
  <2>2. PICK j \in DOMAIN s : i < j /\ ~s[j].down /\ s[j].key = k
    BY <1>7, <2>1 DEF Matched
  <2> QED
    BY <1>4, <2>2
<1>8. ASSUME ~e.down, ~HasDown(s, k)
      PROVE  Matched(t, k)
  BY <1>2, <1>3, <1>8 DEF Matched, HasDown
<1>9. ASSUME ~e.down, e.key = k
      PROVE  Matched(t, k) /\ HasUp(t, k)
  BY <1>2, <1>3, <1>4, <1>5, <1>9 DEF Matched, HasUp
<1> QED
  BY <1>1, <1>6, <1>7, <1>8, <1>9

\* What is left when the first element is taken out, or a release of another key.
LEMMA MatchedDrop ==
    ASSUME NEW s \in Seq(Fresh), NEW i \in 1..Len(s), NEW r, DOMAIN r = 1..Len(s) - 1,
           \A m \in 1..Len(s) - 1 : m < i => r[m] = s[m],
           \A m \in 1..Len(s) - 1 : m >= i => r[m] = s[m + 1], NEW k
    PROVE  /\ Matched(s, k) /\ (i = 1 \/ s[i].down \/ s[i].key # k) => Matched(r, k)
           /\ HasUp(s, k) /\ (s[i].down \/ s[i].key # k) => HasUp(r, k)
           /\ Matched(s, k) /\ s[i].down /\ s[i].key = k => HasUp(r, k)
<1>1. Len(s) \in Nat /\ DOMAIN s = 1..Len(s) /\ i \in Nat /\ i >= 1 /\ i <= Len(s)
  OBVIOUS
<1>2. \A m \in DOMAIN r : \E n \in DOMAIN s : r[m] = s[n] /\ (m < i => n = m) /\ (m >= i => n = m + 1)
  <2> SUFFICES ASSUME NEW m \in 1..Len(s) - 1
               PROVE  \E n \in DOMAIN s : r[m] = s[n] /\ (m < i => n = m) /\ (m >= i => n = m + 1)
    OBVIOUS
  <2>1. m \in DOMAIN s /\ m + 1 \in DOMAIN s /\ (m < i \/ m >= i) /\ ~(m < i /\ m >= i)
    BY <1>1
  <2> QED
    BY <2>1
<1>3. \A n \in DOMAIN s \ {i} : \E m \in DOMAIN r : r[m] = s[n] /\ (n < i => m = n) /\ (n > i => m = n - 1)
  <2> SUFFICES ASSUME NEW n \in 1..Len(s), n # i
               PROVE  \E m \in DOMAIN r : r[m] = s[n] /\ (n < i => m = n) /\ (n > i => m = n - 1)
    BY <1>1
  <2>1. CASE n < i
    <3>1. n \in 1..Len(s) - 1
      BY <1>1, <2>1
    <3> QED
      BY <1>1, <2>1, <3>1
  <2>2. CASE n > i
    <3>1. n - 1 \in 1..Len(s) - 1 /\ n - 1 >= i /\ (n - 1) + 1 = n
      BY <1>1, <2>2
    <3>2. r[n - 1] = s[n]
      BY <3>1
    <3> QED
      BY <1>1, <2>2, <3>1, <3>2
  <2> QED
    BY <1>1, <2>1, <2>2
<1>4. ASSUME HasUp(s, k), s[i].down \/ s[i].key # k
      PROVE  HasUp(r, k)
  <2>1. PICK n \in DOMAIN s : ~s[n].down /\ s[n].key = k
    BY <1>4 DEF HasUp
  <2>2. n # i
    BY <1>4, <2>1
  <2> QED
    BY <1>3, <2>1, <2>2 DEF HasUp
<1>5. ASSUME Matched(s, k), s[i].down, s[i].key = k
      PROVE  HasUp(r, k)
  <2>1. HasUp(s, k)
    BY <1>1, <1>5 DEF Matched, HasUp
  <2> QED
    BY <1>4, <1>5, <2>1
<1>6. ASSUME Matched(s, k), i = 1 \/ s[i].down \/ s[i].key # k
      PROVE  Matched(r, k)
  <2> SUFFICES ASSUME NEW m \in DOMAIN r, r[m].down, r[m].key = k
               PROVE  \E j \in DOMAIN r : m < j /\ ~r[j].down /\ r[j].key = k
    BY DEF Matched
  <2>1. PICK n \in DOMAIN s : r[m] = s[n] /\ (m < i => n = m) /\ (m >= i => n = m + 1)
    BY <1>2
  <2>2. PICK p \in DOMAIN s : n < p /\ ~s[p].down /\ s[p].key = k
    BY <1>6, <2>1 DEF Matched
  <2>3. p # i
    BY <1>1, <1>6, <2>1, <2>2
  <2>4. PICK j \in DOMAIN r : r[j] = s[p] /\ (p < i => j = p) /\ (p > i => j = p - 1)
    BY <1>3, <2>2, <2>3
  <2>5. m \in Nat /\ n \in Nat /\ p \in Nat /\ j \in Nat
    BY <1>1
  <2>6. m < j
    BY <1>1, <2>1, <2>2, <2>3, <2>4, <2>5
  <2> QED
    BY <2>2, <2>4, <2>6
<1> QED
  BY <1>4, <1>5, <1>6

LEMMA MatchedTaken ==
    ASSUME NEW s \in Seq(Fresh), NEW i \in 1..Len(s)
    PROVE  \E r : /\ r = SubSeq(s, 1, i - 1) \o SubSeq(s, i + 1, Len(s))
                  /\ \A k \in Keys :
                       /\ Matched(s, k) /\ (i = 1 \/ s[i].down \/ s[i].key # k) => Matched(r, k)
                       /\ HasUp(s, k) /\ (s[i].down \/ s[i].key # k) => HasUp(r, k)
                       /\ Matched(s, k) /\ s[i].down /\ s[i].key = k => HasUp(r, k)
<1>1. PICK r : /\ r = SubSeq(s, 1, i - 1) \o SubSeq(s, i + 1, Len(s))
               /\ DOMAIN r = 1..Len(s) - 1
               /\ \A k \in 1..Len(s) - 1 : k < i => r[k] = s[k]
               /\ \A k \in 1..Len(s) - 1 : k >= i => r[k] = s[k + 1]
  BY TakenPlaces
<1>2. ASSUME NEW k \in Keys
      PROVE  /\ Matched(s, k) /\ (i = 1 \/ s[i].down \/ s[i].key # k) => Matched(r, k)
             /\ HasUp(s, k) /\ (s[i].down \/ s[i].key # k) => HasUp(r, k)
             /\ Matched(s, k) /\ s[i].down /\ s[i].key = k => HasUp(r, k)
  <2>1. DOMAIN r = 1..Len(s) - 1
    BY <1>1, Zenon
  <2>2. \A m \in 1..Len(s) - 1 : m < i => r[m] = s[m]
    BY <1>1, Zenon
  <2>3. \A m \in 1..Len(s) - 1 : m >= i => r[m] = s[m + 1]
    BY <1>1, Zenon
  <2> QED
    BY <2>1, <2>2, <2>3, MatchedDrop, Zenon
<1> QED
  BY <1>1, <1>2, Zenon

-----------------------------------------------------------------------------
(* Every key the user has up goes up in the windows *)

\* The user has k down, or the hook just got its event.
Coming(k) == k \in phys \/ (hook.at = "lock" /\ hook.ev.key = k)

\* A release of k taken from the buffer; a release, and a press, on the way to the window.
SendsRelease(k) == \E t \in Threads : pc[t] = "send" /\ ~item[t].down /\ item[t].key = k
ReleaseComes(k) ==
    \/ SendsRelease(k)
    \/ hook.at \in {"track", "answer"} /\ ~hook.ev.down /\ hook.ev.key = k
PressComes(k) ==
    \/ \E t \in Threads : pc[t] = "send" /\ item[t].down /\ item[t].key = k
    \/ hook.at \in {"track", "answer"} /\ hook.ev.down /\ hook.ev.key = k

\* The release of a key pressed before the action, before _track_key_state has seen it.
Follows(k) ==
    /\ k \in prior
    /\ SendsRelease(k) \/ (hook.at = "track" /\ ~hook.ev.down /\ hook.ev.key = k)

\* Each press kept back has its release behind it, and so has a press on its way; a key the
\* windows have down has a release in the buffer or on its way.
PairOK(k) ==
    /\ Matched(held, k) \/ Follows(k)
    /\ PressComes(k) => HasUp(held, k)
    /\ k \in winDown => HasUp(held, k) \/ ReleaseComes(k)

UsersDown == hook.at # "idle" /\ hook.by = "user" /\ hook.ev.down => hook.ev.key \in phys
Pairs == UsersDown /\ \A k \in Keys : ~Coming(k) => PairOK(k)
PairInv == Clean => Pairs

\* A step that moves none of the keys kept back or on their way.
LEMMA PairsSame ==
    ASSUME Pairs, UNCHANGED <<phys, hook, held, prior>>, winDown' \subseteq winDown,
           \A t \in Threads : /\ pc[t] = "send" <=> pc'[t] = "send"
                              /\ pc[t] = "send" => item'[t] = item[t]
    PROVE  Pairs'
<1>1. UsersDown'
  BY DEF Pairs, UsersDown
<1>2. ASSUME NEW k \in Keys, ~Coming(k)'
      PROVE  PairOK(k)'
  <2>1. PairOK(k)
    BY <1>2 DEF Pairs, Coming
  <2>2. Matched(held, k)' = Matched(held, k) /\ HasUp(held, k)' = HasUp(held, k)
    BY DEF Matched, HasUp
  <2>3. SendsRelease(k)' <=> SendsRelease(k)
    BY DEF SendsRelease
  <2>4. PressComes(k)' <=> PressComes(k)
    BY DEF PressComes
  <2>5. (ReleaseComes(k)' <=> ReleaseComes(k)) /\ (Follows(k)' <=> Follows(k))
    BY <2>3 DEF ReleaseComes, Follows
  <2> QED
    BY <2>1, <2>2, <2>4, <2>5 DEF PairOK
<1> QED
  BY <1>1, <1>2 DEF Pairs

\* Where the next key comes from: a sender has the only key on its way.
LEMMA Senders ==
    ASSUME Sound, NEW t \in Threads, pc[t] \in Routine, NEW k
    PROVE  /\ (\E u \in Threads : pc[u] = "send" /\ item[u].down /\ item[u].key = k)
                <=> pc[t] = "send" /\ item[t].down /\ item[t].key = k
           /\ SendsRelease(k) <=> pc[t] = "send" /\ ~item[t].down /\ item[t].key = k
<1>1. \A u \in Threads \ {t} : pc[u] # "send"
  BY SoundTypes, OneAtWork DEF Sound, TextBase, Routine
<1> QED
  BY <1>1 DEF SendsRelease

LEMMA PairsTypeKey ==
    ASSUME Sound, Swallowed, Pairs, NEW x \in Keys, NEW down \in BOOLEAN, TypeKey(x, down)
    PROVE  Pairs'
<1> USE SoundTypes
<1>1. UNCHANGED <<held, prior, pc, item, hooked>> /\ HookFree
  BY DEF TypeKey, holdVars, actionVars, callerVars
<1>2. PICK ev : /\ ev = [key |-> x, down |-> down, n |-> IF down THEN presses + 1 ELSE 0, deferred |-> FALSE]
                /\ phys' = IF down THEN phys \cup {x} ELSE phys \ {x}
                /\ \/ /\ hooked
                      /\ hook' = [at |-> "lock", ev |-> ev, by |-> "user"]
                      /\ UNCHANGED <<text, winDown>>
                   \/ ~hooked /\ Reach(ev) /\ UNCHANGED hook
  BY DEF TypeKey
<1>3. ev.key = x /\ ev.down = down
  BY <1>2
<1>4. CASE hooked
  <2>1. hook' = [at |-> "lock", ev |-> ev, by |-> "user"] /\ winDown' = winDown /\ hook.at = "idle"
    BY <1>1, <1>2, <1>4 DEF HookFree
  <2>2. hook'.at = "lock" /\ hook'.ev = ev /\ hook'.by = "user"
    BY <2>1
  <2>3. UsersDown'
    BY <1>2, <1>3, <2>2 DEF UsersDown
  <2>4. ASSUME NEW k \in Keys, ~Coming(k)'
        PROVE  PairOK(k)'
    <3>1. k # x /\ k \notin phys
      BY <1>2, <1>3, <2>2, <2>4 DEF Coming
    <3>2. PairOK(k)
      BY <2>1, <3>1 DEF Pairs, Coming
    <3>3. Matched(held, k)' = Matched(held, k) /\ HasUp(held, k)' = HasUp(held, k)
      BY <1>1 DEF Matched, HasUp
    <3>4. SendsRelease(k)' <=> SendsRelease(k)
      BY <1>1 DEF SendsRelease
    <3>5. PressComes(k)' <=> PressComes(k)
      BY <1>1, <2>1, <2>2 DEF PressComes
    <3>6. (ReleaseComes(k)' <=> ReleaseComes(k)) /\ (Follows(k)' <=> Follows(k))
      BY <1>1, <2>1, <2>2, <3>4 DEF ReleaseComes, Follows
    <3> QED
      BY <2>1, <3>2, <3>3, <3>5, <3>6 DEF PairOK
  <2> QED
    BY <2>3, <2>4 DEF Pairs
<1>5. CASE ~hooked
  <2>1. /\ hook' = hook /\ hook.at = "idle" /\ held = <<>> /\ \A t \in Threads : pc[t] # "send"
        /\ winDown' = IF down THEN winDown \cup {x} ELSE winDown \ {x}
    BY <1>2, <1>3, <1>5 DEF Reach
  <2>2. UsersDown'
    BY <2>1 DEF UsersDown
  <2>3. ASSUME NEW k \in Keys, ~Coming(k)'
        PROVE  PairOK(k)'
    <3>1. Matched(held, k)'
      BY <1>1, <2>1 DEF Matched
    <3>2. ~PressComes(k)'
      BY <1>1, <2>1 DEF PressComes
    <3>3. k \notin winDown'
      <4> SUFFICES ASSUME k \in winDown'
                   PROVE  FALSE
        OBVIOUS
      <4>1. k # x
        BY <1>2, <2>1, <2>3 DEF Coming
      <4>2. k \in winDown /\ ~Coming(k)
        BY <1>2, <2>1, <2>3, <4>1 DEF Coming
      <4>3. ~HasUp(held, k) /\ ~ReleaseComes(k)
        BY <2>1 DEF HasUp, ReleaseComes, SendsRelease
      <4> QED
        BY <4>2, <4>3 DEF Pairs, PairOK
    <3> QED
      BY <3>1, <3>2, <3>3 DEF PairOK
  <2> QED
    BY <2>2, <2>3 DEF Pairs
<1> QED
  BY <1>4, <1>5

LEMMA PairsUser ==
    ASSUME Sound, Swallowed, Pairs, BackendStep(User) \/ BackendStep(RuleWindowReports)
    PROVE  Pairs'
<1>1. CASE UNCHANGED <<phys, hook, held, prior, winDown, pc, item>>
  BY <1>1, PairsSame
<1>2. \/ UNCHANGED <<phys, hook, held, prior, winDown, pc, item>>
      \/ \E k \in Keys, down \in BOOLEAN : TypeKey(k, down)
  BY DEF BackendStep, User, FocusMoves, Click, RuleWindowReports, windowVars, hookVars, holdVars, actionVars,
     callerVars, userVars
<1> QED
  BY <1>1, <1>2, PairsTypeKey

LEMMA PairsLock ==
    ASSUME Sound, Swallowed, Pairs, HookLock
    PROVE  Pairs'
<1> USE SoundTypes
<1>1. /\ UNCHANGED <<phys, prior, winDown, pc, item, holding, deferred, consumed>> /\ hook.at = "lock"
  BY DEF HookLock, actionVars, callerVars, userVars, windowVars
<1>2. PICK ev : ev = hook.ev /\ ev \in Fresh /\ hook.by = "user"
  BY <1>1 DEF HookEvents, Sound, Order, LastPress
<1>3. UsersDown'
  BY <1>1 DEF HookLock, IdleHook, HookAt, Pairs, UsersDown
<1>4. hooked
  BY <1>1
<1>5. ASSUME NEW k \in Keys, ~Coming(k)'
      PROVE  PairOK(k)'
  <2>1. k \notin phys /\ (ev.key = k => ~ev.down)
    BY <1>1, <1>2, <1>5 DEF Coming, Pairs, UsersDown
  <2>2. SendsRelease(k)' <=> SendsRelease(k)
    BY <1>1 DEF SendsRelease
  <2>3. held \in Seq(Fresh)
    BY DEF HookEvents
  <2>4. hook'.at \in {"idle", "track"} /\ (hook'.at = "track" => hook'.ev = ev /\ held' = held)
    BY <1>2 DEF HookLock, IdleHook, HookAt
  <2>5. held' = held \/ held' = Append(held, ev)
    BY <1>2 DEF HookLock
  <2>6. CASE ev.key # k
    <3>1. PairOK(k)
      BY <1>2, <2>1, <2>6 DEF Pairs, Coming
    <3>2. (Matched(held, k) => Matched(held', k)) /\ (HasUp(held, k) => HasUp(held', k))
      <4>1. CASE held' = held
        BY <4>1
      <4>2. CASE held' = Append(held, ev)
        BY <1>2, <2>3, <2>6, <4>2, MatchedAppend
      <4> QED
        BY <2>5, <4>1, <4>2
    <3>3. PressComes(k)' => PressComes(k)
      BY <1>1, <2>4, <2>6 DEF PressComes
    <3>4. (ReleaseComes(k) => ReleaseComes(k)') /\ (Follows(k) => Follows(k)')
      BY <1>1, <2>2 DEF ReleaseComes, Follows
    <3>5. winDown' = winDown /\ Matched(held, k)' = Matched(held', k) /\ HasUp(held, k)' = HasUp(held', k)
      BY <1>1 DEF Matched, HasUp
    <3> QED
      BY <3>1, <3>2, <3>3, <3>4, <3>5 DEF PairOK
  <2>7. CASE ev.key = k /\ held' = Append(held, ev)
    <3>1. Matched(held', k) /\ HasUp(held', k)
      BY <1>2, <2>1, <2>3, <2>7, MatchedAppend
    <3> QED
      BY <3>1 DEF PairOK, Matched, HasUp
  <2>8. CASE ev.key = k /\ ~KeptBack(ev) /\ hook' = HookAt("track") /\ held' = held
    <3>1. hook'.at = "track" /\ hook'.ev = ev /\ ~ev.down
      BY <1>2, <2>1, <2>8 DEF HookAt
    <3>2. ReleaseComes(k)'
      BY <2>8, <3>1 DEF ReleaseComes
    <3>3. ~holding \/ k \in prior
      <4>1. Answering = {}
        BY <1>1 DEF Answering
      <4> QED
        BY <1>4, <2>8, <4>1 DEF KeptBack, Swallowed
    <3>4. \A t \in Threads : ~(pc[t] = "send" /\ item[t].down)
      <4>1. CASE ~holding
        BY <4>1 DEF Sound, Keys2, OneNext
      <4>2. CASE k \in prior
        BY <4>2 DEF Sound, Keys2, OneNext, SendsPress, Swallowed
      <4> QED
        BY <3>3, <4>1, <4>2
    <3>5. ~PressComes(k)'
      BY <1>1, <3>1, <3>4 DEF PressComes
    <3>6. Matched(held, k)' \/ Follows(k)'
      <4>1. CASE ~holding
        <5>1. held' = <<>>
          BY <2>8, <4>1 DEF Sound, Keys2, OneNext
        <5> QED
          BY <5>1 DEF Matched
      <4>2. CASE k \in prior
        BY <1>1, <2>8, <3>1, <4>2 DEF Follows
      <4> QED
        BY <3>3, <4>1, <4>2
    <3> QED
      BY <3>2, <3>5, <3>6 DEF PairOK
  <2> QED
    BY <1>2, <2>6, <2>7, <2>8 DEF HookLock
<1> QED
  BY <1>3, <1>5 DEF Pairs

\* The key-up of key x follows the auto-repeat of x that is kept back.
LEMMA TrackPairs ==
    ASSUME Sound, NEW x \in Keys, TrackRelease(x), NEW k
    PROVE  /\ Matched(held, k) => Matched(held', k)
           /\ HasUp(held, k) => HasUp(held', k)
           /\ x \in prior => Matched(held', x)
           /\ prior' = prior \ {x}
<1> USE SoundTypes
<1>1. PICK e : e = ReleaseOf(x) /\ e \in Fresh /\ ~e.down /\ e.key = x
  <2>1. ReleaseOf(x) \in Fresh
    BY ReleaseFresh
  <2> QED
    BY <2>1 DEF ReleaseOf
<1>2. held \in Seq(Fresh) /\ prior' = prior \ {x}
  BY DEF HookEvents, TrackRelease
<1>3. CASE x \in prior /\ PressHeld(x)
  <2>1. held' = Append(held, e)
    BY <1>1, <1>3 DEF TrackRelease
  <2>2. /\ Matched(held, k) => Matched(Append(held, e), k)
        /\ HasUp(held, k) => HasUp(Append(held, e), k)
    BY <1>1, <1>2, MatchedAppend
  <2>3. Matched(Append(held, e), x)
    BY <1>1, <1>2, MatchedAppend
  <2> QED
    BY <1>2, <2>1, <2>2, <2>3
<1>4. CASE ~(x \in prior /\ PressHeld(x))
  <2>1. held' = held
    BY <1>4 DEF TrackRelease
  <2>2. x \in prior => Matched(held, x)
    BY <1>4 DEF PressHeld, Matched
  <2> QED
    BY <1>2, <2>1, <2>2
<1> QED
  BY <1>3, <1>4

LEMMA PairsTrack ==
    ASSUME Sound, Pairs, HookTrack
    PROVE  Pairs'
<1> USE SoundTypes
<1>1. UNCHANGED <<phys, winDown, pc, item>>
  BY DEF HookTrack, callerVars, userVars, windowVars
<1>2. hook.at = "track" /\ hook'.at = "answer" /\ hook'.ev = hook.ev /\ hook'.by = hook.by
  BY DEF HookTrack, HookAt
<1>3. UsersDown'
  BY <1>1, <1>2 DEF Pairs, UsersDown
<1>4. ASSUME NEW k \in Keys, ~Coming(k)'
      PROVE  PairOK(k)'
  <2>1. PairOK(k)
    BY <1>1, <1>2, <1>4 DEF Pairs, Coming
  <2>2. SendsRelease(k)' <=> SendsRelease(k)
    BY <1>1 DEF SendsRelease
  <2>3. PressComes(k)' <=> PressComes(k)
    BY <1>1, <1>2 DEF PressComes
  <2>4. ReleaseComes(k)' <=> ReleaseComes(k)
    BY <1>2, <2>2 DEF ReleaseComes
  <2>5. Matched(held, k)' = Matched(held', k) /\ HasUp(held, k)' = HasUp(held', k)
    BY DEF Matched, HasUp
  <2>6. CASE hook.ev.down
    <3>1. held' = held /\ prior' = prior
      BY <2>6 DEF HookTrack
    <3>2. Follows(k) => Follows(k)'
      BY <2>2, <2>6, <3>1 DEF Follows
    <3> QED
      BY <1>1, <2>1, <2>3, <2>4, <2>5, <3>1, <3>2 DEF PairOK
  <2>7. CASE ~hook.ev.down
    <3>1. PICK x \in Keys : x = hook.ev.key /\ TrackRelease(x)
      BY <1>2, <2>7, EventKinds DEF HookTrack, HookEvents, KeyEvent
    <3>2. /\ Matched(held, k) => Matched(held', k)
          /\ HasUp(held, k) => HasUp(held', k)
          /\ x \in prior => Matched(held', x)
          /\ prior' = prior \ {x}
      BY <3>1, TrackPairs
    <3>3. Follows(k) => Follows(k)' \/ Matched(held', k)
      BY <2>2, <3>1, <3>2 DEF Follows
    <3> QED
      BY <1>1, <2>1, <2>3, <2>4, <2>5, <3>2, <3>3 DEF PairOK
  <2> QED
    BY <2>6, <2>7
<1> QED
  BY <1>3, <1>4 DEF Pairs

LEMMA PairsAnswers ==
    ASSUME Sound, Swallowed, Pairs, AnswerRelease \/ AnswerRepeat \/ AnswerPress
    PROVE  Pairs'
<1> USE SoundTypes
<1>1. UNCHANGED <<phys, held, prior, item>> /\ hook.at = "answer" /\ hook'.at = "idle"
  BY DEF AnswerRelease, AnswerRepeat, AnswerPress, holdVars, actionVars, userVars, Answered, IdleHook
<1>2. \A t \in Threads : pc'[t] = "send" <=> pc[t] = "send"
  <2>1. \/ pc' = pc
        \/ \E t \in Threads : pc[t] = "sent" /\ pc' = [pc EXCEPT ![t] = "loop"]
    BY <1>1 DEF AnswerRelease, AnswerRepeat, AnswerPress, Answered, WaitsForHook
  <2> QED
    BY <2>1 DEF HoldTypeOK
<1>3. hooked
  BY <1>1
<1>4. ASSUME NEW k \in Keys, ~Coming(k)'
      PROVE  PairOK(k)'
  <2>1. PairOK(k)
    BY <1>1, <1>4 DEF Pairs, Coming
  <2>2. SendsRelease(k)' <=> SendsRelease(k)
    BY <1>1, <1>2 DEF SendsRelease
  <2>3. PressComes(k)' => PressComes(k)
    BY <1>1, <1>2 DEF PressComes
  <2>4. Matched(held, k)' = Matched(held, k) /\ HasUp(held, k)' = HasUp(held, k)
    BY <1>1 DEF Matched, HasUp
  <2>5. Follows(k) => Follows(k)'
    BY <1>1, <2>2 DEF Follows
  <2>6. k \in winDown' => HasUp(held, k)' \/ ReleaseComes(k)'
    <3> SUFFICES ASSUME k \in winDown'
                 PROVE  HasUp(held, k) \/ ReleaseComes(k)'
      BY <2>4
    <3>1. CASE AnswerRelease
      <4>1. ~hook.ev.down /\ k \in winDown /\ k # hook.ev.key
        BY <1>3, <3>1 DEF AnswerRelease, Reach, Swallowed
      <4>2. ReleaseComes(k) => ReleaseComes(k)'
        BY <2>2, <4>1 DEF ReleaseComes
      <4> QED
        BY <2>1, <4>1, <4>2 DEF PairOK
    <3>2. CASE AnswerRepeat \/ AnswerPress
      <4>1. hook.ev.down /\ (k \in winDown \/ k = hook.ev.key)
        BY <3>2 DEF AnswerRepeat, AnswerPress, Reach
      <4>2. CASE k \in winDown
        <5>1. ReleaseComes(k) => ReleaseComes(k)'
          BY <2>2, <4>1 DEF ReleaseComes
        <5> QED
          BY <2>1, <4>2, <5>1 DEF PairOK
      <4>3. CASE k = hook.ev.key
        <5>1. PressComes(k)
          BY <1>1, <4>1, <4>3 DEF PressComes
        <5> QED
          BY <2>1, <5>1 DEF PairOK
      <4> QED
        BY <4>1, <4>2, <4>3
    <3> QED
      BY <3>1, <3>2
  <2> QED
    BY <2>1, <2>3, <2>4, <2>5, <2>6 DEF PairOK
<1>5. UsersDown'
  BY <1>1 DEF UsersDown
<1> QED
  BY <1>4, <1>5 DEF Pairs

LEMMA PairsDefers ==
    ASSUME Sound, Swallowed, Pairs, AnswerDefers \/ HookDefer
    PROVE  Pairs'
<1> USE SoundTypes
<1>1. /\ UNCHANGED <<phys, held, winDown, item>>
      /\ hook.at \in {"answer", "defer"} /\ hook.ev.down
      /\ \/ hook'.at = "defer" /\ hook'.ev = hook.ev /\ hook'.by = hook.by
         \/ hook'.at = "idle"
  BY EventKinds DEF AnswerDefers, HookDefer, holdVars, userVars, windowVars, callerVars, Answered, IdleHook,
     HookAt, HookEvents, Press1, ActionPress
<1>2. \A t \in Threads : pc'[t] = "send" <=> pc[t] = "send"
  <2>1. \/ pc' = pc
        \/ \E t \in Threads : pc[t] = "sent" /\ pc' = [pc EXCEPT ![t] = "loop"]
    BY <1>1 DEF AnswerDefers, HookDefer, Answered, WaitsForHook, callerVars
  <2> QED
    BY <2>1 DEF HoldTypeOK
<1>3. prior' = prior \/ prior = {}
  <2>1. CASE AnswerDefers
    BY <2>1 DEF AnswerDefers
  <2>2. CASE HookDefer
    <3>1. Passing
      BY <1>1, <2>2 DEF HookDefer, Passing, PassingPress
    <3> QED
      BY <3>1 DEF Sound, Keys2, OneNext, Swallowed
  <2> QED
    BY <2>1, <2>2
<1>4. UsersDown'
  BY <1>1 DEF Pairs, UsersDown
<1>5. ASSUME NEW k \in Keys, ~Coming(k)'
      PROVE  PairOK(k)'
  <2>1. PairOK(k)
    BY <1>1, <1>5 DEF Pairs, Coming
  <2>2. SendsRelease(k)' <=> SendsRelease(k)
    BY <1>1, <1>2 DEF SendsRelease
  <2>3. PressComes(k)' => PressComes(k)
    BY <1>1, <1>2 DEF PressComes
  <2>4. ReleaseComes(k) => ReleaseComes(k)'
    BY <1>1, <2>2 DEF ReleaseComes
  <2>5. Matched(held, k)' = Matched(held, k) /\ HasUp(held, k)' = HasUp(held, k)
    BY <1>1 DEF Matched, HasUp
  <2>6. Follows(k) => Follows(k)'
    BY <1>1, <1>3, <2>2 DEF Follows
  <2> QED
    BY <1>1, <2>1, <2>3, <2>4, <2>5, <2>6 DEF PairOK
<1> QED
  BY <1>4, <1>5 DEF Pairs

LEMMA PairsHook ==
    ASSUME Sound, Swallowed, Pairs, BackendStep(HookStep)
    PROVE  Pairs'
BY PairsLock, PairsTrack, PairsAnswers, PairsDefers DEF BackendStep, HookStep

\* A step that puts keys of its own into the windows while no other key is on its way.
LEMMA PairsPut ==
    ASSUME Pairs, hook.at = "idle", UNCHANGED <<phys, hook>>, winDown' \subseteq winDown,
           \A t \in Threads : pc[t] # "send" /\ pc'[t] # "send",
           \A k \in Keys : /\ Matched(held, k) => Matched(held', k)
                           /\ HasUp(held, k) => HasUp(held', k)
    PROVE  Pairs'
<1>1. UsersDown'
  BY DEF UsersDown
<1>2. ASSUME NEW k \in Keys, ~Coming(k)'
      PROVE  PairOK(k)'
  <2>1. PairOK(k)
    BY <1>2 DEF Pairs, Coming
  <2>2. ~PressComes(k)' /\ ~ReleaseComes(k) /\ ~Follows(k)
    BY DEF PressComes, ReleaseComes, Follows, SendsRelease
  <2>3. Matched(held, k)' = Matched(held', k) /\ HasUp(held, k)' = HasUp(held', k)
    BY DEF Matched, HasUp
  <2> QED
    BY <2>1, <2>2, <2>3 DEF PairOK
<1> QED
  BY <1>1, <1>2 DEF Pairs

LEMMA PairsSubmit ==
    ASSUME Sound, Pairs, NEW t \in Threads, Submit(t)
    PROVE  Pairs'
<1> USE SoundTypes
<1>1. UNCHANGED <<phys, hook>> /\ winDown' \subseteq winDown /\ pc[t] = "submit" /\ pc[t] \in Routine
      /\ pc' = [pc EXCEPT ![t] = "clear"] /\ HookFree
  BY DEF Submit, userVars, hookVars, Goto, Routine
<1>2. hook.at = "idle"
  BY <1>1 DEF HookFree
<1>3. \A u \in Threads : pc[u] # "send" /\ pc'[u] # "send"
  <2>1. \A u \in Threads \ {t} : pc[u] # "send"
    BY <1>1, OneAtWork DEF Sound, TextBase, Routine
  <2> QED
    BY <1>1, <2>1 DEF HoldTypeOK
<1>4. ASSUME NEW k \in Keys
      PROVE  (Matched(held, k) => Matched(held', k)) /\ (HasUp(held, k) => HasUp(held', k))
  <2>1. CASE hooked
    <3>1. PICK x : x = item[t].key /\ TrackRelease(x)
      BY <2>1 DEF Submit
    <3>2. x \in Keys
      <4>1. item[t] = deferred /\ deferred # None
        BY <1>1 DEF Sound, Order, Submitted
      <4> QED
        BY <3>1, <4>1, EventKinds DEF HookEvents, ActionPress, Press1, KeyEvent
    <3> QED
      BY <3>1, <3>2, TrackPairs
  <2>2. CASE ~hooked
    BY <2>2 DEF Submit
  <2> QED
    BY <2>1, <2>2
<1> QED
  BY <1>1, <1>2, <1>3, <1>4, PairsPut

LEMMA PairsClear ==
    ASSUME Sound, Pairs, Clean', NEW t \in Threads, Clear(t)
    PROVE  Pairs'
<1> USE SoundTypes
<1>1. UNCHANGED <<phys, hook, held, winDown, item>> /\ pc[t] = "clear" /\ pc[t] \in Routine
      /\ pc' = [pc EXCEPT ![t] = "release"] /\ "orphaned" \notin Orphans
  BY DEF Clear, userVars, hookVars, holdVars, Goto, Routine, Remember, Clean
<1>2. \A u \in Threads : pc[u] # "send" /\ pc'[u] # "send"
  <2>1. \A u \in Threads \ {t} : pc[u] # "send"
    BY <1>1, OneAtWork DEF Sound, TextBase, Routine
  <2> QED
    BY <1>1, <2>1 DEF HoldTypeOK
<1>3. UsersDown'
  BY <1>1 DEF Pairs, UsersDown
<1>4. ASSUME NEW k \in Keys, ~Coming(k)'
      PROVE  PairOK(k)'
  <2>1. PairOK(k)
    BY <1>1, <1>4 DEF Pairs, Coming
  <2>2. (PressComes(k)' <=> PressComes(k)) /\ (ReleaseComes(k)' <=> ReleaseComes(k))
    BY <1>1, <1>2 DEF PressComes, ReleaseComes, SendsRelease
  <2>3. Matched(held, k)' = Matched(held, k) /\ HasUp(held, k)' = HasUp(held, k)
    BY <1>1 DEF Matched, HasUp
  <2>4. ASSUME Follows(k)
        PROVE  Matched(held, k)
    <3>1. ~PressHeld(k)
      BY <1>1, <1>2, <2>4 DEF Follows, SendsRelease, Orphans
    <3> QED
      BY <3>1 DEF PressHeld, Matched
  <2> QED
    BY <1>1, <2>1, <2>2, <2>3, <2>4 DEF PairOK
<1> QED
  BY <1>3, <1>4 DEF Pairs

LEMMA PairsSend ==
    ASSUME Sound, Pairs, NEW t \in Threads, Send(t)
    PROVE  Pairs'
<1> USE SoundTypes
<1>1. /\ UNCHANGED <<phys, held, prior>> /\ pc[t] = "send" /\ pc[t] \in Routine /\ HookFree
      /\ item' = [item EXCEPT ![t] = None]
  BY DEF Send, userVars, holdVars, actionVars, Routine
<1>2. hooked /\ hook.at = "idle"
  BY <1>1 DEF HookFree
<1>3. /\ hook' = [at |-> "track", ev |-> item[t], by |-> t] /\ winDown' = winDown
      /\ pc' = [pc EXCEPT ![t] = "sent"]
  BY <1>2 DEF Send, Goto
<1>4. hook'.at = "track" /\ hook'.ev = item[t] /\ hook'.by # "user"
  BY <1>3 DEF Threads
<1>5. \A u \in Threads : pc'[u] # "send"
  <2>1. \A u \in Threads \ {t} : pc[u] # "send"
    BY <1>1, OneAtWork DEF Sound, TextBase, Routine
  <2> QED
    BY <1>3, <2>1 DEF HoldTypeOK
<1>6. UsersDown'
  BY <1>4 DEF UsersDown
<1>7. ASSUME NEW k \in Keys, ~Coming(k)'
      PROVE  PairOK(k)'
  <2>1. PairOK(k)
    BY <1>1, <1>2, <1>7 DEF Pairs, Coming
  <2>2. SendsRelease(k) <=> ~item[t].down /\ item[t].key = k
    BY <1>1, Senders
  <2>3. PressComes(k)' => PressComes(k)
    BY <1>1, <1>4, <1>5 DEF PressComes
  <2>4. ReleaseComes(k) => ReleaseComes(k)'
    BY <1>2, <1>4, <2>2 DEF ReleaseComes
  <2>5. Follows(k) => Follows(k)'
    BY <1>1, <1>2, <1>4, <2>2 DEF Follows
  <2>6. Matched(held, k)' = Matched(held, k) /\ HasUp(held, k)' = HasUp(held, k)
    BY <1>1 DEF Matched, HasUp
  <2> QED
    BY <1>3, <2>1, <2>3, <2>4, <2>5, <2>6 DEF PairOK
<1> QED
  BY <1>6, <1>7 DEF Pairs

LEMMA PairsTake ==
    ASSUME Sound, Swallowed, Pairs, NEW t \in Threads, pc[t] = "loop",
           UNCHANGED <<phys, hook, prior, winDown>>, NEW i \in 1..Len(held), Take(t, i),
           (i = 1 /\ prior = {}) \/ (~held[i].down /\ held[i].key \in prior)
    PROVE  Pairs'
<1> USE SoundTypes
<1>1. PICK e : e = held[i]
  OBVIOUS
<1>2. pc'[t] = "send" /\ item'[t] = e /\ pc[t] \in Routine
      /\ \A u \in Threads \ {t} : pc'[u] = pc[u]
  BY <1>1 DEF Take, Goto, HoldTypeOK, Routine
<1>3. \A u \in Threads \ {t} : pc[u] \notin Routine
  BY <1>2, OneAtWork DEF Sound, TextBase
<1>4. \A u \in Threads \ {t} : pc[u] # "send" /\ pc'[u] # "send"
  BY <1>2, <1>3 DEF Routine
<1>5. held \in Seq(Fresh)
  BY DEF HookEvents
<1>6. PICK r : /\ r = SubSeq(held, 1, i - 1) \o SubSeq(held, i + 1, Len(held))
               /\ \A k \in Keys :
                    /\ Matched(held, k) /\ (i = 1 \/ held[i].down \/ held[i].key # k) => Matched(r, k)
                    /\ HasUp(held, k) /\ (held[i].down \/ held[i].key # k) => HasUp(r, k)
                    /\ Matched(held, k) /\ held[i].down /\ held[i].key = k => HasUp(r, k)
  BY <1>5, MatchedTaken
<1>7. held' = r
  BY <1>6, Zenon DEF Take
<1>8. hook.at \in {"track", "answer"} /\ hook.ev.down => hook.ev.key \in phys
  <2> SUFFICES ASSUME hook.at \in {"track", "answer"}, hook.ev.down
               PROVE  hook.ev.key \in phys
    OBVIOUS
  <2>1. hook.by \notin Threads
    BY <1>3 DEF WaitsForHook, Routine
  <2>2. hook.by = "user"
    BY <2>1 DEF HoldTypeOK, HookState, IdleHook
  <2> QED
    BY <2>2 DEF Pairs, UsersDown
<1>9. UsersDown'
  BY DEF Pairs, UsersDown
<1>10. ASSUME NEW k \in Keys, ~Coming(k)'
       PROVE  PairOK(k)'
  <2>1. PairOK(k) /\ k \notin phys
    BY <1>10 DEF Pairs, Coming
  <2>2. /\ Matched(held, k) /\ (i = 1 \/ e.down \/ e.key # k) => Matched(r, k)
        /\ HasUp(held, k) /\ (e.down \/ e.key # k) => HasUp(r, k)
        /\ Matched(held, k) /\ e.down /\ e.key = k => HasUp(r, k)
    BY <1>1, <1>6
  <2>3. (i = 1 /\ prior = {}) \/ (~e.down /\ e.key \in prior)
    BY <1>1
  <2>4. ~SendsRelease(k)
    BY <1>4 DEF SendsRelease
  <2>5. ~e.down /\ e.key = k => SendsRelease(k)'
    BY <1>2 DEF SendsRelease
  <2>6. PressComes(k)' => e.down /\ e.key = k
    BY <1>2, <1>4, <1>8, <2>1 DEF PressComes
  <2>7. Matched(r, k) \/ Follows(k)'
    <3>1. Follows(k) => Follows(k)'
      BY <2>4 DEF Follows
    <3>2. k \in prior /\ ~e.down /\ e.key = k => Follows(k)'
      BY <2>5 DEF Follows
    <3> QED
      BY <2>1, <2>2, <2>3, <3>1, <3>2 DEF PairOK
  <2>8. PressComes(k)' => HasUp(r, k)
    <3>1. e.down /\ e.key = k => Matched(held, k)
      BY <2>1, <2>3 DEF PairOK, Follows
    <3> QED
      BY <2>2, <2>6, <3>1
  <2>9. k \in winDown => HasUp(r, k) \/ ReleaseComes(k)'
    <3>1. ReleaseComes(k) => ReleaseComes(k)'
      BY <2>4 DEF ReleaseComes
    <3>2. ~e.down /\ e.key = k => ReleaseComes(k)'
      BY <2>5 DEF ReleaseComes
    <3> QED
      BY <2>1, <2>2, <3>1, <3>2 DEF PairOK
  <2>10. Matched(held, k)' = Matched(r, k) /\ HasUp(held, k)' = HasUp(r, k)
    BY <1>7 DEF Matched, HasUp
  <2> QED
    BY <2>7, <2>8, <2>9, <2>10 DEF PairOK
<1> QED
  BY <1>9, <1>10 DEF Pairs

LEMMA PairsCaller ==
    ASSUME Sound, Swallowed, Pairs, Clean', NEW t \in Threads,
           BackendStep(ReleaseStep(t)) \/ BackendStep(ActionStep(t))
    PROVE  Pairs'
<1> USE SoundTypes
<1>1. \A u \in Threads \ {t} : pc'[u] = pc[u] /\ item'[u] = item[u]
  BY CallerSteps
<1>2. CASE /\ UNCHANGED <<phys, hook, held, prior, winDown>>
           /\ pc[t] # "send" /\ pc'[t] # "send"
  BY <1>1, <1>2, PairsSame
<1>3. ~SendFails(t) /\ ~SubmitFails(t)
  BY DEF SendFails, SubmitFails, Remember, Clean
<1>4. CASE Release(t) \/ Finally(t) \/ Deliver(t) \/ Cancel(t)
  <2>1. UNCHANGED <<phys, hook, held, prior, winDown>> /\ pc[t] # "send"
    BY <1>4 DEF Release, Finally, Deliver, Cancel, userVars, hookVars, holdVars, actionVars, windowVars
  <2>2. pc'[t] # "send"
    <3>1. then[t] \in Returns
      BY DEF HoldTypeOK
    <3>2. CASE Release(t) \/ Finally(t)
      <4>1. \/ EndRelease(t) \/ Goto(t, "loop")
        BY <3>2 DEF Release, Finally
      <4> QED
        BY <4>1, EndsRelease DEF Goto, HoldTypeOK, Returns
    <3>3. CASE Deliver(t) \/ Cancel(t)
      BY <3>1, <3>3 DEF Deliver, Cancel, Goto, HoldTypeOK, Returns
    <3> QED
      BY <1>4, <3>2, <3>3
  <2> QED
    BY <1>2, <2>1, <2>2
<1>5. CASE LoopBehindAction(t) \/ Loop(t)
  <2>1. UNCHANGED <<phys, hook, prior, winDown>> /\ pc[t] = "loop"
    BY <1>5 DEF LoopBehindAction, Loop, userVars, hookVars, actionVars, windowVars
  <2>2. held \in Seq(Fresh)
    BY DEF HookEvents
  <2>3. CASE UNCHANGED held /\ Goto(t, "finally")
    <3>1. pc'[t] = "finally"
      BY <2>3 DEF Goto, HoldTypeOK
    <3> QED
      BY <1>2, <2>1, <2>3, <3>1
  <2>4. ASSUME NEW i \in PriorReleases, Take(t, i)
        PROVE  Pairs'
    <3>1. i \in 1..Len(held) /\ ~held[i].down /\ held[i].key \in prior
      BY <2>2, <2>4 DEF PriorReleases
    <3> QED
      BY <2>1, <2>4, <3>1, PairsTake
  <2>5. CASE deferred = None /\ held # <<>> /\ Take(t, 1)
    <3>1. 1 \in 1..Len(held) /\ prior = {}
      BY <2>2, <2>5 DEF Swallowed
    <3> QED
      BY <2>1, <2>5, <3>1, PairsTake
  <2> QED
    BY <1>5, <2>3, <2>4, <2>5 DEF LoopBehindAction, Loop
<1> QED
  BY <1>3, <1>4, <1>5, PairsSubmit, PairsClear, PairsSend DEF BackendStep, ReleaseStep, ActionStep

\* The key-ups of an injection.
LEMMA FollowPairs ==
    ASSUME Sound, NEW ks, FollowKeys(ks), NEW k
    PROVE  (Matched(held, k) => Matched(held', k)) /\ (HasUp(held, k) => HasUp(held', k))
<1> USE SoundTypes
<1>1. CASE ~hooked
  BY <1>1 DEF FollowKeys
<1>2. CASE hooked
  <2> DEFINE S == {x \in ks \cap prior : PressHeld(x)}
  <2>1. PICK o \in Orders(S) : held' = held \o [i \in DOMAIN o |-> ReleaseOf(o[i])]
    BY <1>2 DEF FollowKeys
  <2>2. S \subseteq Keys
    BY DEF HoldTypeOK
  <2>3. Cardinality(S) \in Nat
    BY <2>2, KeysAssumption, FS_Subset, FS_CardinalityType
  <2>4. o \in [1..Cardinality(S) -> S]
    BY <2>1 DEF Orders
  <2> HIDE DEF S
  <2>5. PICK r : r = [i \in DOMAIN o |-> ReleaseOf(o[i])]
    OBVIOUS
  <2>6. \A i \in 1..Cardinality(S) : ReleaseOf(o[i]) \in Fresh /\ ~ReleaseOf(o[i]).down
    BY <2>2, <2>4 DEF ReleaseOf, Fresh, KeyEvent
  <2>7. r \in [1..Cardinality(S) -> Fresh]
    BY <2>4, <2>5, <2>6
  <2>8. r \in Seq(Fresh)
    BY <2>3, <2>7, SeqDef
  <2>9. \A i \in DOMAIN r : ~r[i].down
    BY <2>4, <2>5, <2>6
  <2>10. held \in Seq(Fresh)
    BY DEF HookEvents
  <2>11. (Matched(held, k) => Matched(held \o r, k)) /\ (HasUp(held, k) => HasUp(held \o r, k))
    BY <2>8, <2>9, <2>10, MatchedConcat
  <2> QED
    BY <2>1, <2>5, <2>11
<1> QED
  BY <1>1, <1>2

LEMMA PairsInject ==
    ASSUME Sound, Pairs, Clean', Injects,
           Erase \/ EraseAndType \/ TypeWord \/ Retype \/ InjectionFails
    PROVE  Pairs'
<1> USE SoundTypes
<1>1. UNCHANGED <<phys, hook>> /\ W \in Correcting
  BY DEF Injects, injecting, hookVars, userVars, W
<1>2. \A t \in Threads : pc[t] # "send" /\ pc'[t] # "send"
  <2>1. pc["stop"] # "send"
    <3>1. pc["stop"] = "running"
      BY <1>1 DEF Sound, TextBase, CorrectInv, StoppedWorker, Calm, Ready, W, Correcting
    <3> QED
      BY <3>1
  <2>2. \E l \in Correcting \cup {"release"} : pc' = [pc EXCEPT !["worker"] = l]
    BY DEF Injects
  <2> QED
    BY <1>1, <2>1, <2>2 DEF Threads, W, Correcting, HoldTypeOK
<1>3. ~InjectionFails
  BY DEF InjectionFails, Remember, Clean
<1>4. CASE Erase
  <2>1. UNCHANGED <<held, prior, winDown>>
    BY <1>4 DEF Erase
  <2> QED
    BY <1>1, <1>2, <2>1, PairsSame
<1>5. ASSUME NEW base, NEW s, TypeInto(base, s), HookFree
      PROVE  Pairs'
  <2>1. PICK ks : ks = KeysOf(s)
    OBVIOUS
  <2>2. FollowKeys(ks) /\ winDown' \subseteq winDown /\ hook.at = "idle"
    BY <1>5, <2>1 DEF TypeInto, HookFree
  <2>3. \A k \in Keys : (Matched(held, k) => Matched(held', k)) /\ (HasUp(held, k) => HasUp(held', k))
    BY <2>2, FollowPairs
  <2> QED
    BY <1>1, <1>2, <2>2, <2>3, PairsPut
<1> QED
  BY <1>3, <1>4, <1>5 DEF EraseAndType, TypeWord, Retype

LEMMA PairsBooks ==
    ASSUME Sound, Pairs, (WorkerBooks /\ Books) \/ HoldInput \/ Stop \/ Unhook \/ UNCHANGED vars
    PROVE  Pairs'
<1> USE SoundTypes
<1>1. UNCHANGED <<phys, hook, held, prior, winDown, item>>
  BY DEF Books, quietVars, HoldInput, Stop, Unhook, vars, backendVars, callerVars, hookVars, holdVars, actionVars,
     userVars, windowVars
<1>2. \A t \in Threads : pc[t] = "send" <=> pc'[t] = "send"
  <2>1. CASE WorkerBooks /\ Books
    <3>1. W # "send" /\ W' # "send" /\ pc'["stop"] = pc["stop"]
      BY <2>1, BooksFrom, BooksGo
    <3> QED
      BY <3>1 DEF Threads, W
  <2>2. CASE HoldInput \/ Stop \/ Unhook
    BY <2>2 DEF HoldInput, Stop, Unhook, Worker, HoldTypeOK, Threads
  <2>3. CASE UNCHANGED vars
    BY <2>3 DEF vars, backendVars, callerVars
  <2> QED
    BY <2>1, <2>2, <2>3
<1> QED
  BY <1>1, <1>2, PairsSame

LEMMA PairStep ==
    ASSUME WordInv, ActionInv, ConsumedInv, PairInv, [Next]_vars
    PROVE  PairInv'
<1> SUFFICES ASSUME Clean'
             PROVE  Pairs'
  BY DEF PairInv
<1>1. HoldTypeOK
  BY DEF WordInv, TextBase, EventInv, TypeInv
<1>2. Clean
  BY <1>1, OddGrows DEF Clean
<1>3. Sound /\ Swallowed /\ Pairs
  BY <1>2 DEF Sound, WordInv, KeyInv, OrderInv, ConsumedInv, PairInv, Clean, Calm
<1> QED
  BY <1>1, <1>3, InjectCases, PairsUser, PairsHook, PairsCaller, PairsInject, PairsBooks

LEMMA PairInit == Init => PairInv
<1> SUFFICES ASSUME Init
             PROVE  Pairs
  BY DEF PairInv
<1>1. hook.at = "idle" /\ held = <<>> /\ winDown = {} /\ \A t \in Threads : pc[t] # "send"
  BY DEF Init, IdleHook, Threads
<1>2. ASSUME NEW k \in Keys
      PROVE  PairOK(k)
  BY <1>1 DEF PairOK, Matched, PressComes
<1> QED
  BY <1>1, <1>2 DEF Pairs, UsersDown

\* The keys in the buffer, on their way and down in the windows, in every state of every run.
KeysInv == WordInv /\ WordKeys /\ ActionInv /\ ConsumedInv /\ PairInv

LEMMA KeysStep == KeysInv /\ [Next]_vars => KeysInv'
<1> SUFFICES ASSUME KeysInv, [Next]_vars
             PROVE  KeysInv'
  OBVIOUS
<1>1. WordInv /\ WordKeys /\ ActionInv /\ ConsumedInv /\ PairInv
  BY DEF KeysInv
<1>2. TextBase /\ MindInv /\ KeyInv /\ TokenInv /\ EventInv
  BY <1>1 DEF WordInv, TextBase
<1> QED
  BY <1>1, <1>2, WordStep, WordKeysStep, ActionNext, ConsumedStep, PairStep DEF KeysInv

LEMMA KeysHold == Spec => []KeysInv
<1>1. Init => KeysInv
  BY BaseInit, MindInit, TokenInit, MirrorInit, OrderInit, WordKeysInit, ActionInit, ConsumedInit, PairInit
     DEF WordInv, KeysInv
<1> QED
  BY <1>1, KeysStep, PTL DEF Spec

\* Once the queue is empty, nothing is withheld and the hook is idle, every key a window believes
\* down is a key the user holds down: for every keyboard, every number of windows and events and
\* every size of the queue, in every run in which nothing rare happened. A key-up the hook kept
\* back, let pass or swallowed (_answer_native, _track_key_state, _consumes), one that release_input
\* takes from the buffer, and those of inject_correction's own keys all reach the windows behind
\* the presses of their keys.
THEOREM NoKeyStaysDown == Spec => []NoStuckKey
<1>1. KeysInv /\ MindedInv /\ RestIsFree => NoStuckKey
  <2> SUFFICES ASSUME KeysInv, MindedInv, RestIsFree, Quiet, odd = {}, NEW k \in winDown, k \notin phys
               PROVE  FALSE
    BY DEF NoStuckKey
  <2>1. EventInv /\ Pairs
    BY DEF KeysInv, WordInv, TextBase, PairInv, Clean
  <2>2. held = <<>>
    <3>1. ~(failures > 1)
      BY DEF MindedInv, TextBase, EventInv, TypeInv, HoldTypeOK, FaultInv, FaultTally
    <3> QED
      BY <2>1, <3>1 DEF RestIsFree, Forgotten, Unheard, NotedTooLate
  <2>3. hook.at = "idle" /\ \A t \in Threads : pc[t] # "send"
    BY DEF Quiet, Ready, Threads
  <2>4. k \in Keys
    BY <2>1 DEF EventInv, TypeInv, HoldTypeOK
  <2>5. PairOK(k)
    BY <2>1, <2>3, <2>4 DEF Pairs, Coming
  <2> QED
    BY <2>2, <2>3, <2>5 DEF PairOK, HasUp, ReleaseComes, SendsRelease
<1> QED
  BY <1>1, KeysHold, MindsHold, NothingKeptBack, PTL
=============================================================================
