--------------------------- MODULE UserFilesProofs ---------------------------
(***************************************************************************)
(* Proofs about UserFiles, for every set of rules, limit of the history    *)
(* and number of failures: no rule the user was told is kept is lost, an   *)
(* old file is copied before it is converted, and the history holds its    *)
(* last entries in their order.                                            *)
(***************************************************************************)
EXTENDS UserFiles, FiniteSetTheorems, WellFoundedInduction, TLAPS

Copied == aside \cup backup.rules

\* Inductive: what the user has is on disk, and, once the file has been read, in memory or in
\* a copy as well, so that the next save, which writes what memory holds, loses none of it.
\* The memory of a program that could not read the file holds less: its next save is the
\* one that savedOver notes.
KeptInv ==
    /\ backup.kind = "none" => backup.rules = {}
    /\ savedOver \/ owned \subseteq file.rules \cup Copied
    /\ pc \in {"backup", "convert", "on"} =>
         savedOver \/ stuck \/ owned \subseteq rules \cup Copied
    /\ pc = "backup" => rules = file.rules /\ file.kind = "legacy"
    /\ pc \in {"backup", "convert"} => ~stuck
    /\ savedOver \in BOOLEAN /\ stuck \in BOOLEAN

LEMMA KeptInit == Init => KeptInv
  <1> SUFFICES ASSUME RulesInit PROVE KeptInv
    BY DEF Init
  <1>1. backup = Missing /\ owned = file.rules /\ pc = "off"
    BY DEF RulesInit
  <1>2. stuck = FALSE /\ savedOver = FALSE
    BY DEF RulesInit
  <1>3. backup.rules = {}
    BY <1>1 DEF Missing, Contents
  <1> QED
    BY <1>1, <1>2, <1>3 DEF KeptInv, Copied

\* A save of all the user has, as far as there is no copy of it, or one that fails.
LEMMA SavesKeep ==
  ASSUME KeptInv, NEW what, NEW keeps, NEW fails,
         Saves(what, keeps, fails), UNCHANGED <<backup, aside>>,
         savedOver \/ stuck \/ keeps \subseteq what \cup Copied,
         savedOver \/ stuck \/ fails \subseteq what \cup Copied,
         fails \subseteq owned,
         rules' = what, pc' = "on"
  PROVE  KeptInv'
  <1>1. CASE /\ file' = Contents("rules", what)
             /\ owned' = keeps /\ stuck' = FALSE
             /\ savedOver' = (savedOver \/ stuck)
    BY <1>1 DEF KeptInv, Copied, Contents
  <1>2. CASE owned' = fails /\ UNCHANGED <<file, stuck, savedOver>>
    BY <1>2 DEF KeptInv, Copied
  <1> QED
    BY <1>1, <1>2 DEF Saves

LEMMA ChangesKeep ==
  ASSUME KeptInv, NEW to, NEW keeps, NEW fails,
         Changes(to, keeps, fails),
         savedOver \/ stuck \/ keeps \subseteq to \cup Copied,
         savedOver \/ stuck \/ fails \subseteq to \cup Copied,
         fails \subseteq owned
  PROVE  KeptInv'
  BY SavesKeep DEF Changes

LEMMA LoadKeeps ==
  ASSUME KeptInv, StartProgram \/ LoadReads \/ LoadSetsAside \/ LoadBacksUp \/ LoadConverts
  PROVE  KeptInv'
  <1>1. CASE StartProgram
    BY <1>1 DEF StartProgram, KeptInv, Copied
  <1>2. CASE LoadReads
    BY <1>2 DEF LoadReads, KeptInv, Copied
  <1>3. CASE LoadSetsAside
    BY <1>3 DEF LoadSetsAside, KeptInv, Copied, Missing, Contents
  <1>4. CASE LoadBacksUp
    <2>1. CASE backup.kind = "none"
      BY <1>4, <2>1 DEF LoadBacksUp, KeptInv, Copied, Missing, Contents
    <2>2. CASE backup.kind # "none"
      BY <1>4, <2>2 DEF LoadBacksUp, KeptInv, Copied
    <2> QED
      BY <2>1, <2>2
  <1>5. CASE LoadConverts
    BY <1>5, SavesKeep DEF LoadConverts, KeptInv
  <1> QED
    BY <1>1, <1>2, <1>3, <1>4, <1>5

\* The changes of the user: what is kept is in memory, which is what is saved.
LEMMA UserKeeps ==
  ASSUME KeptInv,
         \/ \E r \in Rules : AddRule(r) \/ RemoveRule(r)
         \/ \E old, new \in Rules : ReplaceRule(old, new)
         \/ ClearRules
  PROVE  KeptInv'
  <1>0. pc = "on" => savedOver \/ stuck \/ owned \subseteq rules \cup Copied
    BY DEF KeptInv
  <1>1. ASSUME NEW r \in Rules, AddRule(r) PROVE KeptInv'
    <2>1. pc = "on"
      BY <1>1 DEF AddRule, Changes
    <2> QED
      BY <1>0, <1>1, <2>1, ChangesKeep DEF AddRule
  <1>2. ASSUME NEW r \in Rules, RemoveRule(r) PROVE KeptInv'
    <2>1. pc = "on"
      BY <1>2 DEF RemoveRule, Changes
    <2> QED
      BY <1>0, <1>2, <2>1, ChangesKeep DEF RemoveRule
  <1>3. ASSUME NEW old \in Rules, NEW new \in Rules, ReplaceRule(old, new) PROVE KeptInv'
    <2>1. pc = "on"
      BY <1>3 DEF ReplaceRule, Changes
    <2> QED
      BY <1>0, <1>3, <2>1, ChangesKeep DEF ReplaceRule
  <1>4. CASE ClearRules
    <2>1. Changes({}, {}, {})
      BY <1>4 DEF ClearRules
    <2>2. \A S : {} \subseteq S
      OBVIOUS
    <2> QED
      BY <2>1, <2>2, ChangesKeep
  <1> QED
    BY <1>1, <1>2, <1>3, <1>4

LEMMA WorldKeeps ==
  ASSUME KeptInv, EndProgram \/ EditByHand
  PROVE  KeptInv'
  <1>1. CASE EndProgram
    <2>1. /\ pc' = "off" /\ stuck' = FALSE
          /\ UNCHANGED <<file, aside, owned, savedOver>>
      BY <1>1 DEF EndProgram
    <2>2. backup'.rules = backup.rules /\ (backup'.kind = "none" => backup'.rules = {})
      <3>1. CASE UNCHANGED backup
        BY <3>1 DEF KeptInv
      <3>2. CASE backup.kind = "none" /\ backup' = Contents("torn", {})
        BY <3>2 DEF KeptInv, Contents
      <3> QED
        BY <1>1, <3>1, <3>2 DEF EndProgram
    <2> QED
      BY <2>1, <2>2 DEF KeptInv, Copied
  <1>2. CASE EditByHand
    BY <1>2 DEF EditByHand, KeptInv, Copied, Contents
  <1> QED
    BY <1>1, <1>2

LEMMA KeptNext == KeptInv /\ [Next]_vars => KeptInv'
  <1> SUFFICES ASSUME KeptInv, [Next]_vars PROVE KeptInv'
    OBVIOUS
  <1>1. CASE RulesStep
    BY <1>1, LoadKeeps, UserKeeps DEF RulesStep
  <1>2. CASE EditByHand \/ Ends
    BY <1>2, WorldKeeps DEF Ends
  <1>3. CASE UNCHANGED rulesVars
    BY <1>3 DEF rulesVars, KeptInv, Copied
  <1> QED
    BY <1>1, <1>2, <1>3 DEF Next, Starts, vars

\* Whatever reads and writes fail, and wherever the program ends: the rules the user was told
\* are kept are on disk, but for a file that could be neither read nor moved aside and was
\* saved over (LearningStore).
THEOREM NoRuleLost == Spec => []RulesKept
  <1>1. KeptInv => RulesKept
    BY DEF KeptInv, RulesKept, Copied
  <1> QED
    BY <1>1, KeptInit, KeptNext, PTL DEF Spec

-----------------------------------------------------------------------------
(* The copy of the old file.                                               *)

\* Inductive: with the program on, and with the conversion about to be saved, a file of the old
\* schema has its copy, or one of the exceptions holds.
CopyInv ==
    /\ backup.kind \in {"none", "legacy"} \/ backupFailed
    /\ pc = "backup" => file.kind = "legacy"
    /\ pc = "convert" => backup.kind # "none"
    /\ pc = "on" /\ file.kind = "legacy" => backup.kind = "legacy" \/ backupFailed \/ stuck

\* What every step does of which the property speaks.
CopiedBefore ==
    file.kind = "legacy" /\ file'.kind = "rules" => backup.kind = "legacy" \/ backupFailed \/ stuck

LEMMA CopyInit == Init => CopyInv
  BY DEF Init, RulesInit, CopyInv, Missing, Contents

LEMMA CopySaves ==
  ASSUME CopyInv, NEW what, NEW keeps, NEW fails,
         Saves(what, keeps, fails), pc \in {"convert", "on"}, pc' = "on",
         UNCHANGED <<backup, backupFailed>>
  PROVE  CopyInv' /\ CopiedBefore
  <1>1. CASE file' = Contents("rules", what)
    BY <1>1 DEF CopyInv, CopiedBefore, Contents
  <1>2. CASE UNCHANGED <<file, stuck>>
    BY <1>2 DEF CopyInv, CopiedBefore
  <1> QED
    BY <1>1, <1>2 DEF Saves

LEMMA CopyChanges ==
  ASSUME CopyInv, NEW to, NEW keeps, NEW fails, Changes(to, keeps, fails)
  PROVE  CopyInv' /\ CopiedBefore
  BY CopySaves DEF Changes

LEMMA CopyNext == CopyInv /\ [Next]_vars => CopyInv' /\ CopiedBefore
  <1> SUFFICES ASSUME CopyInv, [Next]_vars PROVE CopyInv' /\ CopiedBefore
    OBVIOUS
  <1>1. CASE StartProgram \/ LoadReads
    BY <1>1 DEF StartProgram, LoadReads, CopyInv, CopiedBefore
  <1>2. CASE LoadSetsAside
    BY <1>2 DEF LoadSetsAside, CopyInv, CopiedBefore, Missing, Contents
  <1>3. CASE LoadBacksUp
    BY <1>3 DEF LoadBacksUp, CopyInv, CopiedBefore, Missing, Contents
  <1>4. CASE LoadConverts
    BY <1>4, CopySaves DEF LoadConverts
  <1>5. CASE \E r \in Rules : AddRule(r) \/ RemoveRule(r)
    BY <1>5, CopyChanges DEF AddRule, RemoveRule
  <1>6. CASE \E old, new \in Rules : ReplaceRule(old, new)
    BY <1>6, CopyChanges DEF ReplaceRule
  <1>7. CASE ClearRules
    BY <1>7, CopyChanges DEF ClearRules
  <1>8. CASE EditByHand
    BY <1>8 DEF EditByHand, CopyInv, CopiedBefore, Contents
  <1>9. CASE EndProgram
    BY <1>9 DEF EndProgram, CopyInv, CopiedBefore, Contents
  <1>10. CASE UNCHANGED rulesVars
    BY <1>10 DEF rulesVars, CopyInv, CopiedBefore
  <1> QED
    BY <1>1, <1>2, <1>3, <1>4, <1>5, <1>6, <1>7, <1>8, <1>9, <1>10
       DEF Next, RulesStep, Starts, Ends, vars

\* A file of the old schema is converted only after a whole copy of it was made, but for the
\* exceptions the property names (load).
THEOREM CopiedFirst == Spec => BackedUpFirst
  <1>1. CopyInv /\ [Next]_vars => [CopiedBefore]_vars
    BY CopyNext
  <1>2. Spec => []CopyInv
    BY CopyInit, CopyNext, PTL DEF Spec
  <1> QED
    BY <1>1, <1>2, PTL DEF Spec, BackedUpFirst, CopiedBefore

-----------------------------------------------------------------------------
(* Reading the history.                                                    *)

\* A set of numbers that is not empty has a least one.
LEMMA LeastOne ==
  ASSUME NEW S, S \subseteq Nat, S # {}
  PROVE  \E i \in S : \A j \in S : i <= j
  <1>1. \E i \in S : \A j \in S : <<j, i>> \notin OpToRel(<, Nat)
    BY NatLessThanWellFounded, WFMin
  <1>2. PICK i \in S : \A j \in S : ~(j < i)
    BY <1>1 DEF OpToRel
  <1> QED
    BY <1>2

\* The entries of the first k pieces, for every k up to n.
ReadUpTo(n, s, f) ==
    f = [k \in 0..n |-> IF k = 0 THEN <<>>
                        ELSE IF HasItsLine(s, k) THEN Append(f[k - 1], s[k].entry)
                        ELSE f[k - 1]]
ReadIn(s) == CHOOSE f : ReadUpTo(Len(s), s, f)

LEMMA ReadableIsIn == ASSUME NEW s PROVE Readable(s) = ReadIn(s)[Len(s)]
  BY DEF Readable, ReadIn, ReadUpTo

\* There is such a function, piece by piece.
LEMMA ReadExists ==
  ASSUME NEW s, NEW len \in Nat
  PROVE  \E f : ReadUpTo(len, s, f)
  <1> DEFINE T == {n \in 0..len : ~\E f : ReadUpTo(n, s, f)}
  <1> SUFFICES ASSUME T # {} PROVE FALSE
    OBVIOUS
  <1>a. T \subseteq Nat
    OBVIOUS
  <1> HIDE DEF T
  <1>1. PICK m \in T : \A n \in T : m <= n
    BY <1>a, LeastOne
  <1> USE DEF T
  <1>b. m \in 0..len /\ m \in Nat
    BY <1>1
  <1>2. CASE m = 0
    <2> DEFINE g == [k \in 0..0 |-> <<>>]
    <2>1. g = [k \in 0..0 |-> IF k = 0 THEN <<>>
                              ELSE IF HasItsLine(s, k) THEN Append(g[k - 1], s[k].entry)
                              ELSE g[k - 1]]
      OBVIOUS
    <2> QED
      BY <1>1, <1>2, <2>1 DEF ReadUpTo
  <1>3. CASE m # 0
    <2>1. m - 1 \in 0..len /\ m - 1 \notin T
      BY <1>b, <1>1, <1>3
    <2>2. PICK f : ReadUpTo(m - 1, s, f)
      BY <2>1
    <2>3. \A k \in 0..m - 1 : f[k] = IF k = 0 THEN <<>>
                                     ELSE IF HasItsLine(s, k) THEN Append(f[k - 1], s[k].entry)
                                     ELSE f[k - 1]
      BY <2>2 DEF ReadUpTo
    <2>4. PICK last : last = IF HasItsLine(s, m) THEN Append(f[m - 1], s[m].entry) ELSE f[m - 1]
      OBVIOUS
    <2>5. PICK g : g = [k \in 0..m |-> IF k = m THEN last ELSE f[k]]
      OBVIOUS
    <2>6. g[m] = last /\ \A k \in 0..m - 1 : g[k] = f[k]
      BY <1>b, <2>5
    <2>7. ASSUME NEW k \in 0..m
          PROVE  g[k] = IF k = 0 THEN <<>>
                        ELSE IF HasItsLine(s, k) THEN Append(g[k - 1], s[k].entry)
                        ELSE g[k - 1]
      <3>1. CASE k = m
        <4>1. g[k - 1] = f[m - 1] /\ k # 0
          BY <1>b, <1>3, <2>6, <3>1
        <4> QED
          BY <2>4, <2>6, <3>1, <4>1
      <3>2. CASE k # m
        <4>1. k \in 0..m - 1 /\ (k # 0 => k - 1 \in 0..m - 1)
          BY <1>b, <3>2
        <4> QED
          BY <2>3, <2>6, <4>1
      <3> QED
        BY <3>1, <3>2
    <2>8. g = [k \in 0..m |-> g[k]]
      BY <2>5
    <2>9. g = [k \in 0..m |-> IF k = 0 THEN <<>>
                              ELSE IF HasItsLine(s, k) THEN Append(g[k - 1], s[k].entry)
                              ELSE g[k - 1]]
      BY <2>7, <2>8
    <2> QED
      BY <1>1, <2>9 DEF ReadUpTo
  <1> QED
    BY <1>2, <1>3

Rising(s) == \A i, j \in 1..Len(s) : i < j => s[i] < s[j]
RisingPieces(s) == \A i, j \in 1..Len(s) : i < j => s[i].entry < s[j].entry

\* The sequence q holds the entries with a line of their own of the first n pieces.
Holds(q, s, n) ==
    /\ \A i \in 1..Len(q) : \E k \in 1..n : HasItsLine(s, k) /\ q[i] = s[k].entry
    /\ \A k \in 1..n : HasItsLine(s, k) => \E i \in 1..Len(q) : q[i] = s[k].entry

LEMMA AppendHolds ==
  ASSUME NEW E, E \subseteq Nat, NEW s, \A k \in 1..Len(s) : s[k].entry \in E, RisingPieces(s),
         Len(s) \in Nat, NEW n \in 1..Len(s), HasItsLine(s, n),
         NEW q \in Seq(E), Rising(q), Holds(q, s, n - 1)
  PROVE  LET r == Append(q, s[n].entry) IN r \in Seq(E) /\ Rising(r) /\ Holds(r, s, n)
  <1>1. PICK r : r = Append(q, s[n].entry)
    OBVIOUS
  <1>2. /\ r \in Seq(E) /\ Len(r) = Len(q) + 1 /\ Len(q) \in Nat /\ r[Len(r)] = s[n].entry
        /\ \A i \in 1..Len(q) : r[i] = q[i]
    BY <1>1
  <1>3. \A i \in 1..Len(q) : q[i] < s[n].entry
    <2>1. ASSUME NEW i \in 1..Len(q) PROVE q[i] < s[n].entry
      <3>1. PICK k \in 1..n - 1 : q[i] = s[k].entry
        BY DEF Holds
      <3>2. k \in 1..Len(s) /\ k < n
        OBVIOUS
      <3> QED
        BY <3>1, <3>2 DEF RisingPieces
    <2> QED
      BY <2>1
  <1>4. Rising(r)
    <2>1. ASSUME NEW i \in 1..Len(r), NEW j \in 1..Len(r), i < j PROVE r[i] < r[j]
      <3>1. i \in 1..Len(q) /\ (j \in 1..Len(q) \/ j = Len(r))
        BY <1>2, <2>1
      <3>2. CASE j = Len(r)
        BY <1>2, <1>3, <3>1, <3>2
      <3>3. CASE j \in 1..Len(q)
        BY <1>2, <2>1, <3>1, <3>3 DEF Rising
      <3> QED
        BY <3>1, <3>2, <3>3
    <2> QED
      BY <2>1 DEF Rising
  <1>5. Holds(r, s, n)
    <2>1. ASSUME NEW i \in 1..Len(r) PROVE \E k \in 1..n : HasItsLine(s, k) /\ r[i] = s[k].entry
      <3>1. CASE i = Len(r)
        BY <1>2, <3>1
      <3>2. CASE i # Len(r)
        <4>1. i \in 1..Len(q)
          BY <1>2, <3>2
        <4>2. PICK k \in 1..n - 1 : HasItsLine(s, k) /\ q[i] = s[k].entry
          BY <4>1 DEF Holds
        <4> QED
          BY <1>2, <4>1, <4>2
      <3> QED
        BY <3>1, <3>2
    <2>2. ASSUME NEW k \in 1..n, HasItsLine(s, k) PROVE \E i \in 1..Len(r) : r[i] = s[k].entry
      <3>1. CASE k = n
        BY <1>2, <3>1
      <3>2. CASE k # n
        <4>1. k \in 1..n - 1
          BY <3>2
        <4>2. PICK i \in 1..Len(q) : q[i] = s[k].entry
          BY <2>2, <4>1 DEF Holds
        <4> QED
          BY <1>2, <4>2
      <3> QED
        BY <3>1, <3>2
    <2> QED
      BY <2>1, <2>2 DEF Holds
  <1> QED
    BY <1>1, <1>2, <1>4, <1>5

\* What is read: the entries that have a line of their own, in their order.
LEMMA ReadableIs ==
  ASSUME NEW E, E \subseteq Nat, NEW s, \A k \in 1..Len(s) : s[k].entry \in E, RisingPieces(s),
         Len(s) \in Nat
  PROVE  Readable(s) \in Seq(E) /\ Rising(Readable(s)) /\ Holds(Readable(s), s, Len(s))
  <1>1. PICK f : f = ReadIn(s)
    OBVIOUS
  <1>2. ReadUpTo(Len(s), s, f)
    BY <1>1, ReadExists DEF ReadIn
  <1>3. \A k \in 0..Len(s) : f[k] = IF k = 0 THEN <<>>
                                    ELSE IF HasItsLine(s, k) THEN Append(f[k - 1], s[k].entry)
                                    ELSE f[k - 1]
    BY <1>2 DEF ReadUpTo
  <1> DEFINE Good(n) == f[n] \in Seq(E) /\ Rising(f[n]) /\ Holds(f[n], s, n)
             T == {n \in 0..Len(s) : ~Good(n)}
  <1>4. T = {}
    <2> SUFFICES ASSUME T # {} PROVE FALSE
      OBVIOUS
    <2>a. T \subseteq Nat
      OBVIOUS
    <2> HIDE DEF T
    <2>1. PICK m \in T : \A n \in T : m <= n
      BY <2>a, LeastOne
    <2> USE DEF T
    <2>2. m \in 0..Len(s) /\ m \in Nat /\ ~Good(m)
      BY <2>1
    <2>3. CASE m = 0
      <3>1. f[m] = <<>>
        BY <1>3, <2>2, <2>3
      <3> QED
        BY <2>2, <2>3, <3>1 DEF Rising, Holds
    <2>4. CASE m # 0
      <3>1. m - 1 \in 0..Len(s) /\ m - 1 \notin T /\ m \in 1..Len(s)
        BY <2>1, <2>2, <2>4
      <3>2. PICK q : q = f[m - 1]
        OBVIOUS
      <3>3. q \in Seq(E) /\ Rising(q) /\ Holds(q, s, m - 1)
        BY <3>1, <3>2
      <3>4. f[m] = IF HasItsLine(s, m) THEN Append(q, s[m].entry) ELSE q
        BY <1>3, <2>2, <2>4, <3>2
      <3>5. CASE HasItsLine(s, m)
        <4>1. f[m] = Append(q, s[m].entry)
          BY <3>4, <3>5
        <4> HIDE DEF T
        <4> QED
          BY <2>2, <3>1, <3>3, <3>5, <4>1, AppendHolds
      <3>6. CASE ~HasItsLine(s, m)
        <4>1. \A k \in 1..m : HasItsLine(s, k) => k \in 1..m - 1
          BY <2>2, <3>6
        <4>2. Holds(q, s, m)
          BY <2>2, <3>3, <4>1 DEF Holds
        <4> QED
          BY <2>2, <3>3, <3>4, <3>6, <4>2
      <3> QED
        BY <3>5, <3>6
    <2> QED
      BY <2>3, <2>4
  <1>5. Good(Len(s))
    BY <1>4
  <1> QED
    BY <1>1, <1>5, ReadableIsIn

LEMMA LastOfIs ==
  ASSUME NEW E, NEW q \in Seq(E), NEW count \in Nat \ {0}
  PROVE  \E from \in 0..Len(q) :
           /\ from = (IF count <= Len(q) THEN Len(q) - count ELSE 0)
           /\ LastOf(q, count) \in Seq(E) /\ Len(LastOf(q, count)) = Len(q) - from
           /\ \A k \in 1..Len(q) - from : LastOf(q, count)[k] = q[from + k]
  <1>1. PICK from : from = IF count <= Len(q) THEN Len(q) - count ELSE 0
    OBVIOUS
  <1>2. from \in 0..Len(q) /\ Len(q) \in Nat
    BY <1>1
  <1>3. Max({1, Len(q) - count + 1}) = from + 1
    <2>1. PICK S : S = {1, Len(q) - count + 1}
      OBVIOUS
    <2>2. from + 1 \in S /\ \A y \in S : y \in Int /\ from + 1 >= y
      BY <1>1, <1>2, <2>1
    <2>3. \A x \in S : (\A y \in S : x >= y) => x = from + 1
      BY <2>2
    <2> QED
      BY <2>1, <2>2, <2>3 DEF Max
  <1>4. LastOf(q, count) = SubSeq(q, from + 1, Len(q))
    BY <1>3 DEF LastOf
  <1>5. PICK r : r = SubSeq(q, from + 1, Len(q))
    OBVIOUS
  <1>6. Len(r) = Len(q) - from /\ \A k \in 1..Len(q) - from : r[k] = q[from + k]
    BY <1>2, <1>5
  <1>7. r \in Seq(E)
    BY <1>2, <1>5
  <1> QED
    BY <1>1, <1>2, <1>4, <1>5, <1>6, <1>7

-----------------------------------------------------------------------------
(* What is remembered.                                                     *)

\* The entry of piece i has its own line and keeps it, whatever is written after it.
Solid(s, i) == s[i].part = "line" /\ (i > 1 => s[i - 1].part = "line")
SolidEntries(s) == {s[i].entry : i \in {j \in 1..Len(s) : Solid(s, j)}}

Remembered(s, e) ==
    \/ Undecodable(s)
    \/ e \in SolidEntries(s)
    \/ Cardinality({x \in SolidEntries(s) : x > e}) >= Limit

PieceType == [entry : 1..MaxEntries, part : Parts]

\* Inductive: the pieces are in the order of their entries, and every entry that was recorded
\* has its line, or as many as are kept have been recorded after it.
HistInv ==
    /\ HistoryTypeOK /\ RisingPieces(history)
    /\ \A i \in 1..Len(history) : history[i].entry <= entries
    /\ \A e \in recorded : Remembered(history, e)

LEMMA SolidFinite ==
  ASSUME NEW s \in Seq(PieceType), NEW e
  PROVE  /\ IsFiniteSet({x \in SolidEntries(s) : x > e})
         /\ Cardinality({x \in SolidEntries(s) : x > e}) \in Nat
         /\ SolidEntries(s) \subseteq 1..MaxEntries
  <1>1. SolidEntries(s) \subseteq 1..MaxEntries
    <2>1. \A i \in 1..Len(s) : s[i] \in PieceType
      OBVIOUS
    <2> QED
      BY <2>1 DEF SolidEntries, PieceType
  <1>2. {x \in SolidEntries(s) : x > e} \in SUBSET (1..MaxEntries)
    BY <1>1
  <1>3. IsFiniteSet(1..MaxEntries)
    BY LimitAssumption, FS_Interval
  <1>4. IsFiniteSet({x \in SolidEntries(s) : x > e})
    BY <1>2, <1>3, FS_Subset
  <1> QED
    BY <1>1, <1>4, FS_CardinalityType

\* What is written after them takes no line away.
LEMMA AppendRemembers ==
  ASSUME NEW s \in Seq(PieceType), NEW p \in PieceType, NEW e, Remembered(s, e)
  PROVE  Remembered(Append(s, p), e)
  <1>1. PICK t : t = Append(s, p)
    OBVIOUS
  <1>2. /\ t \in Seq(PieceType) /\ Len(t) = Len(s) + 1 /\ Len(s) \in Nat
        /\ \A i \in 1..Len(s) : t[i] = s[i]
    BY <1>1
  <1>3. CASE Undecodable(s)
    BY <1>1, <1>2, <1>3 DEF Undecodable, Remembered
  <1>4. SolidEntries(s) \subseteq SolidEntries(t)
    <2>1. ASSUME NEW i \in 1..Len(s), Solid(s, i) PROVE i \in 1..Len(t) /\ Solid(t, i) /\ t[i] = s[i]
      <3>1. i \in 1..Len(t) /\ t[i] = s[i] /\ (i > 1 => t[i - 1] = s[i - 1])
        BY <1>2
      <3> QED
        BY <2>1, <3>1 DEF Solid
    <2> QED
      BY <2>1 DEF SolidEntries
  <1>5. CASE e \in SolidEntries(s)
    BY <1>1, <1>4, <1>5 DEF Remembered
  <1>6. CASE Cardinality({x \in SolidEntries(s) : x > e}) >= Limit
    <2>1. PICK A, B : A = {x \in SolidEntries(s) : x > e} /\ B = {x \in SolidEntries(t) : x > e}
      OBVIOUS
    <2>2. A \in SUBSET B
      BY <1>4, <2>1
    <2>3. IsFiniteSet(B) /\ Cardinality(A) \in Nat /\ Cardinality(B) \in Nat
      BY <1>2, <2>1, SolidFinite
    <2>4. Cardinality(A) <= Cardinality(B)
      BY <2>2, <2>3, FS_Subset
    <2>5. Cardinality(B) >= Limit
      BY <1>6, <2>1, <2>3, <2>4, LimitAssumption
    <2> QED
      BY <1>1, <2>1, <2>5 DEF Remembered
  <1> QED
    BY <1>3, <1>5, <1>6 DEF Remembered

\* A new entry after all others.
LEMMA AppendRises ==
  ASSUME HistInv, entries < MaxEntries, NEW part \in Parts,
         NEW t, t = Append(history, Piece(entries + 1, part))
  PROVE  /\ t \in Seq(PieceType) /\ RisingPieces(t)
         /\ \A i \in 1..Len(t) : t[i].entry <= entries + 1
         /\ \A e \in recorded : Remembered(t, e)
  <1>1. history \in Seq(PieceType) /\ entries \in Nat /\ Len(history) \in Nat
    BY DEF HistInv, HistoryTypeOK, PieceType
  <1>2. PICK p : p = Piece(entries + 1, part)
    OBVIOUS
  <1>3. p \in PieceType /\ p.entry = entries + 1
    BY <1>1, <1>2, LimitAssumption DEF Piece, PieceType
  <1>4. /\ t \in Seq(PieceType) /\ Len(t) = Len(history) + 1 /\ t[Len(t)] = p
        /\ \A i \in 1..Len(history) : t[i] = history[i]
    BY <1>1, <1>2, <1>3
  <1>5. \A i \in 1..Len(history) : history[i].entry \in Nat /\ history[i].entry <= entries
    <2>1. \A i \in 1..Len(history) : history[i] \in PieceType
      BY <1>1
    <2> QED
      BY <2>1 DEF PieceType, HistInv
  <1>6. \A i \in 1..Len(t) : i \in 1..Len(history) \/ i = Len(t)
    BY <1>1, <1>4
  <1>7. ASSUME NEW i \in 1..Len(t), NEW j \in 1..Len(t), i < j PROVE t[i].entry < t[j].entry
    <2>1. i \in 1..Len(history)
      BY <1>1, <1>4, <1>7
    <2>2. CASE j = Len(t)
      BY <1>1, <1>3, <1>4, <1>5, <2>1, <2>2
    <2>3. CASE j \in 1..Len(history)
      BY <1>4, <1>7, <2>1, <2>3 DEF HistInv, RisingPieces
    <2> QED
      BY <1>6, <2>2, <2>3
  <1>8. \A i \in 1..Len(t) : t[i].entry <= entries + 1
    BY <1>1, <1>3, <1>4, <1>5, <1>6
  <1>9. \A e \in recorded : Remembered(t, e)
    BY <1>1, <1>2, <1>3, AppendRemembers DEF HistInv
  <1> QED
    BY <1>4, <1>7, <1>8, <1>9 DEF RisingPieces

\* As many numbers have at least as many places.
Placed(A, P, r) == \A x \in A : \E i \in P : r[i] = x

LEMMA PlacesOf ==
  ASSUME NEW r, NEW len \in Nat, NEW P \in SUBSET (1..len), NEW A, Placed(A, P, r)
  PROVE  Cardinality(A) \in Nat /\ Cardinality(P) \in Nat /\ Cardinality(A) <= Cardinality(P)
  <1>1. IsFiniteSet(P) /\ Cardinality(P) \in Nat
    <2>1. IsFiniteSet(1..len)
      BY FS_Interval
    <2>2. P \in SUBSET (1..len)
      OBVIOUS
    <2>3. IsFiniteSet(P)
      BY <2>1, <2>2, FS_Subset
    <2> QED
      BY <2>3, FS_CardinalityType
  <1>2. PICK f : f = [x \in A |-> CHOOSE i \in P : r[i] = x]
    OBVIOUS
  <1>3. \A x \in A : f[x] \in P /\ r[f[x]] = x
    BY <1>2 DEF Placed
  <1>4. f \in [A -> P]
    BY <1>2, <1>3
  <1>5. f \in Injection(A, P)
    BY <1>3, <1>4 DEF Injection, IsInjective
  <1>6. IsFiniteSet(A) /\ Cardinality(A) <= Cardinality(P)
    BY <1>1, <1>5, FS_Injection
  <1> QED
    BY <1>1, <1>6, FS_CardinalityType

\* An entry of a solid piece is read.
LEMMA SolidRead ==
  ASSUME NEW s, Len(s) \in Nat, NEW q, Holds(q, s, Len(s)), NEW x \in SolidEntries(s)
  PROVE  \E i \in 1..Len(q) : q[i] = x
  <1>1. PICK k \in 1..Len(s) : Solid(s, k) /\ x = s[k].entry
    BY DEF SolidEntries
  <1>2. HasItsLine(s, k)
    BY <1>1 DEF Solid, HasItsLine
  <1> QED
    BY <1>1, <1>2 DEF Holds

\* The pieces that are left by a trim.
LEMMA TrimmedIs ==
  ASSUME NEW s \in Seq(PieceType), RisingPieces(s), Len(Readable(s)) > Limit
  PROVE  \E from \in Nat, r \in Seq(1..MaxEntries), t \in Seq(PieceType) :
           /\ t = Trimmed(s) /\ Len(t) = Limit
           /\ from = Len(r) - Limit /\ Rising(r) /\ Holds(r, s, Len(s))
           /\ \A k \in 1..Limit : t[k] = Piece(r[from + k], "line")
  <1>1. /\ 1..MaxEntries \subseteq Nat /\ Len(s) \in Nat
        /\ \A k \in 1..Len(s) : s[k].entry \in 1..MaxEntries
    <2>1. \A k \in 1..Len(s) : s[k] \in PieceType
      OBVIOUS
    <2> QED
      BY <2>1, LimitAssumption DEF PieceType
  <1>2. PICK r : r = Readable(s)
    OBVIOUS
  <1>3. r \in Seq(1..MaxEntries) /\ Rising(r) /\ Holds(r, s, Len(s))
    BY <1>1, <1>2, ReadableIs
  <1>4. PICK w : w = LastOf(r, Limit)
    OBVIOUS
  <1>5. PICK from \in 0..Len(r) :
          /\ from = (IF Limit <= Len(r) THEN Len(r) - Limit ELSE 0)
          /\ w \in Seq(1..MaxEntries) /\ Len(w) = Len(r) - from
          /\ \A k \in 1..Len(r) - from : w[k] = r[from + k]
    <2>1. Limit \in Nat \ {0} /\ r \in Seq(1..MaxEntries)
      BY <1>3, LimitAssumption
    <2>2. \E from \in 0..Len(r) :
            /\ from = (IF Limit <= Len(r) THEN Len(r) - Limit ELSE 0)
            /\ LastOf(r, Limit) \in Seq(1..MaxEntries) /\ Len(LastOf(r, Limit)) = Len(r) - from
            /\ \A k \in 1..Len(r) - from : LastOf(r, Limit)[k] = r[from + k]
      BY <2>1, LastOfIs
    <2> QED
      BY <1>4, <2>2
  <1>6. Len(r) \in Nat /\ Limit \in Nat /\ from = Len(r) - Limit /\ from \in Nat /\ Len(w) = Limit
    BY <1>2, <1>3, <1>5, LimitAssumption
  <1>7. PICK t : t = [k \in 1..Len(w) |-> Piece(w[k], "line")]
    OBVIOUS
  <1>8. t = Trimmed(s)
    BY <1>2, <1>4, <1>7 DEF Trimmed
  <1>9. t \in Seq(PieceType) /\ Len(t) = Limit
    <2>1. \A k \in 1..Limit : w[k] \in 1..MaxEntries
      <3>1. PICK E : E = 1..MaxEntries
        OBVIOUS
      <3>2. w \in Seq(E) /\ Len(w) = Limit
        BY <1>5, <1>6, <3>1
      <3>3. \A k \in 1..Len(w) : w[k] \in E
        BY ONLY <3>2
      <3> QED
        BY <3>1, <3>2, <3>3
    <2>2. \A k \in 1..Limit : Piece(w[k], "line") \in PieceType
      BY <2>1 DEF Piece, PieceType, Parts
    <2>3. t \in [1..Limit -> PieceType]
      BY <1>6, <1>7, <2>2
    <2> QED
      BY <1>6, <2>3
  <1>10. \A k \in 1..Limit : t[k] = Piece(r[from + k], "line")
    BY <1>5, <1>6, <1>7
  <1> QED
    BY <1>3, <1>6, <1>8, <1>9, <1>10

\* They are in order, and hold no entry that was not there.
LEMMA TrimRises ==
  ASSUME NEW s \in Seq(PieceType), RisingPieces(s), Len(Readable(s)) > Limit,
         NEW most \in Nat, \A i \in 1..Len(s) : s[i].entry <= most
  PROVE  /\ Trimmed(s) \in Seq(PieceType) /\ RisingPieces(Trimmed(s))
         /\ \A i \in 1..Len(Trimmed(s)) : Trimmed(s)[i].entry <= most
  <1>1. PICK from \in Nat, r \in Seq(1..MaxEntries), t \in Seq(PieceType) :
          /\ t = Trimmed(s) /\ Len(t) = Limit
          /\ from = Len(r) - Limit /\ Rising(r) /\ Holds(r, s, Len(s))
          /\ \A k \in 1..Limit : t[k] = Piece(r[from + k], "line")
    BY TrimmedIs
  <1>2. Limit \in Nat /\ Len(r) \in Nat
    BY LimitAssumption
  <1>3. \A k \in 1..Limit : from + k \in 1..Len(r) /\ t[k].entry = r[from + k]
    BY <1>1, <1>2 DEF Piece
  <1>4. RisingPieces(t)
    <2>1. ASSUME NEW i \in 1..Limit, NEW j \in 1..Limit, i < j PROVE t[i].entry < t[j].entry
      <3>1. from + i < from + j
        BY <2>1
      <3>2. r[from + i] < r[from + j]
        BY <1>1, <1>3, <3>1 DEF Rising
      <3> QED
        BY <1>3, <3>2
    <2> QED
      BY <1>1, <2>1 DEF RisingPieces
  <1>5. ASSUME NEW k \in 1..Limit PROVE t[k].entry <= most
    <2>1. PICK i \in 1..Len(s) : r[from + k] = s[i].entry
      BY <1>1, <1>3 DEF Holds
    <2> QED
      BY <1>3, <2>1
  <1> QED
    BY <1>1, <1>4, <1>5

LEMMA TrimRemembers ==
  ASSUME NEW s \in Seq(PieceType), RisingPieces(s), Len(Readable(s)) > Limit,
         ~Undecodable(s), NEW e \in Nat, Remembered(s, e)
  PROVE  Remembered(Trimmed(s), e)
  <1>1. PICK from \in Nat, r \in Seq(1..MaxEntries), t \in Seq(PieceType) :
          /\ t = Trimmed(s) /\ Len(t) = Limit
          /\ from = Len(r) - Limit /\ Rising(r) /\ Holds(r, s, Len(s))
          /\ \A k \in 1..Limit : t[k] = Piece(r[from + k], "line")
    BY TrimmedIs
  <1>2. Limit \in Nat /\ Len(r) \in Nat /\ Len(r) = from + Limit /\ Len(s) \in Nat
    BY <1>1, LimitAssumption
  <1>3. \A i \in 1..Len(r) : r[i] \in Nat
    BY LimitAssumption
  <1>4. \A k \in 1..Limit : from + k \in 1..Len(r) /\ t[k].entry = r[from + k] /\ t[k].part = "line"
    BY <1>1, <1>2 DEF Piece
  <1>5. \A k \in 1..Limit : Solid(t, k) /\ r[from + k] \in SolidEntries(t)
    <2>1. ASSUME NEW k \in 1..Limit PROVE Solid(t, k)
      <3>1. k > 1 => k - 1 \in 1..Limit
        BY <1>2
      <3> QED
        BY <1>4, <3>1 DEF Solid
    <2>2. ASSUME NEW k \in 1..Limit PROVE r[from + k] \in SolidEntries(t)
      BY <1>1, <1>4, <2>1 DEF SolidEntries
    <2> QED
      BY <2>1, <2>2
  <1>6. ASSUME \A k \in 1..Limit : r[from + k] > e PROVE Remembered(t, e)
    <2>1. PICK B : B = {x \in SolidEntries(t) : x > e}
      OBVIOUS
    <2>2. IsFiniteSet(B) /\ Cardinality(B) \in Nat
      BY <2>1, SolidFinite
    <2>3. PICK g : g = [k \in 1..Limit |-> r[from + k]]
      OBVIOUS
    <2>4. g \in [1..Limit -> B]
      BY <1>5, <1>6, <2>1, <2>3
    <2>5. ASSUME NEW j \in 1..Limit, NEW k \in 1..Limit, g[j] = g[k] PROVE j = k
      <3>1. /\ j \in Nat /\ k \in Nat /\ from + j \in 1..Len(r) /\ from + k \in 1..Len(r)
            /\ r[from + j] = r[from + k] /\ r[from + j] \in Nat
        BY <1>3, <1>4, <2>3, <2>5
      <3>2. PICK a \in 1..Len(r), b \in 1..Len(r) : a = from + j /\ b = from + k
        BY <3>1
      <3>3. ~(a < b) /\ ~(b < a)
        <4>1. r[a] = r[b] /\ r[a] \in Nat
          BY <3>1, <3>2
        <4>2. (a < b => r[a] < r[b]) /\ (b < a => r[b] < r[a])
          BY <1>1 DEF Rising
        <4> QED
          BY <4>1, <4>2
      <3> QED
        BY <3>1, <3>2, <3>3
    <2>6. g \in Injection(1..Limit, B)
      BY <2>4, <2>5 DEF Injection, IsInjective
    <2>7. Cardinality(1..Limit) = Limit
      BY FS_Interval, LimitAssumption
    <2>8. Cardinality(1..Limit) <= Cardinality(B)
      BY <2>2, <2>6, FS_Injection
    <2> QED
      BY <2>1, <2>2, <2>7, <2>8, <1>2 DEF Remembered
  <1>7. CASE e \in SolidEntries(s)
    <2>1. PICK p \in 1..Len(r) : r[p] = e
      BY <1>1, <1>2, <1>7, SolidRead
    <2>2. CASE p > from
      <3>1. p - from \in 1..Limit /\ from + (p - from) = p
        BY <1>2, <2>2
      <3>2. r[from + (p - from)] \in SolidEntries(t)
        BY <1>5, <3>1
      <3> QED
        BY <1>1, <2>1, <3>1, <3>2 DEF Remembered
    <2>3. CASE p <= from
      <3>1. ASSUME NEW k \in 1..Limit PROVE r[from + k] > e
        <4>1. from + k \in 1..Len(r) /\ p < from + k
          BY <1>2, <1>4, <2>3
        <4> QED
          BY <1>1, <1>3, <2>1, <4>1 DEF Rising
      <3> QED
        BY <1>1, <1>6, <3>1
    <2> QED
      BY <1>2, <2>2, <2>3
  <1>8. CASE Cardinality({x \in SolidEntries(s) : x > e}) >= Limit
    <2>1. ASSUME NEW k \in 1..Limit, ~(r[from + k] > e) PROVE FALSE
      <3>1. PICK p, A, P : p = from + k /\ A = {x \in SolidEntries(s) : x > e} /\ P = (p + 1)..Len(r)
        OBVIOUS
      <3>2. p \in 1..Len(r) /\ r[p] \in Nat /\ r[p] <= e /\ P \subseteq 1..Len(r)
        BY <1>3, <1>4, <2>1, <3>1
      <3>3. ASSUME NEW x \in A PROVE \E i \in P : r[i] = x
        <4>1. PICK i \in 1..Len(r) : r[i] = x
          BY <1>1, <1>2, <3>1, SolidRead
        <4>2. x > e /\ x \in Nat
          BY <1>3, <3>1, <4>1
        <4>3. ~(i <= p)
          <5>1. i < p => r[i] < r[p]
            BY <1>1, <3>2 DEF Rising
          <5> QED
            BY <3>2, <4>1, <4>2, <5>1
        <4> QED
          BY <3>1, <3>2, <4>1, <4>3
      <3>4. Cardinality(A) \in Nat /\ Cardinality(A) <= Cardinality(P)
        <4>1. Placed(A, P, r) /\ P \in SUBSET (1..Len(r))
          BY <3>2, <3>3 DEF Placed
        <4> QED
          BY <1>2, <4>1, PlacesOf
      <3>5. Cardinality(P) = IF p + 1 > Len(r) THEN 0 ELSE Len(r) - (p + 1) + 1
        BY <1>2, <3>1, <3>2, FS_Interval
      <3>6. Cardinality(P) < Limit
        BY <1>2, <3>1, <3>2, <3>5, LimitAssumption
      <3>7. Cardinality(A) >= Limit
        BY <1>8, <3>1
      <3> QED
        BY <1>2, <3>4, <3>5, <3>6, <3>7, <3>2
    <2> QED
      BY <1>1, <1>6, <2>1
  <1> QED
    BY <1>7, <1>8 DEF Remembered

-----------------------------------------------------------------------------
(* The steps of the history.                                               *)

LEMMA HistTypes ==
  ASSUME HistInv
  PROVE  /\ history \in Seq(PieceType) /\ entries \in Nat /\ recorded \subseteq 1..MaxEntries
         /\ \A e \in recorded : e \in Nat
  BY LimitAssumption DEF HistInv, HistoryTypeOK, PieceType

\* A history of pieces that remember, as a state of the module.
LEMMA HistIs ==
  ASSUME entries' \in 0..MaxEntries, state' \in {"off", "on", "broken"}, tears' \in 0..MaxTears,
         escaped' \in BOOLEAN, recorded' \subseteq 1..MaxEntries,
         history' \in Seq(PieceType), RisingPieces(history'),
         \A i \in 1..Len(history') : history'[i].entry <= entries',
         \A e \in recorded' : Remembered(history', e)
  PROVE  HistInv'
  BY DEF HistInv, HistoryTypeOK, PieceType

\* An entry in its own line is remembered.
LEMMA WrittenRemembered ==
  ASSUME NEW s \in Seq(PieceType), NEW e \in 1..MaxEntries,
         NEW t, t = Append(s, Piece(e, "line")), HasItsLine(t, Len(t))
  PROVE  Remembered(t, e)
  <1>1. PICK p : p = Piece(e, "line")
    OBVIOUS
  <1>2. p \in PieceType /\ p.entry = e /\ p.part = "line"
    BY <1>1 DEF Piece, PieceType, Parts
  <1>3. Len(t) \in Nat /\ Len(t) >= 1 /\ t[Len(t)] = p
    BY <1>1, <1>2
  <1>4. Solid(t, Len(t))
    BY <1>2, <1>3 DEF Solid, HasItsLine
  <1>5. e \in SolidEntries(t)
    BY <1>2, <1>3, <1>4 DEF SolidEntries
  <1> QED
    BY <1>5 DEF Remembered

LEMMA AppendEntryKeeps ==
  ASSUME HistInv, entries < MaxEntries, AppendEntry(entries + 1), entries' = entries + 1,
         UNCHANGED state
  PROVE  HistInv'
  <1>1. PICK t : t = Append(history, Piece(entries + 1, "line"))
    OBVIOUS
  <1>2. "line" \in Parts
    BY DEF Parts
  <1>3. /\ t \in Seq(PieceType) /\ RisingPieces(t)
        /\ \A i \in 1..Len(t) : t[i].entry <= entries'
        /\ \A e \in recorded : Remembered(t, e)
    BY <1>1, <1>2, AppendRises
  <1>4. /\ history \in Seq(PieceType) /\ entries \in Nat /\ recorded \subseteq 1..MaxEntries
        /\ entries + 1 \in 1..MaxEntries /\ entries' \in 0..MaxEntries /\ entries' \in Nat
    BY HistTypes, LimitAssumption
  <1>5. state' \in {"off", "on", "broken"} /\ tears' \in 0..MaxTears /\ escaped' \in BOOLEAN
    <2>1. state \in {"off", "on", "broken"} /\ tears \in 0..MaxTears /\ escaped \in BOOLEAN
      BY DEF HistInv, HistoryTypeOK
    <2>2. tears' = tears \/ (tears < MaxTears /\ tears' = tears + 1)
      BY DEF AppendEntry, Tear
    <2>3. tears' \in 0..MaxTears
      BY <2>1, <2>2, LimitAssumption
    <2>4. escaped' = escaped \/ escaped' = TRUE
      BY DEF AppendEntry
    <2> QED
      BY <2>1, <2>3, <2>4
  <1>6. PICK more : more = IF HasItsLine(t, Len(t)) THEN recorded \cup {entries + 1} ELSE recorded
    OBVIOUS
  <1>7. /\ more \subseteq 1..MaxEntries
        /\ \A e \in more : Remembered(t, e)
    <2>1. CASE HasItsLine(t, Len(t))
      <3>1. Remembered(t, entries + 1)
        BY <1>1, <1>4, <2>1, WrittenRemembered
      <3> QED
        BY <1>3, <1>4, <1>6, <2>1, <3>1
    <2>2. CASE ~HasItsLine(t, Len(t))
      BY <1>3, <1>4, <1>6, <2>2
    <2> QED
      BY <2>1, <2>2
  <1>8. \/ history' = t /\ (recorded' = recorded \/ recorded' = more)
        \/ /\ ~Undecodable(t) /\ Len(Readable(t)) > Limit
           /\ history' = Trimmed(t) /\ recorded' = more
    BY <1>1, <1>6 DEF AppendEntry
  <1>9. CASE history' = t /\ (recorded' = recorded \/ recorded' = more)
    BY <1>3, <1>4, <1>5, <1>7, <1>9, HistIs
  <1>10. CASE /\ ~Undecodable(t) /\ Len(Readable(t)) > Limit
              /\ history' = Trimmed(t) /\ recorded' = more
    <2>1. /\ Trimmed(t) \in Seq(PieceType) /\ RisingPieces(Trimmed(t))
          /\ \A i \in 1..Len(Trimmed(t)) : Trimmed(t)[i].entry <= entries'
      BY <1>3, <1>4, <1>10, TrimRises
    <2>2. ASSUME NEW e \in more PROVE Remembered(Trimmed(t), e)
      <3>1. e \in Nat /\ Remembered(t, e)
        BY <1>7, LimitAssumption
      <3> QED
        BY <1>3, <1>10, <3>1, TrimRemembers
    <2>3. \A e \in recorded' : Remembered(history', e)
      BY <1>10, <2>2
    <2> QED
      BY <1>4, <1>5, <1>7, <1>10, <2>1, <2>3, HistIs
  <1> QED
    BY <1>8, <1>9, <1>10

LEMMA AppendTearsKeeps ==
  ASSUME HistInv, entries < MaxEntries, AppendTears(entries + 1), entries' = entries + 1,
         state' \in {"off", "on", "broken"}
  PROVE  HistInv'
  <1>1. /\ history \in Seq(PieceType) /\ entries \in Nat /\ recorded' = recorded
        /\ recorded \subseteq 1..MaxEntries /\ entries' \in 0..MaxEntries
    BY HistTypes, LimitAssumption DEF AppendTears
  <1>2. tears' \in 0..MaxTears /\ escaped' \in BOOLEAN
    <2>1. tears \in 0..MaxTears /\ escaped \in BOOLEAN
      BY DEF HistInv, HistoryTypeOK
    <2>2. tears < MaxTears /\ tears' = tears + 1 /\ escaped' = escaped
      BY DEF AppendTears, Tear
    <2> QED
      BY <2>1, <2>2, LimitAssumption
  <1>3. CASE history' = history
    <2>1. \A i \in 1..Len(history) : history[i].entry <= entries'
      <3>1. \A i \in 1..Len(history) : history[i] \in PieceType
        BY <1>1
      <3>2. \A i \in 1..Len(history) : history[i].entry \in Nat
        BY <3>1, LimitAssumption DEF PieceType
      <3> QED
        BY <1>1, <3>2 DEF HistInv
    <2>2. RisingPieces(history) /\ \A e \in recorded : Remembered(history, e)
      BY DEF HistInv
    <2> QED
      BY <1>1, <1>2, <1>3, <2>1, <2>2, HistIs
  <1>4. ASSUME NEW part \in Parts, history' = Append(history, Piece(entries + 1, part))
        PROVE  HistInv'
    <2>1. PICK t : t = Append(history, Piece(entries + 1, part))
      OBVIOUS
    <2>2. /\ t \in Seq(PieceType) /\ RisingPieces(t)
          /\ \A i \in 1..Len(t) : t[i].entry <= entries'
          /\ \A e \in recorded : Remembered(t, e)
      BY <2>1, AppendRises
    <2> QED
      BY <1>1, <1>2, <1>4, <2>1, <2>2, HistIs
  <1> QED
    BY <1>3, <1>4 DEF AppendTears

LEMMA HistInit == Init => HistInv
  <1> SUFFICES ASSUME HistoryInit PROVE HistInv
    BY DEF Init
  <1> QED
    <2>1. history = <<>> /\ entries = 0 /\ state = "off" /\ recorded = {} /\ tears = 0
      BY DEF HistoryInit
    <2>2. escaped \in BOOLEAN
      BY DEF HistoryInit
    <2>3. entries \in 0..MaxEntries /\ tears \in 0..MaxTears
      BY <2>1, LimitAssumption
    <2>4. history \in Seq([entry : 1..MaxEntries, part : Parts]) /\ Len(history) = 0
      BY <2>1
    <2> QED
      BY <2>1, <2>2, <2>3, <2>4 DEF HistInv, HistoryTypeOK, RisingPieces

LEMMA HistNext == HistInv /\ [Next]_vars => HistInv'
  <1> SUFFICES ASSUME HistInv, [Next]_vars PROVE HistInv'
    OBVIOUS
  <1>1. CASE Record
    BY <1>1, AppendEntryKeeps, AppendTearsKeeps DEF Record, HistInv, HistoryTypeOK
  <1>2. CASE ClearHistory
    BY <1>2 DEF ClearHistory, HistInv, HistoryTypeOK, RisingPieces
  <1>3. CASE StartEngine
    <2>1. UNCHANGED <<history, entries, recorded, tears, escaped>>
          /\ state' \in {"off", "on", "broken"}
      BY <1>3 DEF StartEngine
    <2> QED
      BY <2>1 DEF HistInv, HistoryTypeOK
  <1>4. CASE EndEngine
    <2>1. CASE UNCHANGED <<history, entries, recorded, tears, escaped>>
      BY <1>4, <2>1 DEF EndEngine, HistInv, HistoryTypeOK
    <2>2. CASE entries < MaxEntries /\ entries' = entries + 1 /\ AppendTears(entries + 1)
      BY <1>4, <2>2, AppendTearsKeeps DEF EndEngine
    <2> QED
      BY <1>4, <2>1, <2>2 DEF EndEngine
  <1>5. CASE UNCHANGED historyVars
    BY <1>5 DEF historyVars, HistInv, HistoryTypeOK
  <1> QED
    BY <1>1, <1>2, <1>3, <1>4, <1>5 DEF Next, HistoryStep, Starts, Ends, vars

LEMMA HistReads == HistInv => LastAreRead
  <1> SUFFICES ASSUME HistInv PROVE LastAreRead
    OBVIOUS
  <1>1. PICK r, s : r = Readable(history) /\ s = history
    OBVIOUS
  <1>2. s \in Seq(PieceType) /\ Len(s) \in Nat /\ RisingPieces(s) /\ Limit \in Nat
    BY <1>1, HistTypes, LimitAssumption DEF HistInv
  <1>3. 1..MaxEntries \subseteq Nat /\ \A k \in 1..Len(s) : s[k].entry \in 1..MaxEntries
    <2>1. \A k \in 1..Len(s) : s[k] \in PieceType
      BY <1>2
    <2> QED
      BY <2>1, LimitAssumption DEF PieceType
  <1>4. r \in Seq(1..MaxEntries) /\ Rising(r) /\ Holds(r, s, Len(s)) /\ Len(r) \in Nat
    <2>1. Readable(s) \in Seq(1..MaxEntries) /\ Rising(Readable(s)) /\ Holds(Readable(s), s, Len(s))
      BY <1>2, <1>3, ReadableIs
    <2> QED
      BY <1>1, <2>1
  <1>5. ASSUME NEW e \in recorded
        PROVE  \/ Undecodable(s) \/ e \in {r[i] : i \in 1..Len(r)}
               \/ Cardinality({i \in 1..Len(r) : r[i] > e}) >= Limit
    <2>1. Remembered(s, e)
      BY <1>1 DEF HistInv
    <2>2. CASE e \in SolidEntries(s)
      BY <1>2, <1>4, <2>2, SolidRead
    <2>3. CASE Cardinality({x \in SolidEntries(s) : x > e}) >= Limit
      <3>1. PICK A, P : A = {x \in SolidEntries(s) : x > e} /\ P = {i \in 1..Len(r) : r[i] > e}
        OBVIOUS
      <3>2. ASSUME NEW x \in A PROVE \E i \in P : r[i] = x
        <4>1. PICK i \in 1..Len(r) : r[i] = x
          BY <1>2, <1>4, <3>1, SolidRead
        <4> QED
          BY <3>1, <4>1
      <3>3. Placed(A, P, r) /\ P \in SUBSET (1..Len(r))
        BY <3>1, <3>2 DEF Placed
      <3>4. Cardinality(A) \in Nat /\ Cardinality(P) \in Nat /\ Cardinality(A) <= Cardinality(P)
        BY <1>4, <3>3, PlacesOf
      <3>5. Cardinality(P) >= Limit
        BY <1>2, <2>3, <3>1, <3>4
      <3> QED
        BY <3>1, <3>5
    <2> QED
      BY <2>1, <2>2, <2>3 DEF Remembered
  <1>6. \A i, j \in 1..Len(r) : i < j => r[i] < r[j]
    BY <1>4 DEF Rising
  <1> QED
    BY <1>1, <1>5, <1>6 DEF LastAreRead

\* The history is read in order and holds the last entries, whatever appends and trims fail.
THEOREM LastEntriesRead == Spec => []LastAreRead
  BY HistInit, HistNext, HistReads, PTL DEF Spec

-----------------------------------------------------------------------------
(* The kinds of the state.                                                 *)

Files == [kind : {"none", "rules", "legacy", "junk"}, rules : SUBSET Rules]
Backups == [kind : {"none", "legacy", "torn"}, rules : SUBSET Rules]

LEMMA FaultTyped ==
  ASSUME faults \in 0..MaxFaults, Fault \/ UNCHANGED faults
  PROVE  faults' \in 0..MaxFaults
  BY FaultsAssumption DEF Fault

LEMMA SavesTyped ==
  ASSUME RulesTypeOK, NEW what, NEW keeps, NEW fails, what \subseteq Rules, keeps \subseteq Rules,
         fails \subseteq Rules, Saves(what, keeps, fails)
  PROVE  /\ file' \in Files /\ owned' \subseteq Rules /\ faults' \in 0..MaxFaults
         /\ stuck' \in BOOLEAN /\ savedOver' \in BOOLEAN
  <1>1. CASE /\ file' = Contents("rules", what)
             /\ owned' = keeps /\ stuck' = FALSE
             /\ savedOver' = (savedOver \/ stuck)
             /\ UNCHANGED faults
    <2>1. file' \in Files
      BY <1>1 DEF Contents, Files
    <2>2. savedOver' \in BOOLEAN /\ stuck' \in BOOLEAN
      BY <1>1, Zenon
    <2> QED
      BY <1>1, <2>1, <2>2 DEF RulesTypeOK
  <1>2. CASE Fault /\ owned' = fails /\ UNCHANGED <<file, stuck, savedOver>>
    BY <1>2, FaultTyped DEF RulesTypeOK, Files
  <1> QED
    BY <1>1, <1>2 DEF Saves

LEMMA ChangesTyped ==
  ASSUME RulesTypeOK, NEW to, NEW keeps, NEW fails, to \subseteq Rules, keeps \subseteq Rules,
         fails \subseteq Rules, Changes(to, keeps, fails)
  PROVE  RulesTypeOK'
  <1>1. Saves(to, keeps, fails) /\ rules' = to /\ UNCHANGED <<backup, aside, pc, backupFailed>>
    BY DEF Changes
  <1>2. /\ file' \in Files /\ owned' \subseteq Rules /\ faults' \in 0..MaxFaults
        /\ stuck' \in BOOLEAN /\ savedOver' \in BOOLEAN
    BY <1>1, SavesTyped
  <1> QED
    BY <1>1, <1>2 DEF RulesTypeOK, Files

LEMMA LoadTyped ==
  ASSUME RulesTypeOK, CopyInv,
         StartProgram \/ LoadReads \/ LoadSetsAside \/ LoadBacksUp \/ LoadConverts
  PROVE  RulesTypeOK'
  <1>1. CASE StartProgram
    BY <1>1 DEF StartProgram, RulesTypeOK
  <1>2. CASE LoadReads
    <2>1. file.rules \subseteq Rules
      BY DEF RulesTypeOK
    <2>2. rules' \subseteq Rules /\ pc' \in {"backup", "on"} /\ stuck' \in BOOLEAN
      BY <1>2, <2>1 DEF LoadReads
    <2> QED
      BY <1>2, <2>2 DEF LoadReads, RulesTypeOK
  <1>3. CASE LoadSetsAside
    <2>1. file.rules \subseteq Rules
      BY DEF RulesTypeOK
    <2>2. aside' \subseteq Rules /\ file' \in Files /\ stuck' \in BOOLEAN
      <3>1. CASE aside' = aside \cup file.rules /\ file' = Missing /\ stuck' = FALSE
        <4>1. file' \in Files
          BY <3>1 DEF Missing, Contents, Files
        <4> QED
          BY <2>1, <3>1, <4>1 DEF RulesTypeOK
      <3>2. CASE stuck' = TRUE /\ UNCHANGED <<file, aside>>
        BY <3>2 DEF RulesTypeOK, Files
      <3> QED
        BY <1>3, <3>1, <3>2 DEF LoadSetsAside
    <2>3. faults' \in 0..MaxFaults
      BY <1>3, FaultTyped DEF LoadSetsAside, RulesTypeOK
    <2>4. rules' = {} /\ pc' = "on" /\ UNCHANGED <<backup, owned, savedOver, backupFailed>>
      BY <1>3 DEF LoadSetsAside
    <2> QED
      BY <2>2, <2>3, <2>4 DEF RulesTypeOK, Files
  <1>4. CASE LoadBacksUp
    <2>1. pc = "backup" /\ UNCHANGED <<file, aside, rules, owned, stuck, savedOver>>
      BY <1>4 DEF LoadBacksUp
    <2>2. file.kind = "legacy"
      BY <2>1 DEF CopyInv
    <2>3. file \in Backups
      <3>1. PICK k \in {"none", "rules", "legacy", "junk"}, w \in SUBSET Rules : file = [kind |-> k, rules |-> w]
        BY DEF RulesTypeOK
      <3> QED
        BY <2>2, <3>1 DEF Backups
    <2>4. backup' \in Backups
      BY <1>4, <2>3 DEF LoadBacksUp, RulesTypeOK, Backups, Missing, Contents
    <2>5. faults' \in 0..MaxFaults
      BY <1>4, FaultTyped DEF LoadBacksUp, RulesTypeOK
    <2>6. pc' \in {"convert", "on"}
      BY <1>4 DEF LoadBacksUp
    <2>7. backupFailed' \in BOOLEAN
      BY <1>4, Zenon DEF LoadBacksUp, RulesTypeOK
    <2> QED
      BY <2>1, <2>4, <2>5, <2>6, <2>7 DEF RulesTypeOK, Backups
  <1>5. CASE LoadConverts
    <2>1. Saves(rules, owned, owned) /\ pc' = "on" /\ UNCHANGED <<backup, aside, rules, backupFailed>>
      BY <1>5 DEF LoadConverts
    <2>2. /\ file' \in Files /\ owned' \subseteq Rules /\ faults' \in 0..MaxFaults
          /\ stuck' \in BOOLEAN /\ savedOver' \in BOOLEAN
      BY <2>1, SavesTyped DEF RulesTypeOK
    <2> QED
      BY <2>1, <2>2 DEF RulesTypeOK, Files
  <1> QED
    BY <1>1, <1>2, <1>3, <1>4, <1>5

LEMMA WorldTyped ==
  ASSUME RulesTypeOK, EndProgram \/ EditByHand
  PROVE  RulesTypeOK'
  <1>1. CASE EndProgram
    <2>1. faults' \in 0..MaxFaults
      BY <1>1, FaultTyped DEF EndProgram, RulesTypeOK
    <2>2. /\ pc' = "off" /\ rules' = {} /\ stuck' = FALSE
          /\ UNCHANGED <<file, aside, owned, savedOver>>
      BY <1>1 DEF EndProgram
    <2>3. backup' \in Backups
      BY <1>1 DEF EndProgram, RulesTypeOK, Backups, Contents
    <2>4. backupFailed' \in BOOLEAN
      BY <1>1, Zenon DEF EndProgram, RulesTypeOK
    <2> QED
      BY <2>1, <2>2, <2>3, <2>4 DEF RulesTypeOK, Backups
  <1>2. CASE EditByHand
    <2>1. faults' \in 0..MaxFaults
      BY <1>2, FaultTyped DEF EditByHand, RulesTypeOK
    <2>2. file' \in Files
      BY <1>2 DEF EditByHand, RulesTypeOK, Files, Contents
    <2> QED
      BY <1>2, <2>1, <2>2 DEF EditByHand, RulesTypeOK, Files
  <1> QED
    BY <1>1, <1>2

LEMMA TypedInit == Init => RulesTypeOK
  <1> SUFFICES ASSUME RulesInit PROVE RulesTypeOK
    BY DEF Init
  <1>1. PICK kind \in {"none", "rules", "legacy"}, what \in SUBSET Rules : file = Contents(kind, what)
    BY DEF RulesInit
  <1>2. file \in Files /\ file.rules \subseteq Rules
    BY <1>1 DEF Contents, Files
  <1>3. backup \in Backups
    BY DEF RulesInit, Missing, Contents, Backups
  <1>4. /\ aside = {} /\ rules = {} /\ owned = file.rules /\ pc = "off" /\ faults = 0
        /\ stuck \in BOOLEAN /\ savedOver \in BOOLEAN /\ backupFailed \in BOOLEAN
    BY DEF RulesInit
  <1> QED
    BY <1>2, <1>3, <1>4, FaultsAssumption DEF RulesTypeOK, Files, Backups

LEMMA TypedNext == RulesTypeOK /\ CopyInv /\ [Next]_vars => RulesTypeOK'
  <1> SUFFICES ASSUME RulesTypeOK, CopyInv, [Next]_vars PROVE RulesTypeOK'
    OBVIOUS
  <1>1. CASE StartProgram \/ LoadReads \/ LoadSetsAside \/ LoadBacksUp \/ LoadConverts
    BY <1>1, LoadTyped
  <1>t. rules \subseteq Rules /\ owned \subseteq Rules
    BY DEF RulesTypeOK
  <1>2. ASSUME NEW r \in Rules, AddRule(r) \/ RemoveRule(r) PROVE RulesTypeOK'
    <2>1. /\ rules \cup {r} \subseteq Rules /\ owned \cup {r} \subseteq Rules
          /\ rules \ {r} \subseteq Rules /\ owned \ {r} \subseteq Rules
      BY <1>t
    <2> QED
      BY <1>2, <1>t, <2>1, ChangesTyped DEF AddRule, RemoveRule
  <1>3. ASSUME NEW old \in Rules, NEW new \in Rules, ReplaceRule(old, new) PROVE RulesTypeOK'
    <2>1. /\ (rules \ {old}) \cup {new} \subseteq Rules /\ (owned \ {old}) \cup {new} \subseteq Rules
          /\ owned \ {old} \subseteq Rules
      BY <1>t
    <2> QED
      BY <1>3, <2>1, ChangesTyped DEF ReplaceRule
  <1>4. CASE ClearRules
    <2>1. Changes({}, {}, {}) /\ {} \subseteq Rules
      BY <1>4 DEF ClearRules
    <2> QED
      BY <2>1, ChangesTyped
  <1>5. CASE EndProgram \/ EditByHand
    BY <1>5, WorldTyped
  <1>6. CASE UNCHANGED rulesVars
    BY <1>6 DEF rulesVars, RulesTypeOK
  <1> QED
    BY <1>1, <1>2, <1>3, <1>4, <1>5, <1>6 DEF Next, RulesStep, Starts, Ends, vars

\* The rules, the history and the files they are kept in stay of their kinds; a file is whole,
\* old or unreadable, but never a part of one (save, which writes aside and swaps in).
THEOREM UserFilesTypes == Spec => []TypeOK
  <1>1. Spec => []CopyInv
    BY CopyInit, CopyNext, PTL DEF Spec
  <1>2. RulesTypeOK /\ CopyInv /\ [Next]_vars => RulesTypeOK'
    BY TypedNext
  <1>3. Spec => []RulesTypeOK
    BY <1>1, <1>2, TypedInit, PTL DEF Spec
  <1>4. Spec => []HistInv
    BY HistInit, HistNext, PTL DEF Spec
  <1>5. HistInv => HistoryTypeOK
    BY DEF HistInv
  <1> QED
    BY <1>3, <1>4, <1>5, PTL DEF TypeOK

=============================================================================
