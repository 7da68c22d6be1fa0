--------------------------- MODULE CollectorProofs ---------------------------
(***************************************************************************)
(* Proofs about Collector, for every number of files, rotations, lines and *)
(* interruptions, and every size of a fragment, a scan and the queue: a    *)
(* cursor that is believed stands behind no line that was skipped.         *)
(***************************************************************************)
EXTENDS Collector, FiniteSetTheorems, SequenceTheorems, WellFoundedInduction, TLAPS

-----------------------------------------------------------------------------
(* Lines of sequences, and largest elements.                               *)

LEMMA LinesOfPart ==
  ASSUME NEW s \in Seq(Nat), NEW a \in Nat, NEW b \in Nat, b <= Len(s)
  PROVE  /\ SubSeq(s, a + 1, b) \in Seq(Nat)
         /\ Lines(SubSeq(s, a + 1, b)) = {s[k] : k \in (a + 1)..b}
  <1> DEFINE t == SubSeq(s, a + 1, b)
  <1>1. /\ t \in Seq(Nat)
        /\ Len(t) = IF a + 1 <= b THEN b - a ELSE 0
        /\ \A k \in 1..(b - a) : t[k] = s[a + k]
    OBVIOUS
  <1>2. DOMAIN t = 1..Len(t)
    BY <1>1
  <1> HIDE DEF t
  <1>3. Lines(t) \subseteq {s[k] : k \in (a + 1)..b}
    <2>1. ASSUME NEW k \in DOMAIN t PROVE t[k] = s[a + k] /\ a + k \in (a + 1)..b
      <3>1. k \in 1..(b - a)
        BY <1>1, <1>2
      <3>2. t[k] = s[a + k]
        BY <1>1, <3>1
      <3>3. a + k \in (a + 1)..b
        BY <3>1
      <3> QED
        BY <3>2, <3>3
    <2> QED
      BY <2>1 DEF Lines
  <1>4. {s[k] : k \in (a + 1)..b} \subseteq Lines(t)
    <2>1. ASSUME NEW k \in (a + 1)..b PROVE k - a \in DOMAIN t /\ t[k - a] = s[k]
      BY <1>1, <1>2
    <2> QED
      BY <2>1 DEF Lines
  <1> QED
    BY <1>1, <1>3, <1>4 DEF t

LEMMA LinesOfJoin ==
  ASSUME NEW s \in Seq(Nat), NEW t \in Seq(Nat)
  PROVE  s \o t \in Seq(Nat) /\ Lines(s \o t) = Lines(s) \cup Lines(t)
  <1> DEFINE u == s \o t
  <1>1. /\ u \in Seq(Nat) /\ Len(u) = Len(s) + Len(t)
        /\ \A k \in 1..Len(s) : u[k] = s[k]
        /\ \A k \in 1..Len(t) : u[Len(s) + k] = t[k]
    OBVIOUS
  <1>2. DOMAIN u = 1..Len(u) /\ DOMAIN s = 1..Len(s) /\ DOMAIN t = 1..Len(t)
        /\ Len(s) \in Nat /\ Len(t) \in Nat
    BY <1>1
  <1> HIDE DEF u
  <1>3. ASSUME NEW k \in DOMAIN u
        PROVE  \/ k \in DOMAIN s /\ u[k] = s[k]
               \/ k - Len(s) \in DOMAIN t /\ u[k] = t[k - Len(s)]
    BY <1>1, <1>2
  <1>4. ASSUME NEW k \in DOMAIN s PROVE k \in DOMAIN u /\ u[k] = s[k]
    BY <1>1, <1>2
  <1>5. ASSUME NEW k \in DOMAIN t PROVE Len(s) + k \in DOMAIN u /\ u[Len(s) + k] = t[k]
    BY <1>1, <1>2
  <1>6. Lines(u) = Lines(s) \cup Lines(t)
    BY <1>3, <1>4, <1>5 DEF Lines
  <1> QED
    BY <1>1, <1>6 DEF u

\* A set of numbers with an upper bound has a largest one.
LEMMA LargestOne ==
  ASSUME NEW b \in Nat, NEW T, T \subseteq 0..b, T # {}
  PROVE  \E m \in T : \A n \in T : n <= m
  <1> DEFINE below == {b - n : n \in T}
  <1>1. below \subseteq Nat /\ below # {}
    <2>1. \A n \in T : n \in Nat /\ b - n \in Nat
      OBVIOUS
    <2> QED
      BY <2>1
  <1>2. \E x \in below : \A y \in below : <<y, x>> \notin OpToRel(<, Nat)
    BY <1>1, NatLessThanWellFounded, WFMin
  <1>3. PICK x \in below : \A y \in below : ~(y < x)
    BY <1>1, <1>2 DEF OpToRel
  <1>4. b - x \in T /\ x \in Nat
    BY <1>1
  <1>5. ASSUME NEW n \in T PROVE n <= b - x
    <2>1. b - n \in below
      OBVIOUS
    <2>2. ~(b - n < x)
      BY <1>3, <2>1
    <2>3. n \in Int
      OBVIOUS
    <2> QED
      BY <1>4, <2>2, <2>3
  <1> QED
    BY <1>4, <1>5

-----------------------------------------------------------------------------
(* The files.                                                              *)

\* A line is in a file once; files that hold the same line hold the same lines before it.
FilesInv ==
    /\ content \in [Inodes -> Seq(Nat)] /\ written \in Nat
    /\ \A i \in Inodes : \A p \in 1..Len(content[i]) : content[i][p] \in 1..written
    /\ \A i, j \in Inodes : \A p \in 1..Len(content[i]), q \in 1..Len(content[j]) :
         content[i][p] = content[j][q] =>
           p = q /\ \A k \in 1..p : content[i][k] = content[j][k]

PathsInv ==
    /\ slot \in [Slots -> Inodes \cup {None}] /\ free \subseteq Inodes
    /\ rotating # None =>
         /\ rotating \in [copies : BOOLEAN, to : Slots]
         /\ rotating.copies \/ rotating.to = Live => slot[Live] # None
    /\ pc \in {"baseline", "open", "read"} => at \in Slots
    /\ pc = "read" => open \in Inodes

\* What happens to the files: what a file holds of the lines written before was, with all that
\* precedes it, in some file; and the file that is open keeps what was read of it.
FilesStep ==
    /\ FilesInv' /\ written <= written'
    /\ \A i \in Inodes : \A o \in 1..Len(content'[i]) :
         content'[i][o] <= written =>
           \E j \in Inodes : o <= Len(content[j])
                             /\ \A k \in 1..o : content'[i][k] = content[j][k]
    /\ open \in Inodes /\ "emptied" \notin odd' =>
         /\ Len(content[open]) <= Len(content'[open])
         /\ \A k \in 1..Len(content[open]) : content'[open][k] = content[open][k]

LEMMA FilesRest ==
  ASSUME FilesInv, UNCHANGED <<content, written>>
  PROVE  FilesStep
  <1>1. FilesInv'
    BY DEF FilesInv
  <1>2. \A i \in Inodes : Len(content[i]) \in Nat
    BY DEF FilesInv
  <1> QED
    BY <1>1, <1>2 DEF FilesStep, FilesInv

\* A line is added to file i.
LEMMA FileGrows ==
  ASSUME FilesInv, NEW i \in Inodes, written' = written + 1,
         content' = [content EXCEPT ![i] = Append(@, written + 1)]
  PROVE  FilesStep
  <1> DEFINE s == content[i]
             t == Append(s, written + 1)
  <1>1. /\ s \in Seq(Nat) /\ Len(s) \in Nat /\ written \in Nat
        /\ \A p \in 1..Len(s) : s[p] \in 1..written
    BY DEF FilesInv
  <1>2. /\ t \in Seq(Nat) /\ Len(t) = Len(s) + 1 /\ t[Len(s) + 1] = written + 1
        /\ \A k \in 1..Len(s) : t[k] = s[k]
    BY <1>1
  <1>3. content'[i] = t /\ \A j \in Inodes \ {i} : content'[j] = content[j]
    BY DEF FilesInv
  <1> HIDE DEF s, t
  <1>4. content' \in [Inodes -> Seq(Nat)]
    BY <1>2 DEF FilesInv, s, t
  <1>5. \A j \in Inodes : Len(content[j]) \in Nat /\ Len(content'[j]) \in Nat
    BY <1>4 DEF FilesInv
  \* An old line is where it was.
  <1>6. ASSUME NEW j \in Inodes, NEW p \in 1..Len(content'[j])
        PROVE  \/ /\ p \in 1..Len(content[j])
                  /\ \A k \in 1..p : k \in 1..Len(content[j]) /\ content'[j][k] = content[j][k]
               \/ j = i /\ p = Len(s) + 1 /\ content'[j][p] = written + 1
    <2>1. CASE j # i
      BY <1>3, <1>5, <2>1
    <2>2. CASE j = i
      BY <1>1, <1>2, <1>3, <2>2 DEF s
    <2> QED
      BY <2>1, <2>2
  <1>7. \A j \in Inodes : \A p \in 1..Len(content'[j]) : content'[j][p] \in 1..written'
    BY <1>1, <1>6 DEF FilesInv
  <1>8. ASSUME NEW j \in Inodes, NEW k \in Inodes,
               NEW p \in 1..Len(content'[j]), NEW q \in 1..Len(content'[k]),
               content'[j][p] = content'[k][q]
        PROVE  p = q /\ \A n \in 1..p : content'[j][n] = content'[k][n]
    <2>1. CASE content'[j][p] = written + 1
      <3>1. j = i /\ k = i /\ p = Len(s) + 1 /\ q = Len(s) + 1
        <4>1. content[j] \in Seq(Nat) /\ content[k] \in Seq(Nat) /\ ~(written + 1 \in 1..written)
          BY <1>1 DEF FilesInv
        <4>2. ASSUME p \in 1..Len(content[j]), content'[j][p] = content[j][p] PROVE FALSE
          BY <1>8, <2>1, <4>1, <4>2 DEF FilesInv
        <4>3. ASSUME q \in 1..Len(content[k]), content'[k][q] = content[k][q] PROVE FALSE
          BY <1>8, <2>1, <4>1, <4>3 DEF FilesInv
        <4>4. p \in 1..p /\ q \in 1..q
          BY <1>5, <1>8
        <4>5. j = i /\ p = Len(s) + 1
          BY <1>6, <1>8, <4>2, <4>4
        <4> QED
          BY <1>6, <1>8, <4>3, <4>4, <4>5
      <3> QED
        BY <3>1
    <2>2. CASE content'[j][p] # written + 1
      <3>1. /\ p \in 1..Len(content[j])
            /\ \A n \in 1..p : n \in 1..Len(content[j]) /\ content'[j][n] = content[j][n]
        BY <1>6, <2>2
      <3>2. /\ q \in 1..Len(content[k])
            /\ \A n \in 1..q : n \in 1..Len(content[k]) /\ content'[k][n] = content[k][n]
        BY <1>6, <1>8, <2>2
      <3>3. p = q /\ \A n \in 1..p : content[j][n] = content[k][n]
        BY <1>8, <3>1, <3>2 DEF FilesInv
      <3> QED
        BY <3>1, <3>2, <3>3
    <2> QED
      BY <2>1, <2>2
  <1>9. FilesInv'
    <2>1. written' \in Nat
      BY <1>1
    <2> QED
      BY <1>4, <1>7, <1>8, <2>1, Zenon DEF FilesInv
  <1>10. ASSUME NEW j \in Inodes, NEW o \in 1..Len(content'[j]), content'[j][o] <= written
         PROVE  o <= Len(content[j]) /\ \A k \in 1..o : content'[j][k] = content[j][k]
    BY <1>1, <1>6, <1>10
  <1>11. open \in Inodes =>
           /\ Len(content[open]) <= Len(content'[open])
           /\ \A k \in 1..Len(content[open]) : content'[open][k] = content[open][k]
    BY <1>1, <1>2, <1>3, <1>5 DEF s
  <1> QED
    BY <1>1, <1>9, <1>10, <1>11 DEF FilesStep

\* File i becomes what file j is, or a file of one new line, or empty.
LEMMA FileReplaced ==
  ASSUME FilesInv, NEW i \in Inodes, NEW s, content' = [content EXCEPT ![i] = s],
         \/ (\E j \in Inodes : s = content[j]) /\ UNCHANGED written
         \/ s = <<written + 1>> /\ written' = written + 1
         \/ s = <<>> /\ UNCHANGED written,
         i # open \/ "emptied" \in odd'
  PROVE  FilesStep
  <1>1. content'[i] = s /\ \A j \in Inodes \ {i} : content'[j] = content[j]
    BY DEF FilesInv
  <1>2. \A j \in Inodes : Len(content[j]) \in Nat
    BY DEF FilesInv
  <1>3. open \in Inodes /\ "emptied" \notin odd' =>
          /\ Len(content[open]) <= Len(content'[open])
          /\ \A k \in 1..Len(content[open]) : content'[open][k] = content[open][k]
    BY <1>1, <1>2
  <1>4. CASE (\E j \in Inodes : s = content[j]) /\ UNCHANGED written
    <2>1. PICK twin \in [Inodes -> Inodes] : \A k \in Inodes : content'[k] = content[twin[k]]
      <3>1. PICK j \in Inodes : s = content[j]
        BY <1>4
      <3>2. \A k \in Inodes : content'[k] = content[[n \in Inodes |-> IF n = i THEN j ELSE n][k]]
        BY <1>1, <3>1
      <3> QED
        BY <3>2
    <2>2. content' \in [Inodes -> Seq(Nat)]
      BY <1>4 DEF FilesInv
    <2>3. FilesInv'
      <3>1. ASSUME NEW j \in Inodes, NEW k \in Inodes,
                   NEW p \in 1..Len(content'[j]), NEW q \in 1..Len(content'[k]),
                   content'[j][p] = content'[k][q]
            PROVE  p = q /\ \A n \in 1..p : content'[j][n] = content'[k][n]
        <4>1. /\ twin[j] \in Inodes /\ content'[j] = content[twin[j]]
              /\ twin[k] \in Inodes /\ content'[k] = content[twin[k]]
          BY <2>1
        <4>2. PICK m \in Inodes, n \in Inodes : content'[j] = content[m] /\ content'[k] = content[n]
          BY <4>1
        <4>3. /\ p \in 1..Len(content[m]) /\ q \in 1..Len(content[n])
              /\ content[m][p] = content[n][q]
          BY <3>1, <4>2
        <4>4. p = q /\ \A o \in 1..p : content[m][o] = content[n][o]
          BY <4>3 DEF FilesInv
        <4> QED
          BY <4>2, <4>4
      <3>2. ASSUME NEW j \in Inodes, NEW p \in 1..Len(content'[j])
            PROVE  content'[j][p] \in 1..written'
        BY <1>4, <2>1 DEF FilesInv
      <3> QED
        BY <1>4, <2>2, <3>1, <3>2, Zenon DEF FilesInv
    <2>4. ASSUME NEW k \in Inodes, NEW o \in 1..Len(content'[k])
          PROVE  \E j \in Inodes : /\ o <= Len(content[j])
                                   /\ \A n \in 1..o : content'[k][n] = content[j][n]
      <3>1. twin[k] \in Inodes /\ o <= Len(content[twin[k]])
        BY <2>1, <1>2
      <3> QED
        BY <2>1, <3>1
    <2>5. written <= written'
      BY <1>4 DEF FilesInv
    <2> QED
      BY <1>3, <2>3, <2>4, <2>5 DEF FilesStep
  <1>5. CASE s = <<written + 1>> /\ written' = written + 1
    <2>1. s \in Seq(Nat) /\ Len(s) = 1 /\ s[1] = written + 1 /\ written \in Nat
      BY <1>5 DEF FilesInv
    <2>2. content' \in [Inodes -> Seq(Nat)]
      BY <2>1 DEF FilesInv
    <2>3. \A k \in Inodes : \A p \in 1..Len(content'[k]) :
            /\ content'[k][p] \in 1..written'
            /\ content'[k][p] = written + 1 => k = i /\ p = 1
            /\ k = i => p = 1 /\ content'[k][p] = written + 1
      BY <1>1, <1>5, <2>1 DEF FilesInv
    <2>4. ASSUME NEW j \in Inodes, NEW k \in Inodes,
                 NEW p \in 1..Len(content'[j]), NEW q \in 1..Len(content'[k]),
                 content'[j][p] = content'[k][q]
          PROVE  p = q /\ \A n \in 1..p : content'[j][n] = content'[k][n]
      <3>1. CASE j = i \/ k = i
        BY <2>3, <2>4, <3>1
      <3>2. CASE j # i /\ k # i
        BY <1>1, <2>4, <3>2 DEF FilesInv
      <3> QED
        BY <3>1, <3>2
    <2>5. FilesInv'
      BY <1>5, <2>1, <2>2, <2>3, <2>4 DEF FilesInv
    <2>6. ASSUME NEW k \in Inodes, NEW o \in 1..Len(content'[k]), content'[k][o] <= written
          PROVE  o <= Len(content[k]) /\ \A n \in 1..o : content'[k][n] = content[k][n]
      BY <1>1, <1>2, <2>1, <2>3, <2>6
    <2> QED
      BY <1>3, <1>5, <2>1, <2>5, <2>6 DEF FilesStep
  <1>6. CASE s = <<>> /\ UNCHANGED written
    <2>1. s \in Seq(Nat) /\ Len(s) = 0
      BY <1>6
    <2>2. content' \in [Inodes -> Seq(Nat)]
      BY <2>1 DEF FilesInv
    <2>3. \A k \in Inodes : \A p \in 1..Len(content'[k]) : k # i /\ content'[k] = content[k]
      BY <1>1, <2>1
    <2>4. FilesInv'
      BY <1>6, <2>2, <2>3 DEF FilesInv
    <2>5. ASSUME NEW k \in Inodes, NEW o \in 1..Len(content'[k])
          PROVE  o <= Len(content[k]) /\ \A n \in 1..o : content'[k][n] = content[k][n]
      BY <1>2, <2>3
    <2> QED
      BY <1>3, <1>6, <2>4, <2>5 DEF FilesStep, FilesInv
  <1> QED
    BY <1>4, <1>5, <1>6

LEMMA FilesNext ==
  ASSUME FilesInv, PathsInv, [Next]_vars
  PROVE  FilesStep /\ odd \subseteq odd'
  <1>1. CASE Write
    <2>1. UNCHANGED odd /\ written' = written + 1
      BY <1>1 DEF Write
    <2>2. CASE slot[Live] # None /\ content' = [content EXCEPT ![slot[Live]] = Append(@, written + 1)]
      <3>1. slot[Live] \in Inodes
        BY <2>2, SizesAssumption DEF PathsInv, Slots, Live
      <3> QED
        BY <2>1, <2>2, <3>1, FileGrows
    <2>3. CASE \E i \in Unused : content' = [content EXCEPT ![i] = <<written + 1>>]
      <3>1. PICK i \in Unused : content' = [content EXCEPT ![i] = <<written + 1>>]
        BY <2>3
      <3>2. i \in Inodes /\ i # open
        BY <3>1, SizesAssumption DEF Unused, Gone, PathsInv
      <3> QED
        BY <2>1, <3>1, <3>2, FileReplaced
    <2> QED
      BY <1>1, <2>2, <2>3 DEF Write
  <1>2. CASE Copy
    <2>1. PICK i \in (free \cup Gone(slot[1])) \ Gone(open) :
            content' = [content EXCEPT ![i] = content[slot[Live]]]
      BY <1>2 DEF Copy
    <2>2. slot[Live] \in Inodes /\ slot[1] \in Inodes \cup {None}
      BY <1>2, SizesAssumption DEF Copy, PathsInv, Slots, Live
    <2>3. i \in Inodes /\ i # open
      BY <2>1, <2>2, SizesAssumption DEF Gone, PathsInv
    <2>4. UNCHANGED written /\ odd \subseteq odd'
      BY <1>2 DEF Copy, Remember
    <2> QED
      BY <2>1, <2>2, <2>3, <2>4, FileReplaced
  <1>3. CASE Truncate
    <2>1. content' = [content EXCEPT ![slot[Live]] = <<>>] /\ UNCHANGED written
      BY <1>3 DEF Truncate
    <2>2. slot[Live] \in Inodes
      BY <1>3, SizesAssumption DEF Truncate, PathsInv, Slots, Live
    <2>3. odd \subseteq odd' /\ (slot[Live] # open \/ "emptied" \in odd')
      BY <1>3 DEF Truncate, Remember
    <2> QED
      BY <2>1, <2>2, <2>3, FileReplaced
  <1>4. CASE StartRotation \/ Shift \/ Rename
    <2>1. UNCHANGED <<content, written>> /\ odd \subseteq odd'
      BY <1>4 DEF StartRotation, Shift, Rename, Remember
    <2> QED
      BY <2>1, FilesRest
  <1>5. CASE Scans \/ Interrupted \/ Delivered \/ UNCHANGED vars
    <2>1. UNCHANGED <<content, written>> /\ odd \subseteq odd'
      BY <1>5 DEF Scans, StartBaseline, Baseline, CommitBaseline, StartScan, Open, BudgetSpent,
           Enqueue, QueueFull, FileRead, Interrupted, Delivered, Remember, directory, vars
    <2> QED
      BY <2>1, FilesRest
  <1> QED
    BY <1>1, <1>2, <1>3, <1>4, <1>5 DEF Next, Rotates

\* A rotation moves what is there, and leaves the live file for the copy.
LEMMA PathsNext ==
  ASSUME FilesInv, PathsInv, [Next]_vars
  PROVE  PathsInv'
  <1>1. Live \in Slots /\ 1 \in Slots /\ Rotations \in Slots /\ Live # 1
    BY SizesAssumption DEF Slots, Live
  <1>2. CASE Write
    <2>1. slot' \in [Slots -> Inodes \cup {None}] /\ free' \subseteq Inodes
          /\ (slot[Live] # None => slot'[Live] # None)
      BY <1>1, <1>2, SizesAssumption DEF Write, PathsInv, Unused
    <2> QED
      BY <1>2, <2>1 DEF Write, PathsInv, scan
  <1>3. CASE StartRotation
    <2>1. PICK copies \in Copying : rotating' = [copies |-> copies, to |-> Rotations]
      BY <1>3 DEF StartRotation
    <2>2. rotating' \in [copies : BOOLEAN, to : Slots]
      BY <1>1, <2>1, SizesAssumption
    <2> QED
      BY <1>3, <2>2 DEF StartRotation, PathsInv, scan
  <1>4. CASE Shift
    <2>1. rotating \in [copies : BOOLEAN, to : Slots] /\ rotating.to > 1
      BY <1>4 DEF Shift, PathsInv
    <2>2. rotating.to - 1 \in Slots /\ rotating.to - 1 > Live
      BY <2>1, SizesAssumption DEF Slots, Live
    <2>3. /\ slot' \in [Slots -> Inodes \cup {None}] /\ free' \subseteq Inodes
          /\ slot'[Live] = slot[Live]
      BY <1>1, <1>4, <2>1, <2>2 DEF Shift, MovesTo, PathsInv, Gone, Live
    <2>4. /\ rotating' \in [copies : BOOLEAN, to : Slots] /\ rotating'.to > Live
          /\ rotating'.copies = rotating.copies
      BY <1>4, <2>1, <2>2 DEF Shift
    <2> QED
      BY <1>4, <2>3, <2>4 DEF Shift, PathsInv, scan, Live
  <1>5. CASE Rename
    <2>1. slot' \in [Slots -> Inodes \cup {None}] /\ free' \subseteq Inodes
      BY <1>1, <1>5 DEF Rename, MovesTo, PathsInv, Gone, Live
    <2> QED
      BY <1>5, <2>1 DEF Rename, PathsInv, scan
  <1>6. CASE Copy
    <2>1. PICK i \in (free \cup Gone(slot[1])) \ Gone(open) :
            /\ slot' = [slot EXCEPT ![1] = i]
            /\ free' = (free \cup Gone(slot[1])) \ {i}
      BY <1>6 DEF Copy
    <2>2. slot[1] \in Inodes \cup {None} /\ i \in Inodes
      BY <1>1, <2>1 DEF PathsInv, Gone
    <2>3. /\ slot' \in [Slots -> Inodes \cup {None}] /\ free' \subseteq Inodes
          /\ slot'[Live] = slot[Live]
      BY <1>1, <2>1, <2>2 DEF PathsInv, Gone
    <2>4. rotating' \in [copies : BOOLEAN, to : Slots] /\ slot[Live] # None
      BY <1>1, <1>6 DEF Copy, PathsInv, Live
    <2> QED
      BY <1>6, <2>3, <2>4 DEF Copy, PathsInv, scan
  <1>7. CASE Truncate
    BY <1>7 DEF Truncate, PathsInv, scan
  <1>8. CASE Scans \/ Interrupted \/ Delivered \/ UNCHANGED vars
    <2>1. UNCHANGED <<slot, free, rotating>>
      BY <1>8 DEF Scans, StartBaseline, Baseline, CommitBaseline, StartScan, Open, BudgetSpent,
           Enqueue, QueueFull, FileRead, Interrupted, Delivered, directory, vars
    <2>2. \A k \in Slots : k # Live => k - 1 \in Slots
      BY SizesAssumption DEF Slots, Live
    <2>3. pc' \in {"baseline", "open", "read"} => at' \in Slots
      <3>1. CASE Scans
        BY <1>1, <2>2, <3>1 DEF Scans, StartBaseline, Baseline, CommitBaseline, StartScan, Open,
             BudgetSpent, Enqueue, QueueFull, FileRead, Starts, EndScan, NextPath, PathsInv
      <3>2. CASE Interrupted
        BY <3>2 DEF Interrupted, EndScan
      <3>3. CASE Delivered \/ UNCHANGED vars
        BY <3>3 DEF Delivered, scan, vars, PathsInv
      <3> QED
        BY <1>8, <3>1, <3>2, <3>3
    <2>4. pc' = "read" => open' \in Inodes
      <3>1. CASE Open
        BY <3>1 DEF Open, NextPath, PathsInv
      <3>2. CASE Scans /\ ~Open
        BY <3>2 DEF Scans, StartBaseline, Baseline, CommitBaseline, StartScan,
             BudgetSpent, Enqueue, QueueFull, FileRead, Starts, EndScan, NextPath, PathsInv
      <3>3. CASE Interrupted \/ Delivered \/ UNCHANGED vars
        BY <3>3 DEF Interrupted, EndScan, Delivered, scan, vars, PathsInv
      <3> QED
        BY <1>8, <3>1, <3>2, <3>3
    <2> QED
      BY <2>1, <2>3, <2>4 DEF PathsInv
  <1> QED
    BY <1>2, <1>3, <1>4, <1>5, <1>6, <1>7, <1>8 DEF Next, Rotates

-----------------------------------------------------------------------------
(* The cursors.                                                            *)

CursorRecord == [offset : Nat, anchor : Nat]

\* Wherever cursor c is believed, the lines before it were queued, or left out by the baseline.
Covered(c) ==
    /\ c \in CursorRecord /\ c.anchor <= written
    /\ "emptied" \notin odd =>
         \A i \in Inodes : Matches(i, c) => \A k \in 1..c.offset : content[i][k] \in Read \cup left

Stored == ({cursors[i] : i \in Inodes} \cup {gathered[i] : i \in Inodes}) \ {None}

StoreInv ==
    /\ collected \in Seq(Nat)
    /\ cursors \in [Inodes -> CursorRecord \cup {None}]
    /\ gathered \in [Inodes -> CursorRecord \cup {None}]
    /\ \A c \in Stored : Covered(c)
    /\ ~initialized => cursors = NoCursors
    /\ pc \in {"open", "read"} => initialized

\* So were the lines of the open file before the place it is read at.
ReadInv ==
    pc = "read" =>
      /\ offset \in Nat /\ size \in Nat
      /\ "emptied" \notin odd =>
           /\ offset <= Len(content[open])
           /\ \A k \in 1..offset : content[open][k] \in Read \cup left

\* Inductive.
CollectInv == FilesInv /\ PathsInv /\ StoreInv /\ ReadInv

LEMMA CoveredStays ==
  ASSUME FilesInv, FilesStep, odd \subseteq odd', Read \cup left \subseteq (Read \cup left)',
         NEW c, Covered(c)
  PROVE  Covered(c)'
  <1>1. c \in CursorRecord /\ c.anchor <= written' /\ c.anchor <= written
    BY DEF Covered, CursorRecord, FilesStep, FilesInv
  <1>2. ASSUME "emptied" \notin odd', NEW i \in Inodes, Matches(i, c)', NEW k \in 1..c.offset
        PROVE  content'[i][k] \in (Read \cup left)'
    <2>1. /\ c.offset \in 1..Len(content'[i])
          /\ content'[i][c.offset] = c.anchor
      <3>1. c.offset \in Nat /\ c.offset # 0
        BY <1>1, <1>2 DEF CursorRecord
      <3>2. c.offset <= Len(content'[i]) /\ c = Cursor(i, c.offset)'
        BY <1>2 DEF Matches
      <3>3. c.anchor = content'[i][c.offset]
        BY <3>1, <3>2 DEF Cursor
      <3>4. Len(content'[i]) \in Nat
        BY DEF FilesStep, FilesInv
      <3> QED
        BY <3>1, <3>2, <3>3, <3>4
    <2>2. PICK j \in Inodes : /\ c.offset <= Len(content[j])
                              /\ \A n \in 1..c.offset : content'[i][n] = content[j][n]
      BY <1>1, <2>1 DEF FilesStep
    <2>3. Matches(j, c)
      <3>1. content[j][c.offset] = c.anchor /\ c.offset # 0
        BY <1>1, <2>1, <2>2 DEF CursorRecord
      <3>2. c = [offset |-> c.offset, anchor |-> c.anchor]
        BY <1>1 DEF CursorRecord
      <3> QED
        BY <2>2, <3>1, <3>2 DEF Matches, Cursor
    <2>4. content[j][k] \in Read \cup left
      BY <1>2, <2>3 DEF Covered
    <2> QED
      BY <2>2, <2>4
  <1> QED
    BY <1>1, <1>2 DEF Covered

\* The cursor at o in file i, when the lines before it were queued or left out.
LEMMA CoveredHere ==
  ASSUME FilesInv, UNCHANGED <<content, written>>,
         NEW i \in Inodes, NEW o \in 0..Len(content[i]), NEW c, c = Cursor(i, o),
         "emptied" \notin odd' => \A k \in 1..o : content[i][k] \in (Read \cup left)'
  PROVE  Covered(c)'
  <1>1. /\ c.offset = o /\ c.anchor = (IF o = 0 THEN 0 ELSE content[i][o]) /\ o \in Nat
        /\ c = [offset |-> o, anchor |-> IF o = 0 THEN 0 ELSE content[i][o]]
    BY DEF Cursor
  <1>2. c.anchor \in Nat /\ c.anchor <= written
    BY <1>1 DEF FilesInv
  <1>3. c \in CursorRecord
    BY <1>1, <1>2 DEF CursorRecord
  <1>4. ASSUME "emptied" \notin odd', NEW j \in Inodes, Matches(j, c), NEW k \in 1..o
        PROVE  content[j][k] \in (Read \cup left)'
    <2>1. /\ o \in 1..Len(content[i]) /\ o \in 1..Len(content[j])
          /\ content[j][o] = content[i][o]
      <3>1. o <= Len(content[j]) /\ c = Cursor(j, o) /\ o # 0
        <4>1. c.offset = o /\ o # 0
          BY <1>1, <1>4
        <4>2. c.offset <= Len(content[j]) /\ c = Cursor(j, c.offset)
          BY <1>4 DEF Matches
        <4> QED
          BY ONLY <4>1, <4>2
      <3>2. Len(content[j]) \in Nat /\ Len(content[i]) \in Nat
        BY DEF FilesInv
      <3>3. Cursor(j, o).anchor = content[j][o]
        BY <3>1 DEF Cursor
      <3>4. content[j][o] = content[i][o]
        BY <1>1, <3>1, <3>3
      <3> QED
        BY <1>1, <3>1, <3>2, <3>4
    <2>2. content[j][k] = content[i][k]
      <3>1. \A n \in 1..o : content[j][n] = content[i][n]
        BY <2>1 DEF FilesInv
      <3> QED
        BY <1>4, <3>1
    <2> QED
      BY <1>4, <2>2
  <1>5. \A j \in Inodes : Matches(j, c)' => Matches(j, c)
    BY DEF Matches, Cursor
  <1> QED
    BY <1>1, <1>2, <1>3, <1>4, <1>5 DEF Covered

\* What is known of a file is one of the cursors.
LEMMA KnownIsACursor ==
  ASSUME StoreInv, FilesInv, NEW i \in Inodes, Known(i) # None
  PROVE  \E r \in Inodes : cursors[r] # None /\ Known(i) = cursors[r]
  <1>1. CASE cursors[i] # None
    BY <1>1 DEF Known
  <1>2. CASE cursors[i] = None
    <2>1. Copied(i) # {} /\ Known(i) = Furthest(i)
      BY <1>2 DEF Known
    <2>2. \A r \in Copied(i) : /\ r \in Inodes /\ cursors[r] # None
                               /\ cursors[r].offset \in 0..Len(content[i])
      BY DEF Copied, Matches, StoreInv, Covered, CursorRecord
    <2> DEFINE offsets == {cursors[r].offset : r \in Copied(i)}
    <2>3. Len(content[i]) \in Nat /\ offsets \subseteq 0..Len(content[i]) /\ offsets # {}
      BY <2>1, <2>2 DEF FilesInv
    <2>4. \E m \in offsets : \A n \in offsets : n <= m
      BY <2>3, LargestOne
    <2>5. \E c \in {cursors[r] : r \in Copied(i)} : \A r \in Copied(i) : cursors[r].offset <= c.offset
      BY <2>4
    <2>6. Furthest(i) \in {cursors[r] : r \in Copied(i)}
      BY <2>5 DEF Furthest
    <2> QED
      BY <2>1, <2>2, <2>6
  <1> QED
    BY <1>1, <1>2

-----------------------------------------------------------------------------
(* The scan.                                                               *)

Step == FilesInv /\ FilesStep /\ PathsInv /\ StoreInv /\ ReadInv /\ odd \subseteq odd'

\* A fragment ends somewhere in what is unread of the open file.
LEMMA FragmentStored ==
  ASSUME FilesInv, PathsInv, StoreInv, ReadInv, Enqueue
  PROVE  /\ pc = "read" /\ open \in Inodes /\ offset \in Nat
         /\ content[open] \in Seq(Nat) /\ Len(content[open]) \in Nat
         /\ \E to \in Nat :
              /\ offset < to /\ to <= size /\ to <= Len(content[open])
              /\ offset' = to
              /\ cursors' = [cursors EXCEPT ![open] = Cursor(open, to)]
              /\ collected' = collected \o SubSeq(content[open], offset + 1, to)
              /\ SubSeq(content[open], offset + 1, to) \in Seq(Nat)
              /\ collected' \in Seq(Nat)
              /\ Read' = Read \cup {content[open][k] : k \in (offset + 1)..to}
  <1>1. /\ pc = "read" /\ open \in Inodes /\ offset \in Nat /\ size \in Nat
        /\ content[open] \in Seq(Nat) /\ Len(content[open]) \in Nat
        /\ offset < size /\ offset < Len(content[open])
        /\ collected \in Seq(Nat)
    BY DEF Enqueue, Unread, PathsInv, ReadInv, FilesInv, StoreInv
  <1> DEFINE ends == {offset + Chunk, size, Len(content[open])}
  <1>2. PICK to \in (offset + 1)..Min(ends) :
          /\ offset' = to
          /\ cursors' = [cursors EXCEPT ![open] = Behind(to)]
          /\ collected' = collected \o SubSeq(content[open], offset + 1, to)
    BY DEF Enqueue
  <1>3. Min(ends) \in ends /\ \A n \in ends : Min(ends) <= n
    <2>1. \A n \in ends : n \in Int
      BY <1>1, SizesAssumption
    <2>2. \E m \in ends : \A n \in ends : m <= n
      BY <2>1
    <2> HIDE DEF ends
    <2> QED
      BY <2>2 DEF Min
  <1>4. to \in Nat /\ offset < to /\ to <= size /\ to <= Len(content[open])
    <2>1. Min(ends) \in Int /\ Min(ends) <= Len(content[open]) /\ Min(ends) <= size
      BY <1>1, <1>3, SizesAssumption
    <2> HIDE DEF ends
    <2> QED
      BY <1>1, <1>2, <2>1
  <1> HIDE DEF ends
  <1> DEFINE part == SubSeq(content[open], offset + 1, to)
  <1>5. part \in Seq(Nat) /\ Lines(part) = {content[open][k] : k \in (offset + 1)..to}
    BY <1>1, <1>4, LinesOfPart
  <1>6. collected \o part \in Seq(Nat) /\ Lines(collected \o part) = Lines(collected) \cup Lines(part)
    BY <1>1, <1>5, LinesOfJoin
  <1>7. collected' = collected \o part
    BY <1>2
  <1>8. Read' = Read \cup {content[open][k] : k \in (offset + 1)..to}
    BY <1>5, <1>6, <1>7 DEF Read, Lines
  <1> QED
    BY <1>1, <1>2, <1>4, <1>5, <1>6, <1>7, <1>8 DEF Behind

\* A fragment: its lines are queued, and the cursor is put behind them.
LEMMA EnqueueNext ==
  ASSUME Step, Enqueue
  PROVE  StoreInv' /\ ReadInv'
  <1> USE DEF Step
  <1>1. /\ pc = "read" /\ open \in Inodes /\ offset \in Nat /\ size \in Nat
        /\ content[open] \in Seq(Nat) /\ Len(content[open]) \in Nat
    BY FragmentStored DEF ReadInv
  <1>2. PICK to \in Nat :
          /\ offset < to /\ to <= Len(content[open])
          /\ offset' = to
          /\ cursors' = [cursors EXCEPT ![open] = Cursor(open, to)]
          /\ collected' \in Seq(Nat)
          /\ Read' = Read \cup {content[open][k] : k \in (offset + 1)..to}
    BY FragmentStored
  <1>3. /\ UNCHANGED <<content, written, left, open, size, pc, gathered, initialized, odd>>
        /\ initialized
    BY <1>1 DEF Enqueue, directory, StoreInv
  <1>4. "emptied" \notin odd => \A k \in 1..to : content[open][k] \in (Read \cup left)'
    <2>1. "emptied" \notin odd => \A k \in 1..offset : content[open][k] \in Read \cup left
      BY <1>1 DEF ReadInv
    <2>2. \A k \in 1..to : k \in 1..offset \/ k \in (offset + 1)..to
      BY <1>1, <1>2
    <2> QED
      BY <1>2, <1>3, <2>1, <2>2
  <1>5. PICK c : c = Cursor(open, to)
    OBVIOUS
  <1>6. Covered(c)'
    <2>1. open \in Inodes /\ to \in 0..Len(content[open]) /\ c = Cursor(open, to)
      BY <1>1, <1>2, <1>5
    <2>2. "emptied" \notin odd' => \A k \in 1..to : content[open][k] \in (Read \cup left)'
      BY <1>3, <1>4
    <2> QED
      BY <1>3, <2>1, <2>2, CoveredHere
  <1>7. \A d : Covered(d) => Covered(d)'
    BY <1>2, <1>3, CoveredStays
  <1>8. c \in CursorRecord
    BY <1>6 DEF Covered
  <1>9. cursors' \in [Inodes -> CursorRecord \cup {None}]
    BY <1>2, <1>5, <1>8 DEF StoreInv
  <1>10. \A d \in Stored' : d \in Stored \cup {c}
    BY <1>2, <1>3, <1>5 DEF Stored, StoreInv
  <1>11. StoreInv'
    BY <1>2, <1>3, <1>6, <1>7, <1>9, <1>10 DEF StoreInv
  <1>12. ReadInv'
    BY <1>1, <1>2, <1>3, <1>4 DEF ReadInv
  <1> QED
    BY <1>11, <1>12

\* A file is opened where the cursor that is known of it says, or at its start.
LEMMA OpenNext ==
  ASSUME Step, Open
  PROVE  StoreInv' /\ ReadInv'
  <1> USE DEF Step
  <1>1. UNCHANGED <<content, written, initialized, gathered, collected, left, odd>>
        /\ pc = "open" /\ initialized
    BY DEF Open, directory, StoreInv
  <1>2. \A c : Covered(c) => Covered(c)'
    <2>1. (Read \cup left)' = Read \cup left
      BY <1>1 DEF Read, Lines
    <2> QED
      BY <2>1, CoveredStays
  <1>3. CASE pc' # "read" /\ UNCHANGED cursors
    BY <1>1, <1>2, <1>3 DEF StoreInv, ReadInv, Stored, NoCursors
  <1>4. CASE \E i \in Inodes :
               /\ cursors' = [cursors EXCEPT ![i] = Known(i)]
               /\ open' = i /\ size' = Len(content[i])
               /\ offset' = IF Known(i) # None /\ Matches(i, Known(i)) THEN Known(i).offset ELSE 0
    <2>1. PICK i \in Inodes :
               /\ cursors' = [cursors EXCEPT ![i] = Known(i)]
               /\ open' = i /\ size' = Len(content[i])
               /\ offset' = IF Known(i) # None /\ Matches(i, Known(i)) THEN Known(i).offset ELSE 0
      BY <1>4
    <2>2. Known(i) = None \/ (Known(i) \in Stored /\ Covered(Known(i)))
      <3>1. CASE Known(i) # None
        <4>1. PICK r \in Inodes : cursors[r] # None /\ Known(i) = cursors[r]
          BY <3>1, KnownIsACursor
        <4>2. cursors[r] \in Stored
          BY <4>1 DEF Stored
        <4> QED
          BY <4>1, <4>2 DEF StoreInv
      <3> QED
        BY <3>1
    <2>3. PICK c : c = Known(i)
      OBVIOUS
    <2>4. c = None \/ (c \in Stored /\ Covered(c) /\ c \in CursorRecord)
      BY <2>2, <2>3 DEF Covered
    <2>5. StoreInv'
      <3>1. cursors' \in [Inodes -> CursorRecord \cup {None}]
        BY <2>1, <2>3, <2>4 DEF StoreInv
      <3>2. Stored' \subseteq Stored
        BY <1>1, <2>1, <2>3, <2>4 DEF Stored, StoreInv
      <3> QED
        BY <1>1, <1>2, <3>1, <3>2 DEF StoreInv
    <2>6. Len(content[i]) \in Nat
      BY DEF FilesInv
    <2>7. CASE c # None /\ Matches(i, c)
      <3>1. offset' = c.offset /\ c.offset \in Nat /\ c.offset <= Len(content[i])
        BY <2>1, <2>3, <2>4, <2>7 DEF Matches, CursorRecord
      <3>2. "emptied" \notin odd => \A k \in 1..c.offset : content[i][k] \in Read \cup left
        BY <2>4, <2>7 DEF Covered
      <3>3. ReadInv'
        BY <1>1, <2>1, <2>6, <3>1, <3>2 DEF ReadInv, Read, Lines
      <3> QED
        BY <2>5, <3>3
    <2>8. CASE ~(c # None /\ Matches(i, c))
      <3>1. offset' = 0
        BY <2>1, <2>3, <2>8
      <3>2. ReadInv'
        BY <1>1, <2>1, <2>6, <3>1 DEF ReadInv
      <3> QED
        BY <2>5, <3>2
    <2> QED
      BY <2>7, <2>8
  <1>5. slot[at] # None => slot[at] \in Inodes
    BY <1>1 DEF PathsInv
  <1> QED
    BY <1>3, <1>4, <1>5 DEF Open, NextPath

\* The baseline puts a cursor behind what it leaves out.
LEMMA BaselineNext ==
  ASSUME Step, Baseline
  PROVE  StoreInv' /\ ReadInv'
  <1> USE DEF Step
  <1>1. /\ UNCHANGED <<content, written, initialized, cursors, collected, odd>>
        /\ pc' \in {"baseline", "commit"} /\ pc = "baseline"
    BY DEF Baseline, directory, store
  <1>2. ReadInv'
    BY <1>1 DEF ReadInv
  <1>3. left \subseteq left' /\ Read' = Read
    BY <1>1 DEF Baseline, Read, Lines
  <1>4. \A c : Covered(c) => Covered(c)'
    BY <1>1, <1>3, CoveredStays
  <1>5. CASE UNCHANGED gathered
    BY <1>1, <1>2, <1>4, <1>5 DEF StoreInv, Stored, NoCursors
  <1>6. CASE /\ slot[at] # None
             /\ gathered' = [gathered EXCEPT ![slot[at]] = Cursor(slot[at], Len(content[slot[at]]))]
             /\ left' = left \cup Lines(content[slot[at]])
    <2>1. PICK i \in Inodes :
            /\ gathered' = [gathered EXCEPT ![i] = Cursor(i, Len(content[i]))]
            /\ left' = left \cup Lines(content[i])
      BY <1>1, <1>6 DEF PathsInv
    <2>2. PICK c : c = Cursor(i, Len(content[i]))
      OBVIOUS
    <2>3. Covered(c)'
      <3>1. /\ content[i] \in Seq(Nat) /\ Len(content[i]) \in 0..Len(content[i])
            /\ DOMAIN content[i] = 1..Len(content[i])
        BY DEF FilesInv
      <3>2. \A k \in 1..Len(content[i]) : content[i][k] \in (Read \cup left)'
        BY <2>1, <3>1 DEF Lines
      <3> QED
        BY <1>1, <2>2, <3>1, <3>2, CoveredHere
    <2>4. c \in CursorRecord
      BY <2>3 DEF Covered
    <2>5. gathered' \in [Inodes -> CursorRecord \cup {None}] /\ Stored' \subseteq Stored \cup {c}
      BY <1>1, <2>1, <2>2, <2>4 DEF StoreInv, Stored
    <2> QED
      BY <1>1, <1>2, <1>4, <2>3, <2>5 DEF StoreInv
  <1> QED
    BY <1>5, <1>6 DEF Baseline

LEMMA StoreNext ==
  ASSUME Step, [Next]_vars
  PROVE  StoreInv' /\ ReadInv'
  <1> USE DEF Step
  <1>1. NoCursors \in [Inodes -> CursorRecord \cup {None}]
        /\ \A i \in Inodes : NoCursors[i] = None
    BY DEF NoCursors
  <1>2. ASSUME UNCHANGED <<collected, left>>,
               cursors' \in {cursors, gathered}, gathered' \in {gathered, NoCursors},
               initialized' \/ UNCHANGED <<cursors, initialized>>,
               pc' \in {"open", "read"} => initialized'
        PROVE  StoreInv'
    <2>1. (Read \cup left)' = Read \cup left
      BY <1>2 DEF Read, Lines
    <2>2. \A c : Covered(c) => Covered(c)'
      BY <2>1, CoveredStays
    <2>3. Stored' \subseteq Stored
      BY <1>1, <1>2 DEF Stored, StoreInv
    <2> QED
      BY <1>1, <1>2, <2>2, <2>3 DEF StoreInv, NoCursors
  <1>3. ASSUME pc' # "read" PROVE ReadInv'
    BY <1>3 DEF ReadInv
  <1>4. ASSUME UNCHANGED <<collected, left, pc, open, offset, size>> PROVE ReadInv'
    <2>1. (Read \cup left)' = Read \cup left
      BY <1>4 DEF Read, Lines
    <2>2. CASE pc = "read"
      <3>1. /\ open \in Inodes /\ offset \in Nat /\ size \in Nat
            /\ Len(content[open]) \in Nat /\ Len(content'[open]) \in Nat
        BY <2>2 DEF PathsInv, ReadInv, FilesInv, FilesStep
      <3>2. ASSUME "emptied" \notin odd'
            PROVE  /\ offset <= Len(content'[open])
                   /\ \A k \in 1..offset : content'[open][k] \in Read \cup left
        <4>1. /\ offset <= Len(content[open])
              /\ \A k \in 1..offset : content[open][k] \in Read \cup left
          BY <2>2, <3>2 DEF ReadInv
        <4>2. /\ Len(content[open]) <= Len(content'[open])
              /\ \A k \in 1..Len(content[open]) : content'[open][k] = content[open][k]
          BY <3>1, <3>2 DEF FilesStep
        <4> QED
          BY <3>1, <4>1, <4>2
      <3> QED
        BY <1>4, <2>1, <3>1, <3>2 DEF ReadInv
    <2> QED
      BY <1>3, <1>4, <2>2
  <1>5. CASE Write \/ StartRotation \/ Rotates \/ Delivered \/ UNCHANGED vars
    <2>1. UNCHANGED <<cursors, initialized, gathered, collected, left, pc, open, offset, size>>
      BY <1>5 DEF Write, StartRotation, Rotates, Shift, Rename, Copy, Truncate, Delivered, store,
           scan, vars
    <2> QED
      BY <1>2, <1>4, <2>1 DEF StoreInv
  <1>6. CASE StartBaseline
    <2>1. /\ cursors = NoCursors /\ gathered' = NoCursors /\ UNCHANGED <<cursors, initialized, collected>>
          /\ pc' = "baseline"
      BY <1>6 DEF StartBaseline, Starts, StoreInv, store
    <2>2. Stored' = {}
      BY <1>1, <2>1 DEF Stored
    <2> QED
      BY <1>1, <1>3, <2>1, <2>2 DEF StoreInv
  <1>7. CASE CommitBaseline \/ StartScan \/ BudgetSpent \/ QueueFull \/ FileRead \/ Interrupted
    <2>1. UNCHANGED <<collected, left>> /\ pc' # "read"
      BY <1>7 DEF CommitBaseline, StartScan, BudgetSpent, QueueFull, FileRead, Interrupted,
           EndScan, Starts, NextPath
    <2>2. cursors' \in {cursors, gathered} /\ gathered' \in {gathered, NoCursors}
      BY <1>7 DEF CommitBaseline, StartScan, BudgetSpent, QueueFull, FileRead, Interrupted, store
    <2>3. /\ initialized' \/ UNCHANGED <<cursors, initialized>>
          /\ pc' \in {"open", "read"} => initialized'
      BY <1>7 DEF CommitBaseline, StartScan, BudgetSpent, QueueFull, FileRead, Interrupted, store,
           EndScan, Starts, NextPath, StoreInv
    <2> QED
      BY <1>2, <1>3, <2>1, <2>2, <2>3
  <1> QED
    BY <1>5, <1>6, <1>7, BaselineNext, OpenNext, EnqueueNext DEF Next, Scans

\* There are two files to begin with.
LEMMA TwoFiles == First \in Inodes /\ Second \in Inodes /\ Second # First
  <1>1. \E i \in Inodes : TRUE
    <2>1. SUFFICES ASSUME Inodes = {} PROVE FALSE
      OBVIOUS
    <2> QED
      BY <2>1, FS_EmptySet, SizesAssumption
  <1>2. First \in Inodes
    BY <1>1 DEF First
  <1>3. \E i \in Inodes \ {First} : TRUE
    <2>1. SUFFICES ASSUME Inodes = {First} PROVE FALSE
      BY <1>2
    <2> QED
      BY <2>1, FS_Singleton, SizesAssumption
  <1> QED
    BY <1>2, <1>3 DEF Second

LEMMA CollectInit == Init => CollectInv
  <1> SUFFICES ASSUME Init PROVE CollectInv
    OBVIOUS
  <1>1. First \in Inodes /\ Second \in Inodes /\ Second # First
    BY TwoFiles
  <1>2. PICK older \in {{}, {Second}} :
          /\ written = Cardinality(older) + 1
          /\ content = [i \in Inodes |-> CASE i = First -> <<written>> [] i \in older -> <<1>> [] OTHER -> <<>>]
          /\ slot = [k \in Slots |-> IF k = Live THEN First ELSE IF k = 1 /\ older # {} THEN Second ELSE None]
          /\ free = Inodes \ ({First} \cup older)
    BY DEF Init
  <1>3. written \in {1, 2} /\ (older # {} => written = 2)
    <2>1. Cardinality({}) = 0 /\ Cardinality({Second}) = 1
      BY FS_EmptySet, FS_Singleton
    <2>2. CASE older = {}
      BY <1>2, <2>1, <2>2
    <2>3. CASE older = {Second}
      BY <1>2, <2>1, <2>3
    <2> QED
      BY <1>2, <2>2, <2>3
  <1>4. \A i \in Inodes :
          \/ i = First /\ content[i] = <<written>>
          \/ i \in older /\ i # First /\ content[i] = <<1>>
          \/ i # First /\ i \notin older /\ content[i] = <<>>
    BY <1>1, <1>2
  <1>5. FilesInv
    <2>1. content \in [Inodes -> Seq(Nat)]
      BY <1>2, <1>3
    <2>2. \A i \in Inodes : \A p \in 1..Len(content[i]) :
            /\ p = 1 /\ content[i][1] \in 1..written
            /\ content[i][1] = written => i = First
      <3> SUFFICES ASSUME NEW i \in Inodes, NEW p \in 1..Len(content[i])
                   PROVE  /\ p = 1 /\ content[i][1] \in 1..written
                          /\ content[i][1] = written => i = First
        OBVIOUS
      <3>1. CASE i = First /\ content[i] = <<written>>
        BY <1>3, <3>1
      <3>2. CASE i \in older /\ i # First /\ content[i] = <<1>>
        BY <1>3, <3>2
      <3>3. CASE content[i] = <<>>
        BY <3>3
      <3> QED
        BY <1>4, <3>1, <3>2, <3>3
    <2>3. \A i, j \in Inodes : \A p \in 1..Len(content[i]), q \in 1..Len(content[j]) :
            content[i][p] = content[j][q] => p = q /\ \A k \in 1..p : content[i][k] = content[j][k]
      BY <2>2
    <2> QED
      BY <1>3, <2>1, <2>2, <2>3 DEF FilesInv
  <1>6. PathsInv
    BY <1>1, <1>2 DEF Init, PathsInv
  <1>7. StoreInv /\ ReadInv
    BY DEF Init, StoreInv, ReadInv, Stored, NoCursors
  <1> QED
    BY <1>5, <1>6, <1>7 DEF CollectInv

LEMMA CollectNext == CollectInv /\ [Next]_vars => CollectInv'
  <1> SUFFICES ASSUME CollectInv, [Next]_vars PROVE CollectInv'
    OBVIOUS
  <1>1. FilesStep /\ odd \subseteq odd'
    BY FilesNext DEF CollectInv
  <1>2. PathsInv'
    BY PathsNext DEF CollectInv
  <1>3. StoreInv' /\ ReadInv'
    BY <1>1, StoreNext DEF CollectInv, Step
  <1> QED
    BY <1>1, <1>2, <1>3 DEF CollectInv, FilesStep

\* However the files are moved, copied, emptied and given each other's numbers, and wherever a
\* scan ends: what is before a cursor that is believed was queued, or left out by the baseline
\* (scan_source, _adopt_copy, enqueue).
THEOREM NothingSkipped == Spec => []NoneSkipped
  <1>1. CollectInv => NoneSkipped
    <2> SUFFICES ASSUME CollectInv, "emptied" \notin odd, NEW i \in Present,
                        cursors[i] # None, Matches(i, cursors[i])
                 PROVE  Lines(SubSeq(content[i], 1, cursors[i].offset)) \subseteq Read \cup left
      BY DEF NoneSkipped
    <2>1. i \in Inodes
      BY DEF Present, CollectInv, PathsInv
    <2>2. Covered(cursors[i])
      BY <2>1 DEF CollectInv, StoreInv, Stored
    <2> DEFINE o == cursors[i].offset
    <2>3. o \in Nat /\ o <= Len(content[i]) /\ content[i] \in Seq(Nat)
      BY <2>1, <2>2 DEF Covered, CursorRecord, Matches, CollectInv, FilesInv
    <2>4. Lines(SubSeq(content[i], 0 + 1, o)) = {content[i][k] : k \in (0 + 1)..o}
      BY <2>3, LinesOfPart
    <2>5. \A k \in 1..o : content[i][k] \in Read \cup left
      BY <2>1, <2>2 DEF Covered
    <2> QED
      BY <2>4, <2>5
  <1>2. Spec => []CollectInv
    BY CollectInit, CollectNext, PTL DEF Spec
  <1> QED
    BY <1>1, <1>2, PTL

-----------------------------------------------------------------------------
(* Types.                                                                  *)

\* The lines of a file are in the order of writing, so that it has no more than were written.
Sorted ==
    \A i \in Inodes : \A p \in 1..Len(content[i]) :
      /\ p <= content[i][p]
      /\ \A q \in 1..Len(content[i]) : p < q => content[i][p] < content[i][q]

LEMMA SortedNext ==
  ASSUME FilesInv, FilesInv', PathsInv, Sorted, [Next]_vars
  PROVE  Sorted'
  <1>1. ASSUME NEW i \in Inodes, NEW s, content' = [content EXCEPT ![i] = s],
               \A p \in 1..Len(s) : p <= s[p] /\ \A q \in 1..Len(s) : p < q => s[p] < s[q]
        PROVE  Sorted'
    <2>1. content'[i] = s /\ \A j \in Inodes \ {i} : content'[j] = content[j]
      BY <1>1 DEF FilesInv
    <2> QED
      BY <1>1, <2>1 DEF Sorted
  <1>2. CASE Write
    <2>1. CASE slot[Live] # None /\ content' = [content EXCEPT ![slot[Live]] = Append(@, written + 1)]
      <3>1. PICK i \in Inodes : i = slot[Live]
        BY <2>1, SizesAssumption DEF PathsInv, Slots, Live
      <3>2. PICK s : s = content[i]
        OBVIOUS
      <3>3. PICK t : t = Append(s, written + 1)
        OBVIOUS
      <3>4. /\ s \in Seq(Nat) /\ written \in Nat
            /\ \A p \in 1..Len(s) : p <= s[p] /\ s[p] <= written
            /\ \A p, q \in 1..Len(s) : p < q => s[p] < s[q]
        BY <3>2 DEF FilesInv, Sorted
      <3>5. /\ Len(s) \in Nat /\ Len(t) = Len(s) + 1 /\ t[Len(s) + 1] = written + 1
            /\ \A p \in 1..Len(s) : t[p] = s[p]
        BY <3>3, <3>4
      <3>6. Len(s) <= written
        <4>1. CASE Len(s) # 0
          <5>1. Len(s) \in 1..Len(s) /\ s[Len(s)] \in Nat
            BY <3>4, <3>5, <4>1
          <5> QED
            BY <3>4, <3>5, <5>1
        <4> QED
          BY <3>4, <4>1
      <3>7. \A p \in 1..Len(t) : p <= t[p] /\ \A q \in 1..Len(t) : p < q => t[p] < t[q]
        <4> SUFFICES ASSUME NEW p \in 1..Len(t), NEW q \in 1..Len(t)
                     PROVE  p <= t[p] /\ (p < q => t[p] < t[q])
          OBVIOUS
        <4>1. p \in 1..Len(s) => s[p] \in Nat
          BY <3>4
        <4>2. CASE p \in 1..Len(s) /\ q \in 1..Len(s)
          BY <3>4, <3>5, <4>2
        <4>3. CASE p \in 1..Len(s) /\ q = Len(s) + 1
          BY <3>4, <3>5, <4>1, <4>3
        <4>4. CASE p = Len(s) + 1
          BY <3>4, <3>5, <3>6, <4>4
        <4> QED
          BY <3>5, <4>2, <4>3, <4>4
      <3> QED
        BY <1>1, <2>1, <3>1, <3>2, <3>3, <3>7
    <2>2. CASE \E i \in Unused : content' = [content EXCEPT ![i] = <<written + 1>>]
      <3>1. PICK i \in Inodes : content' = [content EXCEPT ![i] = <<written + 1>>]
        BY <2>2 DEF Unused, PathsInv
      <3>2. PICK s : s = <<written + 1>>
        OBVIOUS
      <3>3. \A p \in 1..Len(s) : p <= s[p] /\ \A q \in 1..Len(s) : p < q => s[p] < s[q]
        BY <3>2 DEF FilesInv
      <3> QED
        BY <1>1, <3>1, <3>2, <3>3
    <2> QED
      BY <1>2, <2>1, <2>2 DEF Write
  <1>3. CASE Copy
    <2>1. slot[Live] \in Inodes /\ slot[1] \in Inodes \cup {None}
      BY <1>3, SizesAssumption DEF Copy, PathsInv, Slots, Live
    <2>2. PICK i \in Inodes : content' = [content EXCEPT ![i] = content[slot[Live]]]
      BY <1>3, <2>1 DEF Copy, Gone, PathsInv
    <2>3. PICK s : s = content[slot[Live]]
      OBVIOUS
    <2>4. \A p \in 1..Len(s) : p <= s[p] /\ \A q \in 1..Len(s) : p < q => s[p] < s[q]
      BY <2>1, <2>3 DEF Sorted
    <2> QED
      BY <1>1, <2>2, <2>3, <2>4
  <1>4. CASE Truncate
    <2>1. PICK i \in Inodes : content' = [content EXCEPT ![i] = <<>>]
      BY <1>4, SizesAssumption DEF Truncate, PathsInv, Slots, Live
    <2>2. PICK s : s = <<>>
      OBVIOUS
    <2>3. \A p \in 1..Len(s) : p <= s[p] /\ \A q \in 1..Len(s) : p < q => s[p] < s[q]
      BY <2>2
    <2> QED
      BY <1>1, <2>1, <2>2, <2>3
  <1>5. CASE UNCHANGED content
    BY <1>5 DEF Sorted
  <1> QED
    BY <1>2, <1>3, <1>4, <1>5 DEF Next, Rotates, StartRotation, Shift, Rename, Scans, StartBaseline,
       Baseline, CommitBaseline, StartScan, Open, BudgetSpent, Enqueue, QueueFull, FileRead,
       Interrupted, Delivered, directory, vars

\* A file has no more lines than were written.
LEMMA FileLength ==
  ASSUME FilesInv, Sorted, NEW i \in Inodes
  PROVE  Len(content[i]) \in Nat /\ Len(content[i]) <= written
  <1>1. Len(content[i]) \in Nat /\ written \in Nat
    BY DEF FilesInv
  <1>2. CASE Len(content[i]) # 0
    <2>1. Len(content[i]) \in 1..Len(content[i])
      BY <1>1, <1>2
    <2>2. content[i][Len(content[i])] \in 1..written
      BY <2>1 DEF FilesInv
    <2>3. Len(content[i]) <= content[i][Len(content[i])]
      BY <2>1 DEF Sorted
    <2> QED
      BY <1>1, <2>2, <2>3
  <1> QED
    BY <1>1, <1>2

\* What the store and the scan have of it; inductive beside CollectInv.
BoundsInv ==
    /\ Sorted /\ written <= MaxLines
    /\ \A c \in Stored : c.offset <= MaxLines
    /\ initialized \in BOOLEAN /\ queued \in 0..Capacity /\ count \in 0..Budget
    /\ pc \in {"idle", "baseline", "commit", "open", "read"} /\ at \in -1..Rotations
    /\ pc = "commit" \/ at \in Slots
    /\ size \in 0..MaxLines /\ offset \in 0..MaxLines
    /\ open \in Inodes \cup {None} /\ (open # None <=> pc = "read")

LEMMA BoundsInit == Init => BoundsInv
  <1> SUFFICES ASSUME Init PROVE BoundsInv
    OBVIOUS
  <1>1. FilesInv
    BY CollectInit DEF CollectInv
  <1>2. PICK older \in {{}, {Second}} :
          /\ written = Cardinality(older) + 1
          /\ content = [i \in Inodes |-> CASE i = First -> <<written>> [] i \in older -> <<1>> [] OTHER -> <<>>]
    BY DEF Init
  <1>3. written \in {1, 2}
    <2>1. Cardinality({}) = 0 /\ Cardinality({Second}) = 1
      BY FS_EmptySet, FS_Singleton
    <2>2. CASE older = {}
      BY <1>2, <2>1, <2>2
    <2>3. CASE older = {Second}
      BY <1>2, <2>1, <2>3
    <2> QED
      BY <1>2, <2>2, <2>3
  <1>4. \A i \in Inodes : content[i] = <<written>> \/ content[i] = <<1>> \/ content[i] = <<>>
    BY <1>2
  <1>5. Sorted
    <2> SUFFICES ASSUME NEW i \in Inodes, NEW p \in 1..Len(content[i])
                 PROVE  p = 1 /\ p <= content[i][p] /\ Len(content[i]) = 1
      BY DEF Sorted
    <2>1. CASE content[i] = <<written>>
      BY <1>3, <2>1
    <2>2. CASE content[i] = <<1>>
      BY <2>2
    <2>3. CASE content[i] = <<>>
      BY <2>3
    <2> QED
      BY <1>4, <2>1, <2>2, <2>3
  <1>6. \A c \in Stored : c.offset <= MaxLines
    BY DEF Init, Stored, NoCursors
  <1>7. /\ written <= MaxLines /\ Live \in Slots /\ Live \in -1..Rotations
        /\ 0 \in 0..MaxLines /\ 0 \in 0..Capacity /\ 0 \in 0..Budget
    BY <1>3, SizesAssumption DEF Slots, Live
  <1>8. /\ initialized = FALSE /\ queued = 0 /\ count = 0 /\ pc = "idle" /\ at = Live
        /\ open = None /\ size = 0 /\ offset = 0
    BY DEF Init
  <1> QED
    BY <1>5, <1>6, <1>7, <1>8 DEF BoundsInv

\* A cursor is one that was there, or stands somewhere in a file.
LEMMA StoredNext ==
  ASSUME CollectInv, [Next]_vars, NEW c \in Stored'
  PROVE  c \in Stored \/ \E i \in Inodes : c.offset \in 0..Len(content[i])
  <1> USE DEF CollectInv
  <1>1. CASE Enqueue
    <2>1. open \in Inodes /\ Len(content[open]) \in Nat
      BY <1>1, FragmentStored
    <2>2. PICK to \in Nat : to <= Len(content[open]) /\ cursors' = [cursors EXCEPT ![open] = Cursor(open, to)]
      BY <1>1, FragmentStored
    <2>3. PICK d : d = Cursor(open, to)
      OBVIOUS
    <2>4. c \in Stored \/ c = d
      BY <1>1, <2>1, <2>2, <2>3 DEF Enqueue, Stored, StoreInv
    <2>5. d.offset = to
      BY <2>3 DEF Cursor
    <2> QED
      BY <2>1, <2>2, <2>4, <2>5
  <1>2. CASE Open
    <2>1. CASE cursors' = cursors
      BY <1>2, <2>1 DEF Open, Stored
    <2>2. CASE slot[at] # None /\ cursors' = [cursors EXCEPT ![slot[at]] = Known(slot[at])]
      <3>1. PICK i \in Inodes : i = slot[at]
        BY <1>2, <2>2 DEF Open, PathsInv
      <3>2. PICK d : d = Known(i)
        OBVIOUS
      <3>3. c \in Stored \/ (c = d /\ d # None)
        BY <1>2, <2>2, <3>1, <3>2 DEF Open, Stored, StoreInv
      <3>4. d # None => d \in Stored
        BY <3>2, KnownIsACursor DEF Stored
      <3> QED
        BY <3>3, <3>4
    <2> QED
      BY <1>2, <2>1, <2>2 DEF Open
  <1>3. CASE Baseline
    <2>1. CASE UNCHANGED gathered
      BY <1>3, <2>1 DEF Baseline, store, Stored
    <2>2. CASE slot[at] # None
               /\ gathered' = [gathered EXCEPT ![slot[at]] = Cursor(slot[at], Len(content[slot[at]]))]
      <3>1. PICK i \in Inodes : i = slot[at]
        BY <1>3, <2>2 DEF Baseline, PathsInv
      <3>2. PICK d : d = Cursor(i, Len(content[i]))
        OBVIOUS
      <3>3. c \in Stored \/ c = d
        BY <1>3, <2>2, <3>1, <3>2 DEF Baseline, store, Stored, StoreInv
      <3>4. d.offset = Len(content[i]) /\ Len(content[i]) \in Nat
        BY <3>2 DEF Cursor, FilesInv
      <3> QED
        BY <3>3, <3>4
    <2> QED
      BY <1>3, <2>1, <2>2 DEF Baseline
  <1>4. CASE ~Enqueue /\ ~Open /\ ~Baseline
    <2>1. cursors' \in {cursors, gathered} /\ gathered' \in {cursors, gathered, NoCursors}
      BY <1>4 DEF Next, Write, StartRotation, Rotates, Shift, Rename, Copy, Truncate, Scans, Interrupted,
         StartBaseline, CommitBaseline, StartScan, BudgetSpent, QueueFull, FileRead,
         Delivered, store, scan, vars
    <2> QED
      BY <2>1 DEF Stored, NoCursors
  <1> QED
    BY <1>1, <1>2, <1>3, <1>4

LEMMA BoundsNext ==
  ASSUME CollectInv, BoundsInv, [Next]_vars
  PROVE  BoundsInv'
  <1>1. CollectInv' /\ FilesStep
    BY CollectNext, FilesNext DEF CollectInv
  <1>2. Sorted'
    BY <1>1, SortedNext DEF CollectInv, BoundsInv
  <1>3. written' <= MaxLines
    <2>1. CASE Write
      BY <2>1, SizesAssumption DEF Write, CollectInv, FilesInv
    <2>2. CASE ~Write
      BY <2>2 DEF BoundsInv, Next, StartRotation, Rotates, Shift, Rename, Copy, Truncate, Scans,
         Interrupted, StartBaseline, Baseline, CommitBaseline, StartScan, Open, BudgetSpent, Enqueue,
         QueueFull, FileRead, Delivered, directory, vars
    <2> QED
      BY <2>1, <2>2
  <1>4. \A i \in Inodes : Len(content[i]) \in 0..MaxLines
    <2>1. written \in Nat /\ written <= MaxLines /\ MaxLines \in Nat
      BY SizesAssumption DEF BoundsInv, CollectInv, FilesInv
    <2> QED
      BY <2>1, FileLength DEF BoundsInv, CollectInv
  <1>5. \A c \in Stored' : c.offset <= MaxLines
    <2> SUFFICES ASSUME NEW c \in Stored' PROVE c.offset <= MaxLines
      OBVIOUS
    <2>1. CASE \E i \in Inodes : c.offset \in 0..Len(content[i])
      BY <1>4, <2>1, SizesAssumption
    <2> QED
      BY <2>1, StoredNext DEF BoundsInv
  <1>6. initialized' \in BOOLEAN /\ queued' \in 0..Capacity /\ count' \in 0..Budget
    <2>1. CASE Enqueue
      BY <2>1, SizesAssumption DEF Enqueue, Unread, Room, BoundsInv
    <2>2. CASE Delivered
      BY <2>2, SizesAssumption DEF Delivered, scan, BoundsInv
    <2>3. CASE ~Enqueue /\ ~Delivered
      <3>1. initialized' \in {initialized, TRUE} /\ queued' = queued /\ count' \in {count, 0}
        BY <2>3 DEF Next, Write, StartRotation, Rotates, Shift, Rename, Copy, Truncate, Scans, Interrupted,
           StartBaseline, Baseline, CommitBaseline, StartScan, Open, BudgetSpent, QueueFull,
           FileRead, store, scan, vars
      <3>2. initialized' \in BOOLEAN
        BY <3>1, Zenon DEF BoundsInv
      <3>3. 0 \in 0..Budget /\ queued \in 0..Capacity /\ count \in 0..Budget
        BY SizesAssumption DEF BoundsInv
      <3> QED
        BY <3>1, <3>2, <3>3
    <2> QED
      BY <2>1, <2>2, <2>3
  <1>7. /\ pc' \in {"idle", "baseline", "commit", "open", "read"} /\ at' \in -1..Rotations
        /\ pc' = "commit" \/ at' \in Slots
        /\ size' \in 0..MaxLines /\ offset' \in 0..MaxLines
        /\ open' \in Inodes \cup {None} /\ (open' # None <=> pc' = "read")
    <2>1. /\ None \notin Inodes /\ Live \in Slots /\ Rotations \in Slots /\ Slots \subseteq -1..Rotations
          /\ 0 \in 0..MaxLines
          /\ \A k \in Slots : k - 1 \in -1..Rotations /\ (k # Live => k - 1 \in Slots)
      BY SizesAssumption DEF Slots, Live
    <2>2. CASE Open
      <3>1. CASE slot[at] = None
        BY <2>1, <2>2, <3>1 DEF Open, NextPath, BoundsInv
      <3>2. CASE slot[at] # None
        <4>1. PICK i \in Inodes : i = slot[at]
          BY <2>2, <3>2 DEF Open, CollectInv, PathsInv
        <4>2. /\ pc' = "read" /\ open' = i /\ size' = Len(content[i]) /\ at' = at
              /\ offset' = IF Known(i) # None /\ Matches(i, Known(i)) THEN Known(i).offset ELSE 0
          BY <2>2, <3>2, <4>1 DEF Open
        <4>3. CASE Known(i) # None /\ Matches(i, Known(i))
          <5>1. Known(i).offset <= Len(content[i]) /\ offset' \in Nat
            BY <1>1, <4>2, <4>3 DEF Matches, CollectInv, ReadInv
          <5>2. offset' \in 0..MaxLines
            <6>1. offset' <= Len(content[i]) /\ Len(content[i]) \in 0..MaxLines
              BY <1>4, <4>2, <4>3, <5>1
            <6> QED
              BY <5>1, <6>1, SizesAssumption
          <5> QED
            BY <1>4, <2>1, <2>2, <4>2, <5>2 DEF Open, BoundsInv
        <4>4. CASE ~(Known(i) # None /\ Matches(i, Known(i)))
          BY <1>4, <2>1, <2>2, <4>2, <4>4 DEF Open, BoundsInv
        <4> QED
          BY <4>3, <4>4
      <3> QED
        BY <3>1, <3>2
    <2>3. CASE Enqueue
      <3>1. PICK to \in Nat : offset' = to /\ to <= Len(content[open]) /\ open \in Inodes
        BY <2>3, FragmentStored DEF CollectInv
      <3>2. offset' \in 0..MaxLines
        <4>1. Len(content[open]) \in 0..MaxLines
          BY <1>4, <3>1
        <4> QED
          BY <3>1, <4>1, SizesAssumption
      <3> QED
        BY <2>3, <3>2 DEF Enqueue, BoundsInv
    <2>4. CASE Baseline
      BY <2>1, <2>4 DEF Baseline, BoundsInv
    <2>5. CASE StartBaseline \/ CommitBaseline \/ StartScan \/ BudgetSpent \/ QueueFull \/ FileRead
               \/ Interrupted
      BY <2>1, <2>5 DEF StartBaseline, CommitBaseline, StartScan, BudgetSpent, QueueFull, FileRead, Interrupted,
         Starts, EndScan, NextPath, BoundsInv
    <2>6. CASE Write \/ StartRotation \/ Rotates \/ Delivered \/ UNCHANGED vars
      <3>1. UNCHANGED scan
        BY <2>6 DEF Write, StartRotation, Rotates, Shift, Rename, Copy, Truncate, Delivered, vars
      <3> QED
        BY <3>1 DEF scan, BoundsInv
    <2> QED
      BY <2>2, <2>3, <2>4, <2>5, <2>6 DEF Next, Scans
  <1> QED
    BY <1>2, <1>3, <1>5, <1>6, <1>7 DEF BoundsInv

LEMMA CursorTypes ==
  ASSUME StoreInv, BoundsInv, written \in Nat, NEW c \in Stored \cup {None}
  PROVE  c \in CursorType
  <1>1. CASE c = None
    BY <1>1 DEF CursorType
  <1>2. CASE c \in Stored
    <2>1. c \in CursorRecord /\ c.anchor <= written /\ c.offset <= MaxLines /\ written <= MaxLines
      BY <1>2 DEF StoreInv, Covered, BoundsInv
    <2>2. c = [offset |-> c.offset, anchor |-> c.anchor] /\ c.offset \in Nat /\ c.anchor \in Nat
      BY <2>1 DEF CursorRecord
    <2>3. c.offset \in 0..MaxLines /\ c.anchor \in 0..MaxLines
      BY <2>1, <2>2, SizesAssumption
    <2> QED
      BY <2>2, <2>3 DEF CursorType, Offsets
  <1> QED
    BY <1>1, <1>2

\* The types of the directory, the store and the scan: the queue and a scan keep to their limits,
\* and a file is open just while one is read (scan_source, enqueue).
THEOREM CollectorTypes == Spec => []TypeOK
  <1>1. CollectInv /\ BoundsInv => TypeOK
    <2> SUFFICES ASSUME CollectInv, BoundsInv PROVE TypeOK
      OBVIOUS
    <2>1. content \in [Inodes -> Seq(1..MaxLines)]
      <3>1. ASSUME NEW i \in Inodes PROVE content[i] \in Seq(1..MaxLines)
        <4>1. content[i] \in Seq(Nat) /\ \A p \in 1..Len(content[i]) : content[i][p] \in 1..MaxLines
          BY SizesAssumption DEF CollectInv, FilesInv, BoundsInv
        <4>2. content[i] \in [1..Len(content[i]) -> 1..MaxLines] /\ Len(content[i]) \in Nat
          BY <4>1
        <4> QED
          BY <4>2, SeqDef
      <3> QED
        BY <3>1 DEF CollectInv, FilesInv
    <2>2. slot \in [Slots -> Inodes \cup {None}] /\ free \subseteq Inodes
          /\ (rotating # None => rotating.to \in Slots)
      BY DEF CollectInv, PathsInv
    <2>3. cursors \in [Inodes -> CursorType] /\ gathered \in [Inodes -> CursorType]
      <3>1. \A i \in Inodes : cursors[i] \in CursorType /\ gathered[i] \in CursorType
        <4>1. \A i \in Inodes : cursors[i] \in Stored \cup {None} /\ gathered[i] \in Stored \cup {None}
          BY DEF Stored
        <4> QED
          BY <4>1, CursorTypes DEF CollectInv, FilesInv
      <3> QED
        BY <3>1 DEF CollectInv, StoreInv
    <2> QED
      BY <2>1, <2>2, <2>3 DEF TypeOK, BoundsInv, Offsets
  <1>2. Init => CollectInv /\ BoundsInv
    BY CollectInit, BoundsInit
  <1>3. CollectInv /\ BoundsInv /\ [Next]_vars => (CollectInv /\ BoundsInv)'
    BY CollectNext, BoundsNext
  <1> QED
    BY <1>1, <1>2, <1>3, PTL DEF Spec

=============================================================================
