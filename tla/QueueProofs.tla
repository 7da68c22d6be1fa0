----------------------------- MODULE QueueProofs -----------------------------
(***************************************************************************)
(* Proofs about Collector: what the queue gets. What was in the files when *)
(* the source was added is never queued, and no line is queued twice or    *)
(* before an older one. In each of them there is a set of lines that must  *)
(* not be read any more, and each file is read behind them: by its own     *)
(* cursor or, for a copy not read yet, by that of a file the scan comes to *)
(* only later.                                                             *)
(***************************************************************************)
EXTENDS CollectorProofs

\* None of the lines S stands behind the first o lines of file i.
NoneOf(S, i, o) == \A k \in 1..Len(content[i]) : k > o => content[i][k] \notin S

\* Cursor c is believed of file i, and behind all its lines of S.
Stands(S, i, c) == c # None /\ Matches(i, c) /\ NoneOf(S, i, c.offset)

\* The cursors, or those that the baseline is about to store.
Current == IF pc = "commit" THEN gathered ELSE cursors

\* The file of path k is read behind its lines of S, or has none.
Settled(S, k) == slot[k] # None => NoneOf(S, slot[k], 0) \/ Stands(S, slot[k], Current[slot[k]])

\* It is a copy, to be recognised by the cursor of a newer file.
Adoptable(S, k) ==
    /\ Current[slot[k]] = None
    /\ \E l \in Slots : l < k /\ slot[l] # None /\ Stands(S, slot[k], Current[slot[l]])

\* The scan has been at path k.
Passed(k) == (pc = "open" /\ k > at) \/ (pc = "read" /\ k >= at)

\* The open file is read behind the lines S, and so is every other.
ReadClear(S) == pc = "read" => NoneOf(S, open, offset) /\ \A l \in Slots : slot[l] = open => l >= at
FilesClear(S) ==
    initialized \/ pc = "commit" =>
      \A k \in Slots : Settled(S, k) \/ (~Passed(k) /\ Adoptable(S, k))

\* The baseline has been at the paths behind at.
BaseClear(S) ==
    pc = "baseline" =>
      /\ rotating = None
      /\ \A i \in free : gathered[i] = None
      /\ \A i \in Inodes : gathered[i] # None => Stands(S, i, gathered[i])
      /\ \A k \in Slots : k > at /\ slot[k] # None => gathered[slot[k]] # None

\* A number names one file, and a rotation makes room before it moves a file up.
NumbersInv ==
    /\ \A k, l \in Slots : slot[k] = slot[l] /\ slot[k] # None => k = l
    /\ \A k \in Slots : slot[k] \notin free
    /\ rotating # None /\ rotating.to \in 1..(Rotations - 1) => slot[rotating.to] = None

StartInv ==
    /\ old \in Nat /\ old <= written
    /\ includes => old = 0
    /\ ~initialized => collected = <<>>
    /\ pc \in {"baseline", "commit"} => ~initialized

-----------------------------------------------------------------------------
(* Paths and numbers.                                                      *)

LEMMA SlotFacts ==
  /\ Live \in Slots /\ 1 \in Slots /\ Rotations \in Slots /\ Live = 0
  /\ \A k \in Slots : k \in Nat /\ k >= Live /\ k <= Rotations
  BY SizesAssumption DEF Slots, Live

LEMMA SlotTypes ==
  ASSUME PathsInv, NEW k \in Slots
  PROVE  slot[k] \in Inodes \cup {None}
  BY DEF PathsInv

\* A file moves up by one path.
LEMMA NumbersMove ==
  ASSUME PathsInv, NumbersInv, NEW to \in Slots, to >= 1, MovesTo(to),
         to = Rotations \/ slot[to] = None
  PROVE  /\ \A k, l \in Slots : slot'[k] = slot'[l] /\ slot'[k] # None => k = l
         /\ \A k \in Slots : slot'[k] \notin free'
         /\ slot'[to - 1] = None
  <1>1. to - 1 \in Slots /\ to - 1 # to
    BY SlotFacts DEF Slots
  <1>2. CASE slot[to - 1] = None
    BY <1>1, <1>2 DEF MovesTo, NumbersInv
  <1>3. CASE slot[to - 1] # None
    <2>1. /\ slot' = [slot EXCEPT ![to] = slot[to - 1], ![to - 1] = None]
          /\ free' = free \cup Gone(slot[to])
      BY <1>3 DEF MovesTo
    <2>2. /\ slot'[to] = slot[to - 1] /\ slot'[to - 1] = None
          /\ \A k \in Slots \ {to, to - 1} : slot'[k] = slot[k]
      BY <1>1, <2>1 DEF PathsInv
    <2>3. \A k \in Slots : slot[k] # None /\ slot[k] = slot[to] => k = to
      BY DEF NumbersInv
    <2>4. \A k \in Slots : slot'[k] \notin free'
      <3> SUFFICES ASSUME NEW k \in Slots PROVE slot'[k] \notin free'
        OBVIOUS
      <3>1. None \notin free'
        BY <2>1, SlotTypes, SizesAssumption DEF PathsInv, Gone
      <3>2. CASE k = to
        BY <1>1, <1>3, <2>1, <2>2, <2>3, <3>2 DEF NumbersInv, Gone
      <3>3. CASE k = to - 1
        BY <2>2, <3>1, <3>3
      <3>4. CASE k \notin {to, to - 1}
        <4>1. slot'[k] = slot[k] /\ slot[k] \notin free
          BY <2>2, <3>4 DEF NumbersInv
        <4>2. slot[k] \notin Gone(slot[to])
          BY <2>3, <3>4 DEF Gone
        <4> QED
          BY <2>1, <4>1, <4>2
      <3> QED
        BY <3>2, <3>3, <3>4
    <2>5. \A k, l \in Slots : slot'[k] = slot'[l] /\ slot'[k] # None => k = l
      BY <1>1, <2>2 DEF NumbersInv
    <2> QED
      BY <2>2, <2>4, <2>5
  <1> QED
    BY <1>2, <1>3

LEMMA NumbersNext ==
  ASSUME PathsInv, NumbersInv, [Next]_vars
  PROVE  NumbersInv'
  <1> USE SlotFacts
  <1>1. CASE Write
    <2>1. rotating' = rotating /\ (rotating # None => rotating.copies)
      BY <1>1 DEF Write
    <2>2. CASE slot[Live] # None /\ UNCHANGED <<slot, free>>
      BY <2>1, <2>2 DEF NumbersInv
    <2>3. CASE \E i \in Unused : slot' = [slot EXCEPT ![Live] = i] /\ free' = free \ {i}
      <3>1. PICK i \in Unused : slot' = [slot EXCEPT ![Live] = i] /\ free' = free \ {i}
        BY <2>3
      <3>2. i \in free /\ \A k \in Slots : slot[k] # i
        BY <3>1 DEF Unused, NumbersInv
      <3>3. slot'[Live] = i /\ \A k \in Slots \ {Live} : slot'[k] = slot[k]
        BY <3>1 DEF PathsInv
      <3>4. rotating # None /\ rotating.to \in 1..(Rotations - 1) =>
              rotating.to \in Slots \ {Live}
        BY DEF PathsInv, Slots
      <3> QED
        BY <2>1, <3>1, <3>2, <3>3, <3>4 DEF NumbersInv
    <2> QED
      BY <1>1, <2>2, <2>3 DEF Write
  <1>2. CASE StartRotation
    <2>1. UNCHANGED <<slot, free>> /\ rotating'.to = Rotations
      BY <1>2 DEF StartRotation
    <2>2. Rotations \notin 1..(Rotations - 1)
      BY SizesAssumption
    <2> QED
      BY <2>1, <2>2 DEF NumbersInv
  <1>3. CASE Shift
    <2>1. rotating \in [copies : BOOLEAN, to : Slots] /\ rotating.to > 1
      BY <1>3 DEF Shift, PathsInv
    <2>2. rotating' = [rotating EXCEPT !.to = @ - 1] /\ MovesTo(rotating.to)
      BY <1>3 DEF Shift
    <2>3. rotating.to = Rotations \/ slot[rotating.to] = None
      BY <1>3, <2>1 DEF NumbersInv, Shift
    <2>4. rotating'.to = rotating.to - 1
      BY <2>1, <2>2
    <2> QED
      BY <2>1, <2>2, <2>3, <2>4, NumbersMove DEF NumbersInv
  <1>4. CASE Rename
    <2>1. MovesTo(1) /\ rotating' = None /\ rotating # None /\ rotating.to = 1
      BY <1>4 DEF Rename
    <2>2. 1 = Rotations \/ slot[1] = None
      BY <2>1, SizesAssumption DEF NumbersInv
    <2> QED
      BY <2>1, <2>2, NumbersMove DEF NumbersInv
  <1>5. CASE Copy
    <2>1. PICK i \in (free \cup Gone(slot[1])) \ Gone(open) :
            /\ slot' = [slot EXCEPT ![1] = i]
            /\ free' = (free \cup Gone(slot[1])) \ {i}
      BY <1>5 DEF Copy
    <2>2. rotating' = [rotating EXCEPT !.to = 0] /\ rotating \in [copies : BOOLEAN, to : Slots]
      BY <1>5 DEF Copy, PathsInv
    <2>3. slot'[1] = i /\ \A k \in Slots \ {1} : slot'[k] = slot[k]
      BY <2>1 DEF PathsInv
    <2>4. \A k \in Slots \ {1} : slot[k] # i /\ slot[k] \notin free \cup Gone(slot[1])
      BY <2>1, SizesAssumption DEF NumbersInv, Gone, PathsInv
    <2>5. rotating'.to = 0
      BY <2>2
    <2> QED
      BY <2>1, <2>3, <2>4, <2>5 DEF NumbersInv
  <1>6. CASE Truncate
    BY <1>6 DEF Truncate, NumbersInv
  <1>7. CASE Scans \/ Interrupted \/ Delivered \/ UNCHANGED vars
    <2>1. UNCHANGED <<slot, free, rotating>>
      BY <1>7 DEF Scans, StartBaseline, Baseline, CommitBaseline, StartScan, Open, BudgetSpent,
           Enqueue, QueueFull, FileRead, Interrupted, Delivered, directory, vars
    <2> QED
      BY <2>1 DEF NumbersInv
  <1> QED
    BY <1>1, <1>2, <1>3, <1>4, <1>5, <1>6, <1>7 DEF Next, Rotates

LEMMA StartNext ==
  ASSUME FilesInv, FilesStep, StoreInv, StartInv, [Next]_vars
  PROVE  StartInv'
  <1>1. written \in Nat /\ written' \in Nat /\ written <= written'
    BY DEF FilesInv, FilesStep
  <1>2. CASE Write \/ StartRotation \/ Rotates \/ Delivered \/ UNCHANGED vars
    BY <1>1, <1>2 DEF Write, StartRotation, Rotates, Shift, Rename, Copy, Truncate, Delivered,
         store, scan, vars, StartInv
  <1>3. CASE StartBaseline
    BY <1>1, <1>3 DEF StartBaseline, Starts, store, StartInv
  <1>4. CASE Baseline \/ BudgetSpent \/ QueueFull \/ FileRead \/ Interrupted
    BY <1>1, <1>4 DEF Baseline, BudgetSpent, QueueFull, FileRead, Interrupted, EndScan, NextPath,
         store, directory, StartInv
  <1>5. CASE CommitBaseline \/ StartScan \/ Open
    BY <1>1, <1>5 DEF CommitBaseline, StartScan, Open, EndScan, Starts, NextPath, directory,
         StartInv, StoreInv
  <1>6. CASE Enqueue
    BY <1>1, <1>6 DEF Enqueue, directory, StartInv, StoreInv
  <1> QED
    BY <1>2, <1>3, <1>4, <1>5, <1>6 DEF Next, Scans
-----------------------------------------------------------------------------
(* What stands behind those lines goes on to, when a file grows.           *)

\* File i is what it was, with new lines at most.
Extends(S, i) ==
    /\ Len(content[i]) <= Len(content'[i])
    /\ \A k \in 1..Len(content[i]) : content'[i][k] = content[i][k]
    /\ \A k \in 1..Len(content'[i]) : k > Len(content[i]) => content'[i][k] \notin S

LEMMA ExtendsKeeps ==
  ASSUME FilesInv, FilesInv', NEW S, NEW i \in Inodes, Extends(S, i)
  PROVE  /\ \A o : NoneOf(S, i, o) => NoneOf(S, i, o)'
         /\ \A c \in CursorRecord : Stands(S, i, c) => Stands(S, i, c)'
  <1>1. Len(content[i]) \in Nat /\ Len(content'[i]) \in Nat
    BY DEF FilesInv
  <1>2. ASSUME NEW o, NoneOf(S, i, o) PROVE NoneOf(S, i, o)'
    BY <1>1, <1>2 DEF Extends, NoneOf
  <1>3. ASSUME NEW c \in CursorRecord, Matches(i, c) PROVE Matches(i, c)'
    <2>1. c.offset \in Nat /\ c.offset <= Len(content[i]) /\ c = Cursor(i, c.offset)
      BY <1>3 DEF Matches, CursorRecord
    <2>2. c.offset # 0 => content'[i][c.offset] = content[i][c.offset]
      BY <1>1, <2>1 DEF Extends
    <2>3. Cursor(i, c.offset)' = Cursor(i, c.offset)
      BY <2>2 DEF Cursor
    <2>4. c.offset <= Len(content'[i])
      BY <1>1, <2>1 DEF Extends
    <2> QED
      BY <2>1, <2>3, <2>4 DEF Matches
  <1> QED
    BY <1>2, <1>3 DEF Stands

\* Files that are left alone.
LEMMA ContentKeeps ==
  ASSUME NEW S, NEW i \in Inodes, content'[i] = content[i]
  PROVE  /\ \A o : NoneOf(S, i, o)' <=> NoneOf(S, i, o)
         /\ \A c : Stands(S, i, c)' <=> Stands(S, i, c)
  BY DEF NoneOf, Stands, Matches, Cursor

LEMMA CurrentTypes ==
  ASSUME StoreInv, NEW i \in Inodes
  PROVE  Current[i] \in CursorRecord \cup {None}
  BY DEF Current, StoreInv

\* What is known before a step, and of the state after it.
ClearStep(S) ==
    /\ CollectInv /\ CollectInv' /\ NumbersInv /\ NumbersInv' /\ StartInv /\ StartInv'
    /\ odd \subseteq odd' /\ odd' \cap {"copied", "reused"} = {}
    /\ S \subseteq 1..written
    /\ ReadClear(S) /\ FilesClear(S)

ClearGoal(S) == ReadClear(S) /\ FilesClear(S)

LEMMA ClearWrite ==
  ASSUME NEW S, ClearStep(S), Write
  PROVE  ClearGoal(S)' /\ (BaseClear(S) => BaseClear(S)')
  <1> USE SlotFacts DEF ClearStep, CollectInv
  <1>1. /\ UNCHANGED <<rotating, cursors, initialized, pc, at, open, offset, gathered>>
        /\ written' = written + 1
    BY DEF Write, store, scan
  <1>2. written \in Nat /\ written + 1 \notin S
    BY DEF FilesInv
  <1>3. Current' = Current /\ \A k : Passed(k)' = Passed(k)
    BY <1>1 DEF Current, Passed
  <1>4. UNCHANGED <<pc, at, open, offset>>
    BY <1>1
  \* Only a number that was free gets a file that is not the one it had.
  <1>5. PICK fresh \in SUBSET free :
          /\ \A i \in Inodes \ fresh : Extends(S, i)
          /\ \A i \in fresh : i # open /\ slot[Live] = None /\ slot'[Live] = i /\ NoneOf(S, i, 0)'
          /\ \A k \in Slots \ {Live} : slot'[k] = slot[k]
          /\ slot'[Live] \in {slot[Live]} \cup fresh
          /\ free' = free \ fresh
    <2>1. ASSUME slot[Live] # None, UNCHANGED <<slot, free>>,
                 content' = [content EXCEPT ![slot[Live]] = Append(@, written + 1)]
          PROVE  \A i \in Inodes : Extends(S, i)
      <3>1. slot[Live] \in Inodes
        BY <2>1, SlotTypes
      <3>2. PICK j \in Inodes : content' = [content EXCEPT ![j] = Append(content[j], written + 1)]
        BY <2>1, <3>1
      <3>3. /\ content[j] \in Seq(Nat) /\ content'[j] = Append(content[j], written + 1)
            /\ \A i \in Inodes \ {j} : content'[i] = content[i]
        BY <3>2 DEF FilesInv
      <3>4. /\ Len(content[j]) \in Nat /\ Len(content'[j]) = Len(content[j]) + 1
            /\ content'[j][Len(content[j]) + 1] = written + 1
            /\ \A k \in 1..Len(content[j]) : content'[j][k] = content[j][k]
        BY <1>2, <3>3
      <3>5. Extends(S, j)
        BY <1>2, <3>4 DEF Extends
      <3>6. ASSUME NEW i \in Inodes \ {j} PROVE Extends(S, i)
        <4>1. Len(content[i]) \in Nat
          BY DEF FilesInv
        <4> QED
          BY <3>3, <4>1 DEF Extends
      <3> QED
        BY <3>5, <3>6
    <2>2. ASSUME NEW i \in Unused, slot[Live] = None, content' = [content EXCEPT ![i] = <<written + 1>>],
                 slot' = [slot EXCEPT ![Live] = i], free' = free \ {i}
          PROVE  /\ \A j \in Inodes \ {i} : Extends(S, j)
                 /\ i \in free /\ i # open /\ slot'[Live] = i /\ NoneOf(S, i, 0)'
                 /\ \A k \in Slots \ {Live} : slot'[k] = slot[k]
      <3>1. i \in free /\ i \in Inodes /\ (open # None => i # open)
        BY DEF Unused, PathsInv, Gone
      <3>2. i # open
        BY <3>1, SizesAssumption
      <3>3. content'[i] = <<written + 1>> /\ \A j \in Inodes \ {i} : content'[j] = content[j]
        BY <2>2, <3>1 DEF FilesInv
      <3>4. NoneOf(S, i, 0)'
        BY <1>1, <1>2, <3>3 DEF NoneOf
      <3>5. ASSUME NEW j \in Inodes \ {i} PROVE Extends(S, j)
        <4>1. Len(content[j]) \in Nat
          BY DEF FilesInv
        <4> QED
          BY <3>3, <4>1 DEF Extends
      <3> QED
        BY <2>2, <3>1, <3>2, <3>4, <3>5 DEF PathsInv
    <2>3. CASE slot[Live] # None /\ UNCHANGED <<slot, free>>
               /\ content' = [content EXCEPT ![slot[Live]] = Append(@, written + 1)]
      <3>1. \A i \in Inodes \ {} : Extends(S, i)
        BY <2>1, <2>3
      <3> QED
        BY <2>3, <3>1
    <2>4. CASE slot[Live] = None /\ \E i \in Unused :
               /\ content' = [content EXCEPT ![i] = <<written + 1>>]
               /\ slot' = [slot EXCEPT ![Live] = i]
               /\ free' = free \ {i}
      <3>1. PICK i \in Unused : /\ content' = [content EXCEPT ![i] = <<written + 1>>]
                                /\ slot' = [slot EXCEPT ![Live] = i]
                                /\ free' = free \ {i}
        BY <2>4
      <3>2. {i} \in SUBSET free
        BY DEF Unused
      <3> QED
        BY <2>2, <2>4, <3>1, <3>2
    <2> QED
      BY <2>3, <2>4 DEF Write
  <1>6. \A i \in Inodes \ fresh :
          /\ \A o : NoneOf(S, i, o) => NoneOf(S, i, o)'
          /\ \A c \in CursorRecord : Stands(S, i, c) => Stands(S, i, c)'
    BY <1>1, <1>5, ExtendsKeeps
  \* A path whose file was there has it still.
  <1>7. ASSUME NEW k \in Slots, slot'[k] # None, slot'[k] \notin fresh
        PROVE  slot'[k] = slot[k] /\ slot[k] \in Inodes \ fresh
    <2>1. slot'[k] = slot[k]
      BY <1>5, <1>7
    <2>2. slot[k] \in Inodes \cup {None}
      BY SlotTypes
    <2> QED
      BY <1>7, <2>1, <2>2
  <1>8. ASSUME NEW k \in Slots, slot[k] # None
        PROVE  slot'[k] = slot[k] /\ slot[k] \in Inodes \ fresh
    <2>1. slot[k] \notin fresh
      BY <1>5 DEF NumbersInv
    <2> QED
      BY <1>5, <1>8, <2>1, SlotTypes
  <1>9. ReadClear(S)'
    <2>1. ASSUME pc = "read"
          PROVE  NoneOf(S, open, offset)' /\ \A l \in Slots : slot'[l] = open => l >= at
      <3>1. open \in Inodes \ fresh
        BY <1>5, <2>1 DEF PathsInv
      <3>2. NoneOf(S, open, offset)' 
        <4>1. NoneOf(S, open, offset)
          BY <2>1 DEF ReadClear
        <4>2. PICK i, o : i \in Inodes \ fresh /\ i = open /\ o = offset
          BY <3>1
        <4>3. NoneOf(S, i, o)'
          BY <1>6, <4>1, <4>2
        <4> QED
          BY <1>1, <4>2, <4>3 DEF NoneOf
      <3>3. ASSUME NEW l \in Slots, slot'[l] = open PROVE l >= at
        <4>1. slot[l] = open
          BY <1>7, <3>1, <3>3, SizesAssumption
        <4> QED
          BY <2>1, <4>1 DEF ReadClear
      <3> QED
        BY <3>2, <3>3
    <2> QED
      BY <1>1, <1>4, <2>1 DEF ReadClear
  <1>10. BaseClear(S) => BaseClear(S)'
    <2> SUFFICES ASSUME BaseClear(S), pc = "baseline" PROVE BaseClear(S)'
      BY <1>1 DEF BaseClear
    <2>1. ASSUME NEW i \in Inodes, gathered[i] # None PROVE Stands(S, i, gathered[i])'
      <3>1. i \in Inodes \ fresh /\ gathered[i] \in CursorRecord /\ Stands(S, i, gathered[i])
        BY <1>5, <2>1 DEF BaseClear, StoreInv
      <3>2. PICK c \in CursorRecord : c = gathered[i]
        BY <3>1
      <3>3. Stands(S, i, c)'
        BY <1>6, <3>1, <3>2
      <3> QED
        BY <1>1, <3>2, <3>3
    <2>2. ASSUME NEW k \in Slots, k > at, slot'[k] # None PROVE gathered[slot'[k]] # None
      <3>1. k # Live
        <4>1. at \in Slots
          BY DEF PathsInv
        <4>2. at \in Nat /\ k \in Nat /\ Live = 0
          BY <4>1
        <4> QED
          BY <2>2, <4>2
      <3>2. slot'[k] = slot[k]
        BY <1>5, <3>1
      <3> QED
        BY <2>2, <3>2 DEF BaseClear
    <2>3. rotating' = None /\ \A i \in free' : gathered'[i] = None
      BY <1>1, <1>5 DEF BaseClear
    <2>4. \A i \in Inodes : gathered'[i] # None => Stands(S, i, gathered[i])'
      BY <1>1, <2>1
    <2>5. \A k \in Slots : k > at' /\ slot'[k] # None => gathered'[slot'[k]] # None
      BY <1>1, <2>2
    <2> QED
      BY <2>3, <2>4, <2>5 DEF BaseClear
  <1>11. FilesClear(S)'
    <2> SUFFICES ASSUME initialized \/ pc = "commit", NEW k \in Slots, slot'[k] # None
                 PROVE  Settled(S, k)' \/ (~Passed(k) /\ Adoptable(S, k)')
      BY <1>1, <1>3 DEF FilesClear, Settled
    <2>1. CASE slot'[k] \in fresh
      BY <1>5, <2>1 DEF Settled
    <2>2. CASE slot'[k] \notin fresh
      <3>1. slot'[k] = slot[k] /\ slot[k] \in Inodes \ fresh /\ Current[slot[k]] \in CursorRecord \cup {None}
        BY <1>7, <2>2, CurrentTypes
      <3>2. PICK i \in Inodes \ fresh : i = slot[k]
        BY <3>1
      <3>3. CASE Settled(S, k)
        <4>1. NoneOf(S, i, 0) \/ Stands(S, i, Current[i])
          BY <3>1, <3>2, <3>3 DEF Settled
        <4>2. Stands(S, i, Current[i]) => Current[i] \in CursorRecord
          BY <3>1, <3>2 DEF Stands
        <4>3. PICK c : c = Current[i]
          OBVIOUS
        <4>4. NoneOf(S, i, 0)' \/ Stands(S, i, c)'
          BY <1>6, <4>1, <4>2, <4>3
        <4> QED
          BY <1>3, <3>1, <3>2, <4>3, <4>4 DEF Settled
      <3>4. CASE ~Passed(k) /\ Adoptable(S, k)
        <4>1. PICK l \in Slots : l < k /\ slot[l] # None /\ Stands(S, i, Current[slot[l]])
          BY <3>2, <3>4 DEF Adoptable
        <4>2. slot'[l] = slot[l] /\ slot[l] \in Inodes
          BY <1>8, <4>1
        <4>3. PICK c : c = Current[slot[l]]
          OBVIOUS
        <4>4. c \in CursorRecord
          BY <4>1, <4>2, <4>3, CurrentTypes DEF Stands
        <4>5. Stands(S, i, c)'
          BY <1>6, <4>1, <4>3, <4>4
        <4>6. Current[slot[k]] = None
          BY <3>4 DEF Adoptable
        <4> QED
          BY <1>3, <3>1, <3>2, <3>4, <4>1, <4>2, <4>3, <4>5, <4>6 DEF Adoptable
      <3> QED
        BY <2>2, <3>1, <3>3, <3>4 DEF FilesClear
    <2> QED
      BY <2>1, <2>2
  <1> QED
    BY <1>9, <1>10, <1>11 DEF ClearGoal

-----------------------------------------------------------------------------
(* A rotation.                                                             *)

\* A file takes with it what it is read by, and what others are read by.
LEMMA ClearMoves ==
  ASSUME NEW S, ClearStep(S), NEW to \in Slots, to >= 1, MovesTo(to), to = Rotations \/ slot[to] = None,
         UNCHANGED <<content, cursors, initialized, scan>>,
         slot[to - 1] # None /\ pc \in {"open", "read"} => Settled(S, to - 1)
  PROVE  ReadClear(S)' /\ FilesClear(S)'
  <1> USE SlotFacts DEF ClearStep, CollectInv
  <1>1. to \in Nat /\ to - 1 \in Slots /\ to - 1 # to
    BY DEF Slots
  <1>2. /\ Current' = Current
        /\ \A k : Passed(k)' = Passed(k)
        /\ \A i, c : Stands(S, i, c)' = Stands(S, i, c)
        /\ \A i : NoneOf(S, i, 0)' = NoneOf(S, i, 0)
    BY DEF scan, Current, Passed, Stands, NoneOf, Matches, Cursor
  <1>3. CASE slot[to - 1] = None
    <2>1. slot' = slot
      BY <1>3 DEF MovesTo
    <2>2. ReadClear(S)'
      BY <2>1 DEF ReadClear, NoneOf, scan
    <2>3. FilesClear(S)'
      <3>1. \A k : Settled(S, k)' = Settled(S, k) /\ Adoptable(S, k)' = Adoptable(S, k)
        BY <1>2, <2>1 DEF Settled, Adoptable
      <3> QED
        BY <1>2, <3>1 DEF FilesClear, scan
    <2> QED
      BY <2>2, <2>3
  <1>4. CASE slot[to - 1] # None
    <2>1. /\ slot'[to] = slot[to - 1] /\ slot'[to - 1] = None
          /\ \A k \in Slots \ {to, to - 1} : slot'[k] = slot[k]
      BY <1>1, <1>4 DEF MovesTo, PathsInv
    <2>2. ReadClear(S)'
      <3>1. ASSUME pc = "read", NEW l \in Slots, slot'[l] = open PROVE l >= at
        <4>1. open \in Inodes /\ at \in Nat /\ l \in Nat
          BY <3>1 DEF PathsInv
        <4>2. CASE l = to
          <5>1. to - 1 >= at
            BY <1>1, <2>1, <3>1, <4>2 DEF ReadClear
          <5> QED
            BY <1>1, <4>1, <4>2, <5>1
        <4>3. CASE l = to - 1
          BY <2>1, <3>1, <4>1, <4>3, SizesAssumption
        <4>4. CASE l \notin {to, to - 1}
          BY <2>1, <3>1, <4>4 DEF ReadClear
        <4> QED
          BY <4>2, <4>3, <4>4
      <3>2. UNCHANGED <<pc, at, open, offset>>
        BY DEF scan
      <3>3. pc = "read" => NoneOf(S, open, offset)'
        BY <3>2 DEF ReadClear, NoneOf
      <3> QED
        BY <1>2, <3>1, <3>2, <3>3 DEF ReadClear
    <2>3. FilesClear(S)'
      <3> SUFFICES ASSUME initialized \/ pc = "commit", NEW k \in Slots, slot'[k] # None
                   PROVE  Settled(S, k)' \/ (~Passed(k) /\ Adoptable(S, k)')
        BY <1>2 DEF FilesClear, Settled, scan
      <3>1. k \in Nat /\ k # to - 1
        BY <2>1
      <3>2. CASE k = to
        <4>1. CASE Settled(S, to - 1)
          BY <1>2, <2>1, <3>2, <4>1 DEF Settled
        <4>2. CASE ~Settled(S, to - 1)
          <5>1. pc \notin {"open", "read"} /\ Adoptable(S, to - 1)
            BY <1>1, <1>4, <4>2 DEF FilesClear
          <5>2. PICK l \in Slots : l < to - 1 /\ slot[l] # None /\ Stands(S, slot[to - 1], Current[slot[l]])
            BY <5>1 DEF Adoptable
          <5>3. l < to /\ l \notin {to, to - 1}
            <6>1. l \in Nat /\ l < to - 1
              BY <5>2
            <6> QED
              BY <1>1, <6>1
          <5>4. slot'[l] = slot[l]
            BY <2>1, <5>3
          <5>5. Adoptable(S, k)'
            BY <1>2, <2>1, <3>2, <5>1, <5>2, <5>3, <5>4 DEF Adoptable
          <5>6. ~Passed(k)
            BY <5>1 DEF Passed
          <5> QED
            BY <5>5, <5>6
        <4> QED
          BY <4>1, <4>2
      <3>3. CASE k # to
        <4>1. slot'[k] = slot[k]
          BY <2>1, <3>1, <3>3
        <4>2. CASE Settled(S, k)
          BY <1>2, <4>1, <4>2 DEF Settled
        <4>3. CASE ~Passed(k) /\ Adoptable(S, k)
          <5>1. PICK l \in Slots : l < k /\ slot[l] # None /\ Stands(S, slot[k], Current[slot[l]])
            BY <4>3 DEF Adoptable
          <5>2. l # to
            BY <3>1, <5>1
          <5>3. PICK m \in Slots : m < k /\ slot'[m] = slot[l]
            <6>1. CASE l = to - 1
              <7>1. to < k
                BY <1>1, <3>1, <3>3, <5>1, <6>1
              <7> QED
                BY <2>1, <6>1, <7>1
            <6>2. CASE l # to - 1
              BY <2>1, <5>1, <5>2, <6>2
            <6> QED
              BY <6>1, <6>2
          <5>4. Current[slot[k]] = None
            BY <4>3 DEF Adoptable
          <5>5. Adoptable(S, k)'
            BY <1>2, <4>1, <5>1, <5>3, <5>4 DEF Adoptable
          <5> QED
            BY <4>3, <5>5
        <4> QED
          BY <4>2, <4>3 DEF FilesClear
      <3> QED
        BY <3>2, <3>3
    <2> QED
      BY <2>2, <2>3
  <1> QED
    BY <1>3, <1>4

\* The live file is nobody's copy.
LEMMA LiveSettled ==
  ASSUME NEW S, FilesClear(S), initialized \/ pc = "commit"
  PROVE  Settled(S, Live)
  <1>1. Settled(S, Live) \/ Adoptable(S, Live)
    BY SlotFacts DEF FilesClear
  <1>2. \A l \in Slots : ~(l < Live)
    BY SlotFacts
  <1> QED
    BY <1>1, <1>2 DEF Adoptable

LEMMA ClearRotates ==
  ASSUME NEW S, ClearStep(S), StartRotation \/ Shift \/ Rename
  PROVE  ClearGoal(S)'
  <1> USE SlotFacts DEF ClearStep, CollectInv
  <1>1. UNCHANGED <<content, cursors, initialized, scan>>
    BY DEF StartRotation, Shift, Rename, store
  <1>2. ReadClear(S)' /\ FilesClear(S)'
    <2>1. CASE StartRotation
      <3>1. slot' = slot
        BY <2>1 DEF StartRotation
      <3> QED
        BY <1>1, <3>1 DEF ReadClear, FilesClear, Settled, Adoptable, Passed, Current, NoneOf,
             Stands, Matches, Cursor, scan
    <2>2. CASE Shift
      <3>1. PICK to \in Slots : to = rotating.to /\ to > 1 /\ MovesTo(to)
        BY <2>2 DEF Shift, PathsInv
      <3> to \in Nat /\ to <= Rotations /\ to > 1
        BY <3>1
      <3>2. rotating # None
        BY <2>2 DEF Shift
      <3>3. to = Rotations \/ slot[to] = None
        <4>1. to \in 1..(Rotations - 1) \/ to = Rotations
          BY SizesAssumption
        <4> QED
          BY <3>1, <3>2, <4>1 DEF NumbersInv
      <3>4. to - 1 \in Slots
        BY DEF Slots
      <3>5. ASSUME slot[to - 1] # None, pc \in {"open", "read"} PROVE Settled(S, to - 1)
        <4>1. cursors[slot[to - 1]] # None
          <5>1. ~("copied" \in odd')
            OBVIOUS
          <5> QED
            BY <2>2, <3>1, <3>5, <5>1 DEF Shift, Remember, Unknown
        <4>2. Current = cursors
          BY <3>5 DEF Current
        <4>3. initialized
          BY <3>5 DEF StoreInv
        <4> QED
          BY <3>4, <4>1, <4>2, <4>3 DEF FilesClear, Adoptable
      <3>6. to >= 1
        OBVIOUS
      <3> QED
        BY <1>1, <3>1, <3>3, <3>5, <3>6, ClearMoves
    <2>3. CASE Rename
      <3>1. MovesTo(1) /\ rotating # None /\ rotating.to = 1
        BY <2>3 DEF Rename
      <3>2. 1 = Rotations \/ slot[1] = None
        BY <3>1 DEF NumbersInv
      <3>3. PICK to \in Slots : to = 1
        OBVIOUS
      <3>4. to - 1 = Live /\ to >= 1
        BY <3>3
      <3>5. pc \in {"open", "read"} => Settled(S, Live)
        BY LiveSettled DEF StoreInv
      <3>6. MovesTo(to) /\ (to = Rotations \/ slot[to] = None)
            /\ (slot[to - 1] # None /\ pc \in {"open", "read"} => Settled(S, to - 1))
        BY <3>1, <3>2, <3>3, <3>4, <3>5
      <3> QED
        BY <1>1, <3>4, <3>6, ClearMoves
    <2> QED
      BY <2>1, <2>2, <2>3
  <1> QED
    BY <1>2 DEF ClearGoal

\* The copy is read by what its original is read by.
LEMMA ClearCopy ==
  ASSUME NEW S, ClearStep(S), Copy
  PROVE  ClearGoal(S)'
  <1> USE SlotFacts DEF ClearStep, CollectInv
  <1>1. /\ UNCHANGED <<cursors, initialized, pc, gathered>>
        /\ rotating # None /\ rotating.to = 1 /\ rotating.copies
    BY DEF Copy, store, scan
  <1>2. PICK i \in (free \cup Gone(slot[1])) \ Gone(open) :
          /\ content' = [content EXCEPT ![i] = content[slot[Live]]]
          /\ slot' = [slot EXCEPT ![1] = i]
          /\ Remember((IF {cursors[i], gathered[i]} # {None} THEN {"reused"} ELSE {})
                      \cup (IF pc \in {"open", "read"} THEN {"copied"} ELSE {}))
    BY DEF Copy
  <1>3. pc \notin {"open", "read"} /\ cursors[i] = None /\ gathered[i] = None
    <2>1. ~("copied" \in odd') /\ ~("reused" \in odd')
      OBVIOUS
    <2> QED
      BY <1>2, <2>1 DEF Remember
  <1>5. i \in Inodes /\ slot[Live] \in Inodes /\ i # slot[Live]
    <2>1. slot[Live] # None
      BY <1>1 DEF PathsInv
    <2>2. slot[Live] \in Inodes /\ slot[1] \in Inodes \cup {None}
      BY <2>1, SlotTypes
    <2>3. slot[Live] # slot[1] /\ slot[Live] \notin free
      BY <2>1 DEF NumbersInv
    <2>4. i \in Inodes
      BY <1>2, <2>2 DEF Gone, PathsInv
    <2> QED
      BY <1>2, <2>2, <2>3, <2>4 DEF Gone
  <1>6. /\ slot'[1] = i /\ \A k \in Slots \ {1} : slot'[k] = slot[k]
        /\ content'[i] = content[slot[Live]] /\ \A j \in Inodes \ {i} : content'[j] = content[j]
    BY <1>2, <1>5 DEF PathsInv, FilesInv
  <1>7. \A k \in Slots \ {1} : slot[k] # i
    BY <1>5, <1>6, SizesAssumption DEF NumbersInv
  <1>8. Current' = Current /\ Current[i] = None /\ \A k : ~Passed(k) /\ ~Passed(k)'
    BY <1>1, <1>3 DEF Current, Passed
  <1>9. /\ NoneOf(S, i, 0)' <=> NoneOf(S, slot[Live], 0)
        /\ \A c : Stands(S, i, c)' <=> Stands(S, slot[Live], c)
    BY <1>1, <1>6 DEF NoneOf, Stands, Matches, Cursor
  <1>10. \A j \in Inodes \ {i} :
           /\ NoneOf(S, j, 0)' <=> NoneOf(S, j, 0)
           /\ \A c : Stands(S, j, c)' <=> Stands(S, j, c)
    BY <1>1, <1>6, ContentKeeps
  <1>11. ReadClear(S)'
    BY <1>1, <1>3 DEF ReadClear
  <1>12. FilesClear(S)'
    <2> SUFFICES ASSUME initialized \/ pc = "commit", NEW k \in Slots, slot'[k] # None
                 PROVE  Settled(S, k)' \/ Adoptable(S, k)'
      BY <1>1, <1>8 DEF FilesClear, Settled
    <2>1. CASE k = 1
      <3>1. NoneOf(S, slot[Live], 0) \/ Stands(S, slot[Live], Current[slot[Live]])
        BY <1>5, LiveSettled, SizesAssumption DEF Settled
      <3>2. CASE NoneOf(S, slot[Live], 0)
        BY <1>6, <1>9, <2>1, <3>2 DEF Settled
      <3>3. CASE Stands(S, slot[Live], Current[slot[Live]])
        <4>1. slot'[Live] = slot[Live] /\ Live < 1
          BY <1>6
        <4>2. PICK c : c = Current[slot[Live]] /\ Stands(S, i, c)'
          BY <1>9, <3>3
        <4>3. slot'[Live] # None /\ Current'[slot'[1]] = None
          BY <1>5, <1>6, <1>8, <4>1, SizesAssumption
        <4>4. c = Current'[slot'[Live]] /\ i = slot'[1]
          BY <1>6, <1>8, <4>1, <4>2
        <4> QED
          BY <2>1, <4>1, <4>2, <4>3, <4>4 DEF Adoptable
      <3> QED
        BY <3>1, <3>2, <3>3
    <2>2. CASE k # 1
      <3>1. slot'[k] = slot[k] /\ slot[k] \in Inodes \ {i}
        BY <1>6, <1>7, <2>2, SlotTypes
      <3>2. CASE Settled(S, k)
        BY <1>8, <1>10, <3>1, <3>2 DEF Settled
      <3>3. CASE Adoptable(S, k)
        <4>1. PICK l \in Slots : l < k /\ slot[l] # None /\ Stands(S, slot[k], Current[slot[l]])
          BY <3>3 DEF Adoptable
        <4>2. l # 1
          <5>1. k \in Nat /\ k <= Rotations
            OBVIOUS
          <5>2. l = 1 => 1 \in 1..(Rotations - 1)
            BY <4>1, <5>1, SizesAssumption
          <5> QED
            BY <1>1, <4>1, <5>2 DEF NumbersInv
        <4>3. slot'[l] = slot[l]
          BY <1>6, <4>2
        <4>4. Current[slot[k]] = None
          BY <3>3 DEF Adoptable
        <4> QED
          BY <1>8, <1>10, <3>1, <4>1, <4>3, <4>4 DEF Adoptable
      <3> QED
        BY <3>2, <3>3 DEF FilesClear
    <2> QED
      BY <2>1, <2>2
  <1> QED
    BY <1>11, <1>12 DEF ClearGoal

\* An empty file holds no lines.
LEMMA ClearTruncate ==
  ASSUME NEW S, ClearStep(S), Truncate
  PROVE  ClearGoal(S)'
  <1> USE SlotFacts DEF ClearStep, CollectInv
  <1>1. /\ UNCHANGED <<slot, cursors, initialized, pc, at, open, offset, gathered>>
        /\ rotating # None /\ content' = [content EXCEPT ![slot[Live]] = <<>>]
    BY DEF Truncate, store, scan
  <1>2. slot[Live] \in Inodes
    <2>1. slot[Live] # None
      BY DEF Truncate, PathsInv
    <2> QED
      BY <2>1, SlotTypes
  <1>3. content'[slot[Live]] = <<>> /\ \A j \in Inodes \ {slot[Live]} : content'[j] = content[j]
    BY <1>1, <1>2 DEF FilesInv
  <1>4. \A o : NoneOf(S, slot[Live], o)'
    BY <1>1, <1>3 DEF NoneOf
  <1>5. \A j \in Inodes \ {slot[Live]} :
          /\ \A o : NoneOf(S, j, o)' <=> NoneOf(S, j, o)
          /\ \A c : Stands(S, j, c)' <=> Stands(S, j, c)
    BY <1>1, <1>3, ContentKeeps
  <1>6. Current' = Current /\ \A k : Passed(k)' = Passed(k)
    BY <1>1 DEF Current, Passed
  <1>7. ReadClear(S)'
    <2>1. ASSUME pc = "read" PROVE NoneOf(S, open, offset)'
      <3>1. open \in Inodes /\ NoneOf(S, open, offset)
        BY <2>1 DEF PathsInv, ReadClear
      <3>2. PICK i, o : i \in Inodes /\ i = open /\ o = offset
        BY <3>1
      <3>3. NoneOf(S, i, o)'
        BY <1>1, <1>3, <1>5, <3>1, <3>2 DEF NoneOf
      <3> QED
        BY <1>1, <3>2, <3>3 DEF NoneOf
    <2> QED
      BY <1>1, <2>1 DEF ReadClear
  <1>9. FilesClear(S)'
    <2> SUFFICES ASSUME initialized \/ pc = "commit", NEW k \in Slots, slot[k] # None
                 PROVE  Settled(S, k)' \/ (~Passed(k) /\ Adoptable(S, k)')
      BY <1>1, <1>6 DEF FilesClear, Settled
    <2>1. CASE k = Live
      BY <1>1, <1>4, <2>1 DEF Settled
    <2>2. CASE k # Live
      <3>1. slot[k] \in Inodes \ {slot[Live]}
        BY <2>2, SlotTypes DEF NumbersInv
      <3>2. CASE Settled(S, k)
        BY <1>1, <1>5, <1>6, <3>1, <3>2 DEF Settled
      <3>3. CASE ~Passed(k) /\ Adoptable(S, k)
        BY <1>1, <1>5, <1>6, <3>1, <3>3 DEF Adoptable
      <3> QED
        BY <3>2, <3>3 DEF FilesClear
    <2> QED
      BY <2>1, <2>2
  <1> QED
    BY <1>7, <1>9 DEF ClearGoal

-----------------------------------------------------------------------------
(* A scan.                                                                 *)

\* Nothing is read, and the scan goes on to another path, if at all.
LEMMA ClearRests ==
  ASSUME NEW S, ClearStep(S), UNCHANGED <<content, slot, initialized>>, Current' = Current,
         pc' \in {"idle", "open"},
         initialized \/ pc = "commit",
         \A k \in Slots : Passed(k)' => Passed(k) \/ slot[k] = None
  PROVE  ClearGoal(S)'
  <1> USE DEF ClearStep
  <1>1. /\ \A i, o : NoneOf(S, i, o)' = NoneOf(S, i, o)
        /\ \A i, c : Stands(S, i, c)' = Stands(S, i, c)
    BY DEF NoneOf, Stands, Matches, Cursor
  <1>2. ReadClear(S)'
    BY DEF ReadClear
  <1>3. \A k : Settled(S, k)' = Settled(S, k) /\ Adoptable(S, k)' = Adoptable(S, k)
    BY <1>1 DEF Settled, Adoptable
  <1>4. \A k \in Slots : slot[k] = None => Settled(S, k)
    BY DEF Settled
  <1>5. FilesClear(S)'
    BY <1>3, <1>4 DEF FilesClear
  <1> QED
    BY <1>2, <1>5 DEF ClearGoal

LEMMA ClearScans ==
  ASSUME NEW S, ClearStep(S),
         CommitBaseline \/ StartScan \/ BudgetSpent \/ QueueFull \/ FileRead \/ Interrupted,
         StartScan /\ ~initialized => S = {}
  PROVE  ClearGoal(S)'
  <1> USE SlotFacts DEF ClearStep, CollectInv
  <1>1. /\ UNCHANGED <<content, slot>>
        /\ pc' \in {"idle", "open"}
    BY DEF CommitBaseline, StartScan, BudgetSpent, QueueFull, FileRead, Interrupted,
       EndScan, Starts, NextPath, directory
  <1>2. CASE CommitBaseline
    <2>1. /\ pc = "commit" /\ pc' = "idle" /\ cursors' = gathered /\ initialized'
      BY <1>2 DEF CommitBaseline, EndScan
    <2>2. Current' = Current /\ \A k : ~Passed(k) /\ ~Passed(k)'
      BY <2>1 DEF Current, Passed
    <2>3. /\ \A i, o : NoneOf(S, i, o)' = NoneOf(S, i, o)
          /\ \A i, c : Stands(S, i, c)' = Stands(S, i, c)
      BY <1>1 DEF NoneOf, Stands, Matches, Cursor
    <2>4. \A k : Settled(S, k)' = Settled(S, k) /\ Adoptable(S, k)' = Adoptable(S, k)
      BY <1>1, <2>2, <2>3 DEF Settled, Adoptable
    <2>5. FilesClear(S)'
      BY <2>1, <2>2, <2>4 DEF FilesClear
    <2> QED
      BY <1>1, <2>1, <2>5 DEF ClearGoal, ReadClear
  <1>3. CASE StartScan /\ initialized
    <2>1. /\ pc = "idle" /\ pc' = "open" /\ at' = Rotations /\ cursors' = cursors /\ initialized'
      BY <1>3 DEF StartScan, Starts
    <2>2. Current' = Current /\ \A k \in Slots : ~Passed(k)'
      BY <2>1 DEF Current, Passed
    <2> QED
      BY <1>1, <1>3, <2>1, <2>2, ClearRests
  <1>4. CASE StartScan /\ ~initialized
    <2>1. S = {} /\ pc' = "open"
      BY <1>4 DEF StartScan, Starts
    <2>2. \A i \in Inodes : NoneOf(S, i, 0)'
      BY <2>1 DEF NoneOf
    <2>3. \A k \in Slots : slot'[k] \in Inodes \cup {None}
      BY DEF PathsInv
    <2>4. FilesClear(S)'
      BY <1>1, <2>2, <2>3 DEF FilesClear, Settled
    <2> QED
      BY <1>1, <2>1, <2>4 DEF ClearGoal, ReadClear
  <1>5. CASE BudgetSpent \/ QueueFull \/ FileRead
    <2>1. /\ UNCHANGED <<cursors, initialized>> /\ pc \in {"open", "read"} /\ initialized
          /\ at \in Slots
      BY <1>5 DEF BudgetSpent, QueueFull, FileRead, store, StoreInv, PathsInv
    <2>2. Current' = Current
      BY <1>1, <2>1 DEF Current
    <2>3. pc' = "idle" \/ (pc = "read" /\ pc' = "open" /\ at' = at - 1)
      BY <1>5 DEF BudgetSpent, QueueFull, FileRead, EndScan, NextPath
    <2>4. ASSUME NEW k \in Slots, Passed(k)' PROVE Passed(k)
      <3>1. pc = "read" /\ k > at - 1 /\ at \in Nat /\ k \in Nat
        BY <2>1, <2>3, <2>4 DEF Passed
      <3> QED
        BY <3>1 DEF Passed
    <2> QED
      BY <1>1, <2>1, <2>2, <2>4, ClearRests
  <1>6. CASE Interrupted
    <2>1. UNCHANGED <<cursors, initialized>> /\ pc' = "idle"
      BY <1>6 DEF Interrupted, store, EndScan
    <2>2. CASE initialized
      <3>1. pc # "commit"
        BY <2>2 DEF StartInv
      <3>2. Current' = Current /\ \A k \in Slots : ~Passed(k)'
        BY <2>1, <3>1 DEF Current, Passed
      <3> QED
        BY <1>1, <2>1, <2>2, <3>2, ClearRests
    <2>3. CASE ~initialized
      BY <1>1, <2>1, <2>3 DEF ClearGoal, ReadClear, FilesClear
    <2> QED
      BY <2>2, <2>3
  <1> QED
    BY <1>2, <1>3, <1>4, <1>5, <1>6

\* Of the cursors that a copy may be known by, one reads furthest.
LEMMA FurthestCursor ==
  ASSUME StoreInv, FilesInv, NEW i \in Inodes, cursors[i] = None,
         NEW r \in Inodes, cursors[r] # None, cursors[r].offset > 0, Matches(i, cursors[r])
  PROVE  /\ Known(i) \in CursorRecord /\ Known(i) # None /\ Matches(i, Known(i))
         /\ cursors[r].offset <= Known(i).offset
  <1>1. r \in Copied(i)
    BY DEF Copied
  <1>2. Known(i) = Furthest(i)
    BY <1>1 DEF Known
  <1>3. \A q \in Copied(i) : /\ q \in Inodes /\ cursors[q] # None /\ Matches(i, cursors[q])
                             /\ cursors[q] \in CursorRecord
                             /\ cursors[q].offset \in 0..Len(content[i])
    BY DEF Copied, Matches, StoreInv, Stored, Covered, CursorRecord
  <1> DEFINE offsets == {cursors[q].offset : q \in Copied(i)}
  <1>4. Len(content[i]) \in Nat /\ offsets \subseteq 0..Len(content[i]) /\ offsets # {}
    BY <1>1, <1>3 DEF FilesInv
  <1>5. \E m \in offsets : \A n \in offsets : n <= m
    BY <1>4, LargestOne
  <1>6. \E c \in {cursors[q] : q \in Copied(i)} : \A q \in Copied(i) : cursors[q].offset <= c.offset
    BY <1>5
  <1>7. /\ Furthest(i) \in {cursors[q] : q \in Copied(i)}
        /\ \A q \in Copied(i) : cursors[q].offset <= Furthest(i).offset
    BY <1>6 DEF Furthest
  <1> QED
    BY <1>1, <1>2, <1>3, <1>7

LEMMA ClearOpen ==
  ASSUME NEW S, ClearStep(S), Open
  PROVE  ClearGoal(S)'
  <1> USE SlotFacts DEF ClearStep, CollectInv
  <1>1. /\ UNCHANGED <<content, slot, initialized, collected, gathered>>
        /\ pc = "open" /\ initialized /\ at \in Slots /\ at \in Nat
    BY DEF Open, directory, StoreInv, PathsInv
  <1>2. Current = cursors
    BY <1>1 DEF Current
  <1>3. CASE slot[at] = None
    <2>1. cursors' = cursors /\ (pc' = "idle" \/ (pc' = "open" /\ at' = at - 1))
      BY <1>3 DEF Open, NextPath
    <2>2. Current' = Current
      BY <1>2, <2>1 DEF Current
    <2>3. ASSUME NEW k \in Slots, Passed(k)' PROVE Passed(k) \/ slot[k] = None
      <3>1. k \in Nat /\ k > at - 1
        BY <2>1, <2>3 DEF Passed
      <3>2. k = at \/ k > at
        BY <1>1, <3>1
      <3> QED
        BY <1>1, <1>3, <3>2 DEF Passed
    <2> QED
      BY <1>1, <2>1, <2>2, <2>3, ClearRests
  <1>4. CASE slot[at] # None
    <2>1. PICK i \in Inodes : i = slot[at]
      BY <1>1, <1>4, SlotTypes
    <2>2. /\ cursors' = [cursors EXCEPT ![i] = Known(i)] /\ open' = i /\ at' = at /\ pc' = "read"
          /\ offset' = IF Known(i) # None /\ Matches(i, Known(i)) THEN Known(i).offset ELSE 0
      BY <1>4, <2>1 DEF Open
    <2>3. PICK c : c = Known(i)
      OBVIOUS
    <2>4. c \in CursorRecord \cup {None}
      <3>1. cursors' \in [Inodes -> CursorRecord \cup {None}]
        BY DEF StoreInv
      <3>2. cursors'[i] = Known(i)
        BY <2>2 DEF StoreInv
      <3> QED
        BY <2>3, <3>1, <3>2
    <2>5. /\ cursors'[i] = c /\ \A j \in Inodes \ {i} : cursors'[j] = cursors[j]
          /\ cursors[i] # None => cursors'[i] = cursors[i]
      BY <2>2, <2>3 DEF StoreInv, Known
    <2>6. /\ \A j, o : NoneOf(S, j, o)' = NoneOf(S, j, o)
          /\ \A j, d : Stands(S, j, d)' = Stands(S, j, d)
      BY <1>1 DEF NoneOf, Stands, Matches, Cursor
    <2>7. Current' = cursors'
      BY <2>2 DEF Current
    <2>8. \A k \in Slots : slot[k] = i => k = at
      BY <1>1, <1>4, <2>1 DEF NumbersInv
    \* A file of new lines may be read from anywhere.
    <2>9. offset' \in Nat
      BY <2>2 DEF ReadInv
    <2>10. NoneOf(S, i, 0) => NoneOf(S, i, offset')
      BY <2>9 DEF NoneOf
    <2>11. NoneOf(S, i, 0) \/ Stands(S, i, c)
      <3>1. ~Passed(at)
        BY <1>1 DEF Passed
      <3>2. CASE Settled(S, at)
        BY <1>2, <1>4, <2>1, <2>3, <3>2 DEF Settled, Stands, Known
      <3>3. CASE Adoptable(S, at)
        <4>1. PICK l \in Slots : l < at /\ slot[l] # None /\ Stands(S, i, cursors[slot[l]])
          BY <1>2, <2>1, <3>3 DEF Adoptable
        <4>2. PICK r \in Inodes : r = slot[l]
          BY <4>1, SlotTypes
        <4>3. cursors[i] = None
          BY <1>2, <2>1, <3>3 DEF Adoptable
        <4>4. cursors[r] # None /\ cursors[r] \in CursorRecord
              /\ Matches(i, cursors[r]) /\ NoneOf(S, i, cursors[r].offset)
          BY <4>1, <4>2 DEF Stands, StoreInv
        <4>5. cursors[r].offset \in Nat
          BY <4>4 DEF CursorRecord
        <4>6. CASE cursors[r].offset = 0
          BY <4>4, <4>6
        <4>7. CASE cursors[r].offset # 0
          <5>1. cursors[r].offset > 0
            BY <4>5, <4>7
          <5>2. /\ c \in CursorRecord /\ c # None /\ Matches(i, c)
                /\ cursors[r].offset <= c.offset
            BY <2>3, <4>3, <4>4, <5>1, FurthestCursor
          <5>3. NoneOf(S, i, c.offset)
            BY <4>4, <4>5, <5>2 DEF NoneOf, CursorRecord
          <5> QED
            BY <5>2, <5>3 DEF Stands
        <4> QED
          BY <4>6, <4>7
      <3> QED
        BY <1>1, <3>1, <3>2, <3>3 DEF FilesClear
    <2>12. ReadClear(S)'
      <3>1. NoneOf(S, i, offset')
        <4>1. CASE NoneOf(S, i, 0)
          BY <2>10, <4>1
        <4>2. CASE Stands(S, i, c)
          BY <2>2, <2>3, <4>2 DEF Stands
        <4> QED
          BY <2>11, <4>1, <4>2
      <3>2. NoneOf(S, open, offset)'
        BY <1>1, <2>2, <3>1 DEF NoneOf
      <3>3. \A l \in Slots : slot'[l] = open' => l >= at'
        BY <1>1, <2>2, <2>8
      <3> QED
        BY <1>1, <3>2, <3>3 DEF ReadClear
    <2>14. FilesClear(S)'
      <3> SUFFICES ASSUME NEW k \in Slots, slot[k] # None
                   PROVE  Settled(S, k)' \/ (~Passed(k)' /\ Adoptable(S, k)')
        BY <1>1 DEF FilesClear, Settled
      <3>1. CASE k = at
        BY <1>1, <2>1, <2>5, <2>6, <2>7, <2>11, <3>1 DEF Settled
      <3>2. CASE k # at
        <4>1. slot[k] \in Inodes \ {i}
          BY <2>8, <3>2, SlotTypes
        <4>2. CASE Settled(S, k)
          BY <1>1, <1>2, <2>5, <2>6, <2>7, <4>1, <4>2 DEF Settled
        <4>3. CASE ~Passed(k) /\ Adoptable(S, k)
          <5>1. PICK l \in Slots : l < k /\ slot[l] # None /\ Stands(S, slot[k], cursors[slot[l]])
            BY <1>2, <4>3 DEF Adoptable
          <5>2. cursors'[slot[l]] = cursors[slot[l]]
            <6>1. slot[l] \in Inodes /\ cursors[slot[l]] # None
              BY <5>1, SlotTypes DEF Stands
            <6> QED
              BY <2>5, <6>1
          <5>3. Adoptable(S, k)'
            <6>1. cursors[slot[k]] = None
              BY <1>2, <4>3 DEF Adoptable
            <6> QED
              BY <1>1, <2>5, <2>6, <2>7, <4>1, <5>1, <5>2, <6>1 DEF Adoptable
          <5>4. ~Passed(k)'
            <6>1. k \in Nat /\ ~(k > at)
              BY <1>1, <4>3 DEF Passed
            <6> QED
              BY <1>1, <2>2, <3>2, <6>1 DEF Passed
          <5> QED
            BY <5>3, <5>4
        <4> QED
          BY <1>1, <4>2, <4>3 DEF FilesClear
      <3> QED
        BY <3>1, <3>2
    <2> QED
      BY <2>12, <2>14 DEF ClearGoal
  <1> QED
    BY <1>3, <1>4

\* A fragment is queued: the lines that must not be read any more were S and are T now, which
\* has, of files other than the open one, lines of S only, unless their cursors are behind it.
LEMMA ClearEnqueue ==
  ASSUME NEW S, NEW T, ClearStep(S), Enqueue,
         \A k \in 1..Len(content[open]) : k > offset' => content[open][k] \notin T,
         \A k \in Slots : slot[k] \notin {None, open} =>
           \/ Settled(T, k)
           \/ \A p \in 1..Len(content[slot[k]]) : content[slot[k]][p] \in T => content[slot[k]][p] \in S
  PROVE  ClearGoal(T)'
  <1> USE SlotFacts DEF ClearStep, CollectInv
  <1>1. /\ UNCHANGED <<content, slot, initialized, pc, at, open, gathered>>
        /\ pc = "read" /\ initialized /\ open \in Inodes /\ at \in Slots
        /\ content[open] \in Seq(Nat) /\ Len(content[open]) \in Nat /\ offset \in Nat
    BY FragmentStored DEF Enqueue, directory, StoreInv, PathsInv
  <1>2. PICK to \in Nat :
          /\ offset < to /\ to <= Len(content[open])
          /\ offset' = to
          /\ cursors' = [cursors EXCEPT ![open] = Cursor(open, to)]
    BY FragmentStored
  <1>3. /\ \A j, o : NoneOf(T, j, o)' = NoneOf(T, j, o)
        /\ \A j, d : Stands(T, j, d)' = Stands(T, j, d)
    BY <1>1 DEF NoneOf, Stands, Matches, Cursor
  <1>4. NoneOf(T, open, to)
    BY <1>2 DEF NoneOf
  <1>5. PICK c : c = Cursor(open, to)
    OBVIOUS
  <1>6. cursors'[open] = c /\ \A j \in Inodes \ {open} : cursors'[j] = cursors[j]
    BY <1>1, <1>2, <1>5 DEF StoreInv
  <1>7. Stands(T, open, c)
    <2>1. c.offset = to
      BY <1>5 DEF Cursor
    <2>2. c \in CursorRecord
      <3>1. content[open][to] \in Nat
        BY <1>1, <1>2
      <3>2. \/ c = [offset |-> to, anchor |-> 0]
            \/ c = [offset |-> to, anchor |-> content[open][to]]
        BY <1>5 DEF Cursor
      <3> QED
        BY <1>2, <3>1, <3>2 DEF CursorRecord
    <2> QED
      BY <1>2, <1>4, <1>5, <2>1, <2>2, SizesAssumption DEF Stands, Matches, CursorRecord
  <1>8. Current = cursors /\ Current' = cursors' /\ \A k : Passed(k)' = Passed(k)
    BY <1>1 DEF Current, Passed
  <1>9. ReadClear(T)'
    <2>1. NoneOf(T, open, offset)'
      BY <1>1, <1>2, <1>4 DEF NoneOf
    <2> QED
      BY <1>1, <2>1 DEF ReadClear
  <1>10. FilesClear(T)'
    <2> SUFFICES ASSUME NEW k \in Slots, slot[k] # None
                 PROVE  Settled(T, k)' \/ (~Passed(k) /\ Adoptable(T, k)')
      BY <1>1, <1>8 DEF FilesClear, Settled
    <2>1. CASE slot[k] = open
      BY <1>1, <1>3, <1>6, <1>7, <1>8, <2>1 DEF Settled
    <2>2. CASE slot[k] # open
      <3>1. slot[k] \in Inodes \ {open}
        BY <2>2, SlotTypes
      <3>2. CASE Settled(T, k)
        BY <1>1, <1>3, <1>6, <1>8, <3>1, <3>2 DEF Settled
      <3>3. ASSUME \A p \in 1..Len(content[slot[k]]) :
                     content[slot[k]][p] \in T => content[slot[k]][p] \in S
            PROVE  Settled(T, k)' \/ (~Passed(k) /\ Adoptable(T, k)')
        <4>1. /\ \A o : NoneOf(S, slot[k], o) => NoneOf(T, slot[k], o)
              /\ \A d : Stands(S, slot[k], d) => Stands(T, slot[k], d)
          BY <3>3 DEF NoneOf, Stands
        <4>2. CASE Settled(S, k)
          BY <1>1, <1>3, <1>6, <1>8, <3>1, <4>1, <4>2 DEF Settled
        <4>3. CASE ~Passed(k) /\ Adoptable(S, k)
          <5>1. PICK l \in Slots : l < k /\ slot[l] # None /\ Stands(S, slot[k], cursors[slot[l]])
            BY <1>8, <4>3 DEF Adoptable
          <5>2. slot[l] # open
            <6>1. l \in Nat /\ k \in Nat /\ at \in Nat /\ k < at
              BY <1>1, <4>3 DEF Passed
            <6>2. slot[l] = open => l >= at
              BY <1>1 DEF ReadClear
            <6> QED
              BY <5>1, <6>1, <6>2
          <5>3. cursors'[slot[l]] = cursors[slot[l]]
            BY <1>6, <5>1, <5>2, SlotTypes
          <5>4. cursors'[slot[k]] = None
            BY <1>6, <1>8, <3>1, <4>3 DEF Adoptable
          <5>5. Stands(T, slot[k], cursors[slot[l]])
            BY <4>1, <5>1
          <5> QED
            BY <1>1, <1>3, <1>8, <4>3, <5>1, <5>3, <5>4, <5>5 DEF Adoptable
        <4> QED
          BY <1>1, <4>2, <4>3 DEF FilesClear
      <3> QED
        BY <2>2, <3>2, <3>3
    <2> QED
      BY <2>1, <2>2
  <1> QED
    BY <1>9, <1>10 DEF ClearGoal

\* Nothing that matters here happens.
LEMMA ClearStays ==
  ASSUME NEW S, ClearStep(S), Delivered \/ UNCHANGED vars
  PROVE  ClearGoal(S)'
  <1>1. UNCHANGED <<content, slot, cursors, initialized, gathered, scan>>
    BY DEF Delivered, directory, vars, store, scan
  <1> QED
    BY <1>1 DEF ClearStep, ClearGoal, ReadClear, FilesClear, Settled, Adoptable, Passed, Current,
         NoneOf, Stands, Matches, Cursor, scan

\* Where no line is forbidden, every file is read behind those that are.
LEMMA ClearNothing ==
  ASSUME NEW S, S = {}, pc' # "read"
  PROVE  ClearGoal(S)'
  BY DEF ClearGoal, ReadClear, FilesClear, Settled, NoneOf

\* Every step but a fragment, and a baseline that forbids lines.
LEMMA ClearKeeps ==
  ASSUME NEW S, ClearStep(S), [Next]_vars, ~Enqueue,
         StartBaseline \/ Baseline \/ (StartScan /\ ~initialized) => S = {}
  PROVE  ClearGoal(S)'
  <1>1. CASE StartBaseline \/ Baseline
    <2>1. pc' # "read"
      BY <1>1 DEF StartBaseline, Baseline, Starts
    <2> QED
      BY <1>1, <2>1, ClearNothing
  <1> QED
    BY <1>1, ClearWrite, ClearRotates, ClearCopy, ClearTruncate, ClearScans, ClearOpen, ClearStays
    DEF Next, Rotates, Scans

-----------------------------------------------------------------------------
(* The baseline.                                                           *)

LEMMA BaseStart ==
  ASSUME NEW S, StoreInv', PathsInv', StoreInv, StartBaseline, "uprooted" \notin odd'
  PROVE  BaseClear(S)'
  <1>1. /\ gathered' = cursors /\ cursors = NoCursors /\ at' = Rotations
        /\ UNCHANGED <<rotating, free>>
    BY DEF StartBaseline, Starts, directory, StoreInv
  <1>2. rotating = None
    BY DEF StartBaseline, Remember, Overlap
  <1>3. \A i \in Inodes : gathered'[i] = None
    BY <1>1 DEF NoCursors
  <1>4. \A k \in Slots : ~(k > at')
    BY <1>1, SlotFacts
  <1> QED
    BY <1>1, <1>2, <1>3, <1>4 DEF BaseClear, PathsInv

LEMMA BaseNext ==
  ASSUME NEW S, ClearStep(S), BaseClear(S), Baseline
  PROVE  ClearGoal(S)' /\ BaseClear(S)'
  <1> USE SlotFacts DEF ClearStep, CollectInv
  <1>1. /\ UNCHANGED <<content, slot, free, rotating, cursors, initialized>>
        /\ pc = "baseline" /\ ~initialized /\ at' = at - 1
        /\ pc' = IF at = Live THEN "commit" ELSE "baseline"
        /\ at \in Slots
    BY DEF Baseline, directory, store, StartInv, PathsInv
  <1>2. /\ \A i, o : NoneOf(S, i, o)' = NoneOf(S, i, o)
        /\ \A i, c : Stands(S, i, c)' = Stands(S, i, c)
    BY <1>1 DEF NoneOf, Stands, Matches, Cursor
  \* The file of this path has a cursor now.
  <1>3. /\ \A i \in Inodes : gathered[i] # None => gathered'[i] = gathered[i]
        /\ \A i \in Inodes : gathered'[i] # None => Stands(S, i, gathered'[i])
        /\ \A i \in free : gathered'[i] = None
        /\ slot[at] # None => gathered'[slot[at]] # None
    <2>1. CASE UNCHANGED gathered /\ (slot[at] # None => gathered[slot[at]] # None)
      BY <1>1, <2>1 DEF BaseClear
    <2>2. CASE slot[at] # None /\ gathered[slot[at]] = None
               /\ gathered' = [gathered EXCEPT ![slot[at]] = Cursor(slot[at], Len(content[slot[at]]))]
      <3>1. slot[at] \in Inodes /\ slot[at] \notin free
        BY <1>1, <2>2, SlotTypes DEF NumbersInv
      <3>2. PICK i, c : i \in Inodes /\ i = slot[at] /\ c = Cursor(i, Len(content[i]))
        BY <3>1
      <3>3. Len(content[i]) \in Nat /\ c.offset = Len(content[i])
        BY <3>2 DEF FilesInv, Cursor
      <3>4. c # None
        <4>1. gathered' \in [Inodes -> CursorRecord \cup {None}]
          BY DEF StoreInv
        <4>2. Covered(c)'
          <5>1. \A k \in 1..Len(content[i]) : content[i][k] \in (Read \cup left)'
            <6>1. left' = left \cup Lines(content[i])
              BY <2>2, <3>2 DEF Baseline
            <6>2. DOMAIN content[i] = 1..Len(content[i])
              BY DEF FilesInv
            <6> QED
              BY <6>1, <6>2 DEF Lines
          <5>2. Len(content[i]) \in 0..Len(content[i]) /\ UNCHANGED <<content, written>>
            BY <3>3 DEF Baseline, directory
          <5> QED
            BY <3>2, <5>1, <5>2, CoveredHere
        <4>3. c = [offset |-> c.offset, anchor |-> c.anchor]
          BY <4>2 DEF Covered, CursorRecord
        <4> QED
          BY <4>2, <4>3, SizesAssumption DEF Covered, CursorRecord
      <3>5. Stands(S, i, c)
        BY <3>2, <3>3, <3>4 DEF Stands, Matches, NoneOf
      <3>6. gathered' = [gathered EXCEPT ![i] = c]
        BY <2>2, <3>2
      <3> QED
        BY <1>1, <2>2, <3>1, <3>2, <3>4, <3>5, <3>6 DEF BaseClear, StoreInv
    <2> QED
      BY <2>1, <2>2 DEF Baseline
  <1>4. \A k \in Slots : k > at - 1 /\ slot[k] # None => gathered'[slot[k]] # None
    <2> SUFFICES ASSUME NEW k \in Slots, k > at - 1, slot[k] # None PROVE gathered'[slot[k]] # None
      OBVIOUS
    <2>1. k \in Nat /\ at \in Nat /\ (k = at \/ k > at)
      BY <1>1
    <2>2. slot[k] \in Inodes
      BY SlotTypes
    <2> QED
      BY <1>1, <1>3, <2>1, <2>2 DEF BaseClear
  <1>5. ReadClear(S)'
    BY <1>1 DEF ReadClear
  <1>6. BaseClear(S)'
    BY <1>1, <1>2, <1>3, <1>4 DEF BaseClear
  <1>7. FilesClear(S)'
    <2>1. ASSUME pc' = "commit", NEW k \in Slots, slot[k] # None PROVE Settled(S, k)'
      <3>1. k > at - 1
        BY <1>1, <2>1
      <3>2. slot[k] \in Inodes /\ gathered'[slot[k]] # None
        BY <1>4, <2>1, <3>1, SlotTypes
      <3>3. Current' = gathered'
        BY <2>1 DEF Current
      <3> QED
        BY <1>1, <1>2, <1>3, <3>2, <3>3 DEF Settled
    <2> QED
      BY <1>1, <2>1 DEF FilesClear, Settled
  <1> QED
    BY <1>5, <1>6, <1>7 DEF ClearGoal

\* The baseline, as long as no rotation passes it.
LEMMA BaseKeeps ==
  ASSUME NEW S, ClearStep(S), BaseClear(S), [Next]_vars, "uprooted" \notin odd', ~StartBaseline
  PROVE  BaseClear(S)'
  <1> USE DEF ClearStep, CollectInv
  <1>1. CASE StartRotation \/ Rotates
    <2>1. pc' = pc
      BY <1>1 DEF StartRotation, Rotates, Shift, Rename, Copy, Truncate, scan
    <2>2. CASE StartRotation
      BY <2>1, <2>2 DEF StartRotation, Remember, Overlap, BaseClear
    <2>3. CASE Rotates
      BY <2>1, <2>3 DEF Rotates, Shift, Rename, Copy, Truncate, BaseClear
    <2> QED
      BY <1>1, <2>2, <2>3
  <1>2. CASE CommitBaseline \/ StartScan \/ Open \/ BudgetSpent \/ Enqueue \/ QueueFull \/ FileRead
             \/ Interrupted
    <2>1. pc' # "baseline"
      BY <1>2 DEF CommitBaseline, StartScan, Open, BudgetSpent, Enqueue, QueueFull, FileRead,
           Interrupted, EndScan, Starts, NextPath
    <2> QED
      BY <2>1 DEF BaseClear
  <1>3. CASE Delivered \/ UNCHANGED vars
    <2>1. UNCHANGED <<content, slot, free, rotating, gathered, scan>>
      BY <1>3 DEF Delivered, directory, scan, vars
    <2> QED
      BY <2>1 DEF BaseClear, Stands, NoneOf, Matches, Cursor, scan
  <1> QED
    BY <1>1, <1>2, <1>3, ClearWrite, BaseNext DEF Next, Scans

-----------------------------------------------------------------------------
(* The old lines.                                                          *)

\* What the property makes an exception for.
Strange == odd \cap {"uprooted", "copied", "reused"} # {}

OldLines == 1..old

\* Inductive, beside CollectInv.
OldInv ==
    /\ NumbersInv /\ StartInv
    /\ ~Strange => Read \cap OldLines = {} /\ ClearGoal(OldLines) /\ BaseClear(OldLines)

LEMMA OldInit == Init => OldInv
  <1> SUFFICES ASSUME Init PROVE OldInv
    OBVIOUS
  <1>1. CollectInv
    BY CollectInit
  <1>2. PICK older \in {{}, {Second}} :
          /\ slot = [k \in Slots |-> IF k = Live THEN First ELSE IF k = 1 /\ older # {} THEN Second ELSE None]
          /\ free = Inodes \ ({First} \cup older)
    BY DEF Init
  <1>3. First # None /\ Second # First
    BY TwoFiles, SizesAssumption
  <1>4. NumbersInv
    <2>1. rotating = None
      BY DEF Init
    <2>2. \A k \in Slots : \/ k = Live /\ slot[k] = First
                           \/ k = 1 /\ older = {Second} /\ slot[k] = Second
                           \/ slot[k] = None
      BY <1>2
    <2>3. \A k \in Slots : slot[k] \notin free
      BY <1>2, <2>2, SizesAssumption
    <2> QED
      BY <1>3, <2>1, <2>2, <2>3 DEF NumbersInv
  <1>5. StartInv
    BY <1>1 DEF Init, StartInv, CollectInv, FilesInv
  <1>6. Read = {} /\ ClearGoal(OldLines) /\ BaseClear(OldLines)
    BY DEF Init, ClearGoal, ReadClear, BaseClear, FilesClear, Read, Lines
  <1> QED
    BY <1>4, <1>5, <1>6 DEF OldInv

\* What a step adds to the lines that were queued.
LEMMA ReadNext ==
  ASSUME FilesInv, PathsInv, StoreInv, ReadInv, [Next]_vars
  PROVE  IF Enqueue THEN \A n \in Read' : n \in Read \/ \E k \in 1..Len(content[open]) :
                                                          k > offset /\ n = content[open][k]
                    ELSE collected' = collected /\ Read' = Read
  <1>1. CASE Enqueue
    <2>1. PICK to \in Nat : /\ to <= Len(content[open])
                            /\ Read' = Read \cup {content[open][k] : k \in (offset + 1)..to}
      BY <1>1, FragmentStored
    <2>2. offset \in Nat /\ Len(content[open]) \in Nat
      BY <1>1, FragmentStored
    <2>3. \A k \in (offset + 1)..to : k \in 1..Len(content[open]) /\ k > offset
      BY <2>1, <2>2
    <2> QED
      BY <1>1, <2>1, <2>3
  <1>2. CASE ~Enqueue
    <2>1. collected' = collected
      BY <1>2 DEF Next, Write, StartRotation, Rotates, Shift, Rename, Copy, Truncate, Scans, Interrupted,
           StartBaseline, Baseline, CommitBaseline, StartScan, Open, BudgetSpent, QueueFull, FileRead,
           Delivered, vars
    <2> QED
      BY <1>2, <2>1 DEF Read, Lines
  <1> QED
    BY <1>1, <1>2

LEMMA OldNext == CollectInv /\ OldInv /\ [Next]_vars => OldInv'
  <1> SUFFICES ASSUME CollectInv, OldInv, [Next]_vars PROVE OldInv'
    OBVIOUS
  <1>1. FilesStep /\ odd \subseteq odd' /\ CollectInv'
    BY FilesNext, CollectNext DEF CollectInv
  <1>2. NumbersInv' /\ StartInv'
    BY <1>1, NumbersNext, StartNext DEF CollectInv, OldInv
  <1>3. ASSUME ~Strange' PROVE (Read \cap OldLines = {} /\ ClearGoal(OldLines) /\ BaseClear(OldLines))'
    <2>1. PICK S : S = OldLines
      OBVIOUS
    <2>2. Read \cap S = {} /\ ReadClear(S) /\ FilesClear(S) /\ BaseClear(S)
      <3>1. ~Strange
        BY <1>1, <1>3 DEF Strange
      <3> QED
        BY <2>1, <3>1 DEF OldInv, ClearGoal
    <2>3. ClearStep(S)
      <3>1. odd' \cap {"copied", "reused"} = {}
        BY <1>3 DEF Strange
      <3>2. S \subseteq 1..written
        BY <2>1 DEF OldLines, OldInv, StartInv, CollectInv, FilesInv
      <3> QED
        BY <1>1, <1>2, <2>2, <3>1, <3>2 DEF ClearStep, OldInv
    <2>4. "uprooted" \notin odd'
      BY <1>3 DEF Strange
    <2>5. CASE StartBaseline
      <3>1. /\ ~initialized' /\ pc' = "baseline" /\ collected' = collected /\ collected = <<>>
        BY <2>5 DEF StartBaseline, Starts, store, OldInv, StartInv
      <3>2. (Read = {} /\ ClearGoal(OldLines))'
        BY <3>1 DEF ClearGoal, ReadClear, FilesClear, Read, Lines
      <3>3. BaseClear(S)' => BaseClear(OldLines)'
        <4>1. \A i \in Inodes : gathered'[i] = None
          BY <2>5 DEF StartBaseline, CollectInv, StoreInv, NoCursors, store, OldInv
        <4> QED
          BY <4>1 DEF BaseClear
      <3> QED
        BY <1>1, <2>4, <2>5, <3>2, <3>3, BaseStart DEF CollectInv
    <2>6. CASE ~StartBaseline
      <3>1. S = OldLines'
        <4>1. old' = old
          BY <2>6 DEF Next, Write, StartRotation, Rotates, Shift, Rename, Copy, Truncate, Scans,
             Interrupted, Baseline, CommitBaseline, StartScan, Open, BudgetSpent, Enqueue, QueueFull,
             FileRead, Delivered, vars
        <4> QED
          BY <2>1, <4>1 DEF OldLines
      <3>2. Read' \cap S = {}
        <4>1. Enqueue => pc = "read"
          BY DEF Enqueue
        <4> QED
          BY <2>2, <4>1, ReadNext DEF ReadClear, NoneOf, CollectInv
      <3>3. BaseClear(S)'
        BY <2>2, <2>3, <2>4, <2>6, BaseKeeps
      <3>4. ClearGoal(S)'
        <4>1. StartScan /\ ~initialized => S = {}
          BY <2>1 DEF StartScan, OldInv, StartInv, OldLines
        <4>2. CASE Enqueue
          <5>1. \A k \in 1..Len(content[open]) : k > offset' => content[open][k] \notin S
            <6>1. PICK to \in Nat : offset < to /\ offset' = to
              BY <4>2, FragmentStored DEF CollectInv
            <6>2. NoneOf(S, open, offset) /\ offset \in Nat
              BY <2>2, <4>2, FragmentStored DEF ReadClear, CollectInv
            <6> QED
              BY <6>1, <6>2 DEF NoneOf
          <5> QED
            BY <2>3, <4>2, <5>1, ClearEnqueue
        <4>3. CASE Baseline
          BY <2>2, <2>3, <4>3, BaseNext
        <4>4. CASE ~Enqueue /\ ~Baseline
          BY <2>3, <2>6, <4>1, <4>4, ClearKeeps
        <4> QED
          BY <4>2, <4>3, <4>4
      <3> QED
        BY <3>1, <3>2, <3>3, <3>4 DEF ClearGoal, ReadClear, FilesClear, BaseClear, Settled, Adoptable,
           Stands, NoneOf
    <2> QED
      BY <2>5, <2>6
  <1> QED
    BY <1>2, <1>3 DEF OldInv

\* However files are moved, copied, emptied and added to, and whatever ends a scan: no line that
\* was in them when the source was added is queued, unless a rotation passed the baseline, or a
\* copy the scan, or a copy got the number of a file that a cursor was stored for
\* (scan_source, _adopt_copy).
THEOREM OldLinesNeverQueued == Spec => []OldLinesStay
  <1>1. StartInv /\ OldInv => OldLinesStay
    <2> SUFFICES ASSUME StartInv, OldInv, odd \cap {"uprooted", "copied", "reused"} = {}
                 PROVE  Read \cap 1..old = {}
      BY DEF OldLinesStay
    <2> QED
      BY DEF OldInv, Strange, OldLines
  <1>2. Init => CollectInv /\ OldInv
    BY CollectInit, OldInit
  <1>3. CollectInv /\ OldInv /\ [Next]_vars => (CollectInv /\ OldInv)'
    BY CollectNext, OldNext
  <1>4. CollectInv /\ OldInv => OldLinesStay
    BY <1>1 DEF OldInv
  <1> QED
    BY <1>2, <1>3, <1>4, PTL DEF Spec

-----------------------------------------------------------------------------
(* The order of the lines.                                                 *)

Older(i, j) ==
    \A p \in 1..Len(content[i]), q \in 1..Len(content[j]) : content[i][p] < content[j][q]

\* The live file has been copied, and is not empty yet.
Twins == rotating # None /\ rotating.to = Live

\* The files of higher paths are older, and nothing is queued that was not written.
OrderInv ==
    /\ Sorted
    /\ \A k, l \in Slots, i, j \in Inodes :
         l < k /\ slot[k] = i /\ slot[l] = j => Older(i, j) \/ (Twins /\ k = 1 /\ l = Live)
    /\ Read \subseteq 1..written

LEMMA OlderKept ==
  ASSUME NEW i, NEW j, content'[i] = content[i], content'[j] = content[j], Older(i, j)
  PROVE  Older(i, j)'
  BY DEF Older

LEMMA OrderInit == Init => OrderInv
  <1> SUFFICES ASSUME Init PROVE OrderInv
    OBVIOUS
  <1>1. CollectInv /\ Sorted
    BY CollectInit, BoundsInit DEF BoundsInv
  <1>2. PICK older \in {{}, {Second}} :
          /\ written = Cardinality(older) + 1
          /\ content = [i \in Inodes |-> CASE i = First -> <<written>> [] i \in older -> <<1>> [] OTHER -> <<>>]
          /\ slot = [k \in Slots |-> IF k = Live THEN First ELSE IF k = 1 /\ older # {} THEN Second ELSE None]
    BY DEF Init
  <1>3. First \in Inodes /\ Second \in Inodes /\ Second # First
    BY TwoFiles
  <1>4. ASSUME NEW k \in Slots, NEW l \in Slots, NEW i \in Inodes, NEW j \in Inodes,
               l < k, slot[k] = i, slot[l] = j
        PROVE  Older(i, j)
    <2>1. k # Live /\ i # None /\ j # None
      BY <1>4, SlotFacts, SizesAssumption
    <2>2. k = 1 /\ older = {Second} /\ i = Second
      BY <1>2, <1>4, <2>1
    <2>3. l = Live /\ j = First
      BY <1>2, <1>4, <2>1, <2>2, SlotFacts
    <2>4. written = 2
      <3>1. Cardinality({Second}) = 1
        BY FS_Singleton
      <3> QED
        BY <1>2, <2>2, <3>1
    <2>5. content[Second] = <<1>> /\ content[First] = <<2>>
      BY <1>2, <1>3, <2>2, <2>4
    <2> QED
      BY <2>2, <2>3, <2>5 DEF Older
  <1>5. Read = {}
    BY DEF Init, Read, Lines
  <1> QED
    BY <1>1, <1>4, <1>5 DEF OrderInv

\* A file moves up by one path.
LEMMA OlderMoves ==
  ASSUME PathsInv, NumbersInv, NEW to \in Slots, to >= 1, MovesTo(to),
         NEW k \in Slots, NEW l \in Slots, l < k, slot'[k] # None, slot'[l] # None
  PROVE  \E m \in Slots, n \in Slots : n < m /\ slot[m] = slot'[k] /\ slot[n] = slot'[l]
  <1> USE SlotFacts
  <1>1. to - 1 \in Slots /\ to - 1 # to /\ to \in Nat /\ k \in Nat /\ l \in Nat
    BY DEF Slots
  <1>2. CASE slot[to - 1] = None
    BY <1>2 DEF MovesTo
  <1>3. CASE slot[to - 1] # None
    <2>1. /\ slot'[to] = slot[to - 1] /\ slot'[to - 1] = None
          /\ \A m \in Slots \ {to, to - 1} : slot'[m] = slot[m]
      BY <1>1, <1>3 DEF MovesTo, PathsInv
    <2>2. k # to - 1 /\ l # to - 1
      BY <2>1
    <2>3. CASE k = to
      BY <1>1, <2>1, <2>2, <2>3
    <2>4. CASE l = to
      BY <1>1, <2>1, <2>2, <2>4
    <2>5. CASE k # to /\ l # to
      BY <2>1, <2>2, <2>5
    <2> QED
      BY <2>3, <2>4, <2>5
  <1> QED
    BY <1>2, <1>3

LEMMA OrderNext ==
  ASSUME CollectInv, NumbersInv, NumbersInv', OrderInv, [Next]_vars
  PROVE  OrderInv'
  <1> USE SlotFacts DEF CollectInv
  <1>1. FilesStep /\ PathsInv'
    BY FilesNext, PathsNext
  <1>2. Sorted'
    BY <1>1, SortedNext DEF FilesStep, OrderInv
  <1>3. (Read \subseteq 1..written)'
    <2>1. written \in Nat /\ written' \in Nat /\ written <= written'
      BY <1>1 DEF FilesInv, FilesStep
    <2>2. ASSUME NEW n \in Read' PROVE n \in 1..written'
      <3>1. CASE Enqueue
        <4>1. open \in Inodes
          BY <3>1, FragmentStored
        <4>2. CASE n \in Read
          BY <2>1, <4>2 DEF OrderInv
        <4>3. CASE n \notin Read
          <5>1. PICK p \in 1..Len(content[open]) : n = content[open][p]
            BY <3>1, <4>3, ReadNext
          <5>2. content[open][p] \in 1..written
            BY <4>1 DEF FilesInv
          <5> QED
            BY <2>1, <5>1, <5>2
        <4> QED
          BY <4>2, <4>3
      <3>2. CASE ~Enqueue
        <4>1. n \in Read
          BY <3>2, ReadNext
        <4> QED
          BY <2>1, <4>1 DEF OrderInv
      <3> QED
        BY <3>1, <3>2
    <2> QED
      BY <2>1, <2>2
  <1>4. ASSUME NEW k \in Slots, NEW l \in Slots, NEW i \in Inodes, NEW j \in Inodes,
               l < k, slot'[k] = i, slot'[l] = j
        PROVE  Older(i, j)' \/ (Twins' /\ k = 1 /\ l = Live)
    <2>1. k \in Nat /\ l \in Nat /\ k # Live /\ i # None /\ j # None
      BY <1>4, SizesAssumption
    <2>2. slot'[k] = i /\ slot'[l] = j /\ i # j
      BY <1>4, <2>1 DEF NumbersInv
    <2>3. CASE Write
      <3>1. UNCHANGED rotating /\ written' = written + 1 /\ written \in Nat
        BY <2>3 DEF Write, FilesInv
      <3>2. CASE slot[Live] # None /\ UNCHANGED <<slot, free>>
                 /\ content' = [content EXCEPT ![slot[Live]] = Append(@, written + 1)]
        <4>1. slot[k] = i /\ slot[l] = j /\ i # slot[Live] /\ content'[i] = content[i]
          BY <1>4, <2>1, <2>2, <3>2 DEF NumbersInv, FilesInv
        <4>2. CASE l # Live
          <5>1. content'[j] = content[j]
            BY <1>4, <2>2, <3>2, <4>2 DEF NumbersInv, FilesInv
          <5> QED
            BY <1>4, <2>2, <3>1, <4>1, <5>1, OlderKept DEF OrderInv, Twins
        <4>3. CASE l = Live
          <5>1. content'[j] = Append(content[j], written + 1) /\ content[j] \in Seq(Nat)
            BY <2>2, <3>2, <4>3 DEF FilesInv
          <5>2. \A q \in 1..Len(content'[j]) : /\ q \in 1..Len(content[j]) => content'[j][q] = content[j][q]
                                               /\ q \notin 1..Len(content[j]) => content'[j][q] = written + 1
            BY <5>1
          <5>3. \A p \in 1..Len(content[i]) : content[i][p] \in 1..written
            BY DEF FilesInv
          <5>4. Older(i, j) => Older(i, j)'
            BY <3>1, <4>1, <5>2, <5>3 DEF Older
          <5> QED
            BY <1>4, <2>2, <3>1, <4>1, <5>4 DEF OrderInv, Twins
        <4> QED
          BY <4>2, <4>3
      <3>3. CASE slot[Live] = None /\ \E n \in Unused :
                  /\ content' = [content EXCEPT ![n] = <<written + 1>>]
                  /\ slot' = [slot EXCEPT ![Live] = n]
        <4>1. PICK n \in Unused : /\ content' = [content EXCEPT ![n] = <<written + 1>>]
                                  /\ slot' = [slot EXCEPT ![Live] = n]
          BY <3>3
        <4>2. n \in free /\ n \in Inodes
          BY <4>1 DEF Unused, PathsInv
        <4>3. slot[k] = i /\ i # n /\ content'[i] = content[i]
          BY <2>1, <2>2, <4>1, <4>2 DEF PathsInv, NumbersInv, FilesInv
        <4>4. CASE l # Live
          <5>1. slot[l] = j /\ content'[j] = content[j]
            BY <2>2, <4>1, <4>2, <4>4 DEF PathsInv, NumbersInv, FilesInv
          <5> QED
            BY <1>4, <2>2, <3>1, <4>3, <5>1, OlderKept DEF OrderInv, Twins
        <4>5. CASE l = Live
          <5>1. content'[j] = <<written + 1>>
            BY <2>2, <4>1, <4>2, <4>5 DEF PathsInv, FilesInv
          <5>2. \A p \in 1..Len(content[i]) : content[i][p] \in 1..written
            BY DEF FilesInv
          <5>3. Older(i, j)'
            BY <3>1, <4>3, <5>1, <5>2 DEF Older
          <5> QED
            BY <2>2, <5>3
        <4> QED
          BY <4>4, <4>5
      <3> QED
        BY <2>3, <3>2, <3>3 DEF Write
    <2>4. CASE Shift \/ Rename
      <3>1. content' = content /\ ~Twins
        BY <2>4 DEF Shift, Rename, Twins
      <3>2. PICK to \in Slots : to >= 1 /\ MovesTo(to)
        <4>1. CASE Shift
          <5>1. rotating.to \in Slots /\ rotating.to > 1
            BY <4>1 DEF Shift, PathsInv
          <5>2. PICK up \in Slots : up = rotating.to
            BY <5>1
          <5>3. up >= 1
            <6>1. up \in Nat
              OBVIOUS
            <6>2. up > 1
              BY <5>1, <5>2
            <6> QED
              BY ONLY <6>1, <6>2
          <5>4. MovesTo(up)
            BY <4>1, <5>2 DEF Shift
          <5> QED
            BY <5>3, <5>4
        <4>2. CASE Rename
          <5>1. PICK to \in Slots : to = 1
            OBVIOUS
          <5>2. MovesTo(to)
            BY <4>2, <5>1 DEF Rename
          <5> QED
            BY <5>1, <5>2
        <4> QED
          BY <2>4, <4>1, <4>2
      <3>3. PICK m \in Slots, n \in Slots : n < m /\ slot[m] = i /\ slot[n] = j
        BY <1>4, <2>1, <2>2, <3>2, OlderMoves
      <3>4. Older(i, j)
        BY <1>4, <2>2, <3>1, <3>3 DEF OrderInv
      <3> QED
        BY <2>2, <3>1, <3>4, OlderKept
    <2>5. CASE Copy
      <3>1. ~Twins /\ Twins'
        <4>1. rotating # None /\ rotating.to = 1 /\ rotating' = [rotating EXCEPT !.to = 0]
          BY <2>5 DEF Copy
        <4>2. rotating \in [copies : BOOLEAN, to : Slots]
          BY <4>1 DEF PathsInv
        <4>3. rotating' \in [copies : BOOLEAN, to : Nat] /\ rotating'.to = 0
          BY <4>1, <4>2
        <4>4. rotating' # None
          BY <4>3, SizesAssumption
        <4> QED
          BY <4>1, <4>3, <4>4 DEF Twins
      <3>2. slot[Live] # None
        BY <2>5 DEF Copy, PathsInv
      <3>3. PICK n \in (free \cup Gone(slot[1])) \ Gone(open) :
               /\ content' = [content EXCEPT ![n] = content[slot[Live]]]
               /\ slot' = [slot EXCEPT ![1] = n]
        BY <2>5 DEF Copy
      <3>4. n \in Inodes /\ slot'[1] = n /\ \A m \in Slots \ {1} : slot'[m] = slot[m]
        BY <3>3, SlotTypes DEF PathsInv, Gone
      <3>5. content'[n] = content[slot[Live]] /\ \A m \in Inodes \ {n} : content'[m] = content[m]
        BY <3>3, <3>4 DEF FilesInv
      <3>6. CASE k = 1
        BY <1>4, <2>1, <3>1, <3>6
      <3>7. CASE k # 1
        <4>1. slot[k] = i /\ content'[i] = content[i]
          <5>1. slot'[k] # slot'[1]
            BY <2>1, <3>7, <1>4 DEF NumbersInv
          <5> QED
            BY <2>2, <3>4, <3>5, <3>7, <5>1
        <4>2. CASE l = 1
          <5>1. PICK m \in Inodes : m = slot[Live]
            BY <3>2, SlotTypes
          <5>2. Older(i, m)
            BY <1>4, <2>1, <3>1, <4>1, <5>1 DEF OrderInv
          <5>3. content'[j] = content[m]
            BY <2>2, <3>4, <3>5, <4>2, <5>1
          <5>4. Older(i, j)'
            BY <4>1, <5>2, <5>3 DEF Older
          <5> QED
            BY <2>2, <5>4
        <4>3. CASE l # 1
          <5>1. slot'[l] # slot'[1]
            BY <1>4, <2>1, <4>3 DEF NumbersInv
          <5>2. slot[l] = j /\ content'[j] = content[j]
            BY <2>2, <3>4, <3>5, <4>3, <5>1
          <5> QED
            BY <1>4, <2>2, <3>1, <4>1, <5>2, OlderKept DEF OrderInv
        <4> QED
          BY <4>2, <4>3
      <3> QED
        BY <3>6, <3>7
    <2>6. CASE Truncate
      <3>1. slot' = slot /\ content' = [content EXCEPT ![slot[Live]] = <<>>]
        BY <2>6 DEF Truncate
      <3>2. i # slot[Live] /\ content'[i] = content[i]
        BY <1>4, <2>1, <2>2, <3>1 DEF NumbersInv, FilesInv
      <3>3. CASE l = Live
        <4>1. content'[j] = <<>>
          BY <2>2, <3>1, <3>3 DEF FilesInv
        <4>2. Older(i, j)'
          BY <4>1 DEF Older
        <4> QED
          BY <2>2, <4>2
      <3>4. CASE l # Live
        <4>1. content'[j] = content[j]
          BY <1>4, <2>1, <2>2, <3>1, <3>4 DEF NumbersInv, FilesInv
        <4> QED
          BY <1>4, <2>2, <3>1, <3>2, <3>4, <4>1, OlderKept DEF OrderInv
      <3> QED
        BY <3>3, <3>4
    <2>7. CASE UNCHANGED <<content, slot>> /\ (Twins => Twins')
      BY <1>4, <2>2, <2>7, OlderKept DEF OrderInv
    <2>8. CASE StartRotation
      BY <2>7, <2>8 DEF StartRotation, Twins
    <2> QED
      BY <2>3, <2>4, <2>5, <2>6, <2>7, <2>8 DEF Next, Rotates, Scans, StartBaseline,
         Baseline, CommitBaseline, StartScan, Open, BudgetSpent, Enqueue, QueueFull, FileRead,
         Interrupted, Delivered, directory, vars, Twins
  <1> QED
    BY <1>2, <1>3, <1>4 DEF OrderInv

-----------------------------------------------------------------------------
(* No line twice.                                                          *)

\* Two places of the queue: both were filled before, or the fragment fills one or both of them.
LEMMA FragmentPlaces ==
  ASSUME CollectInv, Sorted, Enqueue,
         NEW j \in DOMAIN collected', NEW k \in DOMAIN collected', j < k
  PROVE  \/ /\ j \in DOMAIN collected /\ k \in DOMAIN collected
            /\ collected'[j] = collected[j] /\ collected'[k] = collected[k]
         \/ /\ j \in DOMAIN collected /\ collected'[j] = collected[j]
            /\ \E n \in 1..Len(content[open]) : n > offset /\ collected'[k] = content[open][n]
         \/ collected'[j] < collected'[k]
  <1>1. /\ open \in Inodes /\ offset \in Nat /\ content[open] \in Seq(Nat)
        /\ Len(content[open]) \in Nat /\ collected \in Seq(Nat)
    BY FragmentStored DEF CollectInv, StoreInv
  <1>2. PICK to \in Nat :
          /\ offset < to /\ to <= Len(content[open])
          /\ collected' = collected \o SubSeq(content[open], offset + 1, to)
          /\ SubSeq(content[open], offset + 1, to) \in Seq(Nat)
    BY FragmentStored DEF CollectInv
  <1>3. PICK s, o : s = content[open] /\ o = Len(collected)
    OBVIOUS
  <1>4. o \in Nat /\ DOMAIN collected = 1..o
    BY <1>1, <1>3
  <1>5. PICK t \in Seq(Nat) : t = SubSeq(s, offset + 1, to)
    BY <1>2, <1>3
  <1>6. Len(t) = to - offset /\ \A n \in 1..(to - offset) : t[n] = s[offset + n]
    BY <1>1, <1>2, <1>3, <1>5
  <1>7. /\ DOMAIN collected' = 1..(o + Len(t))
        /\ \A n \in 1..(o + Len(t)) : collected'[n] = IF n <= o THEN collected[n] ELSE t[n - o]
    <2>1. collected' = collected \o t
      BY <1>2, <1>3, <1>5
    <2>2. /\ collected \o t \in Seq(Nat) /\ Len(collected \o t) = Len(collected) + Len(t)
          /\ \A n \in 1..(Len(collected) + Len(t)) :
               (collected \o t)[n] = IF n <= Len(collected) THEN collected[n] ELSE t[n - Len(collected)]
      BY <1>1, ConcatProperties
    <2> QED
      BY <1>3, <2>1, <2>2
  <1>8. ASSUME NEW n \in DOMAIN collected', n > o
        PROVE  n - o + offset \in 1..Len(s) /\ n - o > 0 /\ collected'[n] = s[n - o + offset]
    <2>1. n \in 1..(o + Len(t))
      BY <1>7
    <2>2. n \in Nat /\ n <= o + (to - offset)
      BY <1>1, <1>2, <1>4, <1>6, <2>1
    <2>3. PICK m : m = n - o
      OBVIOUS
    <2>4. m \in 1..(to - offset)
      BY <1>1, <1>2, <1>4, <1>8, <2>2, <2>3
    <2>5. collected'[n] = t[m]
      BY <1>4, <1>7, <1>8, <2>1, <2>2, <2>3
    <2>6. t[m] = s[offset + m]
      BY <1>6, <2>4
    <2>7. offset + m = n - o + offset
      BY <1>1, <1>4, <2>2, <2>3
    <2>8. offset + m \in 1..Len(s)
      BY <1>1, <1>2, <1>3, <2>4
    <2> QED
      BY <2>3, <2>4, <2>5, <2>6, <2>7, <2>8
  <1>9. CASE k <= o
    BY <1>4, <1>7, <1>9
  <1>10. CASE j <= o /\ k > o
    <2>1. j \in DOMAIN collected /\ collected'[j] = collected[j]
      BY <1>4, <1>7, <1>10
    <2>2. PICK n : n = k - o + offset
      OBVIOUS
    <2>3. n \in 1..Len(s) /\ n > offset /\ collected'[k] = s[n]
      BY <1>1, <1>4, <1>7, <1>8, <1>10, <2>2
    <2> QED
      BY <1>3, <2>1, <2>3
  <1>11. CASE j > o
    <2>1. k > o
      BY <1>4, <1>7, <1>11
    <2>2. PICK m, n : m = j - o + offset /\ n = k - o + offset
      OBVIOUS
    <2>3. m \in 1..Len(s) /\ n \in 1..Len(s) /\ collected'[j] = s[m] /\ collected'[k] = s[n]
      BY <1>8, <1>11, <2>1, <2>2
    <2>4. m < n
      <3>1. j \in Nat /\ k \in Nat
        BY <1>2, <1>4, <1>7
      <3> QED
        BY <1>1, <1>4, <2>2, <3>1
    <2>5. s[m] < s[n]
      <3>1. content[open][m] < content[open][n]
        BY <1>1, <1>3, <2>3, <2>4 DEF Sorted
      <3> QED
        BY <1>3, <3>1
    <2> QED
      BY <2>3, <2>5
  <1> QED
    BY <1>4, <1>7, <1>9, <1>10, <1>11

\* Two files without a line in common.
Apart(i, j) ==
    \A p \in 1..Len(content[i]), q \in 1..Len(content[j]) : content[i][p] # content[j][q]

Misled == odd \cap {"copied", "reused"} # {}

\* A scan meets no copy that is not taken for one, and no other file has lines of the open one.
ScanInv ==
    ~Misled =>
      /\ pc \in {"open", "read"} => ~Twins
      /\ pc = "read" => \A k \in Slots, i, o \in Inodes :
                          slot[k] = i /\ o = open /\ i # o => Apart(i, o)

LEMMA ApartKept ==
  ASSUME NEW i, NEW j, content'[i] = content[i], content'[j] = content[j], Apart(i, j)
  PROVE  Apart(i, j)'
  BY DEF Apart

LEMMA OlderApart ==
  ASSUME FilesInv, NEW i \in Inodes, NEW j \in Inodes, Older(i, j) \/ Older(j, i)
  PROVE  Apart(i, j)
  <1>1. \A p \in 1..Len(content[i]), q \in 1..Len(content[j]) : content[i][p] \in Nat /\ content[j][q] \in Nat
    BY DEF FilesInv
  <1> QED
    BY <1>1 DEF Older, Apart

\* Only a scan that has begun can meet a rotation half done, and a copy is remembered.
LEMMA TwinsNext ==
  ASSUME PathsInv, ScanInv, [Next]_vars, ~Misled, ~Misled', pc' \in {"open", "read"}
  PROVE  ~Twins'
  <1>1. CASE StartRotation
    <2>1. rotating'.to = Rotations
      BY <1>1 DEF StartRotation
    <2> QED
      BY <2>1, SizesAssumption DEF Twins, Live
  <1>2. CASE Shift
    <2>1. rotating \in [copies : BOOLEAN, to : Slots] /\ rotating.to > 1
      BY <1>2 DEF Shift, PathsInv
    <2>2. rotating'.to = rotating.to - 1
      BY <1>2, <2>1 DEF Shift
    <2>3. rotating.to \in Nat
      BY <2>1, SlotFacts
    <2> QED
      BY <2>1, <2>2, <2>3 DEF Twins, Live
  <1>3. CASE Rename \/ Truncate
    BY <1>3 DEF Rename, Truncate, Twins
  <1>4. CASE Copy
    <2>1. pc \in {"open", "read"}
      BY <1>4 DEF Copy, scan
    <2>2. "copied" \in odd'
      BY <1>4, <2>1 DEF Copy, Remember
    <2> QED
      BY <2>2 DEF Misled
  <1>5. CASE StartScan
    <2>1. UNCHANGED rotating /\ (rotating # None /\ rotating.to = Live => "copied" \in odd')
      BY <1>5 DEF StartScan, Remember, directory
    <2> QED
      BY <2>1 DEF Misled, Twins
  <1>6. CASE UNCHANGED rotating /\ pc \in {"open", "read"}
    BY <1>6 DEF ScanInv, Twins
  <1>7. CASE Write \/ Delivered \/ UNCHANGED vars
    BY <1>6, <1>7 DEF Write, Delivered, vars, scan, directory
  <1>8. CASE StartBaseline \/ Baseline \/ CommitBaseline \/ BudgetSpent \/ QueueFull \/ Interrupted
    BY <1>8 DEF StartBaseline, Starts, Baseline, CommitBaseline, BudgetSpent, QueueFull, Interrupted, EndScan
  <1>9. CASE Open \/ Enqueue \/ FileRead
    BY <1>6, <1>9 DEF Open, Enqueue, FileRead, directory
  <1> QED
    BY <1>1, <1>2, <1>3, <1>4, <1>5, <1>7, <1>8, <1>9 DEF Next, Rotates, Scans

LEMMA ScanNext ==
  ASSUME CollectInv, NumbersInv, NumbersInv', OrderInv, ScanInv, odd \subseteq odd', [Next]_vars
  PROVE  ScanInv'
  <1> USE SlotFacts DEF CollectInv
  <1> SUFFICES ASSUME ~Misled' PROVE ScanInv'
    BY DEF ScanInv
  <1>1. ~Misled
    BY DEF Misled
  <1>2. pc' \in {"open", "read"} => ~Twins'
    BY <1>1, TwinsNext
  <1>3. ASSUME pc' = "read", NEW k \in Slots, NEW i \in Inodes, NEW o \in Inodes,
               slot'[k] = i, o = open', i # o
        PROVE  Apart(i, o)'
    <2>1. i # None /\ o # None /\ k \in Nat
      BY SizesAssumption
    <2>2. CASE Open
      <3>1. /\ pc = "open" /\ UNCHANGED <<content, slot>> /\ slot[at] = o /\ at \in Slots
        BY <1>3, <2>1, <2>2 DEF Open, NextPath, directory, PathsInv
      <3>2. ~Twins /\ at \in Nat /\ k # at
        BY <1>1, <1>3, <3>1 DEF ScanInv
      <3>3. Older(i, o) \/ Older(o, i)
        <4>1. CASE at < k
          BY <1>3, <3>1, <3>2, <4>1 DEF OrderInv
        <4>2. CASE k < at
          BY <1>3, <3>1, <3>2, <4>2 DEF OrderInv
        <4> QED
          BY <2>1, <3>2, <4>1, <4>2
      <3> QED
        BY <3>1, <3>3, OlderApart, ApartKept
    <2>3. ASSUME pc = "read", UNCHANGED open
          PROVE  \A l \in Slots : slot[l] = i => Apart(i, o)
      BY <1>1, <1>3, <2>3 DEF ScanInv
    <2>4. CASE Write
      <3>1. pc = "read" /\ UNCHANGED open /\ written \in Nat
        BY <1>3, <2>4 DEF Write, scan, FilesInv
      <3>2. \A x \in Inodes : \A p \in 1..Len(content[x]) : content[x][p] \in 1..written
        BY DEF FilesInv
      <3>3. CASE slot[Live] # None /\ UNCHANGED <<slot, free>>
                 /\ content' = [content EXCEPT ![slot[Live]] = Append(@, written + 1)]
        <4>1. PICK n : n = slot[Live]
          OBVIOUS
        <4>2. /\ n \in Inodes /\ content'[n] = Append(content[n], written + 1)
              /\ content[n] \in Seq(Nat)
              /\ \A x \in Inodes \ {n} : content'[x] = content[x]
          BY <3>3, <4>1, SlotTypes DEF FilesInv
        <4>3. \A p \in 1..Len(content'[n]) : \/ p \in 1..Len(content[n]) /\ content'[n][p] = content[n][p]
                                             \/ content'[n][p] = written + 1
          BY <4>2
        <4>4. Apart(i, o)
          BY <1>3, <2>3, <3>1, <3>3
        <4>5. CASE i = n
          <5>1. content'[o] = content[o] /\ content[o] \in Seq(Nat)
            BY <1>3, <4>2, <4>5 DEF FilesInv
          <5>2. ASSUME NEW p \in 1..Len(content'[i]), NEW q \in 1..Len(content[o])
                PROVE  content'[i][p] # content[o][q]
            <6>1. content[o][q] \in 1..written /\ written + 1 \notin 1..written
              BY <1>3, <3>1, <3>2
            <6>2. CASE p \in 1..Len(content[n]) /\ content'[n][p] = content[n][p]
              BY <4>4, <4>5, <6>2 DEF Apart
            <6> QED
              BY <4>3, <4>5, <6>1, <6>2
          <5> QED
            BY <5>1, <5>2 DEF Apart
        <4>6. CASE o = n
          <5>1. content'[i] = content[i]
            BY <1>3, <4>2, <4>6
          <5> QED
            BY <3>1, <3>2, <4>3, <4>4, <4>6, <5>1, SMTT(30) DEF Apart
        <4>7. CASE i # n /\ o # n
          BY <4>2, <4>4, <4>7, ApartKept
        <4> QED
          BY <4>5, <4>6, <4>7
      <3>4. CASE slot[Live] = None /\ \E n \in Unused :
                  /\ content' = [content EXCEPT ![n] = <<written + 1>>]
                  /\ slot' = [slot EXCEPT ![Live] = n]
        <4>1. PICK n \in Unused : /\ content' = [content EXCEPT ![n] = <<written + 1>>]
                                  /\ slot' = [slot EXCEPT ![Live] = n]
          BY <3>4
        <4>2. n \in free /\ n \in Inodes /\ n # o
          BY <1>3, <2>1, <3>1, <4>1 DEF Unused, Gone, PathsInv
        <4>3. content'[o] = content[o]
          BY <4>1, <4>2
        <4>4. CASE i = n
          <5>1. content'[i] = <<written + 1>>
            BY <4>1, <4>2, <4>4 DEF FilesInv
          <5> QED
            BY <3>1, <3>2, <4>3, <5>1 DEF Apart
        <4>5. CASE i # n
          <5>1. slot[k] = i /\ content'[i] = content[i]
            BY <1>3, <4>1, <4>5 DEF PathsInv
          <5> QED
            BY <2>3, <3>1, <4>3, <5>1, ApartKept
        <4> QED
          BY <4>4, <4>5
      <3> QED
        BY <2>4, <3>3, <3>4 DEF Write
    <2>5. CASE Shift \/ Rename
      <3>1. pc = "read" /\ UNCHANGED <<open, content>>
        BY <1>3, <2>5 DEF Shift, Rename, scan
      <3>2. \E l \in Slots : slot[l] = i
        <4>1. CASE UNCHANGED slot
          BY <1>3, <4>1
        <4>2. ASSUME NEW to \in Slots, to - 1 \in Slots,
                     slot' = [slot EXCEPT ![to] = slot[to - 1], ![to - 1] = None]
              PROVE  \E l \in Slots : slot[l] = i
          BY <1>3, <2>1, <4>2 DEF PathsInv
        <4>3. CASE Shift
          <5>1. rotating.to \in Slots /\ rotating.to > 1
            BY <4>3 DEF Shift, PathsInv
          <5>2. PICK to \in Slots : to = rotating.to
            BY <5>1
          <5>3. to - 1 \in Slots
            BY <5>1, <5>2 DEF Slots
          <5>4. MovesTo(to)
            BY <4>3, <5>2 DEF Shift
          <5> QED
            BY <4>1, <4>2, <5>3, <5>4 DEF MovesTo
        <4>4. CASE Rename
          <5>1. 1 - 1 \in Slots /\ MovesTo(1)
            BY <4>4 DEF Rename
          <5> QED
            BY <4>1, <4>2, <5>1 DEF MovesTo
        <4> QED
          BY <2>5, <4>3, <4>4
      <3> QED
        BY <2>3, <3>1, <3>2, ApartKept
    <2>6. CASE Copy
      <3>1. "copied" \in odd'
        BY <1>3, <2>6 DEF Copy, Remember, scan
      <3> QED
        BY <3>1 DEF Misled
    <2>7. CASE Truncate
      BY <1>1, <1>3, <2>7 DEF Truncate, ScanInv, Twins, scan, Live
    <2>8. CASE UNCHANGED <<content, slot, open>> /\ pc = "read"
      BY <1>3, <2>3, <2>8, ApartKept
    <2>9. CASE StartRotation \/ Enqueue \/ Delivered \/ UNCHANGED vars
      BY <1>3, <2>8, <2>9 DEF StartRotation, Enqueue, Delivered, vars, scan, directory
    <2>10. CASE StartBaseline \/ Baseline \/ CommitBaseline \/ StartScan \/ BudgetSpent \/ QueueFull
                \/ FileRead \/ Interrupted
      BY <1>3, <2>10 DEF StartBaseline, Starts, Baseline, CommitBaseline, StartScan, BudgetSpent,
         QueueFull, FileRead, Interrupted, EndScan, NextPath
    <2> QED
      BY <2>2, <2>4, <2>5, <2>6, <2>7, <2>9, <2>10 DEF Next, Rotates, Scans
  <1> QED
    BY <1>2, <1>3 DEF ScanInv

\* No line is queued twice, and none that was queued is read again.
OnceInv ==
    ~Misled =>
      /\ ClearGoal(Read)
      /\ \A j, k \in DOMAIN collected : j < k => collected[j] # collected[k]

LEMMA OnceNext ==
  ASSUME CollectInv, CollectInv', NumbersInv, NumbersInv', StartInv, StartInv',
         OrderInv, ScanInv, OnceInv, odd \subseteq odd', [Next]_vars
  PROVE  OnceInv'
  <1> SUFFICES ASSUME ~Misled' PROVE OnceInv'
    BY DEF OnceInv
  <1>1. ~Misled
    BY DEF Misled
  <1>2. PICK S, T : S = Read /\ T = Read'
    OBVIOUS
  <1>3. ClearGoal(S) /\ ClearStep(S)
    <2>1. ClearGoal(S)
      BY <1>1, <1>2 DEF OnceInv
    <2>2. S \subseteq 1..written
      BY <1>2 DEF OrderInv
    <2>3. odd' \cap {"copied", "reused"} = {}
      BY DEF Misled
    <2> QED
      BY <2>1, <2>2, <2>3 DEF ClearStep, ClearGoal
  <1>4. ClearGoal(T)' /\ (\A j, k \in DOMAIN collected : j < k => collected[j] # collected[k])'
    <2>1. CASE Enqueue
      <3>1. pc = "read" /\ open \in Inodes /\ offset \in Nat
        BY <2>1, FragmentStored DEF CollectInv
      <3>2. NoneOf(S, open, offset)
        BY <1>3, <3>1 DEF ClearGoal, ReadClear
      <3>3. PICK to \in Nat : offset < to /\ to <= Len(content[open]) /\ offset' = to
                              /\ T = S \cup {content[open][n] : n \in (offset + 1)..to}
        BY <1>2, <2>1, FragmentStored DEF CollectInv
      <3>4. \A n \in 1..Len(content[open]) : n > offset' => content[open][n] \notin T
        <4>1. ASSUME NEW n \in 1..Len(content[open]), n > to
              PROVE  content[open][n] \notin T
          <5>1. content[open][n] \notin S
            BY <3>1, <3>2, <3>3, <4>1 DEF NoneOf
          <5>2. ASSUME NEW m \in (offset + 1)..to PROVE content[open][n] # content[open][m]
            <6>1. m \in 1..Len(content[open]) /\ m < n /\ content[open][n] \in Nat /\ content[open][m] \in Nat
              BY <3>1, <3>3, <4>1 DEF CollectInv, FilesInv
            <6> QED
              BY <3>1, <6>1 DEF OrderInv, Sorted
          <5> QED
            BY <3>3, <5>1, <5>2
        <4> QED
          BY <3>3, <4>1
      <3>5. \A k \in Slots : slot[k] \notin {None, open} =>
              \A p \in 1..Len(content[slot[k]]) : content[slot[k]][p] \in T => content[slot[k]][p] \in S
        <4>1. SUFFICES ASSUME NEW k \in Slots, slot[k] \notin {None, open},
                              NEW p \in 1..Len(content[slot[k]]), content[slot[k]][p] \in T
                       PROVE  content[slot[k]][p] \in S
          OBVIOUS
        <4>2. PICK i \in Inodes, o \in Inodes : i = slot[k] /\ o = open
          BY <3>1, <4>1, SlotTypes DEF CollectInv
        <4>3. Apart(i, o)
          BY <1>1, <3>1, <4>1, <4>2 DEF ScanInv
        <4>4. \A n \in (offset + 1)..to : n \in 1..Len(content[open])
          BY <3>1, <3>3
        <4> QED
          BY <3>3, <4>1, <4>2, <4>3, <4>4 DEF Apart
      <3>6. ClearGoal(T)'
        BY <1>3, <2>1, <3>4, <3>5, ClearEnqueue
      <3>7. ASSUME NEW j \in DOMAIN collected', NEW k \in DOMAIN collected', j < k
            PROVE  collected'[j] # collected'[k]
        <4>1. CASE j \in DOMAIN collected /\ k \in DOMAIN collected
                   /\ collected'[j] = collected[j] /\ collected'[k] = collected[k]
          BY <1>1, <3>7, <4>1 DEF OnceInv
        <4>2. CASE j \in DOMAIN collected /\ collected'[j] = collected[j]
                   /\ \E n \in 1..Len(content[open]) : n > offset /\ collected'[k] = content[open][n]
          <5>1. collected[j] \in S
            BY <1>2, <4>2 DEF Read, Lines
          <5> QED
            BY <3>2, <4>2, <5>1 DEF NoneOf
        <4>3. CASE collected'[j] < collected'[k]
          <5>1. collected'[j] \in Nat /\ collected'[k] \in Nat
            BY DEF CollectInv, StoreInv
          <5> QED
            BY <4>3, <5>1
        <4>4. Sorted
          BY DEF OrderInv
        <4> QED
          BY <2>1, <3>7, <4>1, <4>2, <4>3, <4>4, FragmentPlaces
      <3> QED
        BY <3>6, <3>7
    <2>2. CASE ~Enqueue
      <3>1. collected' = collected /\ T = S
        BY <1>2, <2>2, ReadNext DEF CollectInv
      <3>2. StartBaseline \/ Baseline \/ (StartScan /\ ~initialized) => S = {}
        BY <1>2 DEF StartBaseline, Baseline, StartInv, Read, Lines
      <3>3. ClearGoal(S)'
        BY <1>3, <2>2, <3>2, ClearKeeps
      <3> QED
        BY <1>1, <3>1, <3>3 DEF OnceInv
    <2> QED
      BY <2>1, <2>2
  <1> QED
    BY <1>2, <1>4 DEF OnceInv, ClearGoal, ReadClear, FilesClear, Settled, Adoptable, Stands, NoneOf

-----------------------------------------------------------------------------
(* In the order of writing.                                                *)

Disturbed == odd \cap {"overtaken", "copied", "reused"} # {}

\* A scan that no rotation overtakes leaves nothing unread of the files behind it, as long as it
\* may read on, and reads the open one from its cursor on.
Finished == pc = "read" \/ (pc = "open" /\ count < Budget) => \A k \in Slots : k > at => Settled(Nat, k)
Reading ==
    pc = "read" =>
      /\ slot[at] = open /\ (at # Live => size = Len(content[open]))
      /\ offset = 0 \/ (Stands({}, open, cursors[open]) /\ offset = cursors[open].offset)
PassInv == ~Disturbed => (pc \in {"open", "read"} => rotating = None) /\ Finished /\ Reading

\* A file that is read to its end, by a scan that may read on, is finished.
LEMMA ReadToTheEnd ==
  ASSUME CollectInv, Reading, FileRead, count < Budget, at # Live
  PROVE  Settled(Nat, at)
  <1>1. PICK o \in Inodes : o = open /\ slot[at] = o
    BY DEF FileRead, Reading, CollectInv, PathsInv
  <1>2. size = Len(content[o]) /\ offset \in Nat /\ Len(content[o]) \in Nat /\ pc = "read"
    BY <1>1 DEF Reading, FileRead, CollectInv, ReadInv, FilesInv
  <1>3. offset >= Len(content[o])
    BY <1>1, <1>2 DEF FileRead, Unread
  <1>4. CASE offset = 0
    BY <1>1, <1>2, <1>3, <1>4 DEF Settled, NoneOf
  <1>5. CASE Stands({}, open, cursors[open]) /\ offset = cursors[open].offset
    <2>1. PICK c : c = cursors[open]
      OBVIOUS
    <2>2. Stands(Nat, o, c)
      BY <1>1, <1>2, <1>3, <1>5, <2>1 DEF Stands, NoneOf
    <2>3. Current[slot[at]] = c
      BY <1>1, <1>2, <2>1 DEF Current
    <2> QED
      BY <1>1, <2>2, <2>3 DEF Settled
  <1> QED
    BY <1>2, <1>4, <1>5 DEF Reading

\* What was finished stays so as long as its file and its cursor stay.
LEMMA SettledKept ==
  ASSUME NEW S, NEW k, slot'[k] = slot[k], Settled(S, k),
         slot[k] # None => content'[slot[k]] = content[slot[k]] /\ Current'[slot[k]] = Current[slot[k]]
  PROVE  Settled(S, k)'
  <1>1. PICK i, c : i = slot[k] /\ c = Current[i]
    OBVIOUS
  <1>2. CASE i # None
    <2>1. NoneOf(S, i, 0) => NoneOf(S, i, 0)'
      BY <1>1, <1>2 DEF NoneOf
    <2>2. Stands(S, i, c) => Stands(S, i, c)'
      BY <1>1, <1>2 DEF Stands, NoneOf, Matches, Cursor
    <2>3. NoneOf(S, i, 0) \/ Stands(S, i, c)
      BY <1>1, <1>2 DEF Settled
    <2>4. slot'[k] = i /\ Current'[i] = c
      BY <1>1, <1>2
    <2> QED
      BY <2>1, <2>2, <2>3, <2>4 DEF Settled, Stands, NoneOf, Matches, Cursor
  <1>3. CASE i = None
    BY <1>1, <1>3 DEF Settled
  <1> QED
    BY <1>2, <1>3

LEMMA PassNext ==
  ASSUME CollectInv, CollectInv', NumbersInv, NumbersInv', PassInv, odd \subseteq odd', [Next]_vars
  PROVE  PassInv'
  <1> USE SlotFacts DEF CollectInv
  <1> SUFFICES ASSUME ~Disturbed' PROVE (pc \in {"open", "read"} => rotating = None)' /\ Finished' /\ Reading'
    BY DEF PassInv
  <1>1. /\ ~Disturbed /\ (pc \in {"open", "read"} => rotating = None) /\ Finished /\ Reading
        /\ "overtaken" \notin odd'
    BY DEF PassInv, Disturbed
  <1>2. CASE pc' \notin {"open", "read"}
    BY <1>2 DEF Finished, Reading
  <1>3. CASE StartScan
    <2>1. /\ pc' = "open" /\ at' = Rotations /\ UNCHANGED rotating
          /\ (rotating # None => "overtaken" \in odd')
      BY <1>3 DEF StartScan, Starts, Remember, Overlap, directory
    <2>2. \A k \in Slots : ~(k > at')
      BY <2>1, SizesAssumption
    <2> QED
      BY <1>1, <2>1, <2>2 DEF Finished, Reading
  <1>4. CASE Open /\ pc' \in {"open", "read"}
    <2>1. /\ pc = "open" /\ count < Budget /\ at \in Slots /\ at \in Nat /\ UNCHANGED <<content, slot, rotating, count>>
      BY <1>4 DEF Open, PathsInv, directory
    <2>2. CASE slot[at] = None
      <3>1. /\ UNCHANGED cursors /\ pc' = "open" /\ at' = at - 1
        BY <1>4, <2>2 DEF Open, NextPath
      <3>2. ASSUME NEW k \in Slots, k > at' PROVE Settled(Nat, k)'
        <4>1. Settled(Nat, k)
          <5>1. CASE k = at
            BY <2>2, <5>1 DEF Settled
          <5>2. CASE k > at
            BY <1>1, <2>1, <5>2 DEF Finished
          <5>3. k \in Nat /\ k > at - 1
            BY <3>1, <3>2
          <5> QED
            BY <2>1, <5>1, <5>2, <5>3
        <4>2. Current' = Current
          BY <2>1, <3>1 DEF Current
        <4> QED
          BY <2>1, <4>1, <4>2, SettledKept
      <3> QED
        BY <1>1, <2>1, <3>1, <3>2 DEF Finished, Reading
    <2>3. CASE slot[at] # None
      <3>1. PICK i \in Inodes : i = slot[at]
        BY <2>1, <2>3, SlotTypes
      <3>2. /\ cursors' = [cursors EXCEPT ![i] = Known(i)] /\ open' = i /\ size' = Len(content[i])
            /\ offset' = (IF Known(i) # None /\ Matches(i, Known(i)) THEN Known(i).offset ELSE 0)
            /\ pc' = "read" /\ UNCHANGED at
        BY <1>4, <2>3, <3>1 DEF Open
      <3>3. cursors'[i] = Known(i) /\ \A j \in Inodes \ {i} : cursors'[j] = cursors[j]
        BY <3>2 DEF StoreInv
      <3>4. ASSUME NEW k \in Slots, k > at' PROVE Settled(Nat, k)'
        <4>1. Settled(Nat, k)
          BY <1>1, <2>1, <3>2, <3>4 DEF Finished
        <4>2. slot[k] # None => slot[k] \in Inodes \ {i}
          <5>1. k # at
            BY <2>1, <3>2, <3>4
          <5> QED
            BY <2>1, <2>3, <3>1, <5>1, SlotTypes DEF NumbersInv
        <4>3. slot[k] # None => Current'[slot[k]] = Current[slot[k]]
          BY <2>1, <3>2, <3>3, <4>2 DEF Current
        <4> QED
          BY <2>1, <4>1, <4>3, SettledKept
      <3>5. Reading'
        <4>1. PICK c : c = Known(i)
          OBVIOUS
        <4>2. cursors'[open'] = c /\ (offset' = 0 \/ (c # None /\ Matches(i, c) /\ offset' = c.offset))
          BY <3>2, <3>3, <4>1
        <4>3. offset' = 0 \/ (Stands({}, open, cursors[open])' /\ offset' = c.offset)
          BY <2>1, <3>2, <4>2 DEF Stands, NoneOf, Matches, Cursor
        <4> QED
          BY <2>1, <3>1, <3>2, <4>2, <4>3 DEF Reading
      <3> QED
        BY <1>1, <2>1, <3>4, <3>5 DEF Finished
    <2> QED
      BY <2>2, <2>3
  <1>5. CASE Enqueue
    <2>1. /\ pc = "read" /\ UNCHANGED <<content, slot, rotating, pc, at, open, size>> /\ at \in Slots /\ at \in Nat
      BY <1>5 DEF Enqueue, PathsInv, directory
    <2>2. PICK to \in Nat :
            /\ 0 < to /\ to <= Len(content[open]) /\ offset' = to
            /\ cursors' = [cursors EXCEPT ![open] = Cursor(open, to)]
      <3>1. offset \in Nat
        BY <1>5, FragmentStored
      <3> QED
        BY <1>5, <3>1, FragmentStored
    <2>3. PICK o \in Inodes : o = open /\ slot[at] = o
      BY <1>1, <2>1 DEF Reading, PathsInv
    <2>4. cursors'[o] = Cursor(o, to) /\ \A j \in Inodes \ {o} : cursors'[j] = cursors[j]
      BY <2>2, <2>3 DEF StoreInv
    <2>5. ASSUME NEW k \in Slots, k > at' PROVE Settled(Nat, k)'
      <3>1. Settled(Nat, k)
        BY <1>1, <2>1, <2>5 DEF Finished
      <3>2. slot[k] # None => slot[k] \in Inodes \ {o}
        <4>1. k # at
          BY <2>1, <2>5
        <4> QED
          BY <2>1, <2>3, <4>1, SlotTypes DEF NumbersInv
      <3>3. slot[k] # None => Current'[slot[k]] = Current[slot[k]]
        BY <2>1, <2>4, <3>2 DEF Current
      <3> QED
        BY <2>1, <3>1, <3>3, SettledKept
    <2>6. Stands({}, open, cursors[open])' /\ offset' = cursors'[open'].offset
      <3>1. Cursor(o, to) # None /\ Cursor(o, to).offset = to
        <4>1. Cursor(o, to) \in [offset : Nat, anchor : Nat]
          BY <2>2, <2>3 DEF Cursor, FilesInv
        <4> QED
          BY <4>1, SizesAssumption DEF Cursor
      <3>2. PICK c : c = Cursor(o, to)
        OBVIOUS
      <3>3. c # None /\ c.offset = to /\ Cursor(o, to)' = c /\ cursors'[open'] = c
        BY <2>1, <2>3, <2>4, <3>1, <3>2 DEF Cursor
      <3>4. Matches(o, c)'
        BY <2>1, <2>2, <2>3, <3>3 DEF Matches
      <3> QED
        BY <2>1, <2>2, <2>3, <3>3, <3>4 DEF Stands, NoneOf
    <2> QED
      BY <1>1, <2>1, <2>5, <2>6 DEF Finished, Reading
  <1>6. CASE FileRead /\ pc' \in {"open", "read"}
    <2>1. /\ pc = "read" /\ pc' = "open" /\ at # Live /\ at' = at - 1 /\ at \in Slots /\ at \in Nat
          /\ UNCHANGED <<content, slot, rotating, cursors, count>>
      BY <1>6 DEF FileRead, NextPath, PathsInv, directory, store
    <2>2. ASSUME count < Budget, NEW k \in Slots, k > at' PROVE Settled(Nat, k)'
      <3>1. Settled(Nat, k)
        <4>1. CASE k = at
          BY <1>1, <1>6, <2>1, <2>2, <4>1, ReadToTheEnd
        <4>2. CASE k > at
          BY <1>1, <2>1, <4>2 DEF Finished
        <4>3. k \in Nat /\ k > at - 1
          BY <2>1, <2>2
        <4> QED
          BY <2>1, <4>1, <4>2, <4>3
      <3>2. Current' = Current
        BY <2>1 DEF Current
      <3> QED
        BY <2>1, <3>1, <3>2, SettledKept
    <2> QED
      BY <1>1, <2>1, <2>2 DEF Finished, Reading
  <1>7. CASE Write /\ pc \in {"open", "read"}
    <2>1. UNCHANGED <<rotating, cursors, pc, at, open, size, offset, count>> /\ at \in Slots /\ at \in Nat
      BY <1>7 DEF Write, PathsInv, store, scan
    <2>2. Current' = Current
      BY <1>7, <2>1 DEF Current
    <2>3. PICK n \in Inodes :
            /\ slot'[Live] = n /\ \A k \in Slots \ {Live} : slot'[k] = slot[k] /\ slot'[k] # n
            /\ \A i \in Inodes \ {n} : content'[i] = content[i]
            /\ slot[Live] # None => slot[Live] = n /\ content'[n] = Append(content[n], written + 1)
      <3>1. CASE slot[Live] # None /\ UNCHANGED <<slot, free>>
                 /\ content' = [content EXCEPT ![slot[Live]] = Append(@, written + 1)]
        <4>1. PICK n \in Inodes : n = slot[Live]
          BY <3>1, SlotTypes
        <4>2. \A k \in Slots \ {Live} : slot'[k] # n
          BY <3>1, <4>1 DEF NumbersInv
        <4> QED
          BY <3>1, <4>1, <4>2 DEF FilesInv
      <3>2. CASE slot[Live] = None /\ \E n \in Unused :
                  /\ content' = [content EXCEPT ![n] = <<written + 1>>]
                  /\ slot' = [slot EXCEPT ![Live] = n]
        <4>1. PICK n \in Unused : /\ content' = [content EXCEPT ![n] = <<written + 1>>]
                                  /\ slot' = [slot EXCEPT ![Live] = n]
          BY <3>2
        <4>2. n \in free /\ n \in Inodes
          BY <4>1 DEF Unused, PathsInv
        <4>3. slot'[Live] = n /\ \A k \in Slots \ {Live} : slot'[k] = slot[k] /\ slot'[k] # n
          BY <4>1, <4>2 DEF PathsInv, NumbersInv
        <4> QED
          BY <3>2, <4>1, <4>2, <4>3 DEF FilesInv
      <3> QED
        BY <1>7, <3>1, <3>2 DEF Write
    <2>4. Finished'
      <3>1. SUFFICES ASSUME Finished, NEW k \in Slots, k > at', Settled(Nat, k) PROVE Settled(Nat, k)'
        BY <1>1, <2>1 DEF Finished
      <3>2. k # Live
        BY <2>1, <3>1
      <3>3. slot'[k] = slot[k] /\ (slot[k] # None => slot[k] \in Inodes \ {n})
        BY <2>3, <3>2, SlotTypes
      <3> QED
        BY <2>2, <2>3, <3>1, <3>3, SettledKept
    <2>5. ASSUME pc = "read" PROVE Reading'
      <3>1. PICK o \in Inodes : o = open /\ slot[at] = o
        BY <1>1, <2>5 DEF Reading, PathsInv
      <3>2. slot'[at] = o
        BY <2>1, <2>3, <3>1, SizesAssumption
      <3>3. at # Live => content'[o] = content[o]
        BY <2>1, <2>3, <3>1, <3>2
      <3>4. Extends({}, o)
        <4>1. CASE at # Live
          BY <3>3, <4>1 DEF Extends, FilesInv
        <4>2. CASE at = Live
          <5>1. content'[o] = Append(content[o], written + 1) /\ content[o] \in Seq(Nat)
            BY <2>3, <3>1, <4>2, SizesAssumption DEF FilesInv
          <5> QED
            BY <5>1 DEF Extends
        <4> QED
          BY <4>1, <4>2
      <3>5. PICK c : c = cursors[open]
        OBVIOUS
      <3>6. c # None => c \in CursorRecord
        BY <3>1, <3>5 DEF StoreInv
      <3>7. Stands({}, o, c) => Stands({}, o, c)'
        BY <3>4, <3>6, ExtendsKeeps DEF Stands
      <3>8. Stands({}, open, cursors[open]) => Stands({}, open, cursors[open])'
        BY <2>1, <3>1, <3>5, <3>7 DEF Stands, NoneOf, Matches, Cursor
      <3> QED
        BY <1>1, <2>1, <2>5, <3>1, <3>2, <3>3, <3>8 DEF Reading
    <2> QED
      BY <1>1, <2>1, <2>4, <2>5 DEF Reading
  <1>8. CASE StartRotation /\ pc \in {"open", "read"}
    <2>1. "overtaken" \in odd'
      BY <1>8 DEF StartRotation, Remember, Overlap
    <2> QED
      BY <1>1, <2>1
  <1>9. CASE Rotates /\ pc \in {"open", "read"}
    BY <1>1, <1>9 DEF Rotates, Shift, Rename, Copy, Truncate
  <1>10. CASE Delivered \/ UNCHANGED vars
    <2>1. UNCHANGED <<content, slot, rotating, cursors, gathered, pc, at, open, size, offset, count>>
      BY <1>10 DEF Delivered, directory, scan, vars, store
    <2>2. \A k \in Slots : Settled(Nat, k) => Settled(Nat, k)'
      <3>1. Current' = Current
        BY <2>1 DEF Current
      <3> QED
        BY <2>1, <3>1, SettledKept
    <2>3. Stands({}, open, cursors[open]) => Stands({}, open, cursors[open])'
      BY <2>1 DEF Stands, NoneOf, Matches, Cursor
    <2> QED
      BY <1>1, <2>1, <2>2, <2>3 DEF Finished, Reading
  <1>11. CASE (Write \/ StartRotation \/ Rotates) /\ pc \notin {"open", "read"}
    BY <1>2, <1>11 DEF Write, StartRotation, Rotates, Shift, Rename, Copy, Truncate, scan
  <1>12. CASE StartBaseline \/ Baseline \/ CommitBaseline \/ BudgetSpent \/ QueueFull \/ Interrupted
    BY <1>2, <1>12 DEF StartBaseline, Starts, Baseline, CommitBaseline, BudgetSpent, QueueFull,
       Interrupted, EndScan
  <1> QED
    BY <1>2, <1>3, <1>4, <1>5, <1>6, <1>7, <1>8, <1>9, <1>10, <1>11, <1>12 DEF Next, Scans

\* A line that was queued, or one written before such a line.
UpTo == {n \in Nat \ {0} : \E m \in Read : n <= m}

\* Lines are queued in order, and what is behind the last of them is not read again.
InOrderInv ==
    ~Disturbed =>
      /\ ClearGoal(UpTo)
      /\ \A j, k \in DOMAIN collected : j < k => collected[j] < collected[k]

LEMMA InOrderNext ==
  ASSUME CollectInv, CollectInv', NumbersInv, NumbersInv', StartInv, StartInv',
         OrderInv, PassInv, InOrderInv, odd \subseteq odd', [Next]_vars
  PROVE  InOrderInv'
  <1> SUFFICES ASSUME ~Disturbed' PROVE InOrderInv'
    BY DEF InOrderInv
  <1>1. ~Disturbed
    BY DEF Disturbed
  <1>2. PICK S, T : S = UpTo /\ T = UpTo'
    OBVIOUS
  <1>3. ClearGoal(S) /\ ClearStep(S)
    <2>1. ClearGoal(S)
      BY <1>1, <1>2 DEF InOrderInv
    <2>2. S \subseteq 1..written
      <3>1. written \in Nat /\ Read \subseteq 1..written
        BY DEF OrderInv, CollectInv, FilesInv
      <3> QED
        BY <1>2, <3>1 DEF UpTo
    <2>3. odd' \cap {"copied", "reused"} = {}
      BY DEF Disturbed
    <2> QED
      BY <2>1, <2>2, <2>3 DEF ClearStep, ClearGoal
  <1>4. ClearGoal(T)' /\ (\A j, k \in DOMAIN collected : j < k => collected[j] < collected[k])'
    <2>1. CASE Enqueue
      <3>1. pc = "read" /\ open \in Inodes /\ offset \in Nat /\ at \in Slots /\ at \in Nat
        BY <2>1, FragmentStored, SlotFacts DEF CollectInv, PathsInv
      <3>2. NoneOf(S, open, offset)
        BY <1>3, <3>1 DEF ClearGoal, ReadClear
      <3>3. PICK to \in Nat : offset < to /\ to <= Len(content[open]) /\ offset' = to
                              /\ Read' = Read \cup {content[open][n] : n \in (offset + 1)..to}
        BY <2>1, FragmentStored DEF CollectInv
      <3>4. \A n \in T : n \in S \/ \E m \in (offset + 1)..to : n <= content[open][m]
        <4>1. ASSUME NEW n \in T PROVE n \in S \/ \E m \in (offset + 1)..to : n <= content[open][m]
          <5>1. n \in Nat \ {0} /\ \E m \in Read' : n <= m
            BY <1>2, <4>1 DEF UpTo
          <5>2. PICK m \in Read' : n <= m
            BY <5>1
          <5>3. CASE m \in Read
            BY <1>2, <5>1, <5>2, <5>3 DEF UpTo
          <5> QED
            BY <3>3, <5>2, <5>3
        <4> QED
          BY <4>1
      <3>5. \A n \in 1..Len(content[open]) : n > offset' => content[open][n] \notin T
        <4>1. ASSUME NEW n \in 1..Len(content[open]), n > to
              PROVE  content[open][n] \notin T
          <5>1. content[open][n] \notin S
            BY <3>1, <3>2, <3>3, <4>1 DEF NoneOf
          <5>2. ASSUME NEW m \in (offset + 1)..to PROVE ~(content[open][n] <= content[open][m])
            <6>1. m \in 1..Len(content[open]) /\ m < n /\ content[open][n] \in Nat /\ content[open][m] \in Nat
              BY <3>1, <3>3, <4>1 DEF CollectInv, FilesInv
            <6>2. content[open][m] < content[open][n]
              BY <3>1, <6>1 DEF OrderInv, Sorted
            <6> QED
              BY <6>1, <6>2
          <5> QED
            BY <3>4, <5>1, <5>2
        <4> QED
          BY <3>3, <4>1
      <3>6. ASSUME NEW k \in Slots, slot[k] \notin {None, open}
            PROVE  \/ Settled(T, k)
                   \/ \A p \in 1..Len(content[slot[k]]) : content[slot[k]][p] \in T => content[slot[k]][p] \in S
        <4>1. PICK i \in Inodes, o \in Inodes : i = slot[k] /\ o = open
          BY <3>1, <3>6, SlotTypes DEF CollectInv
        <4>2. slot[at] = o /\ k # at /\ rotating = None
          BY <1>1, <3>1, <3>6, <4>1 DEF PassInv, Reading
        <4>3. CASE k > at
          <5>1. Settled(Nat, k)
            BY <1>1, <3>1, <4>3 DEF PassInv, Finished
          <5>2. T \subseteq Nat
            BY <1>2 DEF UpTo
          <5> QED
            BY <5>1, <5>2 DEF Settled, Stands, NoneOf
        <4>4. CASE k < at
          <5>1. Older(o, i)
            BY <3>1, <4>1, <4>2, <4>4 DEF OrderInv, Twins
          <5>2. ASSUME NEW p \in 1..Len(content[i]), NEW m \in (offset + 1)..to
                PROVE  ~(content[i][p] <= content[o][m])
            <6>1. m \in 1..Len(content[o])
              BY <3>1, <3>3, <4>1
            <6>2. content[i] \in Seq(Nat) /\ content[o] \in Seq(Nat)
              BY DEF CollectInv, FilesInv
            <6>3. content[i][p] \in Nat /\ content[o][m] \in Nat
              BY <6>1, <6>2
            <6>4. content[o][m] < content[i][p]
              BY <5>1, <6>1 DEF Older
            <6> QED
              BY <6>3, <6>4
          <5> QED
            BY <3>4, <4>1, <5>2
        <4>5. k > at \/ k < at
          BY <3>1, <4>2, SlotFacts
        <4> QED
          BY <4>3, <4>4, <4>5
      <3>7. ClearGoal(T)'
        BY <1>3, <2>1, <3>5, <3>6, ClearEnqueue
      <3>8. ASSUME NEW j \in DOMAIN collected', NEW k \in DOMAIN collected', j < k
            PROVE  collected'[j] < collected'[k]
        <4>1. CASE j \in DOMAIN collected /\ k \in DOMAIN collected
                   /\ collected'[j] = collected[j] /\ collected'[k] = collected[k]
          BY <1>1, <3>8, <4>1 DEF InOrderInv
        <4>2. CASE j \in DOMAIN collected /\ collected'[j] = collected[j]
                   /\ \E n \in 1..Len(content[open]) : n > offset /\ collected'[k] = content[open][n]
          <5>1. collected[j] \in Read /\ collected[j] \in Nat
            BY <4>2 DEF Read, Lines, CollectInv, StoreInv
          <5>2. PICK n \in 1..Len(content[open]) : n > offset /\ collected'[k] = content[open][n]
            BY <4>2
          <5>3. content[open][n] \notin S /\ content[open][n] \in 1..written /\ written \in Nat
            BY <3>1, <3>2, <5>2 DEF NoneOf, CollectInv, FilesInv
          <5>4. ~(content[open][n] <= collected[j])
            BY <1>2, <5>1, <5>3 DEF UpTo
          <5> QED
            BY <4>2, <5>1, <5>2, <5>3, <5>4
        <4>3. Sorted
          BY DEF OrderInv
        <4> QED
          BY <2>1, <3>8, <4>1, <4>2, <4>3, FragmentPlaces
      <3> QED
        BY <3>7, <3>8
    <2>2. CASE ~Enqueue
      <3>1. collected' = collected /\ Read' = Read
        BY <2>2, ReadNext DEF CollectInv
      <3>2. T = S
        BY <1>2, <3>1 DEF UpTo
      <3>3. StartBaseline \/ Baseline \/ (StartScan /\ ~initialized) => S = {}
        BY <1>2 DEF StartBaseline, Baseline, StartInv, UpTo, Read, Lines
      <3>4. ClearGoal(S)'
        BY <1>3, <2>2, <3>3, ClearKeeps
      <3> QED
        BY <1>1, <3>1, <3>2, <3>4 DEF InOrderInv
    <2> QED
      BY <2>1, <2>2
  <1> QED
    BY <1>2, <1>4 DEF InOrderInv, ClearGoal, ReadClear, FilesClear, Settled, Adoptable, Stands, NoneOf

-----------------------------------------------------------------------------
(* The specification.                                                      *)

\* Inductive, beside CollectInv.
QueueInv == NumbersInv /\ StartInv /\ OrderInv /\ ScanInv /\ OnceInv /\ PassInv /\ InOrderInv

LEMMA QueueInit == Init => QueueInv
  <1> SUFFICES ASSUME Init PROVE QueueInv
    OBVIOUS
  <1>1. NumbersInv /\ StartInv
    BY OldInit DEF OldInv
  <1>2. OrderInv
    BY OrderInit
  <1>3. pc = "idle" /\ ~initialized /\ collected = <<>>
    BY DEF Init
  <1>4. ScanInv /\ PassInv
    BY <1>3 DEF ScanInv, PassInv, Finished, Reading
  <1>5. OnceInv /\ InOrderInv
    BY <1>3 DEF OnceInv, InOrderInv, ClearGoal, ReadClear, FilesClear
  <1> QED
    BY <1>1, <1>2, <1>4, <1>5 DEF QueueInv

LEMMA QueueNext == CollectInv /\ QueueInv /\ [Next]_vars => QueueInv'
  <1> SUFFICES ASSUME CollectInv, QueueInv, [Next]_vars PROVE QueueInv'
    OBVIOUS
  <1>1. FilesStep /\ odd \subseteq odd' /\ CollectInv'
    BY FilesNext, CollectNext DEF CollectInv
  <1>2. NumbersInv' /\ StartInv'
    BY <1>1, NumbersNext, StartNext DEF CollectInv, QueueInv
  <1>3. OrderInv'
    BY <1>2, OrderNext DEF QueueInv
  <1>4. ScanInv'
    BY <1>1, <1>2, ScanNext DEF QueueInv
  <1>5. OnceInv'
    BY <1>1, <1>2, OnceNext DEF QueueInv
  <1>6. PassInv'
    BY <1>1, <1>2, PassNext DEF QueueInv
  <1>7. InOrderInv'
    BY <1>1, <1>2, InOrderNext DEF QueueInv
  <1> QED
    BY <1>2, <1>3, <1>4, <1>5, <1>6, <1>7 DEF QueueInv

\* As many lines as places: none is in two.
LEMMA NoneTwice ==
  ASSUME NEW s \in Seq(Nat), \A j, k \in DOMAIN s : j < k => s[j] # s[k]
  PROVE  Cardinality(Lines(s)) = Len(s)
  <1>1. Len(s) \in Nat /\ DOMAIN s = 1..Len(s)
    OBVIOUS
  <1>2. \A j, k \in 1..Len(s) : s[j] = s[k] => j = k
    BY <1>1
  <1>3. s \in Bijection(1..Len(s), Lines(s))
    BY <1>1, <1>2 DEF Bijection, Injection, Surjection, IsInjective, Lines
  <1>4. IsFiniteSet(1..Len(s)) /\ Cardinality(1..Len(s)) = Len(s)
    BY <1>1, FS_Interval
  <1>5. ExistsBijection(1..Len(s), Lines(s))
    BY <1>3 DEF ExistsBijection
  <1>6. Cardinality(Lines(s)) = Cardinality(1..Len(s))
    BY <1>4, <1>5, FS_Bijection
  <1> QED
    BY <1>4, <1>6

\* Each line is queued once, and in its place, wherever a full queue, the budget or an
\* interruption ends a scan and however files are renamed, emptied and added to, unless a rotation
\* overtakes the scan, or a copy escapes it or gets the number of a file that a cursor was stored
\* for (scan_source, _adopt_copy).
THEOREM LinesQueuedInOrder == Spec => []QueuedInOrder
  <1>1. CollectInv /\ QueueInv => QueuedInOrder
    <2> SUFFICES ASSUME CollectInv, QueueInv PROVE QueuedInOrder
      OBVIOUS
    <2>1. OnceOnly
      <3>1. SUFFICES ASSUME ~Misled PROVE Cardinality(Read) = Len(collected)
        BY DEF OnceOnly, Misled
      <3>2. collected \in Seq(Nat)
        BY DEF CollectInv, StoreInv
      <3>3. \A j, k \in DOMAIN collected : j < k => collected[j] # collected[k]
        BY <3>1 DEF QueueInv, OnceInv
      <3> QED
        BY <3>2, <3>3, NoneTwice DEF Read
    <2>2. InOrder
      BY DEF QueueInv, InOrderInv, InOrder, Disturbed
    <2> QED
      BY <2>1, <2>2 DEF QueuedInOrder
  <1>2. Init => CollectInv /\ QueueInv
    BY CollectInit, QueueInit
  <1>3. CollectInv /\ QueueInv /\ [Next]_vars => (CollectInv /\ QueueInv)'
    BY CollectNext, QueueNext
  <1> QED
    BY <1>1, <1>2, <1>3, PTL DEF Spec


=============================================================================
