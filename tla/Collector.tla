------------------------------ MODULE Collector ------------------------------
(***************************************************************************)
(* LogCourier's collection (collector.py and store.py of apps/logcourier): *)
(* a log and its rotated files are read from where the cursor of each file *)
(* stands, oldest file first, and queued in fragments. A file is known by  *)
(* its inode number, and a cursor is believed if the bytes before it still *)
(* have the fingerprint that was stored with it.                           *)
(*                                                                         *)
(* The program that writes the log, and the one that rotates it, by        *)
(* renaming or by copying and truncating, run beside the collector, which  *)
(* opens one path after another and may be interrupted between any two     *)
(* transactions.                                                           *)
(*                                                                         *)
(* A line is its number in the order of writing. The fingerprint of a      *)
(* prefix is its last line: lines carry their time, no two are alike.      *)
(***************************************************************************)
EXTENDS Integers, FiniteSets, Sequences, FiniteSetsExt

CONSTANTS
    Inodes,             \* inode numbers of the directory
    None,
    Rotations,          \* source.rotations
    Chunk,              \* CHUNK_BYTES, in lines
    Budget,             \* DEFAULT_MAX_CHUNKS_PER_SCAN
    Capacity,           \* MAX_QUEUE_BYTES, in fragments
    IncludeExisting,    \* what source.include_existing may be
    Copying,            \* may a rotation copy the live file, or else rename it?
    MaxLines,           \* bound: lines written
    MaxRotations,       \* bound: rotations
    MaxFaults           \* bound: interruptions

Live == 0               \* the path without a suffix; path .k is slot k
Slots == Live..Rotations

ASSUME SizesAssumption ==
    /\ Rotations \in Nat \ {0} /\ Chunk \in Nat \ {0} /\ Budget \in Nat \ {0}
    /\ Capacity \in Nat \ {0}
    /\ MaxLines \in Nat /\ MaxLines > 1    \* there are two lines to begin with
    /\ MaxRotations \in Nat /\ MaxFaults \in Nat
    /\ None \notin Inodes \cup [offset : Nat, anchor : Nat] \cup [copies : BOOLEAN, to : Nat]
    /\ IsFiniteSet(Inodes) /\ Cardinality(Inodes) > 1
    /\ IncludeExisting \subseteq BOOLEAN /\ Copying \subseteq BOOLEAN

VARIABLES
    \* the directory
    content,    \* what the file of an inode number holds
    slot,       \* the paths
    free,       \* inode numbers a new file may get
    rotating,   \* the rotation under way
    written,    \* lines written so far
    rotations,
    \* the store
    cursors,    \* cursors: where reading of a file goes on
    includes,   \* source.include_existing
    initialized,\* initialized: is the source no longer new?
    queued,     \* fragments that wait for delivery
    \* the scan under way
    pc, at, open, size, offset, count, gathered,
    \* bounds, and what the properties look back on
    faults,
    collected,  \* the lines queued so far, in this order
    old,        \* lines written before the baseline was begun
    left,       \* lines behind the cursors that the baseline stored
    odd         \* the rare things that happened (see README)

directory == <<content, slot, free, rotating, written, rotations>>
store == <<cursors, includes, initialized, queued>>
scan == <<pc, at, open, size, offset, count, gathered>>
vars == <<directory, store, scan, faults, collected, old, left, odd>>

\* What a property may have to make an exception for.
Remember(what) == odd' = odd \cup what

-----------------------------------------------------------------------------
(* The directory *)

\* A number is given to a new file again when no path and no reader has it.
Gone(i) == IF i = None THEN {} ELSE {i}
Unused == free \ Gone(open)
Present == {slot[k] : k \in Slots} \ {None}

\* The program writes a line. While it renames its files itself it does not.
Write ==
    /\ written < MaxLines
    /\ rotating # None => rotating.copies
    /\ written' = written + 1
    /\ \/ /\ slot[Live] # None
          /\ content' = [content EXCEPT ![slot[Live]] = Append(@, written + 1)]
          /\ UNCHANGED <<slot, free>>
       \/ /\ slot[Live] = None
          /\ \E i \in Unused :
               /\ content' = [content EXCEPT ![i] = <<written + 1>>]
               /\ slot' = [slot EXCEPT ![Live] = i]
               /\ free' = free \ {i}
    /\ UNCHANGED <<rotating, rotations, store, scan, faults, collected, old, left, odd>>

\* What a rotation disturbs: the baseline or a scan.
Overlap(label) == CASE label = "baseline" -> {"uprooted"}
                    [] label \in {"open", "read"} -> {"overtaken"}
                    [] OTHER -> {}

StartRotation ==
    /\ rotating = None /\ slot[Live] # None /\ content[slot[Live]] # <<>>
    /\ rotations < MaxRotations
    /\ rotations' = rotations + 1
    /\ \E copies \in Copying : rotating' = [copies |-> copies, to |-> Rotations]
    /\ Remember(Overlap(pc))
    /\ UNCHANGED <<content, slot, free, written, store, scan, faults, collected, old, left>>

\* A file, if there is one, moves up to path .k, whose own file is deleted by that.
MovesTo(k) ==
    \/ /\ slot[k - 1] = None
       /\ UNCHANGED <<slot, free>>
    \/ /\ slot[k - 1] # None
       /\ slot' = [slot EXCEPT ![k] = slot[k - 1], ![k - 1] = None]
       /\ free' = free \cup Gone(slot[k])

\* A file that no cursor was stored for yet.
Unknown(i) == i # None /\ cursors[i] = None

Shift ==
    /\ rotating # None /\ rotating.to > 1
    /\ MovesTo(rotating.to)
    /\ rotating' = [rotating EXCEPT !.to = @ - 1]
    /\ Remember(IF pc \in {"open", "read"} /\ Unknown(slot[rotating.to - 1]) THEN {"copied"} ELSE {})
    /\ UNCHANGED <<content, written, rotations, store, scan, faults, collected, old, left>>

Rename ==
    /\ rotating # None /\ rotating.to = 1 /\ ~rotating.copies
    /\ MovesTo(1)
    /\ rotating' = None
    /\ UNCHANGED <<content, written, rotations, store, scan, faults, collected, old, left, odd>>

\* The copy may get the number of a file just deleted, which a cursor knows.
Copy ==
    /\ rotating # None /\ rotating.to = 1 /\ rotating.copies
    /\ \E i \in (free \cup Gone(slot[1])) \ Gone(open) :
         /\ content' = [content EXCEPT ![i] = content[slot[Live]]]
         /\ slot' = [slot EXCEPT ![1] = i]
         /\ free' = (free \cup Gone(slot[1])) \ {i}
         /\ Remember((IF {cursors[i], gathered[i]} # {None} THEN {"reused"} ELSE {})
                     \cup (IF pc \in {"open", "read"} THEN {"copied"} ELSE {}))
    /\ rotating' = [rotating EXCEPT !.to = 0]
    /\ UNCHANGED <<written, rotations, store, scan, faults, collected, old, left>>

\* What the program wrote since the copy is lost with the rest.
Truncate ==
    /\ rotating # None /\ rotating.to = 0
    /\ content' = [content EXCEPT ![slot[Live]] = <<>>]
    /\ rotating' = None
    /\ Remember(IF open = slot[Live] THEN {"emptied"} ELSE {})
    /\ UNCHANGED <<slot, free, written, rotations, store, scan, faults, collected, old, left>>

-----------------------------------------------------------------------------
(* scan_source *)

Cursor(i, o) == [offset |-> o, anchor |-> IF o = 0 THEN 0 ELSE content[i][o]]
Lines(s) == {s[k] : k \in DOMAIN s}
NoCursors == [i \in Inodes |-> None]

\* Mutant: a file that is long enough is believed, whatever it holds.
MatchesByLength(i, cursor) == cursor.offset <= Len(content[i])

\* The bytes before a cursor are still those that were read.
Matches(i, cursor) ==
    cursor.offset <= Len(content[i]) /\ cursor = Cursor(i, cursor.offset)

\* The scan begins with the oldest file and goes on to the live one.
Starts(label) == pc' = label /\ at' = Rotations /\ open' = None /\ size' = 0 /\ offset' = 0

NextPath ==
    /\ pc' = IF at = Live THEN "idle" ELSE "open"
    /\ at' = IF at = Live THEN Live ELSE at - 1
    /\ open' = None /\ size' = 0 /\ offset' = 0

EndScan == pc' = "idle" /\ at' = Live /\ open' = None /\ size' = 0 /\ offset' = 0

\* The first scan of a source that leaves out what is there already.
StartBaseline ==
    /\ pc = "idle" /\ ~initialized /\ ~includes
    /\ Starts("baseline")
    /\ gathered' = cursors
    /\ old' = written
    /\ left' = {}
    /\ Remember(IF rotating # None THEN Overlap("baseline") ELSE {})
    /\ UNCHANGED <<directory, store, count, faults, collected>>

\* Mutant: rotated files are left out of the baseline.
BaselineOfLive ==
    /\ pc = "baseline"
    /\ LET i == slot[Live] IN
       /\ gathered' = IF i = None THEN gathered
                      ELSE [gathered EXCEPT ![i] = Cursor(i, Len(content[i]))]
       /\ left' = IF i = None THEN left ELSE left \cup Lines(content[i])
    /\ at' = -1
    /\ pc' = "commit"
    /\ UNCHANGED <<directory, store, open, size, offset, count, faults, collected, old, odd>>

\* It puts a cursor at the end of every file, in one transaction.
Baseline ==
    /\ pc = "baseline"
    /\ LET i == slot[at] IN
       \/ /\ i # None /\ gathered[i] = None
          /\ gathered' = [gathered EXCEPT ![i] = Cursor(i, Len(content[i]))]
          /\ left' = left \cup Lines(content[i])
       \/ /\ i # None => gathered[i] # None
          /\ UNCHANGED <<gathered, left>>
    /\ at' = at - 1
    /\ pc' = IF at = Live THEN "commit" ELSE "baseline"
    /\ UNCHANGED <<directory, store, open, size, offset, count, faults, collected, old, odd>>

CommitBaseline ==
    /\ pc = "commit"
    /\ cursors' = gathered
    /\ initialized' = TRUE
    /\ gathered' = NoCursors
    /\ EndScan
    /\ UNCHANGED <<directory, includes, queued, count, faults, collected, old, left, odd>>

StartScan ==
    /\ pc = "idle" /\ (initialized \/ includes)
    /\ Starts("open")
    /\ initialized' = TRUE
    /\ count' = 0
    /\ Remember(IF rotating = None THEN {}
                ELSE Overlap("open") \cup (IF rotating.to = Live THEN {"copied"} ELSE {}))
    /\ UNCHANGED <<directory, cursors, includes, queued, gathered, faults, collected, old, left>>

\* _adopt_copy: the cursors whose bytes a new file holds as well.
Copied(i) == {r \in Inodes : cursors[r] # None /\ cursors[r].offset > 0 /\ Matches(i, cursors[r])}
Furthest(i) == CHOOSE c \in {cursors[r] : r \in Copied(i)} : \A r \in Copied(i) : cursors[r].offset <= c.offset

\* Mutant: a copy is a new file.
KnownByNumber(i) == cursors[i]

\* What is known of a file: its own cursor, or that of the file it is a copy of.
Known(i) == IF cursors[i] # None THEN cursors[i]
            ELSE IF Copied(i) # {} THEN Furthest(i) ELSE None

\* The next path; no file may have it. A file whose bytes have changed is read
\* from its start.
Open ==
    /\ pc = "open" /\ count < Budget
    /\ LET i == slot[at] IN
       \/ /\ i = None
          /\ NextPath
          /\ UNCHANGED cursors
       \/ /\ i # None
          /\ cursors' = [cursors EXCEPT ![i] = Known(i)]
          /\ open' = i
          /\ size' = Len(content[i])
          /\ offset' = IF Known(i) # None /\ Matches(i, Known(i)) THEN Known(i).offset ELSE 0
          /\ pc' = "read"
          /\ UNCHANGED at
    /\ UNCHANGED <<directory, includes, initialized, queued, count, gathered, faults, collected, old, left, odd>>

BudgetSpent ==
    /\ pc = "open" /\ count >= Budget
    /\ EndScan
    /\ UNCHANGED <<directory, store, count, gathered, faults, collected, old, left, odd>>

Unread == offset < size /\ count < Budget /\ offset < Len(content[open])

\* Mutant: one fragment too many.
RoomForOneMore == queued <= Capacity
Room == queued < Capacity

\* Mutant: the cursor is put at the end of the file.
BehindAll(to) == Cursor(open, Len(content[open]))

\* The cursor stored with a fragment.
Behind(to) == Cursor(open, to)

\* A fragment and the cursor behind it are stored together. A fragment ends at a
\* line's end, or where the version of the writer changes.
Enqueue ==
    /\ pc = "read" /\ Unread
    /\ Room
    /\ \E to \in (offset + 1)..Min({offset + Chunk, size, Len(content[open])}) :
         /\ offset' = to
         /\ cursors' = [cursors EXCEPT ![open] = Behind(to)]
         /\ collected' = collected \o SubSeq(content[open], offset + 1, to)
    /\ queued' = queued + 1
    /\ count' = count + 1
    /\ UNCHANGED <<directory, includes, initialized, pc, at, open, size, gathered, faults, old, left, odd>>

\* QueueFull: nothing is stored, and the scan is over.
QueueFull ==
    /\ pc = "read" /\ Unread
    /\ ~Room
    /\ EndScan
    /\ UNCHANGED <<directory, store, count, gathered, faults, collected, old, left, odd>>

FileRead ==
    /\ pc = "read" /\ ~Unread
    /\ NextPath
    /\ UNCHANGED <<directory, store, count, gathered, faults, collected, old, left, odd>>

\* The program ends, or a file cannot be read: what no transaction stored is forgotten.
Interrupted ==
    /\ pc # "idle"
    /\ faults < MaxFaults
    /\ faults' = faults + 1
    /\ EndScan
    /\ gathered' = NoCursors
    /\ UNCHANGED <<directory, store, count, collected, old, left, odd>>

\* An archive is delivered: there is room again.
Delivered ==
    /\ queued > 0
    /\ queued' = queued - 1
    /\ UNCHANGED <<directory, cursors, includes, initialized, scan, faults, collected, old, left, odd>>

-----------------------------------------------------------------------------
(* The specification *)

\* A live file and, maybe, an older one, with a line in each.
First == CHOOSE i \in Inodes : TRUE
Second == CHOOSE i \in Inodes \ {First} : TRUE

Init ==
    /\ \E older \in {{}, {Second}} :
         /\ written = Cardinality(older) + 1
         /\ content = [i \in Inodes |-> CASE i = First -> <<written>> [] i \in older -> <<1>> [] OTHER -> <<>>]
         /\ slot = [k \in Slots |-> IF k = Live THEN First ELSE IF k = 1 /\ older # {} THEN Second ELSE None]
         /\ free = Inodes \ ({First} \cup older)
    /\ rotating = None /\ rotations = 0
    /\ cursors = NoCursors /\ includes \in IncludeExisting /\ initialized = FALSE /\ queued = 0
    /\ pc = "idle" /\ at = Live /\ open = None /\ size = 0 /\ offset = 0 /\ count = 0
    /\ gathered = NoCursors
    /\ faults = 0 /\ collected = <<>> /\ old = 0 /\ left = {} /\ odd = {}

Rotates == Shift \/ Rename \/ Copy \/ Truncate
Scans == StartBaseline \/ Baseline \/ CommitBaseline \/ StartScan \/ Open \/ BudgetSpent
         \/ Enqueue \/ QueueFull \/ FileRead

Next == Write \/ StartRotation \/ Rotates \/ Scans \/ Interrupted \/ Delivered

\* The service scans every few seconds and delivers what is queued; a rotation
\* once begun is finished.
Fairness == WF_vars(Scans) /\ WF_vars(Delivered) /\ WF_vars(Rotates)

Spec == Init /\ [][Next]_vars /\ Fairness

-----------------------------------------------------------------------------
(* Properties *)

Offsets == 0..MaxLines
CursorType == [offset : Offsets, anchor : Offsets] \cup {None}

\* Types of the directory, the store and the scan; the queue is bounded.
TypeOK ==
    /\ content \in [Inodes -> Seq(1..MaxLines)] /\ slot \in [Slots -> Inodes \cup {None}]
    /\ free \subseteq Inodes
    /\ rotating # None => rotating.to \in Slots
    /\ cursors \in [Inodes -> CursorType] /\ initialized \in BOOLEAN /\ queued \in 0..Capacity
    /\ pc \in {"idle", "baseline", "commit", "open", "read"} /\ at \in -1..Rotations
    /\ open \in Inodes \cup {None} /\ size \in Offsets /\ offset \in Offsets /\ count \in 0..Budget
    /\ gathered \in [Inodes -> CursorType] /\ (open # None <=> pc = "read")

Read == Lines(collected)

\* No line is queued twice, through interruptions, full queues and rotations.
OnceOnly == odd \cap {"copied", "reused"} = {} => Cardinality(Read) = Len(collected)

\* What was in the files when the source was added is never queued: "Initial
\* baseline includes rotated files, so old logs cannot leak later."
OldLinesStay == odd \cap {"uprooted", "copied", "reused"} = {} => Read \cap 1..old = {}

\* Every line before a cursor that is believed was queued, or left out by the
\* baseline: a rewritten file is not taken for the one that was read.
NoneSkipped ==
    "emptied" \notin odd => \A i \in Present :
        cursors[i] # None /\ Matches(i, cursors[i]) =>
            Lines(SubSeq(content[i], 1, cursors[i].offset)) \subseteq Read \cup left

\* Lines are queued in the order they were written, though a full queue, the
\* budget or an interruption ends a scan between any two fragments.
InOrder ==
    odd \cap {"overtaken", "copied", "reused"} = {} =>
        \A j, k \in DOMAIN collected : j < k => collected[j] < collected[k]

\* Each line is queued once and in its place, whatever ends a scan and moves the files.
QueuedInOrder == OnceOnly /\ InOrder

\* A line that stays in one of the files is queued in the end: no cursor stands
\* behind it for ever, and the queue does not stay full.
Waits(n) == n \notin Read \cup left /\ \E i \in Present : n \in Lines(content[i])
EveryLineQueued == \A n \in 1..MaxLines : []<>(~Waits(n) \/ "emptied" \in odd)
=============================================================================
