----------------------------- MODULE HistoryFile -----------------------------
(***************************************************************************)
(* The history of corrections on disk (history.py, HistoryStore): a line   *)
(* is appended for each, the whole is trimmed to a limit by writing it     *)
(* aside and swapping it in, and it is read line by line. An append that   *)
(* fails, for want of room, or is cut off leaves the beginning of a line,  *)
(* which may end within a letter: the lines hold Russian words, unescaped. *)
(*                                                                         *)
(* An entry is its number; the file is what was written, in pieces.        *)
(***************************************************************************)
EXTENDS Integers, Sequences, SequencesExt, FiniteSetsExt

CONSTANTS
    Limit,          \* limit
    MaxEntries,     \* bound: corrections
    MaxTears        \* bound: appends and trims that fail or are cut off, and unreadable moments

ASSUME LimitAssumption == Limit \in Nat \ {0} /\ MaxEntries \in Nat /\ MaxTears \in Nat

VARIABLES
    history,    \* history.jsonl
    entries,    \* corrections so far
    state,      \* the engine: "off", "on", or "broken", if it cannot be built
    recorded,   \* entries that append wrote and that got a line of their own, since the last
                \* clearing
    tears,      \* failures so far
    escaped     \* has an error of the history ended what the engine was at, after a correction?

historyVars == <<history, entries, state, recorded, tears, escaped>>

\* What can be left of a line: the whole, all but its end of line, a part of it that is text,
\* a part that ends within a letter.
Parts == {"line", "bare", "torn", "cut"}
Piece(entry, part) == [entry |-> entry, part |-> part]

HistoryTypeOK ==
    /\ history \in Seq([entry : 1..MaxEntries, part : Parts])
    /\ entries \in 0..MaxEntries
    /\ state \in {"off", "on", "broken"}
    /\ recorded \subseteq 1..MaxEntries
    /\ tears \in 0..MaxTears
    /\ escaped \in BOOLEAN

Tear == tears < MaxTears /\ tears' = tears + 1

-----------------------------------------------------------------------------
(* read()                                                                  *)

\* The bytes are not UTF-8: read_text raises, and what it raises is no OSError.
Undecodable(pieces) == \E i \in 1..Len(pieces) : pieces[i].part = "cut"

\* The entry of piece i can be read if it has a line of its own: what follows a piece without
\* an end of line is in one line with it, and is skipped with it.
HasItsLine(pieces, i) ==
    /\ \/ pieces[i].part = "line"
       \/ pieces[i].part = "bare" /\ i = Len(pieces)
    /\ i > 1 => pieces[i - 1].part = "line"

Readable(pieces) ==
    LET read[n \in 0..Len(pieces)] ==
            IF n = 0 THEN <<>>
            ELSE IF HasItsLine(pieces, n) THEN Append(read[n - 1], pieces[n].entry)
            ELSE read[n - 1]
    IN  read[Len(pieces)]

\* The last entries, at most so many.
LastOf(seq, count) == SubSeq(seq, Max({1, Len(seq) - count + 1}), Len(seq))

-----------------------------------------------------------------------------
(* append()                                                                *)

\* Mutant: the oldest entries are kept.
TrimmedToOldest(pieces) ==
    LET whole == SubSeq(Readable(pieces), 1, Limit)
    IN  [k \in 1..Len(whole) |-> Piece(whole[k], "line")]

\* _rewrite, with the last entries.
Trimmed(pieces) ==
    LET whole == LastOf(Readable(pieces), Limit)
    IN  [k \in 1..Len(whole) |-> Piece(whole[k], "line")]

\* The entry is written; then the file is read and trimmed, if it holds too many. The reading
\* may be refused, which is taken for an empty file, and the trimming may fail, which leaves
\* the file as it is and is an error of append, though the entry is in the file.
AppendEntry(entry) ==
    LET written == Append(history, Piece(entry, "line"))
        inItsLine == IF HasItsLine(written, Len(written)) THEN recorded \cup {entry} ELSE recorded
    IN  \/ /\ Undecodable(written)
           /\ history' = written
           /\ escaped' = TRUE
           /\ UNCHANGED <<recorded, tears>>
        \/ /\ ~Undecodable(written)
           /\ history' = IF Len(Readable(written)) > Limit THEN Trimmed(written) ELSE written
           /\ recorded' = inItsLine
           /\ UNCHANGED <<tears, escaped>>
        \/ /\ history' = written /\ Tear
           /\ recorded' = inItsLine
           /\ UNCHANGED escaped

\* What an append that failed or was cut off has left.
AppendTears(entry) ==
    /\ Tear
    /\ history' \in {history} \cup {Append(history, Piece(entry, part)) : part \in Parts}
    /\ UNCHANGED <<recorded, escaped>>

\* _record_history: the error of a write is shown and nothing stops; the engine goes on.
Record ==
    /\ state = "on" /\ entries < MaxEntries
    /\ entries' = entries + 1
    /\ \/ AppendEntry(entries + 1)
       \/ AppendTears(entries + 1)
    /\ UNCHANGED state

\* clear() empties the file in place.
ClearHistory ==
    /\ state = "on" /\ history # <<>>
    /\ history' = <<>>
    /\ recorded' = {}
    /\ UNCHANGED <<entries, state, tears, escaped>>

-----------------------------------------------------------------------------
(* The program.                                                            *)

\* The engine counts the entries when it is built (engine.py:576).
StartEngine ==
    /\ state = "off"
    /\ state' = IF Undecodable(history) THEN "broken" ELSE "on"
    /\ UNCHANGED <<history, entries, recorded, tears, escaped>>

\* The program ends, perhaps within an append.
EndEngine ==
    /\ state # "off"
    /\ state' = "off"
    /\ \/ UNCHANGED <<history, entries, recorded, tears, escaped>>
       \/ /\ state = "on" /\ entries < MaxEntries
          /\ entries' = entries + 1
          /\ AppendTears(entries + 1)

HistoryInit ==
    /\ history = <<>>
    /\ entries = 0
    /\ state = "off"
    /\ recorded = {}
    /\ tears = 0
    /\ escaped = FALSE

HistoryStep == Record \/ ClearHistory

=============================================================================
