------------------------------ MODULE UserFiles ------------------------------
(***************************************************************************)
(* The files KeySwitch keeps for its user: the switching rules (RulesFile) *)
(* and the history of corrections (HistoryFile). Both are read when the    *)
(* program starts and end with it.                                         *)
(***************************************************************************)
EXTENDS RulesFile, HistoryFile

vars == <<rulesVars, historyVars>>

TypeOK == RulesTypeOK /\ HistoryTypeOK

Init == RulesInit /\ HistoryInit

\* The rules are loaded before the engine is built, which reads the history.
Starts == pc = "on" /\ StartEngine /\ UNCHANGED rulesVars

\* The program ends while it loads, or later.
Ends ==
    /\ EndProgram
    /\ IF state = "off" THEN UNCHANGED historyVars ELSE EndEngine

Next ==
    \/ RulesStep /\ UNCHANGED historyVars
    \/ HistoryStep /\ UNCHANGED rulesVars
    \/ EditByHand /\ UNCHANGED historyVars
    \/ Starts
    \/ Ends

\* The rules are alike.
RulesAlike == Permutations(Rules)

Spec == Init /\ [][Next]_vars

-----------------------------------------------------------------------------
(* Properties.                                                             *)

\* A rule the user was told is kept, and did not remove, is on disk at every moment: in the
\* file, in the copy of the old one, or in a file that was moved aside, whatever reads and
\* writes fail and wherever the program ends. Only a file that could be neither read nor
\* moved is lost with the next save (load, save, set_aside_unreadable).
RulesKept ==
    \A r \in owned : r \in file.rules \cup aside \cup backup.rules \/ savedOver

\* A file of the old schema is written over only after a whole copy of it was made, unless
\* the making of the copy failed or was cut off, or the file could not be read (load).
BackedUpFirst ==
    [][file.kind = "legacy" /\ file'.kind = "rules" =>
         backup.kind = "legacy" \/ backupFailed \/ stuck]_vars

\* The history is read in the order of writing, and holds the entries that were recorded
\* last, up to the limit, whatever appends and trims failed before; unless an entry follows
\* the rest of one that was cut off, and is unreadable with it (append, read, _rewrite).
LastAreRead ==
    LET read == Readable(history)
    IN  /\ \A i, j \in 1..Len(read) : i < j => read[i] < read[j]
        /\ \A e \in recorded :
             \/ Undecodable(history)
             \/ e \in {read[i] : i \in 1..Len(read)}
             \/ Cardinality({i \in 1..Len(read) : read[i] > e}) >= Limit

\* _record_history says of itself (engine.py:1778): a failed write stops nothing. Neither the
\* corrections after it nor the next start of the engine.
FailedWriteStopsNothing == ~escaped /\ state # "broken"

=============================================================================
