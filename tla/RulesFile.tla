------------------------------ MODULE RulesFile ------------------------------
(***************************************************************************)
(* The user's switching rules on disk (learning.py, LearningStore): read   *)
(* when the program starts, converted from the schema with counters if     *)
(* need be, moved aside if they cannot be read, and written as a whole at  *)
(* every change. Any read or write may fail and the program may end        *)
(* between any two of them.                                                *)
(*                                                                         *)
(* A rule is a value: what it matches is left out. The settings file       *)
(* (config.py) is read, moved aside and written in the same way.           *)
(***************************************************************************)
EXTENDS Integers

CONSTANTS
    Rules,          \* rules the user may have
    MaxFaults       \* bound: reads and writes that fail, ends of the program

ASSUME FaultsAssumption == MaxFaults \in Nat

VARIABLES
    file,       \* learning.json
    backup,     \* learning.json.v2-backup
    aside,      \* the rules in files that were moved aside
    rules,      \* _rules
    pc,         \* where the program stands: "off", "load", "backup", "convert", "on"
    faults,     \* failures so far
    owned,      \* the rules the user has: told they are kept, and not removed
    stuck,      \* is file one that could be neither read nor moved aside?
    savedOver,  \* was such a file saved over?
    backupFailed\* did the writing of the backup fail, or was it cut off?

rulesVars == <<file, backup, aside, rules, pc, faults, owned, stuck, savedOver,
               backupFailed>>

\* A file: none, one of this schema, one of the old schema, one nobody can parse (the bytes
\* of which are the user's all the same), or the beginning of one.
Contents(kind, what) == [kind |-> kind, rules |-> what]
Missing == Contents("none", {})

\* The file itself is never a part of one.
RulesTypeOK ==
    /\ file \in [kind : {"none", "rules", "legacy", "junk"}, rules : SUBSET Rules]
    /\ backup \in [kind : {"none", "legacy", "torn"}, rules : SUBSET Rules]
    /\ aside \subseteq Rules /\ rules \subseteq Rules /\ owned \subseteq Rules
    /\ pc \in {"off", "load", "backup", "convert", "on"}
    /\ faults \in 0..MaxFaults
    /\ stuck \in BOOLEAN /\ savedOver \in BOOLEAN
    /\ backupFailed \in BOOLEAN

\* A read or a write fails, or the program ends.
Fault == faults < MaxFaults /\ faults' = faults + 1

-----------------------------------------------------------------------------
(* load(), when the program starts.                                        *)

StartProgram ==
    /\ pc = "off"
    /\ pc' = "load"
    /\ UNCHANGED <<file, backup, aside, rules, faults, owned, stuck, savedOver,
                   backupFailed>>

\* Mutant: an old file is converted without a copy.
LoadReadsOnly ==
    /\ pc = "load"
    /\ file.kind \in {"none", "rules", "legacy"}
    /\ rules' = file.rules
    /\ pc' = IF file.kind = "legacy" THEN "convert" ELSE "on"
    /\ stuck' = FALSE
    /\ UNCHANGED <<file, backup, aside, faults, owned, savedOver, backupFailed>>

LoadReads ==
    /\ pc = "load"
    /\ file.kind \in {"none", "rules", "legacy"}
    /\ rules' = file.rules
    /\ pc' = IF file.kind = "legacy" THEN "backup" ELSE "on"
    /\ stuck' = FALSE
    /\ UNCHANGED <<file, backup, aside, faults, owned, savedOver, backupFailed>>

\* Mutant: a file that cannot be read is left where it is.
LoadLeavesIt ==
    /\ pc = "load"
    /\ \/ file.kind = "junk" /\ UNCHANGED faults
       \/ file.kind # "none" /\ Fault
    /\ rules' = {} /\ pc' = "on"
    /\ stuck' = FALSE
    /\ UNCHANGED <<file, backup, aside, owned, savedOver, backupFailed>>

\* set_aside_unreadable: the file is moved out of the way of the next save. That may fail.
LoadSetsAside ==
    /\ pc = "load"
    /\ rules' = {} /\ pc' = "on"
    /\ \/ /\ \/ file.kind = "junk" /\ UNCHANGED faults
             \/ file.kind # "none" /\ Fault
          /\ aside' = aside \cup file.rules
          /\ file' = Missing
          /\ stuck' = FALSE
       \/ /\ file.kind # "none" /\ Fault
          /\ stuck' = TRUE
          /\ UNCHANGED <<file, aside>>
    /\ UNCHANGED <<backup, owned, savedOver, backupFailed>>

\* The old file is copied before it is converted, unless there is a copy.
LoadBacksUp ==
    /\ pc = "backup"
    /\ \/ /\ backup' = IF backup.kind = "none" THEN file ELSE backup
          /\ pc' = "convert"
          /\ UNCHANGED <<faults, backupFailed>>
       \/ /\ Fault /\ backup.kind = "none"
          /\ backup' \in {Missing, Contents("torn", {})}
          /\ pc' = "on"
          /\ backupFailed' = TRUE
    /\ UNCHANGED <<file, aside, rules, owned, stuck, savedOver>>

-----------------------------------------------------------------------------
(* save(): written aside and swapped in.                                   *)

\* Mutant: the file is written in place.
SavesInPlace(what, keeps, fails) ==
    \/ /\ file' = Contents("rules", what)
       /\ owned' = keeps /\ stuck' = FALSE
       /\ savedOver' = (savedOver \/ stuck)
       /\ UNCHANGED faults
    \/ /\ Fault
       /\ file' = Contents("torn", {})
       /\ owned' = fails
       /\ UNCHANGED <<stuck, savedOver>>

\* The rules are on disk, and keeps is what the user then has; or the save fails and leaves
\* the file as it was.
Saves(what, keeps, fails) ==
    \/ /\ file' = Contents("rules", what)
       /\ owned' = keeps /\ stuck' = FALSE
       /\ savedOver' = (savedOver \/ stuck)
       /\ UNCHANGED faults
    \/ /\ Fault
       /\ owned' = fails
       /\ UNCHANGED <<file, stuck, savedOver>>

\* The converted rules are saved; if that fails the old file stays, to be converted again.
LoadConverts ==
    /\ pc = "convert"
    /\ Saves(rules, owned, owned)
    /\ pc' = "on"
    /\ UNCHANGED <<backup, aside, rules, backupFailed>>

-----------------------------------------------------------------------------
(* What the rule window and the list of rules do. Memory changes first.    *)

Changes(to, keeps, fails) ==
    /\ pc = "on"
    /\ rules' = to
    /\ Saves(to, keeps, fails)
    /\ UNCHANGED <<backup, aside, pc, backupFailed>>

AddRule(r) == Changes(rules \cup {r}, owned \cup {r}, owned)

\* An edited rule takes the place of the one the user opened.
ReplaceRule(old, new) ==
    Changes((rules \ {old}) \cup {new}, (owned \ {old}) \cup {new}, owned \ {old})

RemoveRule(r) ==
    /\ r \in rules
    /\ Changes(rules \ {r}, owned \ {r}, owned \ {r})

ClearRules == Changes({}, {}, {})

-----------------------------------------------------------------------------
(* The world around.                                                       *)

\* The program is closed, or ends anywhere; a backup may be half written.
EndProgram ==
    /\ pc # "off"
    /\ Fault
    /\ pc' = "off"
    /\ rules' = {} /\ stuck' = FALSE
    /\ \/ UNCHANGED <<backup, backupFailed>>
       \/ /\ pc = "backup" /\ backup.kind = "none"
          /\ backup' = Contents("torn", {})
          /\ backupFailed' = TRUE
    /\ UNCHANGED <<file, aside, owned, savedOver>>

\* The user edits the file by hand and leaves a comma out.
EditByHand ==
    /\ pc = "off" /\ file.kind \in {"rules", "legacy"}
    /\ Fault
    /\ file' = Contents("junk", file.rules)
    /\ UNCHANGED <<backup, aside, rules, pc, owned, stuck, savedOver, backupFailed>>

RulesInit ==
    /\ \E kind \in {"none", "rules", "legacy"}, what \in SUBSET Rules :
         /\ kind = "none" => what = {}
         /\ file = Contents(kind, what)
    /\ backup = Missing /\ aside = {}
    /\ rules = {} /\ pc = "off"
    /\ faults = 0
    /\ owned = file.rules
    /\ stuck = FALSE /\ savedOver = FALSE /\ backupFailed = FALSE

RulesStep ==
    \/ StartProgram \/ LoadReads \/ LoadSetsAside \/ LoadBacksUp \/ LoadConverts
    \/ \E r \in Rules : AddRule(r) \/ RemoveRule(r)
    \/ \E old, new \in Rules : ReplaceRule(old, new)
    \/ ClearRules

=============================================================================
