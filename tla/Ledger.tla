------------------------------- MODULE Ledger -------------------------------
(***************************************************************************)
(* What a chain of catalogs promises about the log fragments: each one     *)
(* waits, is listed, and may be forgotten with the chain that listed it.   *)
(***************************************************************************)
CONSTANT Fragments
VARIABLES
    waiting,    \* collected, in no catalog yet
    listed,     \* in a catalog of the present chain
    former      \* in a chain the user ended, or dropped with the group's messages

ledger == <<waiting, listed, former>>

Init == waiting = {} /\ listed = {} /\ former = {}

Collect ==
    /\ \E f \in Fragments \ (waiting \cup listed \cup former) : waiting' = waiting \cup {f}
    /\ UNCHANGED <<listed, former>>

Publish ==
    /\ \E S \in SUBSET waiting :
         /\ waiting' = waiting \ S
         /\ listed' = listed \cup S
    /\ UNCHANGED former

\* The chain is started anew: all of it is forgotten at once.
Restart ==
    /\ former' = former \cup listed
    /\ listed' = {}
    /\ UNCHANGED waiting

\* Archives without a catalog go with the group's messages.
Drop ==
    /\ \E S \in SUBSET waiting :
         /\ waiting' = waiting \ S
         /\ former' = former \cup S
    /\ UNCHANGED listed

Next == Collect \/ Publish \/ Restart \/ Drop
Spec == Init /\ [][Next]_ledger
=============================================================================
