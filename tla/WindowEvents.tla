---------------------------- MODULE WindowEvents ----------------------------
(***************************************************************************)
(* How the other threads of KeySwitch reach its window (desktop_ui.py,     *)
(* _post and _drain_events): an action for the window's thread is put in a *)
(* queue, which that thread empties from time to time. Once the window     *)
(* closes nothing more is put there; what is there already is still done   *)
(* if the closing happened while the queue was being emptied.              *)
(***************************************************************************)
EXTENDS Integers, Sequences

VARIABLES
    events,     \* _events: what the window's thread is to do
    closing,    \* _closing
    draining    \* is _drain_events at work?

windowVars == <<events, closing, draining>>

\* An action for the window: what to do, and with which state or phase.
Action(do, with) == [do |-> do, with |-> with]

\* The queue after actions were posted to it.
Posted(queue, actions) == IF closing THEN queue ELSE queue \o actions

Post(action) == events' = Posted(events, <<action>>)

-----------------------------------------------------------------------------

DrainBegin ==
    /\ ~closing /\ ~draining
    /\ draining' = TRUE
    /\ UNCHANGED <<events, closing>>

DrainEnd ==
    /\ draining /\ events = <<>>
    /\ draining' = FALSE
    /\ UNCHANGED <<events, closing>>

\* The next action of the queue is do: the window's thread takes it.
Takes(do) ==
    /\ draining /\ events # <<>>
    /\ Head(events).do = do
    /\ UNCHANGED draining

WindowInit ==
    /\ events = <<>>
    /\ closing = FALSE
    /\ draining = FALSE

=============================================================================
