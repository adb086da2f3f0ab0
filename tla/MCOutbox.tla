------------------------------ MODULE MCOutbox ------------------------------
(* Instances of Outbox for TLC.                                            *)
EXTENDS Outbox

\* Event 1 has a handler, event 2 has none, like most business events.
MCSubscribed == [m \in Messages |-> IF m = 1 THEN Handlers ELSE {}]

=============================================================================
