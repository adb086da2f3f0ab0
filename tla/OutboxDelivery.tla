--------------------------- MODULE OutboxDelivery ---------------------------
(***************************************************************************)
(* What the outbox promises for each event, and no more: once committed,   *)
(* an event is queued; each of its handlers takes effect at most once; the *)
(* event counts as delivered only after all of them did; it may be given   *)
(* up, and only an operator brings it back.  There are no publishers,      *)
(* claims, leases or retries here: Outbox.tla adds them.                   *)
(***************************************************************************)
EXTENDS Naturals

CONSTANTS Messages, Handlers, Subscribed

VARIABLES
    phase,    \* where each event stands
    handled   \* pairs <<event, handler>> whose effect took place

vars == <<phase, handled>>

Init ==
    /\ phase = [m \in Messages |-> "none"]
    /\ handled = {}

\* The business transaction commits the event.
Enqueue(m) ==
    /\ phase[m] = "none"
    /\ phase' = [phase EXCEPT ![m] = "queued"]
    /\ UNCHANGED handled

\* The effect of one handler, once.  A publisher that lost its claim may still
\* cause it after the event was given up.
Handle(m, h) ==
    /\ phase[m] \in {"queued", "dead_letter"}
    /\ h \in Subscribed[m]
    /\ <<m, h>> \notin handled
    /\ handled' = handled \cup {<<m, h>>}
    /\ UNCHANGED phase

\* Delivered: every handler has taken effect.
Deliver(m) ==
    /\ phase[m] = "queued"
    /\ \A h \in Subscribed[m] : <<m, h>> \in handled
    /\ phase' = [phase EXCEPT ![m] = "published"]
    /\ UNCHANGED handled

\* Given up, one event or several that were recovered together.
GiveUp(S) ==
    /\ S # {}
    /\ \A m \in S : phase[m] = "queued"
    /\ phase' = [m \in Messages |-> IF m \in S THEN "dead_letter" ELSE phase[m]]
    /\ UNCHANGED handled

\* The operator queues a dead letter again.
Revive(m) ==
    /\ phase[m] = "dead_letter"
    /\ phase' = [phase EXCEPT ![m] = "queued"]
    /\ UNCHANGED handled

Next ==
    \/ \E m \in Messages : Enqueue(m) \/ Deliver(m) \/ Revive(m)
    \/ \E m \in Messages, h \in Handlers : Handle(m, h)
    \/ \E S \in SUBSET Messages : GiveUp(S)

Spec == Init /\ [][Next]_vars

=============================================================================
