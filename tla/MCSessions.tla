----------------------------- MODULE MCSessions -----------------------------
(* Constants for TLC. *)
EXTENDS Sessions, TLC

CONSTANTS s1, s2, t1, t2, t3, r1, r2

TwoSessions == {s1, s2}
ThreeTokens == {t1, t2, t3}
TwoRequests == {r1, r2}

\* A second session matters to a request that mixes up the tokens of both:
\* it is there while nothing is closed and the first access tokens last.
Scene ==
    \/ Cardinality({session[t] : t \in Tokens} \ {None}) <= 1
    \/ clock <= 1 + AccessTTL /\ \A s \in Sessions : closedAt[s] = 0
Symmetry == Permutations(TwoSessions) \cup Permutations(ThreeTokens) \cup Permutations(TwoRequests)

=============================================================================
