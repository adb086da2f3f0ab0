--------------------------- MODULE MCIdempotency ----------------------------
(* Constants for TLC. *)
EXTENDS Idempotency

CONSTANTS p1, p2, p3, k1, k2, f1, f2

ThreeRequests == {p1, p2, p3}
TwoKeys == {k1, k2}
TwoPrints == {f1, f2}

\* Requests and keys are interchangeable, and prints are only compared between
\* requests of one key. Up to names, either a request and its retry share their
\* key with a different request, or they meet another key in the cleanup.
Asked(p) == <<key[p], print[p]>>
CanonicalInit ==
    /\ Init
    /\ Asked(p1) = <<k1, f1>>
    /\ Asked(p2) = <<k1, f1>>
    /\ Asked(p3) \in {<<k1, f2>>, <<k2, f1>>}

\* The request and its retry are interchangeable too: the request comes first.
RetrySecond == pc[p2] # "new" => pc[p1] # "new"

CanonicalSpec == CanonicalInit /\ [][Next]_vars /\ Fairness

=============================================================================
