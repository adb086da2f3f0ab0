----------------------------- MODULE OncePerKey -----------------------------
(***************************************************************************)
(* What idempotent writes promise their callers: a request either has the  *)
(* one effect of its key, or is told the answer of that effect, or has no  *)
(* effect at all.  A key is forgotten when it is due, never earlier.       *)
(***************************************************************************)
EXTENDS Naturals

CONSTANTS
    Requests,    \* attempts that reach the service
    Keys,        \* (user_id, operation, idempotency_key)
    Prints,      \* request fingerprints
    NoRequest,
    Lifetime,    \* kIdempotencyLifetime
    Skew,        \* how far a server's clock may be from the database's
    MaxTime      \* bound of the clock

VARIABLES
    now,       \* the database clock
    key, print, created,   \* what a request asks for, and when it was stamped
    memory,    \* the request whose effect a key remembers
    effects,   \* requests whose business write is committed
    made,      \* when it was committed
    answer     \* the request whose result the caller was given

vars == <<now, key, print, created, memory, effects, made, answer>>

Init ==
    /\ now = 0
    /\ key \in [Requests -> Keys]
    /\ print \in [Requests -> Prints]
    /\ created = [p \in Requests |-> 0]
    /\ memory = [k \in Keys |-> NoRequest]
    /\ effects = {}
    /\ made = [p \in Requests |-> 0]
    /\ answer = [p \in Requests |-> NoRequest]

\* The effect of q has been remembered long enough.
Due(q) == created[q] + Lifetime <= now + Skew

Tick ==
    /\ now < MaxTime
    /\ now' = now + 1
    /\ UNCHANGED <<key, print, created, memory, effects, made, answer>>

\* A server stamps a request that has no effect and no answer.
Stamp(p, t) ==
    /\ p \notin effects
    /\ answer[p] = NoRequest
    /\ t <= now + Skew /\ now <= t + Skew
    /\ created' = [created EXCEPT ![p] = t]
    /\ UNCHANGED <<now, key, print, memory, effects, made, answer>>

\* A request has its effect, and the caller the answer unless it gets lost.
Act(p) ==
    /\ p \notin effects
    /\ memory[key[p]] # NoRequest => Due(memory[key[p]])
    /\ memory' = [memory EXCEPT ![key[p]] = p]
    /\ effects' = effects \cup {p}
    /\ made' = [made EXCEPT ![p] = now]
    /\ answer' \in {answer, [answer EXCEPT ![p] = p]}
    /\ UNCHANGED <<now, key, print, created>>

\* A repeated request is told the first result.
Replay(p) ==
    /\ p \notin effects
    /\ memory[key[p]] # NoRequest
    /\ print[memory[key[p]]] = print[p]
    /\ answer' = [answer EXCEPT ![p] = memory[key[p]]]
    /\ UNCHANGED <<now, key, print, created, memory, effects, made>>

Forget(K) ==
    /\ \A k \in K : memory[k] # NoRequest /\ Due(memory[k])
    /\ memory' = [k \in Keys |-> IF k \in K THEN NoRequest ELSE memory[k]]
    /\ UNCHANGED <<now, key, print, created, effects, made, answer>>

Next ==
    \/ Tick
    \/ \E p \in Requests : \/ \E t \in 0 .. (now + Skew) : Stamp(p, t)
                           \/ Act(p)
                           \/ Replay(p)
    \/ \E K \in SUBSET Keys : Forget(K)

Spec == Init /\ [][Next]_vars

=============================================================================
